\* A handler that ignores the transaction's client, one key, two attempts.
CONSTANTS
  r1 = r1  r2 = r2  r3 = r3  k1 = k1  p1 = p1  p2 = p2
  NoOne = NoOne
  Requests = {r1, r2}
  Keys = {k1}
  Payloads = {p1}
  Detached = {k1}
SPECIFICATION Spec
INVARIANTS AtMostOneEffect
CHECK_DEADLOCK FALSE
