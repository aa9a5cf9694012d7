\* Three attempts on a key whose handler uses the transaction, two payloads.
CONSTANTS
  r1 = r1  r2 = r2  r3 = r3  k1 = k1  p1 = p1  p2 = p2
  NoOne = NoOne
  Requests = {r1, r2, r3}
  Keys = {k1}
  Payloads = {p1, p2}
  Detached = {}
SPECIFICATION FairSpec
INVARIANTS RecordIffEffect AnswersAreEarned RefusedWithoutEffect
PROPERTIES ImplementsLedger EveryAttemptEnds
CHECK_DEADLOCK FALSE
