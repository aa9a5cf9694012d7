\* One account of two addresses, requests that wait for each other.
CONSTANTS
  Users = {u}
  Addresses = {y1, y2}
  Handlers = {x1}
  MaxActive = 1
  MaxSends = 1
  MaxTokens = 3
  Inputs = {"register", "resend_public", "change", "confirm"}
  None = None
SPECIFICATION Spec
INVARIANTS VerifiedAddressIsProved
CHECK_DEADLOCK FALSE
