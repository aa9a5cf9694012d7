\* Two overlapping handlers of a lead; two tabs of a browser and two requests
\* of theirs; the commands of one tab; two administrators under two requests;
\* three users under one request and two runs of the script, which come to
\* rest; two tabs with the choice about cookies.
CONSTANTS
  Handlers = {x1, x2}
  MaxActive = 2
  Inputs <- OverlappingInputs
  None = None
  Tabs = {x1, x2}
  Calls = {u1, u2}
  Payloads = {u1, u2}
  MaxTokens = 3
  MaxKeys = 2
  Users = {u1, u2}
  OneMore = {u3}
  Scripts = {x1, x2}
SPECIFICATION MCSpec
INVARIANTS
  TypesOK
  MattersAreEarned
  PacketsAreEarned
  SignedOutEverywhere
  OneExecutionPerSuccess
  ScriptsAreAgreed
PROPERTIES
  ApprovalIsFinal
  AdministrationIsGuarded
SYMMETRY Symmetry
CHECK_DEADLOCK FALSE
