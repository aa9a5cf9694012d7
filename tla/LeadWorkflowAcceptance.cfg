SPECIFICATION Spec
CONSTANTS
  Handlers = {h1}
  MaxActive = 1
  Inputs <- AllInputs
INVARIANTS AcceptanceAccepts
