\* One deletion, handlers that wait for each other.
CONSTANTS
  copy = copy  other = other  erasure = erasure
  Requests = {erasure}
  Exports = {}
  Deletions = {erasure}
  Objections = {}
  OptOuts = {}
  Handlers = {h1}
  MaxActive = 1
  Inputs <- AllInputs
SPECIFICATION Spec
INVARIANTS NoFalseCompleted
