\* Two overlapping handlers on a copy and a deletion; runs of the retention on
\* a matter and on the other tables, which stop at their bounds; two requests
\* and sends about marketing mail.
CONSTANTS
  copy = copy  other = other  erasure = erasure
  Requests = {copy, erasure}
  Exports = {copy}
  Deletions = {erasure}
  Objections = {}
  OptOuts = {}
  Handlers = {h1, h2}
  MaxActive = 2
  Inputs <- OverlappingInputs
  None = None
  Single = {h3}
  Lead = lead
  Document = document
  LogRow = log
  AdminRow = admin_row
  AuditRows = {audit1, audit2}
  SessionRow = session
SPECIFICATION MCSpec
INVARIANTS TypesOK EffectsAreIdentified CompletionIsWorked RunsKeepTheirWord NoMailAfterOptOut
PROPERTIES TakenForCause
SYMMETRY HandlerSymmetry
CHECK_DEADLOCK FALSE
