\* Two overlapping requests of one account: its first enrollment and a
\* second one, a login at a time, a limit of one refused answer; two pages of
\* the settings of the site with an image; one handler at a time on a lead, and
\* on a deletion and a privacy request that is at once a copy, an objection and
\* an opt-out.
CONSTANTS
  Factors = {f1, f2}
  Codes = {k1, k2}
  Challenges = {c1}
  Handlers = {h1, h2}
  MaxActive = 2
  MaxAttempts = 1
  MaxStep = 2
  Inputs <- OverlappingInputs
  NoOne = NoOne
  Texts = {d, t}
  Default = d
  Images = {i1}
  ScanEnabled = TRUE
  Single = {h}
  LeadInputs <- AllLeadInputs
  DsarInputs <- SerialDsarInputs
  Requests = {other, erasure}
  Exports = {other}
  Deletions = {erasure}
  Objections = {other}
  OptOuts = {other}
SPECIFICATION MCSpec
INVARIANTS
  ProofsCountOnce
  OneSessionPerChallenge
  RefusalsAreLimited
  OneFactorEach
  StoredImagesAreServed
PROPERTIES
  LeadImplementsLifecycle
  DsarImplementsLifecycle
SYMMETRY Symmetry
VIEW LiveView
