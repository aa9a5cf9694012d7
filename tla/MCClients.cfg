\* Two tabs of a client with two requests under way; two overlapping requests
\* about an account and its addresses, or about two accounts that compete for
\* them.  Who changes the address twice has a third one.  Draft, tokens and
\* resends have bounds.
CONSTANTS
  Tabs = {x1, x2}
  Calls = {y1, y2}
  None = None
  MaxEdits = 1
  MaxVersion = 2
  Addresses = {y1, y2}
  Handlers = {x1, x2}
  MaxActive = 2
  MaxSends = 1
  OneUser = {u}
  Rivals = {u1, u2}
  MoreAddresses = {y1, y2, y3}
SPECIFICATION MCSpec
INVARIANTS
  TypesOK
  SavesReplaceWhatWasSeen
  TokensAreFewAndSpentOnce
  VerifiedIsProved
  OneAccountEach
SYMMETRY Symmetry
VIEW Distinguished
CHECK_DEADLOCK FALSE
