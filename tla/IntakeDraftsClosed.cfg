\* One tab with one request at a time.
CONSTANTS
  Tabs = {t1}
  Calls = {c1}
  None = None
  MaxEdits = 1
  MaxVersion = 2
SPECIFICATION Spec
INVARIANT SubmittedDraftStaysClosed
CHECK_DEADLOCK FALSE
