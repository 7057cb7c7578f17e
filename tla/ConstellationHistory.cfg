SPECIFICATION Spec
CHECK_DEADLOCK FALSE
CONSTANTS
  None = None
  NoUrl = NoUrl
  NoState = NoState
  FailureUrl = FailureUrl
  Tops = {t1}
  Frames = {f1}
  Urls = {u1}
  States = {}
  MaxPipelines = 4
  MaxEntries = 2
  MaxLength = 1
  MaxJump = 2
  Traffic = {"Fragment"}
INVARIANTS
DocumentsStayHome
ContextsStayOpen
RootIsShown
