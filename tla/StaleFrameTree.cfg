SPECIFICATION Spec
CHECK_DEADLOCK FALSE
CONSTANTS
  None = None
  NoUrl = NoUrl
  NoState = NoState
  FailureUrl = FailureUrl
  Tops = {t1}
  Frames = {}
  Urls = {u1}
  States = {s1}
  MaxPipelines = 5
  MaxEntries = 3
  MaxLength = 1
  MaxJump = 2
  Traffic =  {"PushState"}
INVARIANT
RootIsShown
