SPECIFICATION Spec
CHECK_DEADLOCK FALSE
CONSTANTS
  None = None
  NoUrl = NoUrl
  NoState = NoState
  FailureUrl = FailureUrl
  Tops = {t1}
  Frames = {}
  Urls = {u1}
  States = {s1, s2}
  MaxPipelines = 1
  MaxEntries = 2
  MaxLength = 1
  MaxJump = 1
  Traffic =  {"PushState", "ReplaceState"}
INVARIANT
StateMatchesHistory
