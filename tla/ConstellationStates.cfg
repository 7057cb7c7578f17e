SPECIFICATION Spec
CHECK_DEADLOCK FALSE
SYMMETRY Interchangeable
CONSTANTS
  None = None
  NoUrl = NoUrl
  NoState = NoState
  FailureUrl = FailureUrl
  Tops = {t1}
  Frames = {}
  Urls = {u1, u2}
  States = {s1, s2}
  MaxPipelines = 2
  MaxEntries = 3
  MaxLength = 3
  MaxJump = 2
  Traffic = {"PushState", "Focus"}
INVARIANTS
StateMatchesHistory
