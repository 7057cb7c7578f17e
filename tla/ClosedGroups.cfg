SPECIFICATION FairSpec
CHECK_DEADLOCK FALSE
CONSTANTS
  None = None
  NoUrl = NoUrl
  NoState = NoState
  FailureUrl = FailureUrl
  Tops = {t1}
  Frames = {f1}
  Urls = {u1}
  States = {s1}
  MaxPipelines = 3
  MaxEntries = 1
  MaxLength = 1
  MaxJump = 1
  Traffic =  {}
PROPERTY
GroupsHoldBrowsers
