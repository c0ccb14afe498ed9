CONSTANTS
  Chats = {plain, forum}
  Forums = {forum}
  Topics = {t1, t2}
  None = None
  Days = {1}
  Today = 1
  CanFilter = FALSE
  CanMark = TRUE
SPECIFICATION FairSpec
INVARIANTS ResultMatchesRequest FetchIsReachable NeverStuck OneCacheUser ModeHasRange
PROPERTIES FetchNeedsEnter StopIsAnswered CtrlCExits
CHECK_DEADLOCK FALSE
