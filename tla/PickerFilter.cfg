CONSTANTS
  Chats = {plain, forum}
  Forums = {forum}
  Topics = {t1, t2}
  None = None
  Days = {1}
  Today = 1
  CanFilter = TRUE
  CanMark = TRUE
SPECIFICATION Spec
INVARIANT ListKeepsChats
CHECK_DEADLOCK FALSE
