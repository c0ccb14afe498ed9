CONSTANTS
  Procs = {p1, p2}
  Plain = {}
  Forums = {forum}
  Topics = {1}
  MaxId = 2
  Text = {1, 2}
  Commands = {"sync", "tui"}
  ChatLimit = 0
  MessageLimit = 2
  MaxFaults = 1
  NoChat = NoChat
SPECIFICATION Spec
INVARIANTS TypeOK ReadIsSaved
PROPERTIES ImplementsArchive
CHECK_DEADLOCK FALSE
