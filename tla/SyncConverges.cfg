CONSTANTS
  Procs = {p1}
  Plain = {chatA}
  Forums = {forum}
  Topics = {1, 2}
  MaxId = 1
  Text = {1}
  Commands = {"sync", "history"}
  ChatLimit = 1
  MessageLimit = 0
  MaxFaults = 1
  NoChat = NoChat
SPECIFICATION PatientSpec
INVARIANTS StatusIsTrue ItemsAreTrue RunIsClosed
PROPERTIES CommandEnds EveryTextArchived
CHECK_DEADLOCK FALSE
