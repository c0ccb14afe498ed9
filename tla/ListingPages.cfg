CONSTANTS
  d1 = d1
  d2 = d2
  d3 = d3
  d4 = d4
  Dialogs = {d1, d2, d3, d4}
  Folder = Folder
  Nobody = Nobody
  Forbidden = {d1}
  Silent = {d2}
  Unread = {d2, d3}
  Twins = {d3, d4}
  Persons = {d4}
  Topics = {1, 2, 3, 4}
  Gone = {2}
  Quiet = {3}
  Limit = 2
  MaxChanges = 2
SPECIFICATION Spec
INVARIANTS ListedOnce OnlyCutsLose PeersAreTheirs
PROPERTY ListingEnds
CHECK_DEADLOCK FALSE
