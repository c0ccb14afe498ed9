CONSTANTS
  Procs = {p1,p2}
  Users = {ann, bob}
  Legacy = Legacy
  NoOne = NoOne
  Starts = {"empty", "v1", "newer"}
  MaxFaults = 2
SPECIFICATION Spec
INVARIANTS ReadyIsComplete OnlyRacesMixUsers
PROPERTIES RowsKept
