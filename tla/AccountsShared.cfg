CONSTANTS
  Procs = {p1, p2}
  Users = {ann, bob}
  Legacy = Legacy
  NoOne = NoOne
  Starts = {"v1"}
  MaxFaults = 0
SPECIFICATION Spec
INVARIANTS AccountsSeparate
CHECK_DEADLOCK FALSE
