CONSTANTS
  Procs = {p1}
  Users = {ann, bob}
  Legacy = Legacy
  NoOne = NoOne
  Starts = {"empty"}
  MaxFaults = 1
SPECIFICATION Spec
INVARIANTS OpenSucceeds
