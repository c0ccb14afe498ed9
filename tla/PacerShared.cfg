CONSTANTS
  command = command
  library = library
  Callers = {command, library}
  Paced = {command}
  Waits = {0, 30, 60, 901}
  MaxWait = 900
  RawMs = {0, 100, 700}
SPECIFICATION Spec
INVARIANTS TypeOK LevelIsEarned PausesAsConfigured
