SPECIFICATION Spec
CONSTANTS
  NumInputs = 2
  Plain = {1}
  NumSections = 2
  AllocSections = {1, 2}
  Versions <- MCVersions
  First <- MCFirst
  Args = {exe, gc}
  GcArgs = {gc}
  Controls = {script}
  NoChunk = NoChunk
  RaceWindow = TRUE
  MaxClock = 4
INVARIANTS NeverStale
CHECK_DEADLOCK FALSE
