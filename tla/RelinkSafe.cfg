SPECIFICATION Spec
CONSTANTS
  NumInputs = 2
  Plain = {1}
  NumSections = 2
  AllocSections = {1, 2}
  Versions <- MCVersions
  First <- MCFirst
  Args = {exe, gc}
  GcArgs = {gc}
  Controls = {script, script2}
  NoChunk = NoChunk
  RaceWindow = FALSE
  MaxClock = 4
INVARIANTS NeverStale RecordFaithful ReusedLayoutIsFresh QuietRelinkReuses
PROPERTIES CommitNamesBlob
CHECK_DEADLOCK FALSE
