SPECIFICATION DFairSpec
CONSTANTS
  NumInputs = 2
  Plain = {1}
  NumSections = 2
  AllocSections = {1, 2}
  Versions <- DVersions
  First <- DFirst
  Args = {exe, gc}
  GcArgs = {gc}
  Controls = {script, script2}
  NoChunk = NoChunk
  RaceWindow = TRUE
  MaxClock = 7
  DaemonArgs = exe
  Envs <- SoundAndAny
INVARIANTS DaemonNeverStale ResidentMatchesDisk
PROPERTIES LinksEnd
CHECK_DEADLOCK FALSE
