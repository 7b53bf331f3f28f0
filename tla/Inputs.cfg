SPECIFICATION Spec
CONSTANTS
  CommandLines <- MCCommandLines
  ResponseFiles <- MCResponseFiles
  Contents <- MCContents
  MaxNesting = 2
  Disks <- MCDisks
  Starts <- MCStarts
INVARIANTS
  KeyDeterminesLink
  InputsSound
PROPERTY CommandLineEnds
