SPECIFICATION FairSpec
CONSTANTS
  None = None
  NoName = NoName
  MaxThreads = 3
  Grain = 1
  Programs <- PassingPrograms
INVARIANTS MarkExact ReferencesPlaced 
PROPERTIES SelectionEnds
