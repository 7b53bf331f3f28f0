CONSTANTS
  NoName = NoName
  SysvHash <- MCHash
  Programs <- MCPrograms
  PageSize <- MCPageSize
  StrSize <- MCStrSize
  NameRank <- MCNameRank
  SymbolNames <- MCSymbolNames
  OldFiles <- MCOldFiles
  OwnNames <- MCNoinit
SPECIFICATION LinkSpec
INVARIANTS
  OverwriteIsFresh
