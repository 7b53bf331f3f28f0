CONSTANTS
  NoName = NoName
  SysvHash <- MCHash
  Programs <- MCPrograms
  PageSize <- MCPageSize
  StrSize <- MCStrSize
  NameRank <- MCNameRank
  SymbolNames <- MCSymbolNames
  OldFiles <- MCOldFiles
  OwnNames <- MCNoNames
SPECIFICATION LinkSpec
INVARIANTS
  SegmentsSound
  ImageSound
  CountsExact
  TlsAgrees
  LoaderFinds
  
  MergedObjectSound
