SPECIFICATION FairSpec
CONSTANTS
  SymbolIds <- MCSymbolIds
  Symbols <- MCSymbols
  RelocIds <- MCRelocIds
  Relocs <- MCRelocs
  SymOf <- MCSymOf
  Threads = {t1, t2, t3}
  NO_ENTRY = NO_ENTRY
INVARIANTS ChainsAreLists NothingLost WalkIsSnapshot
PROPERTIES ImplementsLists InsertsReturn
