SPECIFICATION Spec
CONSTANTS
  Names <- MCNames
  None = None
  Links <- MCLinks
  Provided <- MCProvided
  Entry = "_start"
  TlsGetAddr = "__tls_get_addr"
INVARIANTS
  TableSound ErrorsExact ArchivesExhausted NeededExact
PROPERTIES ResolutionEnds
