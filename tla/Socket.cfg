SPECIFICATION FairSpec
CONSTANTS
  Daemons = {d1, d2, d3}
  NoOne = NoOne
INVARIANT ServingIsReachable
PROPERTIES OrphansEnd
