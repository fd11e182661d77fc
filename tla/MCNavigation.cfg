CONSTANTS
  Dash = "-"
  Char = {"-", "a"}
  HopLimit = 3
  Address <- MCAddress
  Route <- MCRoute
SPECIFICATION Spec
INVARIANTS TypeOK AtMostOneRedirect LinkReachesItsRoute
PROPERTIES RedirectKeepsMeaning NavigationEnds
