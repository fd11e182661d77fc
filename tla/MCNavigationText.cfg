CONSTANTS
  Dash = "-"
  Char <- MCChar
  HopLimit = 3
  Stack = "hyper"
  Url <- MCUrl
  Route <- MCRoute
SPECIFICATION Spec
INVARIANTS TypeOK WrittenUrlsAreAbsolutePaths
PROPERTIES ImplementsNavigation
