CONSTANTS
  Dash = "-"
  Char <- MCChar
  HopLimit = 3
  Stack = "warp"
  Url <- MCUrl
  Route <- MCRoute
SPECIFICATION Spec
INVARIANTS ParseStrsLikeParseStr

