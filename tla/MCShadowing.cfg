CONSTANTS
  Dash = "-"
  Char <- MCChar
  I32Max = 12
  Enums <- MCTestEnums
  Texts <- MCTexts
  Address <- MCAddress
SPECIFICATION Spec
INVARIANTS EveryLinkReachesItsRoute
