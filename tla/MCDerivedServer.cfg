CONSTANTS
  Dash = "-"
  Char <- MCChar
  I32Max = 12
  Enums <- MCEnums
  Texts <- MCTexts
  Address <- MCAddress
SPECIFICATION Spec
INVARIANTS TypeOK LinkIsServed LinkReachesItsRoute PageIsAtItsAddress
