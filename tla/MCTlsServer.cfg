CONSTANTS
  Path = {"bundle", "anchors"}
  Der <- MCDer
  Signing <- MCSigning
  Anchor <- MCAnchor
  Version <- MCVersion
  Literal <- MCLiteral
  Ocsp <- MCOcsp
SPECIFICATION Spec
INVARIANTS TypeOK BuildIsOfWhatWasOpened ClientsAreAuthenticated
PROPERTIES RunTlsSettles
CHECK_DEADLOCK FALSE
