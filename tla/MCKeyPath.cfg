CONSTANTS
  Path = {"bundle", "anchors"}
  Der <- MCDer
  Signing <- MCSigning
  Anchor <- MCAnchor
  Version <- MCVersion
  Literal <- MCLiteral
  Ocsp <- MCOcsp
SPECIFICATION Spec
PROPERTIES KeyPathReportsIoError
CHECK_DEADLOCK FALSE
