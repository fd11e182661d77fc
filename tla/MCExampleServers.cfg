CONSTANTS
  Visit = {v1, v2, v3, v4}
  Der = {"crt", "key"}
  Signing = {"key"}
  Anchor = {}
  Asset <- MCAsset
  UsizeSize = 3
SPECIFICATION Spec
INVARIANTS TypeOK EachVisitCountsOnce BothPortsOrNone
PROPERTIES FailureEndsTheProgram
CHECK_DEADLOCK FALSE
