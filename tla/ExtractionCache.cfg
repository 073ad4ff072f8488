SPECIFICATION Spec
CONSTANTS
  Version <- MCVersion
  Member = {"base", "lang"}
  SizeOf <- MCSizeOf
  MidRun = TRUE
  MaxCode = 1
INVARIANTS TypeOK OutputIsOfItsApk UnpackedFitsTheBundle
CHECK_DEADLOCK FALSE
