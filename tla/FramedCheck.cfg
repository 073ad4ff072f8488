SPECIFICATION CheckSpec
CONSTANTS
  Alphabet <- MCAlphabet
  Orders <- MCOrders
  Assets <- MCAssets
  Roles <- MCRoles
  Device <- MCDevice
  Unasked <- MCUnasked
  MaxUnasked = 1
  AppSends <- MCAppSends
  Truth <- MCTruth
INVARIANTS CheckTyped SentIsTheApps StateIsDevice NothingMissed
CHECK_DEADLOCK FALSE
