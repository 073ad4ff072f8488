SPECIFICATION Spec
CONSTANTS
  Apps <- MCApps
  Sessions <- MCSessions
  Pollable <- MCPollable
  ClassFields <- MCClassFields
  Protocol <- MCProtocol
  DigestOf <- MCDigestOf
  Separators <- MCSeparators
  CmdOf <- MCCmdOf
  Challenges = {"nonce"}
  Proofs = {"auth"}
INVARIANTS TypeOK SourcesAreClosed FoundIsTheProtocol
PROPERTIES CaptureAddsOnly
CHECK_DEADLOCK FALSE
