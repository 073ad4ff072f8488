SPECIFICATION TraceSpec
CONSTANTS
  Expr <- MCExpr
  Method <- MCMethod
  Sources <- MCSources
  Words <- MCWords
  DigestOf <- MCDigestOf
  Separators <- MCSeparators
  Answers <- MCAnswers
  Captures <- MCCaptures
  Signed <- MCSigned
  ResolveDepth = 12
  CallDepth = 8
  MaxRetries = 2
INVARIANTS TracesTyped SignsTheMessage DoubtIsLow
PROPERTIES EscalationAdds TraceEnds
CHECK_DEADLOCK FALSE
