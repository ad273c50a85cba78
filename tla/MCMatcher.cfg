SPECIFICATION Spec
CONSTANTS
  ByteCount = 5
  ToLower <- UniLower
  AsciiLower <- AscLower
  Rulesets <- MCRulesets
  Targets = {"query", "any"}
  MaxText = 5
INVARIANTS FindsExactly BreadthFirst Complete
CHECK_DEADLOCK FALSE
