SPECIFICATION FairSpec
CONSTANTS
  Goroutine = {"g1", "g2"}
  Value = {"a", "b", "c", ""}
  Empty = ""
  H1 <- MCH1
  H2 <- MCH2
  Bits = 5
  K = 2
  WordBits = 4
  U = 16
INVARIANTS FilterOK NoFalseNegative
PROPERTIES BitsNeverCleared CallsReturn
