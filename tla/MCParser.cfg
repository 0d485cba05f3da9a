SPECIFICATION Spec
CHECK_DEADLOCK FALSE
CONSTANTS
  Names = {"x", "y", "f", "C"}
  Literals = {"1"}
  Outlines <- AllOutlines
  MaxPieces = 4
  MaxRulePieces = 2
INVARIANTS
  WordsInOrder
  OneNodeOrNothing
  OperatorsBind
  EvaluatorCanRead
