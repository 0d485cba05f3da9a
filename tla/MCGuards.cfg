SPECIFICATION Spec
CHECK_DEADLOCK FALSE
CONSTANTS
  Names = {"x", "f"}
  Literals = {"1"}
  Outlines <- Defs
  MaxPieces = 4
  MaxRulePieces = 0
INVARIANT GuardsAreKept
