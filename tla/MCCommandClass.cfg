SPECIFICATION Spec
CONSTANTS
  Piece <- MCPiece
  Argument <- MCArgument
  MaxPieces = 5
INVARIANTS
  ReadsWhatIsMeant
  RiskCoversWhatIsMeant
CHECK_DEADLOCK FALSE
