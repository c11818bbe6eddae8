SPECIFICATION Spec
CONSTANTS
  Thread = {t1, t2}
  MaxChain = 2
  MaxCalls = 2
  MaxPieces = 2
  MaxChains = 3
CONSTRAINT Bound
SYMMETRY Symmetry
INVARIANTS OwnPiecesOnly ValuesFitPlaces
CHECK_DEADLOCK FALSE
