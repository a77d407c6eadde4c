CONSTANTS
  NaN = NaN
  None = None
  Unit = 12
  Timeframe = 2
  AtrPeriod = 2
  Episodes = {"wave"}
  Contexts = {"trend"}
  Offsets = {0, 1}
  Beginnings <- MCBeginnings
  Shapes <- MCShapes
  MaxBars = 4
  AllOperands <- MCOperands
  AllPredicates <- MCPredicates
  OfCandles <- MCOfCandles
  AllSegments <- MCSegments
  Mirrored <- MCMirrored
SPECIFICATION Spec
INVARIANTS TypeOK SharedNodeSameColumn AskedAsPredicted SidesMirror OperandsAsDefined
PROPERTIES PastUnchanged
CHECK_DEADLOCK FALSE
