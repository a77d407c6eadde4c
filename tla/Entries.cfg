CONSTANTS
  NaN = NaN
  None = None
  Unit = 20
  Specs <- MCSpecs
  Beginnings <- MCBeginnings
  Shapes <- MCShapes
  MaxBars = 4
SPECIFICATION Spec
INVARIANTS SameNodeSameColumn ConsumedAsPredicted AssertionsHold ScannedAsSpecified
PROPERTIES LiveAsHistorical
CHECK_DEADLOCK FALSE
