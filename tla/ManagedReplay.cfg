CONSTANTS
  None = None
  Entry = 10
  Configs <- MCConfigs
  Bars <- MCBars
  Stops = {None, 0, 2}
  MaxBars = 3
SPECIFICATION Spec
INVARIANTS TypeOK EventsTellTheState ProtectionAttributed InitialRBeyondEntry
PROPERTIES NeverRegresses Parity
CHECK_DEADLOCK FALSE
