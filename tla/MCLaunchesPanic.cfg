SPECIFICATION Spec
CONSTANTS
  Nobody = Nobody
  Loop = Loop
  Hand = Hand
  MaxLaunches = 1
  MaxSaves = 1
  MaxTroubles = 1
CHECK_DEADLOCK FALSE
INVARIANTS
  OffKeepsNoRecord
