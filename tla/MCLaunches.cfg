SPECIFICATION Spec
CONSTANTS
  Nobody = Nobody
  Loop = Loop
  Hand = Hand
  MaxLaunches = 3
  MaxSaves = 1
  MaxTroubles = 2
CHECK_DEADLOCK FALSE
INVARIANTS
  SentWithConsent
  OffKeepsNothing
  IncidentsAreTrue
  ReportedOnce
  OneInstallAtATime
