SPECIFICATION Spec
CONSTANTS
  Thread <- MCThread
  Object <- MCObject
  KindOf <- MCKindOf
  StackArea <- MCStackArea
  Sem <- MCSem
  Holder <- MCHolder
  Team = team
  None = none
  NoRow = 0
  Scenario <- MCScenario
  Deed <- MCDeed
INVARIANTS MapHoldsWindows NothingLeftBehind
PROPERTIES ListShowsTeam OpenReturns
CHECK_DEADLOCK FALSE
