CONSTANTS
    MaxTeam = 4
    Scenario <- MCScenario
SPECIFICATION FairSpec
INVARIANTS ListShowsTeams OnlyNestedEndsDangle SignalsChosen
PROPERTY ComesToShowThem
CHECK_DEADLOCK FALSE
