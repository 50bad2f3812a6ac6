SPECIFICATION DemoSpec
CONSTANTS
  d1 = d1
  d2 = d2
  Dialog <- MCDialog
  App = app
  None = none
  MaxRequest = 2
  MaxCancel = 2
  MaxLogin = 1
  MaxClose = 1
INVARIANTS ObjectsOutliveUses OnlyLockCycleBlocks
PROPERTY ImplementsPromise
CHECK_DEADLOCK FALSE
