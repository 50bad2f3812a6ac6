SPECIFICATION DemoFairSpec
CONSTANTS
  d1 = d1
  d2 = d2
  Dialog <- MCDialog
  App = app
  None = none
  MaxRequest = 1
  MaxCancel = 0
  MaxLogin = 1
  MaxClose = 0
PROPERTY AllResolveCallbacksCalled
CHECK_DEADLOCK FALSE
