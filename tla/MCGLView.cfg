SPECIFICATION FairSpec
CONSTANTS
  W = w
  R = r
  D = d
  None = none
  Size = {1, 2}
  MaxResize = 2
  MaxKey <- MCMaxKey
  MaxDirect = 4
INVARIANTS BitmapIsLive NoWriteWhileStopped LocksReleased
PROPERTIES WindowReturns BufferFollowsSize
CHECK_DEADLOCK FALSE
