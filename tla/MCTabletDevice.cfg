CONSTANTS
    Places = {p, q}
    NBits = 3
    MaxTime = 2
    AnyClicks = {0, 3}
    doubleClickDelay = 1
    MaxDowns = 2
SPECIFICATION FairSpec
INVARIANTS WatchedWhileStarted ServerFollowsPen ClicksAreSlow
PROPERTY StopReturns
CHECK_DEADLOCK TRUE
