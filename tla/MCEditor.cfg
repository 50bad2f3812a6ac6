CONSTANTS
    MaxPos = 2
    MaxOut = 0
    markerSize = 0
    MaxViews = 4
SPECIFICATION Spec
INVARIANTS PartIsThere FollowsPointer
CHECK_DEADLOCK FALSE
