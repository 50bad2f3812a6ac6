CONSTANTS
    MaxLen = 2
    MaxDepth = 4
SPECIFICATION Spec
INVARIANTS ReadsBack InStep
CHECK_DEADLOCK FALSE
