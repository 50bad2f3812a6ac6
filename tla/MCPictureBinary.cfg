CONSTANTS
    MaxCalls = 4
    MaxKinds = 1
    MaxLen = 1
SPECIFICATION Spec
INVARIANTS FieldsHold HearsWhatWasTold ReadsEveryNumber DumpersMisread DocumentsInStep PlaysWhatIsRead ViewDrawsThePicture
CHECK_DEADLOCK FALSE
