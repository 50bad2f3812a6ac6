SPECIFICATION RepeatFairSpec
CONSTANTS
  Key = {k1, k2}
  NoKey = noKey
  Tid = {t1, t2}
  NoTid = noTid
  Sem = {s1, s2, s3}
  NoSem = noSem
  MaxRepeat = 4
  KernelFails = TRUE
INVARIANT ThreadIsAlone
PROPERTIES ImplementsSafety CallReturns HeldKeyRepeats
CHECK_DEADLOCK FALSE
