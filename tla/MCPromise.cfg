SPECIFICATION FairSpec
CONSTANTS
  t1 = t1
  t2 = t2
  r1 = r1
  r2 = r2
  r3 = r3
  nobody = nobody
  Thread <- MCThread
  Registration <- MCRegistration
  NoThread <- nobody
INVARIANT CalledOnce
PROPERTY ImplementsContract
