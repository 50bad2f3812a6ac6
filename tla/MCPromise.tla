------------------------------ MODULE MCPromise ------------------------------
EXTENDS Promise
CONSTANTS t1, t2, r1, r2, r3, nobody
MCThread == {t1, t2}
MCRegistration == {r1, r2, r3}
==============================================================================
