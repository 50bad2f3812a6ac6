---------------------------- MODULE MCCredentials ----------------------------
EXTENDS Credentials, TLC
CONSTANTS d1, d2
MCDialog == {d1, d2}
==============================================================================
