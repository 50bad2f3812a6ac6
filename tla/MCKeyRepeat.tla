----------------------------- MODULE MCKeyRepeat -----------------------------
EXTENDS KeyRepeat
==============================================================================
