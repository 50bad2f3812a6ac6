--------------------------- MODULE MCScreenKeyboard ---------------------------
EXTENDS ScreenKeyboard, TLC
CONSTANTS c1, c2
MCContact == {c1, c2}
\* The contacts are interchangeable; every property is an invariant.
Symmetry == Permutations(MCContact)
==============================================================================
