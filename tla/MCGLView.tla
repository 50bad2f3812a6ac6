------------------------------ MODULE MCGLView ------------------------------
EXTENDS GLView
\* In direct mode one key is enough for it and the render thread to meet.
MCMaxKey == [direct \in BOOLEAN |-> IF direct THEN 1 ELSE 2]
==============================================================================
