-------------------------- MODULE MCPictureBinary --------------------------
EXTENDS PictureBinary
=============================================================================
