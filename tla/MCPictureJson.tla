--------------------------- MODULE MCPictureJson ---------------------------
EXTENDS PictureJson
=============================================================================
