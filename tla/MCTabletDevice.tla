--------------------------- MODULE MCTabletDevice ---------------------------
EXTENDS TabletDevice
=============================================================================
