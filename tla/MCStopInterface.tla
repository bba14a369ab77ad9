--------------------------- MODULE MCStopInterface --------------------------
EXTENDS StopInterface, TLC

StopUsers == {"Stop", Other}
=============================================================================
