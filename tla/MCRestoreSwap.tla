--------------------------- MODULE MCRestoreSwap ---------------------------
EXTENDS RestoreSwap, TLC
=============================================================================
