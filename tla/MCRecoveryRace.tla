--------------------------- MODULE MCRecoveryRace ---------------------------
\* Bounds for checking RecoveryRace; see the configurations.
EXTENDS RecoveryRace
=============================================================================
