--------------------------- MODULE MCProspecting ----------------------------
EXTENDS Prospecting, TLC

CONSTANTS r1, r2

=============================================================================
