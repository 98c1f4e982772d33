--------------------------- MODULE MCGitPromotion ---------------------------
EXTENDS GitPromotion

CONSTANTS f1, c1, c2
=============================================================================
