--------------------------- MODULE MCLeadActions ----------------------------
EXTENDS LeadActions, TLC

CONSTANTS l1, l2, a1, a2

UnaCadaUno == (a1 :> l1) @@ (a2 :> l2)
=============================================================================
