----------------------------- MODULE MCCartera ------------------------------
EXTENDS Cartera, TLC

CONSTANTS k1, k2

\* Two clients with a cuota each; the regex knows the name of the second.
UnoCadaUno == (1 :> k1) @@ (2 :> k2)
=============================================================================
