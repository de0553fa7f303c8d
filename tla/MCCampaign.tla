---------------------------- MODULE MCCampaign ----------------------------
EXTENDS Campaign, TLC

CONSTANTS a, b

UnCliente == [d \in Debtors |-> 1]
DosClientes == (a :> 1) @@ [d \in Debtors |-> 2]
=============================================================================
