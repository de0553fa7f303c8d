---------------------------- MODULE RunLifecycle ----------------------------
(***************************************************************************)
(* What the prospecting side promises of a run document: it is created     *)
(* queued, it may start, it ends once and for good, and the leads that     *)
(* carry its id are saved before it ends, up to those whose save was       *)
(* under way when the job that made it was cut: they may land at any time. *)
(***************************************************************************)
EXTENDS Naturals

CONSTANT Runs

VARIABLES status,    \* the run document; "nada" before it exists
          guardadas, \* leads saved with the run's id
          tardias    \* saves under way that nobody awaits any more

Abiertos  == {"queued", "running"}
Terminales == {"complete", "error"}

LifecycleInit ==
    /\ status = [r \in Runs |-> "nada"]
    /\ guardadas = [r \in Runs |-> 0]
    /\ tardias = [r \in Runs |-> 0]

Pasa(r, de, a) ==
    /\ status[r] \in de
    /\ status' = [status EXCEPT ![r] = a]
    /\ UNCHANGED <<guardadas, tardias>>

Crea(r)    == Pasa(r, {"nada"}, "queued")
Empieza(r) == Pasa(r, {"queued"}, "running")
Acaba(r)   == \E fin \in Terminales : Pasa(r, Abiertos, fin)

\* The job saves a lead, as long as it has not been cut.
GuardaLead(r) ==
    /\ status[r] \in Abiertos
    /\ tardias[r] = 0
    /\ guardadas' = [guardadas EXCEPT ![r] = @ + 1]
    /\ UNCHANGED <<status, tardias>>

\* The job is cut, once, with saves under way: the run is still open.
Abandona(r) ==
    /\ status[r] \in Abiertos
    /\ tardias[r] = 0 /\ tardias'[r] > 0
    /\ tardias' = [tardias EXCEPT ![r] = tardias'[r]]
    /\ UNCHANGED <<status, guardadas>>

\* One of those saves lands.
LlegaTarde(r) ==
    /\ tardias[r] > 0
    /\ tardias' = [tardias EXCEPT ![r] = @ - 1]
    /\ guardadas' = [guardadas EXCEPT ![r] = @ + 1]
    /\ UNCHANGED status

LifecycleNext == \E r \in Runs :
    \/ Crea(r) \/ Empieza(r) \/ Acaba(r) \/ GuardaLead(r) \/ Abandona(r) \/ LlegaTarde(r)

LifecycleSpec == LifecycleInit /\ [][LifecycleNext]_<<status, guardadas, tardias>>

=============================================================================
