------------------------- MODULE LeadActionsProofs --------------------------
(***************************************************************************)
(* Proofs about module LeadActions, for any actions, leads, dates and      *)
(* restarts: its type invariant, that no action is dispatched twice, and   *)
(* that a pending action has its job.                                      *)
(***************************************************************************)
EXTENDS LeadActions, TLAPS

\* What the memory of the process mentions has been inserted.
Insertada ==
    /\ \A a \in jobs \cup programando \cup despachos \cup bootPend \cup disparadas :
          estado[a] # "nada"
    /\ \A l \in Leads : \A a \in halladas[l] : estado[a] # "nada"

\* What a process that is not up, or not there, does not have.
Memoria ==
    /\ proceso # "arriba" => programando = {} /\ \A l \in Leads : cancela[l] = "no"
    /\ proceso \in {"abajo", "abortado"} => jobs = {} /\ despachos = {}
    /\ proceso # "arranca" => bootPend = {}

\* An action is to be scheduled in one place.
UnaVez == jobs \cap programando = {} /\ jobs \cap bootPend = {}

\* What has been dispatched was due, and for the bootstrap it is overdue.
Vencidas ==
    \A a \in disparadas :
       /\ fecha[a] <= ahora
       /\ a \in bootPend => fecha[a] <= bootAhora

\* What cancel_lead_actions is about to remove is not pending any more.
Canceladas ==
    \A l \in Leads :
       cancela[l] = "quita" => \A a \in halladas[l] : estado[a] # "pendiente"

\* Before its date a pending action has its job, or is about to have it, in every process that runs.
Armada ==
    \A a \in Pendientes :
       ahora < fecha[a] =>
          /\ proceso = "arriba" => a \in jobs \cup programando
          /\ proceso = "arranca" => a \in jobs \cup bootPend

IInv ==
    /\ LeadTypeOK /\ Insertada /\ Memoria /\ UnaVez
    /\ Vencidas /\ DispatchedOnce /\ Canceladas /\ Armada

-----------------------------------------------------------------------------
\* LeadTypeOK holds of every reachable state of the scheduler.
LEMMA InitTyped == LeadInit => LeadTypeOK
  BY DEF LeadInit, LeadTypeOK

LEMMA NextTyped == LeadTypeOK /\ [LeadNext]_<<leadVars, fallas>> => LeadTypeOK'
<1> SUFFICES ASSUME LeadTypeOK, [LeadNext]_<<leadVars, fallas>> PROVE LeadTypeOK'
  OBVIOUS
<1> USE LeadActionsAssumption
    DEF LeadTypeOK, Falla, Pendientes, docVars, cancVars, memVars, bootVars
<1>1. ASSUME NEW a \in Acciones,
             \/ Inserta(a) \/ Registra(a)
             \/ Dispara(a) \/ PierdeDisparo(a) \/ Despacha(a) \/ DespachoFalla(a)
             \/ RecargaAccion(a)
      PROVE LeadTypeOK'
  <2>1. CASE Inserta(a)
    BY <2>1 DEF Inserta
  <2>2. CASE Registra(a)
    BY <2>2 DEF Registra
  <2>3. CASE Dispara(a)
    BY <2>3 DEF Dispara
  <2>4. CASE PierdeDisparo(a)
    BY <2>4 DEF PierdeDisparo
  <2>5. CASE Despacha(a)
    BY <2>5 DEF Despacha
  <2>6. CASE DespachoFalla(a)
    BY <2>6 DEF DespachoFalla
  <2>7. CASE RecargaAccion(a)
    BY <2>7 DEF RecargaAccion
  <2> QED
    BY <1>1, <2>1, <2>2, <2>3, <2>4, <2>5, <2>6, <2>7
<1>2. ASSUME NEW l \in Leads, Busca(l) \/ Cancela(l) \/ CancelaFalla(l) \/ Quita(l)
      PROVE LeadTypeOK'
  <2>1. CASE Busca(l)
    BY <2>1 DEF Busca
  <2>2. CASE Cancela(l)
    BY <2>2 DEF Cancela
  <2>3. CASE CancelaFalla(l)
    BY <2>3 DEF CancelaFalla
  <2>4. CASE Quita(l)
    BY <2>4 DEF Quita
  <2> QED
    BY <1>2, <2>1, <2>2, <2>3, <2>4
<1>3. CASE Cae
  BY <1>3 DEF Cae
<1>4. CASE Arranca
  BY <1>4 DEF Arranca
<1>5. CASE Listo
  BY <1>5 DEF Listo
<1>6. CASE Tick
  BY <1>6 DEF Tick
<1>7. CASE UNCHANGED <<leadVars, fallas>>
  BY <1>7 DEF leadVars
<1> QED
  BY <1>1, <1>2, <1>3, <1>4, <1>5, <1>6, <1>7 DEF LeadNext

THEOREM Typing == LeadSpec => []LeadTypeOK
  BY InitTyped, NextTyped, PTL DEF LeadSpec

-----------------------------------------------------------------------------
LEMMA InitIInv == LeadInit => IInv
  BY InitTyped
     DEF LeadInit, IInv, Insertada, Memoria, UnaVez, Vencidas, DispatchedOnce, Canceladas, Armada,
         Pendientes

\* The steps of an action's document and job.
LEMMA ActionKeepsIInv ==
    ASSUME IInv, LeadTypeOK', NEW a \in Acciones,
           \/ Inserta(a) \/ Registra(a)
           \/ Dispara(a) \/ PierdeDisparo(a) \/ Despacha(a) \/ DespachoFalla(a)
           \/ RecargaAccion(a)
    PROVE IInv'
<1> USE LeadActionsAssumption
    DEF IInv, LeadTypeOK, Insertada, Memoria, UnaVez, Vencidas, DispatchedOnce, Canceladas, Armada,
        Pendientes, Falla, docVars, cancVars, memVars, bootVars
<1>1. CASE Inserta(a)
  BY <1>1 DEF Inserta
<1>2. CASE Registra(a)
  BY <1>2 DEF Registra
<1>3. CASE Dispara(a)
  BY <1>3 DEF Dispara
<1>4. CASE PierdeDisparo(a)
  BY <1>4 DEF PierdeDisparo
<1>5. CASE Despacha(a)
  BY <1>5 DEF Despacha
<1>6. CASE DespachoFalla(a)
  BY <1>6 DEF DespachoFalla
<1>7. CASE RecargaAccion(a)
  <2>1. CASE Vence(a)
    BY <1>7, <2>1 DEF RecargaAccion, Vence
  <2>2. CASE ~Vence(a)
    <3>1. a \notin disparadas
      BY <1>7, <2>2 DEF RecargaAccion, Vence
    <3> QED
      BY <1>7, <2>2, <3>1 DEF RecargaAccion, Vence
  <2> QED
    BY <2>1, <2>2
<1> QED
  BY <1>1, <1>2, <1>3, <1>4, <1>5, <1>6, <1>7

\* The steps of cancel_lead_actions.
LEMMA CancelKeepsIInv ==
    ASSUME IInv, LeadTypeOK', NEW l \in Leads,
           Busca(l) \/ Cancela(l) \/ CancelaFalla(l) \/ Quita(l)
    PROVE IInv'
<1> USE LeadActionsAssumption
    DEF IInv, LeadTypeOK, Insertada, Memoria, UnaVez, Vencidas, DispatchedOnce, Canceladas, Armada,
        Pendientes, Falla, docVars, cancVars, memVars, bootVars
<1>1. CASE Busca(l)
  BY <1>1 DEF Busca
<1>2. CASE Cancela(l)
  BY <1>2 DEF Cancela
<1>3. CASE CancelaFalla(l)
  BY <1>3 DEF CancelaFalla
<1>4. CASE Quita(l)
  <2>1. \A a \in halladas[l] : estado[a] # "pendiente"
    BY <1>4 DEF Quita
  <2> QED
    BY <1>4, <2>1 DEF Quita
<1> QED
  BY <1>1, <1>2, <1>3, <1>4

\* The steps of the process and of the clock.
LEMMA ProcessKeepsIInv ==
    ASSUME IInv, LeadTypeOK', Cae \/ Arranca \/ Listo \/ Tick \/ UNCHANGED <<leadVars, fallas>>
    PROVE IInv'
<1> USE LeadActionsAssumption
    DEF IInv, LeadTypeOK, Insertada, Memoria, UnaVez, Vencidas, DispatchedOnce, Canceladas, Armada,
        Pendientes, Falla, docVars, cancVars, memVars, bootVars
<1>1. CASE Cae
  BY <1>1 DEF Cae
<1>2. CASE Arranca
  BY <1>2 DEF Arranca
<1>3. CASE Listo
  BY <1>3 DEF Listo
<1>4. CASE Tick
  BY <1>4 DEF Tick
<1>5. CASE UNCHANGED <<leadVars, fallas>>
  BY <1>5 DEF leadVars
<1> QED
  BY <1>1, <1>2, <1>3, <1>4, <1>5

LEMMA NextIInv == IInv /\ [LeadNext]_<<leadVars, fallas>> => IInv'
<1> SUFFICES ASSUME IInv, [LeadNext]_<<leadVars, fallas>> PROVE IInv'
  OBVIOUS
<1>1. LeadTypeOK'
  BY NextTyped DEF IInv
<1> QED
  BY <1>1, ActionKeepsIInv, CancelKeepsIInv, ProcessKeepsIInv DEF LeadNext

\* Whatever restarts and however late a job comes, no action is dispatched a second time: what has
\* been dispatched is past its date, and the bootstrap marks what is past its date instead of
\* scheduling it.
THEOREM Dispatches == LeadSpec => []DispatchedOnce
<1>1. IInv => DispatchedOnce
  BY DEF IInv
<1> QED
  BY <1>1, InitIInv, NextIInv, PTL DEF LeadSpec

\* A pending action of a running process has its job until its date, although the jobs are only in
\* memory: cancellations, lost updates and restarts included.
THEOREM Arms == LeadSpec => []PendingIsArmed
<1>1. IInv => PendingIsArmed
  BY DEF IInv, Armada, PendingIsArmed
<1> QED
  BY <1>1, InitIInv, NextIInv, PTL DEF LeadSpec

=============================================================================
