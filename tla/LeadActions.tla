---------------------------- MODULE LeadActions -----------------------------
(***************************************************************************)
(* The scheduled actions of the leads (landa/scheduler.py): documents of   *)
(* scheduled_actions, and the jobs that APScheduler keeps for them in      *)
(* memory, which a restart of the process loses.                           *)
(*                                                                         *)
(* update_lead_estado refuses every transition of the leads this code      *)
(* stores (their estado is None, "sent" or in capitals, and none of those  *)
(* is a key of VALID_TRANSITIONS), so a lead is only a name here.          *)
(***************************************************************************)
EXTENDS Fallas

CONSTANTS Acciones, Leads,
          Lead,                  \* the lead_id of each action
          TzAware,               \* whether MONGODB_URI asks for aware dates; the default is not
          Plazos,                \* units of time until an action is due
          MaxAhora               \* bound: the clock

ASSUME LeadActionsAssumption ==
    /\ Lead \in [Acciones -> Leads]
    /\ TzAware \in BOOLEAN
    /\ Plazos \subseteq Nat \ {0}
    /\ MaxAhora \in Nat

VARIABLES
    estado,       \* of the document; "nada" before it is inserted
    fecha,        \* fecha_programada
    programando,  \* inserted, and schedule_retry has not gone on to add_job
    jobs,         \* jobs in the memory of APScheduler
    despachos,    \* _dispatch_scheduled_action running
    cancela,      \* cancel_lead_actions of each lead: where it is
    halladas,     \* ... and the actions its find returned
    proceso,      \* "arriba", "abajo", "arranca" (in _bootstrap_pending_jobs), "abortado"
    bootAhora,    \* the `now` of the bootstrap
    bootPend,     \* the documents it has still to go through
    ahora,
    disparadas    \* history: actions that have been dispatched

docVars  == <<estado, fecha>>
cancVars == <<cancela, halladas>>
memVars  == <<programando, jobs, despachos, cancVars>>
bootVars == <<proceso, bootAhora, bootPend>>
leadVars == <<docVars, memVars, bootVars, ahora, disparadas>>

LeadTypeOK ==
    /\ estado \in [Acciones -> {"nada", "pendiente", "vencido", "error", "cancelado"}]
    /\ fecha \in [Acciones -> Nat]
    /\ programando \subseteq Acciones /\ jobs \subseteq Acciones /\ despachos \subseteq Acciones
    /\ cancela \in [Leads -> {"no", "halla", "quita"}]
    /\ halladas \in [Leads -> SUBSET Acciones]
    /\ proceso \in {"arriba", "abajo", "arranca", "abortado"}
    /\ bootAhora \in Nat /\ bootPend \subseteq Acciones
    /\ ahora \in Nat /\ fallas \in Nat
    /\ disparadas \subseteq Acciones

LeadInit ==
    /\ estado = [a \in Acciones |-> "nada"] /\ fecha = [a \in Acciones |-> 0]
    /\ programando = {} /\ jobs = {} /\ despachos = {}
    /\ cancela = [l \in Leads |-> "no"] /\ halladas = [l \in Leads |-> {}]
    /\ proceso = "arriba" /\ bootAhora = 0 /\ bootPend = {}
    /\ ahora = 0 /\ fallas = 0 /\ disparadas = {}

Pendientes == {a \in Acciones : estado[a] = "pendiente"}

-----------------------------------------------------------------------------
\* schedule_retry inserts the document: the outreach of an approved lead was sent, or a call was
\* reported as not made, at any moment.
Inserta(a) ==
    /\ proceso = "arriba"
    /\ estado[a] = "nada"
    /\ \E d \in Plazos : fecha' = [fecha EXCEPT ![a] = ahora + d]
    /\ estado' = [estado EXCEPT ![a] = "pendiente"]
    /\ programando' = programando \cup {a}
    /\ UNCHANGED <<jobs, despachos, cancVars, bootVars, ahora, fallas, disparadas>>

\* ... and adds its job, whatever has become of the document meanwhile.
Registra(a) ==
    /\ a \in programando
    /\ programando' = programando \ {a}
    /\ jobs' = jobs \cup {a}
    /\ UNCHANGED <<docVars, despachos, cancVars, bootVars, ahora, fallas, disparadas>>

\* handover_tomar cancels the actions of the lead: find ...  (Then it asks for estado handover
\* and is refused with a 400.)
Busca(l) ==
    /\ proceso = "arriba"
    /\ cancela[l] = "no"
    /\ halladas' = [halladas EXCEPT ![l] = {a \in Pendientes : Lead[a] = l}]
    /\ cancela' = [cancela EXCEPT ![l] = IF halladas'[l] = {} THEN "no" ELSE "halla"]
    /\ UNCHANGED <<docVars, programando, jobs, despachos, bootVars, ahora, fallas, disparadas>>

\* Mutant: another word for the same estado.
CancelaCancelada(l) ==
    /\ cancela[l] = "halla"
    /\ estado' = [a \in Acciones |-> IF a \in halladas[l] THEN "cancelada" ELSE estado[a]]
    /\ cancela' = [cancela EXCEPT ![l] = "quita"]
    /\ UNCHANGED <<fecha, programando, jobs, despachos, halladas, bootVars, ahora, fallas,
                   disparadas>>

\* ... update_many by _id ...
Cancela(l) ==
    /\ cancela[l] = "halla"
    /\ estado' = [a \in Acciones |-> IF a \in halladas[l] THEN "cancelado" ELSE estado[a]]
    /\ cancela' = [cancela EXCEPT ![l] = "quita"]
    /\ UNCHANGED <<fecha, programando, jobs, despachos, halladas, bootVars, ahora, fallas,
                   disparadas>>

\* ... which may fail: the request ends with its actions as they were.
CancelaFalla(l) ==
    /\ cancela[l] = "halla"
    /\ Falla
    /\ cancela' = [cancela EXCEPT ![l] = "no"]
    /\ halladas' = [halladas EXCEPT ![l] = {}]
    /\ UNCHANGED <<docVars, programando, jobs, despachos, bootVars, ahora, disparadas>>

\* Mutant: the jobs of every lead go.
QuitaTodos(l) ==
    /\ cancela[l] = "quita"
    /\ jobs' = {}
    /\ cancela' = [cancela EXCEPT ![l] = "no"]
    /\ halladas' = [halladas EXCEPT ![l] = {}]
    /\ UNCHANGED <<docVars, programando, despachos, bootVars, ahora, fallas, disparadas>>

\* ... and remove_job for each; one that is not there is ignored.
Quita(l) ==
    /\ cancela[l] = "quita"
    /\ jobs' = jobs \ halladas[l]
    /\ cancela' = [cancela EXCEPT ![l] = "no"]
    /\ halladas' = [halladas EXCEPT ![l] = {}]
    /\ UNCHANGED <<docVars, programando, despachos, bootVars, ahora, fallas, disparadas>>

-----------------------------------------------------------------------------
\* The date of a job has come: APScheduler takes it out and starts the dispatch ...
Dispara(a) ==
    /\ a \in jobs /\ fecha[a] <= ahora
    /\ jobs' = jobs \ {a}
    /\ despachos' = despachos \cup {a}
    /\ disparadas' = disparadas \cup {a}
    /\ UNCHANGED <<docVars, programando, cancVars, bootVars, ahora, fallas>>

\* ... or drops it, more than misfire_grace_time (one second) late because the event loop was busy.
PierdeDisparo(a) ==
    /\ a \in jobs /\ fecha[a] <= ahora
    /\ jobs' = jobs \ {a}
    /\ UNCHANGED <<docVars, programando, despachos, cancVars, bootVars, ahora, fallas,
                   disparadas>>

\* The dispatch reads the document, not its estado, and imports outreach_agent, a module that the
\* repository does not have: the except marks the action.
Despacha(a) ==
    /\ a \in despachos
    /\ despachos' = despachos \ {a}
    /\ estado' = [estado EXCEPT ![a] = "error"]
    /\ UNCHANGED <<fecha, programando, jobs, cancVars, bootVars, ahora, fallas, disparadas>>

\* Neither write comes through: the action stays pending, and nothing dispatches it again.
DespachoFalla(a) ==
    /\ a \in despachos
    /\ Falla
    /\ despachos' = despachos \ {a}
    /\ UNCHANGED <<docVars, programando, jobs, cancVars, bootVars, ahora, disparadas>>

-----------------------------------------------------------------------------
\* The process ends, and its coroutines and jobs with it: a deploy or a crash, or Mongo failed in
\* the bootstrap.
Cae ==
    /\ Falla
    /\ \/ proceso \in {"arriba", "arranca"} /\ proceso' = "abajo"
       \/ proceso = "arranca" /\ proceso' = "abortado"
    /\ programando' = {} /\ jobs' = {} /\ despachos' = {} /\ bootPend' = {}
    /\ cancela' = [l \in Leads |-> "no"] /\ halladas' = [l \in Leads |-> {}]
    /\ UNCHANGED <<docVars, bootAhora, ahora, disparadas>>

\* start_scheduler: the bootstrap reads what is pending.  Dates that are not aware cannot be
\* compared with its `now`: a TypeError on the first document ends lifespan, and the process.
Arranca ==
    /\ proceso \in {"abajo", "abortado"}
    /\ bootAhora' = ahora
    /\ IF TzAware \/ Pendientes = {}
       THEN proceso' = "arranca" /\ bootPend' = Pendientes
       ELSE proceso' = "abortado" /\ bootPend' = {}
    /\ UNCHANGED <<docVars, memVars, ahora, fallas, disparadas>>

\* Mutant: an overdue action is scheduled.
NuncaVence(a) == FALSE

Vence(a) == fecha[a] <= bootAhora

\* The bootstrap goes through a document.
RecargaAccion(a) ==
    /\ proceso = "arranca"
    /\ a \in bootPend
    /\ bootPend' = bootPend \ {a}
    /\ IF Vence(a)
       THEN estado' = [estado EXCEPT ![a] = "vencido"] /\ UNCHANGED jobs
       ELSE jobs' = jobs \cup {a} /\ UNCHANGED estado
    /\ UNCHANGED <<fecha, programando, despachos, cancVars, proceso, bootAhora, ahora, fallas,
                   disparadas>>

\* Requests are served from here on.
Listo ==
    /\ proceso = "arranca"
    /\ bootPend = {}
    /\ proceso' = "arriba"
    /\ UNCHANGED <<docVars, memVars, bootAhora, bootPend, ahora, fallas, disparadas>>

Tick ==
    /\ ahora < MaxAhora
    /\ ahora' = ahora + 1
    /\ UNCHANGED <<docVars, memVars, bootVars, fallas, disparadas>>

-----------------------------------------------------------------------------
LeadNext ==
    \/ \E a \in Acciones :
          \/ Inserta(a) \/ Registra(a)
          \/ Dispara(a) \/ PierdeDisparo(a) \/ Despacha(a) \/ DespachoFalla(a)
          \/ RecargaAccion(a)
    \/ \E l \in Leads : Busca(l) \/ Cancela(l) \/ CancelaFalla(l) \/ Quita(l)
    \/ Cae \/ Arranca \/ Listo
    \/ Tick

\* The event loop runs every coroutine on, and the platform starts a process that has ended.
LeadFairness ==
    /\ \A a \in Acciones :
          WF_leadVars(Registra(a)) /\ WF_leadVars(Despacha(a)) /\ WF_leadVars(RecargaAccion(a))
    /\ \A l \in Leads : WF_leadVars(Cancela(l)) /\ WF_leadVars(Quita(l))
    /\ WF_leadVars(Arranca) /\ WF_leadVars(Listo)

LeadSpec == LeadInit /\ [][LeadNext]_<<leadVars, fallas>> /\ LeadFairness

-----------------------------------------------------------------------------
(* Properties *)

\* No action is dispatched a second time: whatever restarts, a dispatched one has no job again.
DispatchedOnce ==
    disparadas \cap (jobs \cup programando) = {}

\* Until its date, a pending action of a running process has its job, or schedule_retry is about
\* to add it.
PendingIsArmed ==
    \A a \in Pendientes :
       proceso = "arriba" /\ ahora < fecha[a] => a \in jobs \cup programando

-----------------------------------------------------------------------------
\* What the comments of the code say, and the code does not do.

\* scheduler.py:45: what is past due when no process runs is marked by the one that starts, and
\* does not stay pending.
OverdueIsSettled ==
    \A a \in Acciones :
       proceso \in {"abajo", "abortado"} /\ estado[a] = "pendiente" /\ fecha[a] <= ahora
          ~> estado[a] # "pendiente"

=============================================================================
