------------------------------ MODULE Debtors ------------------------------
(***************************************************************************)
(* The rows of db.debtors, as the ARIA voice campaign reads and writes     *)
(* them, and the operators that every writer shares: when a row may be     *)
(* dialled, which appointment it gets, and what a failed attempt does to   *)
(* it.  A row is one instalment (cuota); several rows may belong to one    *)
(* client.  This module declares the documents and the actions that touch  *)
(* nothing else: the planner job and the dashboard.                        *)
(***************************************************************************)
EXTENDS Integers, FiniteSets

CONSTANTS Debtors,      \* rows of db.debtors of one tenant
          Cliente,      \* the client (cliente_documento) each row belongs to
          Horas,        \* hour slots of a working day, numbered from 0
          Corte,        \* first hour slot of the afternoon (13h)
          Tarde,        \* the slot at 14:00, where a morning failure is retried
          MaxIntentos,  \* timings.max_intentos
          MaxDia,       \* bound: last working day explored
          MaxEscaladas, \* bound: escalations explored per row
          Entorno       \* which environment events a model explores

ASSUME DebtorsAssumption ==
    /\ IsFiniteSet(Debtors) /\ Debtors # {}
    /\ Horas \in Nat \ {0}
    /\ Corte \in Nat
    /\ Tarde \in 0..(Horas - 1)
    /\ MaxIntentos \in Nat \ {0}
    /\ MaxDia \in Nat
    /\ MaxEscaladas \in Nat

VARIABLES
    dia,        \* Bogota date, in working days since the campaign started
    hora,       \* hour slot of the day
    estado,     \* estado
    intentos,   \* intentos
    cita,       \* proximo_intento_at
    ultimo,     \* ultimo_contacto_fecha
    noLlamar,   \* no_llamar
    excluir,    \* excluir_llamada
    vapi,       \* vapi_call_id: the attempt whose SID is stored, 0 when absent
    viejo,      \* updated_at is at least 15 minutes old
    plan,       \* what the running planner job computed for a row it has read
    escaladas   \* history: escalations of the row

clockVars  == <<dia, hora>>
debtorVars == <<estado, intentos, cita, ultimo, noLlamar, excluir, vapi, viejo>>
rowVars    == <<debtorVars, plan, escaladas>>

\* Every estado the voice path assigns.  promesa_de_pago stands for
\* pago_reportado as well: both are written by a tool and never dialled.
Estados == {"pendiente", "llamando", "contactado", "sin_contacto", "agotado",
            "reagendado", "promesa_de_pago", "escalado", "pagado", "pausado"}

\* The estados the campaign may dial.
CALLABLE_ESTADOS == {"pendiente", "sin_contacto", "reagendado"}

\* The estados the post-call step leaves as it finds them.
TERMINAL_ESTADOS == {"promesa_de_pago", "escalado", "pagado", "reagendado", "pausado"}

\* An instant is a day and an hour slot; day -1 marks an absent field, and
\* the planner's verdict "agotado" is kept in plan as Agota.
Instantes == [dia : Int, hora : Int]
Nunca     == [dia |-> -1, hora |-> 0]
Agota     == [dia |-> -2, hora |-> 0]
Ahora     == [dia |-> dia, hora |-> hora]

Llego(c) == c.dia < dia \/ (c.dia = dia /\ c.hora <= hora)

\* has_been_contacted_today
HasBeenContactedToday(d) == ultimo[d].dia = dia

\* The filter that planner and dispatcher share.
Llamable(d) == ~noLlamar[d] /\ ~excluir[d] /\ estado[d] \in CALLABLE_ESTADOS

\* A row the dispatcher's query returns and its contacted-today filter keeps.
EnHora(d) == /\ Llamable(d)
             /\ cita[d] # Nunca
             /\ Llego(cita[d])
             /\ ~HasBeenContactedToday(d)

\* _hora_reintento: a morning failure is retried in the afternoon and an
\* afternoon one at the start of the first franja.
HoraReintento(h) == IF h < Corte THEN Tarde ELSE 0

\* The instant a client may ask for: any hour, today included.
CitasDeCliente == [dia : dia..(MaxDia + 1), hora : 0..(Horas - 1)]

RowsTypeOK ==
    /\ dia \in Nat /\ hora \in 0..(Horas - 1)
    /\ estado \in [Debtors -> Estados]
    /\ intentos \in [Debtors -> Nat]
    /\ cita \in [Debtors -> Instantes]
    /\ ultimo \in [Debtors -> Instantes]
    /\ noLlamar \in [Debtors -> BOOLEAN]
    /\ excluir \in [Debtors -> BOOLEAN]
    /\ vapi \in [Debtors -> Nat]
    /\ viejo \in [Debtors -> BOOLEAN]
    /\ plan \in [Debtors -> Instantes]
    /\ escaladas \in [Debtors -> Nat]

-----------------------------------------------------------------------------
\* Writes

\* Every write through update_debtor also refreshes updated_at.
PonEstado(d, e) == /\ estado' = [estado EXCEPT ![d] = e]
                   /\ viejo' = [viejo EXCEPT ![d] = FALSE]

\* Faulty variants of the next operator: the new appointment falls on the
\* same day; the attempt is added to whatever intentos has become.
RescheduleElMismoDia(d, n) ==
    /\ intentos' = [intentos EXCEPT ![d] = n + 1]
    /\ vapi' = [vapi EXCEPT ![d] = 0]
    /\ IF n + 1 >= MaxIntentos
       THEN /\ PonEstado(d, "agotado")
            /\ cita' = [cita EXCEPT ![d] = Nunca]
       ELSE /\ PonEstado(d, "sin_contacto")
            /\ cita' = [cita EXCEPT ![d] = [dia |-> dia, hora |-> HoraReintento(hora)]]
    /\ UNCHANGED <<ultimo, noLlamar, excluir>>

RescheduleConInc(d, n) ==
    /\ intentos' = [intentos EXCEPT ![d] = @ + 1]
    /\ vapi' = [vapi EXCEPT ![d] = 0]
    /\ IF n + 1 >= MaxIntentos
       THEN /\ PonEstado(d, "agotado")
            /\ cita' = [cita EXCEPT ![d] = Nunca]
       ELSE /\ PonEstado(d, "sin_contacto")
            /\ cita' = [cita EXCEPT ![d] = [dia |-> dia + 1, hora |-> HoraReintento(hora)]]
    /\ UNCHANGED <<ultimo, noLlamar, excluir>>

\* reschedule_intento_fallido on a row read with n attempts: the attempt
\* counts, and the row goes to the next working day or is exhausted.
RescheduleIntentoFallido(d, n) ==
    /\ intentos' = [intentos EXCEPT ![d] = n + 1]
    /\ vapi' = [vapi EXCEPT ![d] = 0]
    /\ IF n + 1 >= MaxIntentos
       THEN /\ PonEstado(d, "agotado")
            /\ cita' = [cita EXCEPT ![d] = Nunca]
       ELSE /\ PonEstado(d, "sin_contacto")
            /\ cita' = [cita EXCEPT ![d] = [dia |-> dia + 1, hora |-> HoraReintento(hora)]]
    /\ UNCHANGED <<ultimo, noLlamar, excluir>>

\* escalate: from the voice tool or from the WhatsApp bridge.
Escalate(d) ==
    /\ escaladas[d] < MaxEscaladas
    /\ PonEstado(d, "escalado")
    /\ intentos' = [intentos EXCEPT ![d] = @ + 1]
    /\ escaladas' = [escaladas EXCEPT ![d] = @ + 1]
    /\ UNCHANGED <<cita, ultimo, noLlamar, excluir, vapi, plan>>

-----------------------------------------------------------------------------
\* compute_proximo_intento: the verdicts it can give for a row it reads.  The
\* anchor date is data of the row, so the target day is any day from today on;
\* so is fecha_reagendada (one in the past is as due as the first slot of today).
DiaObjetivo(d, t) == IF ultimo[d].dia >= t THEN ultimo[d].dia + 1 ELSE t

HoraObjetivo(d) == IF ultimo[d] = Nunca THEN 0 ELSE HoraReintento(ultimo[d].hora)

\* A faulty variant: the attempt to be made counts already.
ComputeUnoMenos(d) ==
    IF estado[d] = "reagendado" THEN CitasDeCliente
    ELSE IF intentos[d] + 1 >= MaxIntentos THEN {Agota}
    ELSE {[dia |-> DiaObjetivo(d, t), hora |-> HoraObjetivo(d)] : t \in dia..(MaxDia + 1)}

ComputeProximoIntento(d) ==
    IF estado[d] = "reagendado" THEN CitasDeCliente
    ELSE IF intentos[d] >= MaxIntentos THEN {Agota}
    ELSE {[dia |-> DiaObjetivo(d, t), hora |-> HoraObjetivo(d)] : t \in dia..(MaxDia + 1)}

\* plan_intentos_job reads a row with no appointment ...
PlanLee(d) ==
    /\ plan[d] = Nunca
    /\ Llamable(d)
    /\ cita[d] = Nunca
    /\ \E v \in ComputeProximoIntento(d) : plan' = [plan EXCEPT ![d] = v]
    /\ UNCHANGED <<clockVars, debtorVars, escaladas>>

\* ... and writes its verdict by _id, whatever the row has become meanwhile.
PlanEscribe(d) ==
    /\ plan[d] # Nunca
    /\ plan' = [plan EXCEPT ![d] = Nunca]
    /\ IF plan[d] = Agota
       THEN PonEstado(d, "agotado") /\ UNCHANGED cita
       ELSE /\ cita' = [cita EXCEPT ![d] = plan[d]]
            /\ viejo' = [viejo EXCEPT ![d] = FALSE]
            /\ UNCHANGED estado
    /\ UNCHANGED <<clockVars, intentos, ultimo, noLlamar, excluir, vapi, escaladas>>

-----------------------------------------------------------------------------
\* The dashboard

MarcarPagado(d) ==
    /\ "pagar" \in Entorno
    /\ PonEstado(d, "pagado")
    /\ UNCHANGED <<clockVars, intentos, cita, ultimo, noLlamar, excluir, vapi, plan, escaladas>>

PausarDebtor(d) ==
    /\ "pausar" \in Entorno
    /\ PonEstado(d, "pausado")
    /\ UNCHANGED <<clockVars, intentos, cita, ultimo, noLlamar, excluir, vapi, plan, escaladas>>

\* Only a paused row is reactivated.
ReactivarDebtor(d) ==
    /\ "pausar" \in Entorno
    /\ estado[d] = "pausado"
    /\ PonEstado(d, "pendiente")
    /\ UNCHANGED <<clockVars, intentos, cita, ultimo, noLlamar, excluir, vapi, plan, escaladas>>

\* PATCH /debtors/{id} with no_llamar, either way.
PatchNoLlamar(d) ==
    /\ "no_llamar" \in Entorno
    /\ \E b \in BOOLEAN : noLlamar' = [noLlamar EXCEPT ![d] = b]
    /\ viejo' = [viejo EXCEPT ![d] = FALSE]
    /\ UNCHANGED <<clockVars, estado, intentos, cita, ultimo, excluir, vapi, plan, escaladas>>

\* POST /wa/escalate from the WhatsApp module.
WaEscalate(d) ==
    /\ "wa" \in Entorno
    /\ Escalate(d)
    /\ UNCHANGED clockVars

=============================================================================
