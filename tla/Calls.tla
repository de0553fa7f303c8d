------------------------------- MODULE Calls -------------------------------
(***************************************************************************)
(* What happens to a call once Twilio has it: the answer webhook, the      *)
(* WebSocket that runs the bot and its tools, the post-call step, the      *)
(* status callback, and the rescue job for rows nobody reported on; and    *)
(* the restart of the process, which loses everything that is not in       *)
(* Mongo.  Twilio itself is environment: it may report in any order with   *)
(* respect to the handlers, late, or not at all.                           *)
(***************************************************************************)
EXTENDS Dialer

CONSTANT MaxReinicios \* bound: restarts explored

ASSUME CallsAssumption == MaxReinicios \in Nat

VARIABLES
    cb,       \* status callback of an attempt: none, on its way, or being handled
    snap,     \* intentos of the row, as a handler of the attempt has read it
    leido,    \* estado of the row, as the post-call step has read it
    rescate,  \* rescue job: intentos of the rows it has read, -1 otherwise
    reinicios \* restarts so far

callVars == <<cb, snap, leido, rescate, reinicios>>
vars     == <<clockVars, rowVars, dialerVars, callVars>>

Avisos == {"no", "completed", "no-answer", "reprograma"}

CallsTypeOK ==
    /\ cb \in [Attempts -> Avisos]
    /\ snap \in [Attempts -> Nat]
    /\ leido \in [Attempts -> Estados \cup {"no"}]
    /\ rescate \in [Debtors -> Nat \cup {-1}]
    /\ reinicios \in Nat

Entrante(s) == s <= nuevos /\ despacho[s] = -1

-----------------------------------------------------------------------------
\* Twilio, as the handlers see it

\* Nobody answers, the line is busy, or the call fails: no WebSocket opens.
NoContesta(s) ==
    /\ fase[s] = "timbrando"
    /\ fase' = [fase EXCEPT ![s] = "fin"]
    /\ cb' = [cb EXCEPT ![s] = "no-answer"]
    /\ UNCHANGED <<clockVars, rowVars, switchVars, counterVars, loopVars, nuevos, de,
                   tarea, mapa, historyVars, snap, leido, rescate, reinicios>>

\* twilio_webhook with AnsweredBy=machine or fax: it hangs up without a stream.
ContestaMaquina(s) ==
    /\ fase[s] = "timbrando"
    /\ fase' = [fase EXCEPT ![s] = "fin"]
    /\ cb' = [cb EXCEPT ![s] = "completed"]
    /\ UNCHANGED <<clockVars, rowVars, switchVars, counterVars, loopVars, nuevos, de,
                   tarea, mapa, historyVars, snap, leido, rescate, reinicios>>

\* A person answers and the stream reaches voice_websocket, which takes the
\* call only if the mapping is there, and keeps the row as it is now.
ContestaPersona(s) ==
    /\ fase[s] = "timbrando"
    /\ \/ /\ mapa[s]
          /\ fase' = [fase EXCEPT ![s] = "hablando"]
          /\ snap' = [snap EXCEPT ![s] = intentos[de[s]]]
          /\ UNCHANGED cb
       \/ /\ ~mapa[s]
          /\ fase' = [fase EXCEPT ![s] = "fin"]
          /\ cb' = [cb EXCEPT ![s] = "completed"]
          /\ UNCHANGED snap
    /\ UNCHANGED <<clockVars, rowVars, switchVars, counterVars, loopVars, nuevos, de,
                   tarea, mapa, historyVars, leido, rescate, reinicios>>

\* A client calls in, types the document of one row and reaches the bot.
LlamadaEntrante(d) ==
    LET s == nuevos + 1
    IN /\ "entrante" \in Entorno
       /\ nuevos + Cardinality(lote) < MaxIntento
       /\ nuevos' = s
       /\ de' = [de EXCEPT ![s] = d]
       /\ mapa' = [mapa EXCEPT ![s] = TRUE]
       /\ fase' = [fase EXCEPT ![s] = "hablando"]
       /\ snap' = [snap EXCEPT ![s] = intentos[d]]
       /\ UNCHANGED <<clockVars, rowVars, switchVars, counterVars, loopVars, tarea,
                      historyVars, cb, leido, rescate, reinicios>>

\* Twilio does not get through to the callback endpoint.
PierdeAviso(s) ==
    /\ "aviso_perdido" \in Entorno
    /\ cb[s] \in {"completed", "no-answer"}
    /\ cb' = [cb EXCEPT ![s] = "no"]
    /\ UNCHANGED <<clockVars, rowVars, dialerVars, snap, leido, rescate, reinicios>>

-----------------------------------------------------------------------------
\* The bot's tools, while the call is up

\* A faulty variant: a row with an appointment starts a new cadence.
ReagendarReinicia(s) ==
    /\ fase[s] = "hablando"
    /\ PonEstado(de[s], "reagendado")
    /\ intentos' = [intentos EXCEPT ![de[s]] = 0]
    /\ \E c \in CitasDeCliente :
         cita' = [cita EXCEPT ![de[s]] = c] /\ SueltaFila(de[s], c)
    /\ UNCHANGED <<clockVars, ultimo, noLlamar, excluir, vapi, plan, escaladas,
                   switchVars, counterVars, loopVars, nuevos, de, tarea, fase, mapa,
                   creada, despacho, contada, callVars>>

ToolReagendar(s) ==
    /\ fase[s] = "hablando"
    /\ PonEstado(de[s], "reagendado")
    /\ \E c \in CitasDeCliente :
         cita' = [cita EXCEPT ![de[s]] = c] /\ SueltaFila(de[s], c)
    /\ UNCHANGED <<clockVars, intentos, ultimo, noLlamar, excluir, vapi, plan, escaladas,
                   switchVars, counterVars, loopVars, nuevos, de, tarea, fase, mapa,
                   creada, despacho, contada, callVars>>

\* informar_fecha_pago, notify_payment_claim
ToolPromesa(s) ==
    /\ fase[s] = "hablando"
    /\ PonEstado(de[s], "promesa_de_pago")
    /\ UNCHANGED <<clockVars, intentos, cita, ultimo, noLlamar, excluir, vapi, plan,
                   escaladas, dialerVars, callVars>>

ToolEscalate(s) ==
    /\ "tool_escalate" \in Entorno
    /\ fase[s] = "hablando"
    /\ Escalate(de[s])
    /\ UNCHANGED <<clockVars, dialerVars, callVars>>

\* registrar_no_desea_llamadas
ToolOptOut(s) ==
    /\ "no_llamar" \in Entorno
    /\ fase[s] = "hablando"
    /\ noLlamar' = [noLlamar EXCEPT ![de[s]] = TRUE]
    /\ viejo' = [viejo EXCEPT ![de[s]] = FALSE]
    /\ UNCHANGED <<clockVars, estado, intentos, cita, ultimo, excluir, vapi, plan,
                   escaladas, dialerVars, callVars>>

-----------------------------------------------------------------------------
\* The end of a conversation

\* run_bot returns; Twilio will report the call as completed.
Cuelga(s) ==
    /\ fase[s] = "hablando"
    /\ fase' = [fase EXCEPT ![s] = "post"]
    /\ cb' = [cb EXCEPT ![s] = "completed"]
    /\ UNCHANGED <<clockVars, rowVars, switchVars, counterVars, loopVars, nuevos, de,
                   tarea, mapa, historyVars, snap, leido, rescate, reinicios>>

\* run_bot raises, or a Mongo call of the post-call step does: the exception
\* is swallowed and only the mapping is cleaned up.
BotFalla(s) ==
    /\ "bot_falla" \in Entorno
    /\ fase[s] \in {"hablando", "post", "escribe"}
    /\ fase' = [fase EXCEPT ![s] = "fin"]
    /\ mapa' = [mapa EXCEPT ![s] = FALSE]
    /\ cb' = IF fase[s] = "hablando" THEN [cb EXCEPT ![s] = "completed"] ELSE cb
    /\ leido' = [leido EXCEPT ![s] = "no"]
    /\ snap' = [snap EXCEPT ![s] = 0]
    /\ UNCHANGED <<clockVars, rowVars, switchVars, counterVars, loopVars, nuevos, de,
                   tarea, historyVars, rescate, reinicios>>

\* _process_call_ended reads the estado the tools may have written.
PostLee(s) ==
    /\ fase[s] = "post"
    /\ fase' = [fase EXCEPT ![s] = "escribe"]
    /\ leido' = [leido EXCEPT ![s] = IF estado[de[s]] = "llamando"
                                     THEN "pendiente" ELSE estado[de[s]]]
    /\ UNCHANGED <<clockVars, rowVars, switchVars, counterVars, loopVars, nuevos, de,
                   tarea, mapa, historyVars, cb, snap, rescate, reinicios>>

\* A faulty variant of EstadoFinal: Twilio's word instead of the row's.
EstadoDeTwilio(s, contacto) ==
    IF leido[s] \in TERMINAL_ESTADOS THEN leido[s]
    ELSE IF contacto THEN "contactado" ELSE "no-answer"

\* The estado it decides on; contacto: the debtor talked for two turns or more.
EstadoFinal(s, contacto) ==
    LET base == IF leido[s] \in TERMINAL_ESTADOS THEN leido[s]
                ELSE IF contacto THEN "contactado" ELSE "sin_contacto"
    IN IF ~Entrante(s) /\ snap[s] + 1 >= MaxIntentos /\ base = "sin_contacto"
       THEN "agotado" ELSE base

\* Faulty variants of PostEscribe: the contact date is not written; an
\* inbound call counts as an attempt.
PostSinFecha(s) ==
    LET d == de[s]
    IN /\ fase[s] = "escribe"
       /\ fase' = [fase EXCEPT ![s] = "fin"]
       /\ mapa' = [mapa EXCEPT ![s] = FALSE]
       /\ leido' = [leido EXCEPT ![s] = "no"]
       /\ snap' = [snap EXCEPT ![s] = 0]
       /\ \E contacto \in BOOLEAN : PonEstado(d, EstadoFinal(s, contacto))
       /\ vapi' = [vapi EXCEPT ![d] = 0]
       /\ IF Entrante(s) THEN UNCHANGED <<intentos, cita>>
          ELSE /\ intentos' = [intentos EXCEPT ![d] = @ + 1]
               /\ cita' = [cita EXCEPT ![d] = Nunca]
       /\ UNCHANGED <<clockVars, ultimo, noLlamar, excluir, plan, escaladas,
                      switchVars, counterVars, loopVars, nuevos, de, tarea,
                      historyVars, cb, rescate, reinicios>>

PostCuentaEntrantes(s) ==
    LET d == de[s]
    IN /\ fase[s] = "escribe"
       /\ fase' = [fase EXCEPT ![s] = "fin"]
       /\ mapa' = [mapa EXCEPT ![s] = FALSE]
       /\ leido' = [leido EXCEPT ![s] = "no"]
       /\ snap' = [snap EXCEPT ![s] = 0]
       /\ \E contacto \in BOOLEAN : PonEstado(d, EstadoFinal(s, contacto))
       /\ ultimo' = [ultimo EXCEPT ![d] = Ahora]
       /\ vapi' = [vapi EXCEPT ![d] = 0]
       /\ intentos' = [intentos EXCEPT ![d] = @ + 1]
       /\ cita' = [cita EXCEPT ![d] = Nunca]
       /\ UNCHANGED <<clockVars, noLlamar, excluir, plan, escaladas, switchVars,
                      counterVars, loopVars, nuevos, de, tarea, historyVars, cb,
                      rescate, reinicios>>

\* It writes the row, and the WebSocket handler drops the mapping.
PostEscribe(s) ==
    LET d == de[s]
    IN /\ fase[s] = "escribe"
       /\ fase' = [fase EXCEPT ![s] = "fin"]
       /\ mapa' = [mapa EXCEPT ![s] = FALSE]
       /\ leido' = [leido EXCEPT ![s] = "no"]
       /\ snap' = [snap EXCEPT ![s] = 0]
       /\ \E contacto \in BOOLEAN : PonEstado(d, EstadoFinal(s, contacto))
       /\ ultimo' = [ultimo EXCEPT ![d] = Ahora]
       /\ vapi' = [vapi EXCEPT ![d] = 0]
       /\ IF Entrante(s) THEN UNCHANGED <<intentos, cita>>
          ELSE /\ intentos' = [intentos EXCEPT ![d] = @ + 1]
               /\ cita' = [cita EXCEPT ![d] = Nunca]
       /\ UNCHANGED <<clockVars, noLlamar, excluir, plan, escaladas, switchVars,
                      counterVars, loopVars, nuevos, de, tarea, historyVars, cb,
                      rescate, reinicios>>

-----------------------------------------------------------------------------
\* call_status_callback

\* completed: the slot is freed; the row is left to the post-call step.
AvisoCompleted(s) ==
    /\ cb[s] = "completed"
    /\ cb' = [cb EXCEPT ![s] = "no"]
    /\ mapa' = [mapa EXCEPT ![s] = FALSE]
    /\ UNCHANGED <<clockVars, rowVars, switchVars, counterVars, loopVars, nuevos, de,
                   tarea, fase, historyVars, snap, leido, rescate, reinicios>>

\* Not connected: the slot is freed and the row looked up by SID and estado ...
AvisoNoContesta(s) ==
    LET d == de[s]
    IN /\ cb[s] = "no-answer"
       /\ mapa' = [mapa EXCEPT ![s] = FALSE]
       /\ \/ /\ vapi[d] = s /\ estado[d] = "llamando"
             /\ cb' = [cb EXCEPT ![s] = "reprograma"]
             /\ snap' = [snap EXCEPT ![s] = intentos[d]]
          \/ /\ ~(vapi[d] = s /\ estado[d] = "llamando")
             /\ cb' = [cb EXCEPT ![s] = "no"]
             /\ UNCHANGED snap
       /\ UNCHANGED <<clockVars, rowVars, switchVars, counterVars, loopVars, nuevos, de,
                      tarea, fase, historyVars, leido, rescate, reinicios>>

\* ... and written by _id after the tenant's configuration has been read.
AvisoReprograma(s) ==
    /\ cb[s] = "reprograma"
    /\ cb' = [cb EXCEPT ![s] = "no"]
    /\ snap' = [snap EXCEPT ![s] = 0]
    /\ RescheduleIntentoFallido(de[s], snap[s])
    /\ UNCHANGED <<clockVars, plan, escaladas, dialerVars, leido, rescate, reinicios>>

-----------------------------------------------------------------------------
\* rescue_stuck_llamando_job

\* 15 minutes go by for a row that is being dialled, 10 for a mapping.  By
\* then its task (15 s for Twilio) and its call (rings 18 s, cut off at 240 s)
\* are over and so are their handlers.
SinActividad(d) ==
    \A s \in Attempts : de[s] = d => ~Viva(s) /\ cb[s] # "reprograma"

PasaRato(d) ==
    /\ estado[d] = "llamando" /\ ~viejo[d]
    /\ SinActividad(d)
    /\ viejo' = [viejo EXCEPT ![d] = TRUE]
    /\ UNCHANGED <<clockVars, estado, intentos, cita, ultimo, noLlamar, excluir, vapi,
                   plan, escaladas, dialerVars, callVars>>

ExpiraMapa(s) ==
    /\ mapa[s] /\ ~Viva(s)
    /\ mapa' = [mapa EXCEPT ![s] = FALSE]
    /\ UNCHANGED <<clockVars, rowVars, switchVars, counterVars, loopVars, nuevos, de,
                   tarea, fase, historyVars, callVars>>

\* A faulty variant: only rows whose call has a SID are looked for.
AtascadoConLlamada(d) == estado[d] = "llamando" /\ viejo[d] /\ vapi[d] # 0

Atascado(d) == estado[d] = "llamando" /\ viejo[d]

\* One tick: the stuck rows are read in one query ...
RescateLee ==
    /\ jobs = "corriendo"
    /\ \A d \in Debtors : rescate[d] = -1
    /\ \E d \in Debtors : Atascado(d)
    /\ rescate' = [d \in Debtors |-> IF Atascado(d) THEN intentos[d] ELSE -1]
    /\ UNCHANGED <<clockVars, rowVars, dialerVars, cb, snap, leido, reinicios>>

\* ... and rescheduled one after the other.
RescateEscribe(d) ==
    /\ rescate[d] # -1
    /\ rescate' = [rescate EXCEPT ![d] = -1]
    /\ RescheduleIntentoFallido(d, rescate[d])
    /\ UNCHANGED <<clockVars, plan, escaladas, dialerVars, cb, snap, leido, reinicios>>

-----------------------------------------------------------------------------
\* Restart of the process, and time

\* Tasks, WebSockets, half-done handlers and the jobs are in memory only.
\* register_cobranza_jobs looks at the environment, not at the switch.
Reinicio ==
    /\ "reinicio" \in Entorno
    /\ reinicios < MaxReinicios
    /\ reinicios' = reinicios + 1
    /\ tarea' = [s \in Attempts |-> IF tarea[s] \in EnVuelo THEN "fin" ELSE tarea[s]]
    /\ fase' = [s \in Attempts |-> IF fase[s] \in {"hablando", "post", "escribe"}
                                   THEN "fin" ELSE fase[s]]
    /\ cb' = [s \in Attempts |-> IF fase[s] = "hablando" THEN "completed"
                                 ELSE IF cb[s] = "reprograma" THEN "no" ELSE cb[s]]
    /\ leido' = [s \in Attempts |-> "no"]
    /\ snap' = [s \in Attempts |-> 0]
    /\ rescate' = [d \in Debtors |-> -1]
    /\ plan' = [d \in Debtors |-> Nunca]
    /\ lote' = {} /\ debidos' = {}
    /\ jobs' = IF EnvAutocall THEN "corriendo" ELSE "sin_registrar"
    /\ UNCHANGED <<clockVars, debtorVars, escaladas, autocall, jornada, saldo, counterVars,
                   nuevos, de, mapa, historyVars>>

\* The dispatcher's loop does not straddle two hours.
PasaHora ==
    /\ hora + 1 < Horas
    /\ lote = {}
    /\ hora' = hora + 1
    /\ hechasHora' = 0 /\ hayHora' = FALSE
    /\ UNCHANGED <<dia, rowVars, switchVars, hechasDia, loopVars, attemptVars, callVars>>

\* Twelve hours without dialling separate two working days.  A date that has
\* passed authorises nothing any more and is dropped.
PasaDia ==
    /\ dia < MaxDia
    /\ lote = {}
    /\ \A d \in Debtors : SinActividad(d) /\ plan[d] = Nunca /\ rescate[d] = -1
    /\ dia' = dia + 1 /\ hora' = 0
    /\ hechasDia' = 0 /\ hechasHora' = 0 /\ hayHora' = FALSE
    /\ jornada' = jornada \ {dia}
    /\ UNCHANGED <<rowVars, autocall, jobs, saldo, loopVars, attemptVars, callVars>>

=============================================================================
