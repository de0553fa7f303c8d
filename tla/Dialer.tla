------------------------------- MODULE Dialer -------------------------------
(***************************************************************************)
(* What dials: the runtime kill switch, the authorisation of the day, the  *)
(* dispatcher job with its daily and hourly counters, and the background   *)
(* task safe_initiate_call, one per dispatched row, whose awaits let every *)
(* other actor run in between.                                             *)
(*                                                                         *)
(* An attempt is a number s.  It starts as a dispatched task and, when     *)
(* Twilio accepts it, goes on as a call; an inbound call takes a number as *)
(* well.  0 stands for no attempt.                                         *)
(***************************************************************************)
EXTENDS Debtors

CONSTANTS Cupo,          \* volumen.llamadas_por_dia
          PorHora,       \* volumen.llamadas_por_hora
          MaxConcurrent, \* MAX_CONCURRENT_CALLS
          MaxIntento,    \* bound: attempts (dispatches and inbound calls) explored
          EnvAutocall    \* COBRANZA_AUTOCALL_ENABLED in the environment

ASSUME DialerAssumption ==
    /\ Cupo \in Nat
    /\ PorHora \in Nat \ {0}
    /\ MaxConcurrent \in Nat
    /\ MaxIntento \in Nat
    /\ EnvAutocall \in BOOLEAN

Attempts == 1..MaxIntento

VARIABLES
    autocall,   \* cobranza_runtime/killswitch.enabled
    jobs,       \* the three APScheduler jobs
    jornada,    \* authorized_dates
    saldo,      \* the minutes ledger has a balance (require_saldo passes)
    hechasDia,  \* cobranza_daily_stats.llamadas_iniciadas of today
    hechasHora, \* cobranza_hourly_stats.llamadas_iniciadas of this hour ...
    hayHora,    \* ... and whether that document exists yet
    debidos,    \* dispatcher: the rows its query returned
    lote,       \* dispatcher: the leaders it has still to mark
    nuevos,     \* attempts used so far
    de,         \* the row of an attempt
    tarea,      \* where the task of an attempt stands
    fase,       \* the call of an attempt, as Twilio and the WebSocket see it
    mapa,       \* cobranza_calls_in_progress holds the attempt
    creada,     \* history: day Twilio created the call, -1 when it did not
    despacho,   \* history: day the dispatcher counted the attempt, -1 if inbound
    contada,    \* history: the $inc of the attempt stands
    suelta      \* history: the row was handed back while the attempt was open

switchVars  == <<autocall, jobs, jornada, saldo>>
counterVars == <<hechasDia, hechasHora, hayHora>>
loopVars    == <<debidos, lote>>
historyVars == <<creada, despacho, contada, suelta>>
attemptVars == <<nuevos, de, tarea, fase, mapa, historyVars>>
dialerVars  == <<switchVars, counterVars, loopVars, attemptVars>>

Tareas == {"no", "killswitch", "jornada", "saldo", "marcar", "mapear", "vapi", "fin"}
EnVuelo == {"killswitch", "jornada", "saldo", "marcar", "mapear", "vapi"}
Fases  == {"libre", "timbrando", "hablando", "post", "escribe", "fin"}
Abierta == {"timbrando", "hablando", "post", "escribe"}

DialerTypeOK ==
    /\ autocall \in BOOLEAN
    /\ jobs \in {"corriendo", "pausados", "sin_registrar"}
    /\ jornada \subseteq Nat
    /\ saldo \in BOOLEAN
    /\ hechasDia \in Int /\ hechasHora \in Int /\ hayHora \in BOOLEAN
    /\ debidos \subseteq Debtors /\ lote \subseteq Debtors
    /\ nuevos \in 0..MaxIntento
    /\ de \in [Attempts -> Debtors]
    /\ tarea \in [Attempts -> Tareas]
    /\ fase \in [Attempts -> Fases]
    /\ mapa \in [Attempts -> BOOLEAN]
    /\ creada \in [Attempts -> Int]
    /\ despacho \in [Attempts -> Int]
    /\ contada \in [Attempts -> BOOLEAN]
    /\ suelta \in [Attempts -> BOOLEAN]

\* The task of s is still running, or its call is.
Viva(s) == tarea[s] \in EnVuelo \/ fase[s] \in Abierta

\* The attempt is under way, or has placed its call today.
DeHoy(s) == tarea[s] \in EnVuelo \/ creada[s] = dia

\* History: row d is handed back with appointment c.  If it can become due
\* today, its attempts of today are open: nothing on the row tells of them.
SueltaFila(d, c) ==
    suelta' = [s \in Attempts |->
                 \/ suelta[s]
                 \/ /\ de[s] = d /\ DeHoy(s)
                    /\ ~HasBeenContactedToday(d)
                    /\ c.dia <= dia]

-----------------------------------------------------------------------------
\* Switches

\* set_autocall_enabled.  Turning ON registers the jobs if they are missing
\* and resumes them; turning OFF pauses the registered ones.
SetAutocallEnabled(v) ==
    /\ "kill" \in Entorno
    /\ autocall' = v
    /\ jobs' = IF v THEN "corriendo"
               ELSE IF jobs = "corriendo" THEN "pausados" ELSE jobs
    /\ UNCHANGED <<clockVars, rowVars, jornada, saldo, counterVars, loopVars, attemptVars>>

\* set_jornada_authorized: today or, ahead, the next working day is authorised;
\* the dashboard withdraws today's authorisation only.  Days after MaxDia are
\* not explored.
SetJornadaAuthorized(authorized) ==
    /\ \/ authorized /\ \E fecha \in {dia, dia + 1} :
            fecha <= MaxDia /\ jornada' = jornada \cup {fecha}
       \/ ~authorized /\ "desautorizar" \in Entorno /\ jornada' = jornada \ {dia}
    /\ UNCHANGED <<clockVars, rowVars, autocall, jobs, saldo, counterVars, loopVars, attemptVars>>

IsJornadaAuthorized == dia \in jornada

\* The package of minutes runs out, or is recharged.
CambiaSaldo ==
    /\ "saldo" \in Entorno
    /\ saldo' = ~saldo
    /\ UNCHANGED <<clockVars, rowVars, autocall, jobs, jornada, counterVars, loopVars, attemptVars>>

-----------------------------------------------------------------------------
\* dispatch_intentos_job

Activas == Cardinality({s \in Attempts : mapa[s]})

\* min(cupo, cupo_hora, MAX_CONCURRENT_CALLS - active), when permitidas is
\* what the token bucket allows at this minute of the hour.
Slots(permitidas) ==
    LET m == IF Cupo - hechasDia < permitidas - hechasHora
             THEN Cupo - hechasDia ELSE permitidas - hechasHora
    IN IF m < MaxConcurrent - Activas THEN m ELSE MaxConcurrent - Activas

\* A faulty variant of SonLideres: the batch is not cut at slots.
LideresSinTope(L, due, slots) ==
    /\ L # {}
    /\ \A c, d \in L : Cliente[c] = Cliente[d] => c = d
    /\ \A d \in due : \E c \in L : Cliente[c] = Cliente[d]

\* lideres[:slots]: one row of each client.  The priority (days in arrears)
\* is data of the rows, so any order may come out of it.
SonLideres(L, due, slots) ==
    /\ L # {}
    /\ \A c, d \in L : Cliente[c] = Cliente[d] => c = d
    /\ Cardinality(L) <= slots
    /\ \/ Cardinality(L) = slots
       \/ \A d \in due : \E c \in L : Cliente[c] = Cliente[d]

\* One tick up to the query: gates, quota, slots, due rows.
DespachoLee ==
    /\ jobs = "corriendo"
    /\ lote = {}
    /\ autocall
    /\ IsJornadaAuthorized
    /\ \E permitidas \in 1..PorHora :
         /\ Slots(permitidas) > 0
         /\ debidos' = {d \in Debtors : EnHora(d)}
         /\ \E L \in SUBSET debidos' :
              /\ SonLideres(L, debidos', Slots(permitidas))
              /\ nuevos + Cardinality(L) <= MaxIntento
              /\ lote' = L
    /\ UNCHANGED <<clockVars, rowVars, switchVars, counterVars, attemptVars>>

Hermanas(d) == {h \in debidos : Cliente[h] = Cliente[d] /\ h # d}

\* The loop body for one leader: it marks the row as read, counts the
\* attempt, stamps the other rows of the client and starts the task.
DespachoMarca(d) ==
    LET s == nuevos + 1
    IN /\ d \in lote
       /\ s \in Attempts
       /\ lote' = lote \ {d}
       /\ debidos' = IF lote = {d} THEN {} ELSE debidos
       /\ estado' = [estado EXCEPT ![d] = "llamando"]
       /\ hechasDia' = hechasDia + 1
       /\ hechasHora' = hechasHora + 1
       /\ hayHora' = TRUE
       /\ ultimo' = [h \in Debtors |-> IF h \in Hermanas(d) THEN Ahora ELSE ultimo[h]]
       /\ viejo' = [h \in Debtors |-> viejo[h] /\ h # d /\ h \notin Hermanas(d)]
       /\ nuevos' = s
       /\ de' = [de EXCEPT ![s] = d]
       /\ tarea' = [tarea EXCEPT ![s] = "killswitch"]
       /\ despacho' = [despacho EXCEPT ![s] = dia]
       /\ contada' = [contada EXCEPT ![s] = TRUE]
       /\ UNCHANGED <<clockVars, intentos, cita, noLlamar, excluir, vapi, plan,
                      escaladas, switchVars, fase, mapa, creada, suelta>>

-----------------------------------------------------------------------------
\* safe_initiate_call

\* A gate that fails hands the row back and leaves the counters alone.
Aborta(s) ==
    /\ tarea' = [tarea EXCEPT ![s] = "fin"]
    /\ PonEstado(de[s], "pendiente")
    /\ SueltaFila(de[s], cita[de[s]])

Gate(s, pc, abre, sigue) ==
    /\ tarea[s] = pc
    /\ \/ /\ abre
          /\ tarea' = [tarea EXCEPT ![s] = sigue]
          /\ UNCHANGED <<estado, viejo, suelta>>
       \/ ~abre /\ Aborta(s)
    /\ UNCHANGED <<clockVars, intentos, cita, ultimo, noLlamar, excluir, vapi, plan,
                   escaladas, switchVars, counterVars, loopVars, nuevos, de, fase,
                   mapa, creada, despacho, contada>>

TareaKillswitch(s) == Gate(s, "killswitch", autocall, "jornada")
TareaJornada(s)    == Gate(s, "jornada", IsJornadaAuthorized, "saldo")
TareaSaldo(s)      == Gate(s, "saldo", saldo, "marcar")

\* A faulty variant of DeshaceCupo: only the counter of the hour goes back.
DeshaceSoloHora(s) ==
    /\ hechasHora' = IF hayHora THEN hechasHora - 1 ELSE hechasHora
    /\ contada' = [contada EXCEPT ![s] = FALSE]
    /\ UNCHANGED <<hechasDia, hayHora>>

\* The undo of the dispatcher's $inc: it goes to the counters of the current
\* day and hour, and an hour without a document has nothing to decrement.
DeshaceCupo(s) ==
    /\ hechasDia' = hechasDia - 1
    /\ hechasHora' = IF hayHora THEN hechasHora - 1 ELSE hechasHora
    /\ contada' = [contada EXCEPT ![s] = FALSE]
    /\ UNCHANGED hayHora

\* calls.create answers: the call exists.
TareaMarca(s) ==
    /\ tarea[s] = "marcar"
    /\ tarea' = [tarea EXCEPT ![s] = "mapear"]
    /\ fase' = [fase EXCEPT ![s] = "timbrando"]
    /\ creada' = [creada EXCEPT ![s] = dia]
    /\ UNCHANGED <<clockVars, rowVars, switchVars, counterVars, loopVars, nuevos, de,
                   mapa, despacho, contada, suelta>>

\* An invalid number, found before or by calls.create: the row leaves the queue.
TareaNumeroInvalido(s) ==
    /\ "invalido" \in Entorno
    /\ tarea[s] = "marcar"
    /\ tarea' = [tarea EXCEPT ![s] = "fin"]
    /\ PonEstado(de[s], "sin_contacto")
    /\ excluir' = [excluir EXCEPT ![de[s]] = TRUE]
    /\ DeshaceCupo(s)
    /\ UNCHANGED <<clockVars, intentos, cita, ultimo, noLlamar, vapi, plan, escaladas,
                   switchVars, loopVars, nuevos, de, fase, mapa, creada, despacho, suelta>>

\* calls.create raises or runs into wait_for's 15 seconds.  The request may
\* have reached Twilio all the same: then there is a call nobody knows of.
TareaFallaCreate(s) ==
    /\ tarea[s] = "marcar"
    /\ tarea' = [tarea EXCEPT ![s] = "fin"]
    /\ PonEstado(de[s], "pendiente")
    /\ DeshaceCupo(s)
    /\ SueltaFila(de[s], cita[de[s]])
    /\ \/ "rechazo" \in Entorno /\ UNCHANGED <<fase, creada>>
       \/ /\ "timeout" \in Entorno
          /\ fase' = [fase EXCEPT ![s] = "timbrando"]
          /\ creada' = [creada EXCEPT ![s] = dia]
    /\ UNCHANGED <<clockVars, intentos, cita, ultimo, noLlamar, excluir, vapi, plan,
                   escaladas, switchVars, loopVars, nuevos, de, mapa, despacho>>

\* The mapping is inserted, then the SID is stored on the row.
TareaMapea(s) ==
    /\ tarea[s] = "mapear"
    /\ tarea' = [tarea EXCEPT ![s] = "vapi"]
    /\ mapa' = [mapa EXCEPT ![s] = TRUE]
    /\ UNCHANGED <<clockVars, rowVars, switchVars, counterVars, loopVars, nuevos, de,
                   fase, historyVars>>

TareaVapi(s) ==
    /\ tarea[s] = "vapi"
    /\ tarea' = [tarea EXCEPT ![s] = "fin"]
    /\ vapi' = [vapi EXCEPT ![de[s]] = s]
    /\ viejo' = [viejo EXCEPT ![de[s]] = FALSE]
    /\ UNCHANGED <<clockVars, estado, intentos, cita, ultimo, noLlamar, excluir, plan,
                   escaladas, switchVars, counterVars, loopVars, nuevos, de, fase, mapa,
                   historyVars>>

\* A Mongo call of the task raises.  The handler takes the call for lost,
\* whether or not calls.create has answered; when Mongo fails the handler as
\* well, the row stays as it is.
TareaFallaMongo(s) ==
    /\ "mongo" \in Entorno
    /\ tarea[s] \in EnVuelo
    /\ tarea' = [tarea EXCEPT ![s] = "fin"]
    /\ \/ /\ PonEstado(de[s], "pendiente")
          /\ DeshaceCupo(s)
          /\ SueltaFila(de[s], cita[de[s]])
       \/ UNCHANGED <<estado, viejo, counterVars, contada, suelta>>
    /\ UNCHANGED <<clockVars, intentos, cita, ultimo, noLlamar, excluir, vapi, plan,
                   escaladas, switchVars, loopVars, nuevos, de, fase, mapa, creada, despacho>>

=============================================================================
