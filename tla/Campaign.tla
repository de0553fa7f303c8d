------------------------------ MODULE Campaign ------------------------------
(***************************************************************************)
(* The voice campaign: planner, dispatcher, dialling tasks, Twilio, bot,   *)
(* callbacks, rescue, dashboard and operator, interleaved on one event     *)
(* loop over the documents in Mongo.                                       *)
(***************************************************************************)
EXTENDS Calls

Init ==
    /\ dia = 0 /\ hora = 0
    /\ estado = [d \in Debtors |-> "pendiente"]
    /\ intentos = [d \in Debtors |-> 0]
    /\ cita = [d \in Debtors |-> Nunca]
    /\ ultimo = [d \in Debtors |-> Nunca]
    /\ noLlamar = [d \in Debtors |-> FALSE]
    /\ excluir = [d \in Debtors |-> FALSE]
    /\ vapi = [d \in Debtors |-> 0]
    /\ viejo = [d \in Debtors |-> FALSE]
    /\ plan = [d \in Debtors |-> Nunca]
    /\ escaladas = [d \in Debtors |-> 0]
    /\ autocall = EnvAutocall
    /\ jobs = IF EnvAutocall THEN "corriendo" ELSE "sin_registrar"
    /\ jornada = {} /\ saldo = TRUE
    /\ hechasDia = 0 /\ hechasHora = 0 /\ hayHora = FALSE
    /\ debidos = {} /\ lote = {}
    /\ nuevos = 0
    /\ de = [s \in Attempts |-> CHOOSE d \in Debtors : TRUE]
    /\ tarea = [s \in Attempts |-> "no"]
    /\ fase = [s \in Attempts |-> "libre"]
    /\ mapa = [s \in Attempts |-> FALSE]
    /\ creada = [s \in Attempts |-> -1]
    /\ despacho = [s \in Attempts |-> -1]
    /\ contada = [s \in Attempts |-> FALSE]
    /\ suelta = [s \in Attempts |-> FALSE]
    /\ cb = [s \in Attempts |-> "no"]
    /\ snap = [s \in Attempts |-> 0]
    /\ leido = [s \in Attempts |-> "no"]
    /\ rescate = [d \in Debtors |-> -1]
    /\ reinicios = 0

-----------------------------------------------------------------------------
\* The actions of Debtors, beside the rest of the system.

DejaTodo == UNCHANGED <<dialerVars, callVars>>
DejaTodoMenosSuelta ==
    UNCHANGED <<switchVars, counterVars, loopVars, nuevos, de, tarea, fase, mapa,
                creada, despacho, contada, callVars>>

PlanLeeJob(d) == jobs = "corriendo" /\ PlanLee(d) /\ DejaTodo

\* An appointment given since the planner read the row is overwritten.
PlanEscribeJob(d) ==
    /\ PlanEscribe(d)
    /\ IF cita[d] = Nunca \/ plan[d] = Agota THEN UNCHANGED suelta
       ELSE SueltaFila(d, plan[d])
    /\ DejaTodoMenosSuelta

Reactivar(d) == ReactivarDebtor(d) /\ SueltaFila(d, cita[d]) /\ DejaTodoMenosSuelta

Job == \/ \E d \in Debtors : PlanLeeJob(d) \/ PlanEscribeJob(d)
       \/ DespachoLee /\ UNCHANGED callVars
       \/ \E d \in Debtors : DespachoMarca(d) /\ UNCHANGED callVars
       \/ RescateLee
       \/ \E d \in Debtors : RescateEscribe(d)

Tarea(s) == /\ \/ TareaKillswitch(s) \/ TareaJornada(s) \/ TareaSaldo(s)
               \/ TareaMarca(s) \/ TareaNumeroInvalido(s) \/ TareaFallaCreate(s)
               \/ TareaMapea(s) \/ TareaVapi(s) \/ TareaFallaMongo(s)
            /\ UNCHANGED callVars

Twilio(s) == \/ NoContesta(s) \/ ContestaMaquina(s) \/ ContestaPersona(s)
             \/ PierdeAviso(s)

Bot(s) == \/ ToolReagendar(s) \/ ToolPromesa(s) \/ ToolEscalate(s) \/ ToolOptOut(s)
          \/ Cuelga(s) \/ BotFalla(s) \/ PostLee(s) \/ PostEscribe(s)

Aviso(s) == AvisoCompleted(s) \/ AvisoNoContesta(s) \/ AvisoReprograma(s)

Persona == \/ \E v \in BOOLEAN : SetAutocallEnabled(v) /\ UNCHANGED callVars
           \/ \E v \in BOOLEAN : SetJornadaAuthorized(v) /\ UNCHANGED callVars
           \/ CambiaSaldo /\ UNCHANGED callVars
           \/ \E d \in Debtors :
                \/ MarcarPagado(d) /\ DejaTodo
                \/ PausarDebtor(d) /\ DejaTodo
                \/ Reactivar(d)
                \/ PatchNoLlamar(d) /\ DejaTodo
                \/ WaEscalate(d) /\ DejaTodo
                \/ LlamadaEntrante(d)

Tiempo == \/ \E d \in Debtors : PasaRato(d)
          \/ \E s \in Attempts : ExpiraMapa(s)
          \/ PasaHora \/ PasaDia

Next == \/ Job
        \/ \E s \in Attempts : Tarea(s) \/ Twilio(s) \/ Bot(s) \/ Aviso(s)
        \/ Persona
        \/ Tiempo
        \/ Reinicio

Spec == Init /\ [][Next]_vars

-----------------------------------------------------------------------------
\* Every document, counter and half-done handler holds a value the code can
\* give it.
TypeOK == RowsTypeOK /\ DialerTypeOK /\ CallsTypeOK

-----------------------------------------------------------------------------
\* The attempt placed a call, and the row was not handed back since: neither
\* by a task that took its own call for lost, nor by the planner, the bot's
\* reagendar tool or a person who reactivated it.
Confirmada(s) == creada[s] # -1 /\ ~suelta[s]

\* "UN intento por deudor por dia": whatever the order in which tasks,
\* callbacks, post-call steps, rescue, planner and people run, two confirmed
\* calls of one row on one day are the same call.
OneCallPerRowAndDay ==
    \A s, t \in Attempts :
        /\ Confirmada(s) /\ Confirmada(t)
        /\ de[s] = de[t] /\ creada[s] = creada[t]
        => s = t

\* The row could be dispatched today: now, or at a later hour.
Libre(d) == /\ estado[d] \in CALLABLE_ESTADOS /\ ~excluir[d]
            /\ cita[d].dia <= dia
            /\ ~HasBeenContactedToday(d)

\* An attempt of today that was not handed back.
Abierto(s) == DeHoy(s) /\ ~suelta[s]

\* While an attempt of a row is open, nothing that is written to the row,
\* from its dispatch to the end of the day, makes it due again today: the
\* estado llamando, the contact date and the next appointment take over from
\* one another without a gap.
HeldWhileOpen == \A s \in Attempts : Abierto(s) => ~Libre(de[s])

\* A row that waits in the dispatcher's batch has no open attempt.
QueuedRowsHaveNone == \A s \in Attempts : Abierto(s) => de[s] \notin lote

OneOpenAttempt ==
    \A s, t \in Attempts : Abierto(s) /\ Abierto(t) /\ de[s] = de[t] => s = t

\* Unused attempts are blank, and no call is dated after today.
AttemptsInOrder ==
    \A s \in Attempts :
        /\ creada[s] <= dia
        /\ s > nuevos => tarea[s] = "no" /\ creada[s] = -1

\* The inductive invariant behind OneCallPerRowAndDay.
OneCallInv == /\ TypeOK
              /\ AttemptsInOrder
              /\ HeldWhileOpen
              /\ QueuedRowsHaveNone
              /\ OneOpenAttempt
              /\ OneCallPerRowAndDay

\* llamadas_iniciadas of the day is the number of today's dispatches whose
\* $inc was not undone: no task undoes it twice or undoes another one's.
QuotaBalances ==
    hechasDia = Cardinality({s \in Attempts : contada[s] /\ despacho[s] = dia})

\* The dispatcher never counts more than llamadas_por_dia, although it reads
\* the counter once and then marks a batch.
QuotaRespected == hechasDia <= Cupo

\* The attempts that the dispatcher has made for a row; the others are calls
\* of the clients.
Saliente(s)  == despacho[s] # -1
Despachos(d) == {s \in Attempts : de[s] = d /\ Saliente(s)}

\* What may be counted in intentos[d].
Hechos(d) == escaladas[d] + Cardinality(Despachos(d))

\* intentos never exceeds what was dispatched or escalated: the callback, the
\* post-call step and the rescue do not count one attempt twice.
AttemptsAccountedFor == \A d \in Debtors : intentos[d] <= Hechos(d)

\* The row was escalated, or handed back with a call placed that may still
\* count: what the writers of intentos have read no longer tells the attempts.
Estorbada(d) ==
    \/ escaladas[d] > 0
    \/ \E s \in Attempts : de[s] = d /\ suelta[s] /\ creada[s] # -1

\* A row is given up as agotado only after max_intentos attempts, whoever
\* decides it: planner, callback, rescue, or post-call step, each on a copy
\* of intentos read earlier.
ExhaustedAfterMaxAttempts ==
    \A d \in Debtors :
       estado[d] = "agotado" => intentos[d] >= MaxIntentos \/ Estorbada(d)

\* No writer of intentos, which callback and rescue set from a value read
\* earlier, ever lowers it, unless somebody pauses the row or calls in.
AttemptsNeverForgotten ==
    [][\A d \in Debtors : intentos'[d] >= intentos[d] \/ Estorbada(d)]_vars

-----------------------------------------------------------------------------
\* The register of attempts that this campaign keeps.

Hoy(d) == IF \E s \in Attempts : de[s] = d /\ Abierto(s) /\ creada[s] = dia THEN "llamada"
          ELSE IF \E s \in Attempts : de[s] = d /\ Abierto(s) THEN "abierta"
          ELSE "libre"

\* The attempt may still post its outcome.  A task that ends after its call
\* was answered, or before its call exists, has nothing to say to the row.
Vivo(s) == /\ Saliente(s)
           /\ \/ tarea[s] \in EnVuelo /\ (fase[s] = "libre" \/ cb[s] = "no-answer")
              \/ fase[s] \in Abierta

\* The callback that reports it finds the row by its SID.
Reportado(s) == Saliente(s) /\ vapi[de[s]] = s /\ cb[s] = "no-answer"

PorContar(d) == {s \in Attempts : de[s] = d /\ (Vivo(s) \/ Reportado(s))}

\* The copies of intentos[d] that a callback or the rescue holds.
Leidos(d) == {snap[s] : s \in {t \in Attempts : de[t] = d /\ cb[t] = "reprograma"}}
             \cup ({rescate[d]} \ {-1})

\* The last attempt may still count: somebody may report it, the rescue will
\* find the row in llamando, or a copy of intentos is about to be written.
Cuenta(d) == PorContar(d) # {} \/ estado[d] = "llamando" \/ intentos[d] \in Leidos(d)

Registro == INSTANCE ContactRegister WITH
    hoy      <- [d \in Debtors |-> Hoy(d)],
    hechos   <- [d \in Debtors |-> Hechos(d)],
    contados <- intentos,
    cuentan  <- {d \in Debtors : Cuenta(d) /\ ~Estorbada(d)},
    turbias  <- {d \in Debtors : Estorbada(d)}

\* Dispatcher, tasks, calls, callbacks, rescue, planner and restart together
\* take one step of the register at a time: whatever they have read before,
\* no row is opened twice or called twice in a day, an attempt counts once at
\* most, and no count is lost but that of a row in turbias.  It holds while
\* nobody pauses a row or calls in.
KeepsRegister == Registro!RegisterSpec

-----------------------------------------------------------------------------
\* What the event loop, Twilio and the clock keep doing.  Nothing obliges a
\* person to act, the dispatcher to find slots, or a callback to arrive.
Fairness ==
    /\ \A s \in Attempts :
         /\ WF_vars(Tarea(s))
         /\ WF_vars(NoContesta(s) \/ ContestaMaquina(s) \/ ContestaPersona(s))
         /\ WF_vars(Cuelga(s) \/ PostLee(s) \/ PostEscribe(s))
         /\ WF_vars(AvisoReprograma(s))
         /\ WF_vars(ExpiraMapa(s))
    /\ \A d \in Debtors :
         /\ WF_vars(PlanEscribeJob(d))
         /\ WF_vars(DespachoMarca(d) /\ UNCHANGED callVars)
         /\ WF_vars(PasaRato(d))
         /\ WF_vars(RescateEscribe(d))
    /\ WF_vars(RescateLee)

FairSpec == Spec /\ Fairness

\* A row does not stay in llamando for ever: however its task, its call and
\* its callbacks end, or fail to, someone takes it out of there.
DialledRowsAreReleased ==
    \A d \in Debtors : estado[d] = "llamando" ~> estado[d] # "llamando"

-----------------------------------------------------------------------------
\* What the comments of the code say, and the code does not do.

\* sequence_engine.py:406-414: one attempt a day for each client, whose other
\* rows stay unmarked for the day.
OneCallPerClientAndDay ==
    \A s, t \in Attempts :
        /\ Confirmada(s) /\ Confirmada(t)
        /\ Cliente[de[s]] = Cliente[de[t]] /\ creada[s] = creada[t]
        => s = t

\* sequence_engine.py:343-347: a task that a gate aborts does not use up the
\* quota of the day: what counts and is over has placed a call.
AbortsDoNotUseQuota ==
    \A s \in Attempts : contada[s] /\ tarea[s] = "fin" => creada[s] # -1

=============================================================================
