--------------------------- MODULE CampaignProofs ---------------------------
(***************************************************************************)
(* Theorems about the voice campaign, for any number of rows, clients,     *)
(* attempts, days and hours, any quota, and every set of environment       *)
(* events: the state is well typed, a row gets at most one confirmed call  *)
(* a day, and the dispatcher keeps within the quota.                       *)
(***************************************************************************)
EXTENDS Campaign, FiniteSetTheorems, TLAPS

LEMMA InitType == Init => TypeOK
<1>. SUFFICES ASSUME Init PROVE TypeOK
  OBVIOUS
<1>. USE DebtorsAssumption, DialerAssumption, CallsAssumption
<1>. DEFINE alguna == CHOOSE d \in Debtors : TRUE
<1>1. alguna \in Debtors
  BY DEF DebtorsAssumption
<1>2. RowsTypeOK
  BY DEF Init, RowsTypeOK, Estados, Instantes, Nunca, DebtorsAssumption
<1>3. DialerTypeOK
  <2>1. autocall \in BOOLEAN /\ jobs \in {"corriendo", "pausados", "sin_registrar"}
    BY DEF Init, DialerAssumption
  <2>2. saldo \in BOOLEAN /\ hayHora \in BOOLEAN
    BY DEF Init
  <2>2c. hechasDia \in Int /\ hechasHora \in Int
    BY DEF Init
  <2>2d. jornada \subseteq Nat
    BY DEF Init
  <2>2a. debidos \subseteq Debtors /\ lote \subseteq Debtors
    BY DEF Init
  <2>2b. nuevos \in 0..MaxIntento
    BY DEF Init, DialerAssumption
  <2>3. de \in [Attempts -> Debtors]
    <3>1. de = [s \in Attempts |-> alguna]
      BY DEF Init
    <3>. HIDE DEF alguna
    <3>. QED
      BY <1>1, <3>1
  <2>4. tarea \in [Attempts -> Tareas] /\ fase \in [Attempts -> Fases]
    BY DEF Init, Tareas, Fases
  <2>5. /\ mapa \in [Attempts -> BOOLEAN]
        /\ creada \in [Attempts -> Int] /\ despacho \in [Attempts -> Int]
        /\ contada \in [Attempts -> BOOLEAN] /\ suelta \in [Attempts -> BOOLEAN]
    BY DEF Init
  <2>. QED
    BY <2>1, <2>2, <2>2c, <2>2d, <2>2a, <2>2b, <2>3, <2>4, <2>5 DEF DialerTypeOK
<1>4. CallsTypeOK
  BY DEF Init, CallsTypeOK, Avisos
<1>. QED
  BY <1>2, <1>3, <1>4 DEF TypeOK

\* The planner's verdict is an appointment or Agota.
LEMMA VerdictType ==
    ASSUME RowsTypeOK, NEW d \in Debtors, NEW v \in ComputeProximoIntento(d)
    PROVE  v \in Instantes
<1>2. CASE estado[d] = "reagendado"
  BY <1>2, DebtorsAssumption
     DEF ComputeProximoIntento, CitasDeCliente, Instantes, RowsTypeOK, DebtorsAssumption
<1>3. CASE estado[d] # "reagendado" /\ intentos[d] >= MaxIntentos
  BY <1>3 DEF ComputeProximoIntento, Agota, Instantes
<1>4. CASE estado[d] # "reagendado" /\ ~(intentos[d] >= MaxIntentos)
  <2>1. PICK t \in dia..(MaxDia + 1) :
          v = [dia |-> DiaObjetivo(d, t), hora |-> HoraObjetivo(d)]
    BY <1>4 DEF ComputeProximoIntento
  <2>2. ultimo[d] \in Instantes
    BY DEF RowsTypeOK
  <2>3. DiaObjetivo(d, t) \in Int /\ HoraObjetivo(d) \in Int
    BY <2>2, DebtorsAssumption
       DEF DiaObjetivo, HoraObjetivo, HoraReintento, Instantes, DebtorsAssumption, RowsTypeOK
  <2>. QED
    BY <2>1, <2>3 DEF Instantes
<1>. QED
  BY <1>2, <1>3, <1>4

\* What a failed attempt writes.
LEMMA RescheduleType ==
    ASSUME RowsTypeOK, NEW d \in Debtors, NEW n \in Nat,
           RescheduleIntentoFallido(d, n), UNCHANGED <<clockVars, plan, escaladas>>
    PROVE  RowsTypeOK'
<1>1. [dia |-> dia + 1, hora |-> HoraReintento(hora)] \in Instantes /\ Nunca \in Instantes
  BY DebtorsAssumption DEF HoraReintento, Nunca, Instantes, RowsTypeOK, DebtorsAssumption
<1>2. cita' \in [Debtors -> Instantes]
  BY <1>1 DEF RescheduleIntentoFallido, RowsTypeOK
<1>3. estado' \in [Debtors -> Estados] /\ viejo' \in [Debtors -> BOOLEAN]
  BY DEF RescheduleIntentoFallido, RowsTypeOK, PonEstado, Estados
<1>. QED
  BY <1>2, <1>3 DEF RescheduleIntentoFallido, RowsTypeOK, clockVars

\* What an escalation writes.
LEMMA EscalateType ==
    ASSUME RowsTypeOK, NEW d \in Debtors, Escalate(d), UNCHANGED clockVars
    PROVE  RowsTypeOK'
<1>1. estado' \in [Debtors -> Estados] /\ viejo' \in [Debtors -> BOOLEAN]
  BY DEF Escalate, RowsTypeOK, PonEstado, Estados
<1>2. intentos' \in [Debtors -> Nat] /\ escaladas' \in [Debtors -> Nat]
  BY DEF Escalate, RowsTypeOK
<1>. QED
  BY <1>1, <1>2 DEF Escalate, RowsTypeOK, clockVars

LEMMA PlanType ==
    ASSUME TypeOK, NEW d \in Debtors, PlanLeeJob(d) \/ PlanEscribeJob(d)
    PROVE  TypeOK'
<1>. USE DEF TypeOK
<1>1. CASE PlanLeeJob(d)
  <2>1. RowsTypeOK'
    BY <1>1, VerdictType DEF RowsTypeOK, PlanLeeJob, PlanLee, clockVars, debtorVars
  <2>2. DialerTypeOK' /\ CallsTypeOK'
    BY <1>1 DEF DialerTypeOK, CallsTypeOK, PlanLeeJob, DejaTodo, dialerVars, switchVars,
                counterVars, loopVars, attemptVars, historyVars, callVars
  <2>. QED
    BY <2>1, <2>2
<1>2. CASE PlanEscribeJob(d)
  <2>0. Nunca \in Instantes
    BY DEF Nunca, Instantes
  <2>1. RowsTypeOK'
    BY <1>2, <2>0 DEF RowsTypeOK, PlanEscribeJob, PlanEscribe, PonEstado, Estados, clockVars
  <2>2. DialerTypeOK' /\ CallsTypeOK'
    BY <1>2 DEF DialerTypeOK, CallsTypeOK, PlanEscribeJob, DejaTodoMenosSuelta, SueltaFila,
                switchVars, counterVars, loopVars, callVars
  <2>. QED
    BY <2>1, <2>2
<1>. QED
  BY <1>1, <1>2

LEMMA DispatchType ==
    ASSUME TypeOK, UNCHANGED callVars,
           DespachoLee \/ (\E d \in Debtors : DespachoMarca(d))
    PROVE  TypeOK'
<1>. USE DEF TypeOK
<1>1. CASE DespachoLee
  <2>1. RowsTypeOK' /\ CallsTypeOK'
    BY <1>1 DEF RowsTypeOK, CallsTypeOK, DespachoLee, clockVars, rowVars, debtorVars, callVars
  <2>2. debidos' \subseteq Debtors /\ lote' \subseteq Debtors
    BY <1>1 DEF DespachoLee
  <2>3. DialerTypeOK'
    BY <1>1, <2>2 DEF DialerTypeOK, DespachoLee, switchVars, counterVars, attemptVars, historyVars
  <2>. QED
    BY <2>1, <2>3
<1>2. CASE \E d \in Debtors : DespachoMarca(d)
  <2>. PICK d \in Debtors : DespachoMarca(d)
    BY <1>2
  <2>1. RowsTypeOK'
    BY DEF RowsTypeOK, DespachoMarca, Hermanas, Ahora, Instantes, Estados, clockVars,
           DebtorsAssumption
  <2>2. DialerTypeOK'
    BY DEF DialerTypeOK, RowsTypeOK, DespachoMarca, switchVars, Attempts, Tareas, Fases
  <2>3. CallsTypeOK'
    BY DEF CallsTypeOK, callVars
  <2>. QED
    BY <2>1, <2>2, <2>3
<1>. QED
  BY <1>1, <1>2

LEMMA TaskType ==
    ASSUME TypeOK, NEW s \in Attempts, Tarea(s)
    PROVE  TypeOK'
<1>. USE DEF TypeOK, DialerTypeOK, RowsTypeOK
<1>0. CallsTypeOK'
  BY DEF CallsTypeOK, Tarea, callVars
<1>1. CASE TareaKillswitch(s) \/ TareaJornada(s) \/ TareaSaldo(s)
  <2>1. RowsTypeOK'
    BY <1>1 DEF TareaKillswitch, TareaJornada, TareaSaldo, Gate, Aborta, PonEstado,
                Estados, clockVars
  <2>2. DialerTypeOK'
    BY <1>1 DEF TareaKillswitch, TareaJornada, TareaSaldo, Gate, Aborta, SueltaFila,
                Tareas, switchVars, counterVars, loopVars
  <2>. QED
    BY <1>0, <2>1, <2>2
<1>2. CASE TareaMarca(s) \/ TareaMapea(s)
  <2>1. RowsTypeOK'
    BY <1>2 DEF TareaMarca, TareaMapea, clockVars, rowVars, debtorVars
  <2>2. CASE TareaMarca(s)
    BY <1>0, <2>1, <2>2 DEF TareaMarca, Tareas, Fases, switchVars, counterVars, loopVars
  <2>3. CASE TareaMapea(s)
    BY <1>0, <2>1, <2>3 DEF TareaMapea, Tareas, switchVars, counterVars, loopVars, historyVars
  <2>. QED
    BY <1>2, <2>2, <2>3
<1>3. CASE TareaVapi(s)
  <2>1. RowsTypeOK'
    BY <1>3, DialerAssumption DEF TareaVapi, Attempts, clockVars, DialerAssumption
  <2>2. DialerTypeOK'
    BY <1>3 DEF TareaVapi, Tareas, switchVars, counterVars, loopVars, historyVars
  <2>. QED
    BY <1>0, <2>1, <2>2
<1>4. CASE TareaNumeroInvalido(s)
  <2>1. RowsTypeOK'
    BY <1>4 DEF TareaNumeroInvalido, PonEstado, Estados, clockVars
  <2>2. DialerTypeOK'
    BY <1>4 DEF TareaNumeroInvalido, DeshaceCupo, Tareas, switchVars, loopVars
  <2>. QED
    BY <1>0, <2>1, <2>2
<1>5. CASE TareaFallaCreate(s)
  <2>1. RowsTypeOK'
    BY <1>5 DEF TareaFallaCreate, PonEstado, Estados, clockVars
  <2>2. DialerTypeOK'
    BY <1>5 DEF TareaFallaCreate, DeshaceCupo, SueltaFila, Tareas, Fases, switchVars, loopVars
  <2>. QED
    BY <1>0, <2>1, <2>2
<1>6. CASE TareaFallaMongo(s)
  <2>1. RowsTypeOK'
    BY <1>6 DEF TareaFallaMongo, PonEstado, Estados, clockVars
  <2>2. /\ hechasDia' \in Int /\ hechasHora' \in Int /\ hayHora' \in BOOLEAN
        /\ contada' \in [Attempts -> BOOLEAN]
    <3>1. CASE DeshaceCupo(s)
      BY <3>1 DEF DeshaceCupo
    <3>2. CASE UNCHANGED <<counterVars, contada>>
      BY <3>2 DEF counterVars
    <3>. QED
      BY <1>6, <3>1, <3>2 DEF TareaFallaMongo
  <2>3. suelta' \in [Attempts -> BOOLEAN]
    BY <1>6 DEF TareaFallaMongo, SueltaFila
  <2>4. DialerTypeOK'
    BY <1>6, <2>2, <2>3 DEF TareaFallaMongo, Tareas, switchVars, loopVars
  <2>. QED
    BY <1>0, <2>1, <2>4
<1>. QED
  BY <1>1, <1>2, <1>3, <1>4, <1>5, <1>6 DEF Tarea

LEMMA TwilioType ==
    ASSUME TypeOK, NEW s \in Attempts, Twilio(s)
    PROVE  TypeOK'
<1>. USE DEF TypeOK
<1>1. RowsTypeOK'
  BY DEF RowsTypeOK, Twilio, NoContesta, ContestaMaquina, ContestaPersona, PierdeAviso,
         clockVars, rowVars, debtorVars
<1>2. CallsTypeOK'
  <2>1. cb' \in [Attempts -> Avisos]
    BY DEF CallsTypeOK, Avisos, Twilio, NoContesta, ContestaMaquina, ContestaPersona,
           PierdeAviso
  <2>2. snap' \in [Attempts -> Nat]
    BY DEF CallsTypeOK, DialerTypeOK, RowsTypeOK, Twilio, NoContesta, ContestaMaquina,
           ContestaPersona, PierdeAviso
  <2>. QED
    BY <2>1, <2>2 DEF CallsTypeOK, Twilio, NoContesta, ContestaMaquina, ContestaPersona,
           PierdeAviso
<1>3. CASE NoContesta(s) \/ ContestaMaquina(s) \/ ContestaPersona(s)
  <2>1. fase' \in [Attempts -> Fases]
    BY <1>3 DEF DialerTypeOK, Fases, NoContesta, ContestaMaquina, ContestaPersona
  <2>2. DialerTypeOK'
    BY <1>3, <2>1 DEF DialerTypeOK, NoContesta, ContestaMaquina, ContestaPersona, switchVars,
                      counterVars, loopVars, historyVars
  <2>. QED
    BY <1>1, <1>2, <2>2
<1>4. CASE PierdeAviso(s)
  BY <1>1, <1>2, <1>4 DEF DialerTypeOK, PierdeAviso, dialerVars, switchVars, counterVars,
                          loopVars, attemptVars, historyVars
<1>. QED
  BY <1>3, <1>4 DEF Twilio

LEMMA InboundType ==
    ASSUME TypeOK, NEW d \in Debtors, LlamadaEntrante(d)
    PROVE  TypeOK'
<1>. USE DEF TypeOK
<1>1. RowsTypeOK'
  BY DEF RowsTypeOK, LlamadaEntrante, clockVars, rowVars, debtorVars
<1>2. nuevos' \in 0..MaxIntento
  <2>1. Cardinality(lote) \in Nat
    BY DebtorsAssumption, FS_Subset, FS_CardinalityType DEF DialerTypeOK, DebtorsAssumption
  <2>. QED
    BY <2>1, DialerAssumption DEF LlamadaEntrante, DialerTypeOK, DialerAssumption
<1>3. DialerTypeOK'
  BY <1>2 DEF DialerTypeOK, LlamadaEntrante, Fases, switchVars, counterVars, loopVars,
              historyVars
<1>4. CallsTypeOK'
  BY DEF CallsTypeOK, RowsTypeOK, LlamadaEntrante
<1>. QED
  BY <1>1, <1>3, <1>4

\* The bot's tools write the row alone.
LEMMA ToolType ==
    ASSUME TypeOK, NEW s \in Attempts,
           ToolReagendar(s) \/ ToolPromesa(s) \/ ToolEscalate(s) \/ ToolOptOut(s)
    PROVE  TypeOK'
<1>. USE DEF TypeOK
<1>. de[s] \in Debtors
  BY DEF DialerTypeOK
<1>1. CASE ToolReagendar(s)
  <2>1. \A c \in CitasDeCliente : c \in Instantes
    BY DebtorsAssumption DEF CitasDeCliente, Instantes, RowsTypeOK, DebtorsAssumption
  <2>2. RowsTypeOK'
    BY <1>1, <2>1 DEF RowsTypeOK, ToolReagendar, PonEstado, Estados, clockVars
  <2>3. DialerTypeOK'
    BY <1>1 DEF DialerTypeOK, ToolReagendar, SueltaFila, switchVars, counterVars, loopVars
  <2>4. CallsTypeOK'
    BY <1>1 DEF CallsTypeOK, ToolReagendar, callVars
  <2>. QED
    BY <2>2, <2>3, <2>4
<1>2. CASE ToolPromesa(s) \/ ToolEscalate(s) \/ ToolOptOut(s)
  <2>1. ToolPromesa(s) \/ ToolEscalate(s) => RowsTypeOK'
    BY EscalateType DEF RowsTypeOK, ToolPromesa, ToolEscalate, PonEstado, Estados, clockVars
  <2>2. ToolOptOut(s) => RowsTypeOK'
    BY DEF RowsTypeOK, ToolOptOut, clockVars
  <2>3. DialerTypeOK' /\ CallsTypeOK'
    BY <1>2 DEF DialerTypeOK, CallsTypeOK, ToolPromesa, ToolEscalate, ToolOptOut, dialerVars,
                switchVars, counterVars, loopVars, attemptVars, historyVars, callVars
  <2>. QED
    BY <1>2, <2>1, <2>2, <2>3
<1>. QED
  BY <1>1, <1>2

LEMMA HangUpType ==
    ASSUME TypeOK, NEW s \in Attempts,
           Cuelga(s) \/ BotFalla(s) \/ PostLee(s) \/ PostEscribe(s)
    PROVE  TypeOK'
<1>. USE DEF TypeOK
<1>. de[s] \in Debtors
  BY DEF DialerTypeOK
<1>1. CASE Cuelga(s) \/ BotFalla(s) \/ PostLee(s)
  <2>1. RowsTypeOK'
    BY <1>1 DEF RowsTypeOK, Cuelga, BotFalla, PostLee, clockVars, rowVars, debtorVars
  <2>2. DialerTypeOK'
    BY <1>1 DEF DialerTypeOK, Fases, Cuelga, BotFalla, PostLee, switchVars, counterVars,
                loopVars, historyVars
  <2>3. CallsTypeOK'
    BY <1>1 DEF CallsTypeOK, RowsTypeOK, Avisos, Estados, Cuelga, BotFalla, PostLee
  <2>. QED
    BY <2>1, <2>2, <2>3
<1>2. CASE PostEscribe(s)
  <2>1. \A contacto \in BOOLEAN :
          leido[s] \in Estados \cup {"no"} => EstadoFinal(s, contacto) \in Estados
    BY DEF EstadoFinal, TERMINAL_ESTADOS, Estados
  <2>2. estado' \in [Debtors -> Estados] /\ viejo' \in [Debtors -> BOOLEAN]
    BY <1>2, <2>1 DEF RowsTypeOK, CallsTypeOK, PostEscribe, PonEstado
  <2>3. Ahora \in Instantes /\ Nunca \in Instantes
    BY DebtorsAssumption DEF Ahora, Nunca, Instantes, RowsTypeOK, DebtorsAssumption
  <2>4. /\ ultimo' \in [Debtors -> Instantes]
        /\ cita' \in [Debtors -> Instantes]
        /\ intentos' \in [Debtors -> Nat]
        /\ vapi' \in [Debtors -> Nat]
    BY <1>2, <2>3 DEF RowsTypeOK, PostEscribe
  <2>5. RowsTypeOK'
    BY <1>2, <2>2, <2>4 DEF RowsTypeOK, PostEscribe, clockVars
  <2>6. DialerTypeOK'
    BY <1>2 DEF DialerTypeOK, Fases, PostEscribe, switchVars, counterVars, loopVars, historyVars
  <2>7. CallsTypeOK'
    BY <1>2 DEF CallsTypeOK, PostEscribe
  <2>. QED
    BY <2>5, <2>6, <2>7
<1>. QED
  BY <1>1, <1>2

LEMMA CallbackType ==
    ASSUME TypeOK, NEW s \in Attempts, Aviso(s)
    PROVE  TypeOK'
<1>. USE DEF TypeOK
<1>. de[s] \in Debtors /\ snap[s] \in Nat
  BY DEF DialerTypeOK, CallsTypeOK
<1>1. CASE AvisoCompleted(s) \/ AvisoNoContesta(s)
  <2>1. RowsTypeOK'
    BY <1>1 DEF RowsTypeOK, AvisoCompleted, AvisoNoContesta, clockVars, rowVars, debtorVars
  <2>2. DialerTypeOK'
    BY <1>1 DEF DialerTypeOK, AvisoCompleted, AvisoNoContesta, switchVars, counterVars,
                loopVars, historyVars
  <2>3. CallsTypeOK'
    BY <1>1 DEF CallsTypeOK, RowsTypeOK, Avisos, AvisoCompleted, AvisoNoContesta
  <2>. QED
    BY <2>1, <2>2, <2>3
<1>2. CASE AvisoReprograma(s)
  <2>1. RowsTypeOK'
    BY <1>2, RescheduleType DEF AvisoReprograma
  <2>2. DialerTypeOK' /\ CallsTypeOK'
    BY <1>2 DEF DialerTypeOK, CallsTypeOK, Avisos, AvisoReprograma, dialerVars, switchVars,
                counterVars, loopVars, attemptVars, historyVars
  <2>. QED
    BY <2>1, <2>2
<1>. QED
  BY <1>1, <1>2 DEF Aviso

LEMMA RescueType ==
    ASSUME TypeOK, RescateLee \/ (\E d \in Debtors : RescateEscribe(d))
    PROVE  TypeOK'
<1>. USE DEF TypeOK
<1>1. CASE RescateLee
  BY <1>1 DEF RowsTypeOK, DialerTypeOK, CallsTypeOK, RescateLee, clockVars, rowVars,
              debtorVars, dialerVars, switchVars, counterVars, loopVars, attemptVars, historyVars
<1>2. CASE \E d \in Debtors : RescateEscribe(d)
  <2>. PICK d \in Debtors : RescateEscribe(d)
    BY <1>2
  <2>1. rescate[d] \in Nat
    BY DEF RescateEscribe, CallsTypeOK
  <2>2. RowsTypeOK'
    BY <2>1, RescheduleType DEF RescateEscribe
  <2>3. DialerTypeOK' /\ CallsTypeOK'
    BY DEF DialerTypeOK, CallsTypeOK, RescateEscribe, dialerVars, switchVars, counterVars,
           loopVars, attemptVars, historyVars
  <2>. QED
    BY <2>2, <2>3
<1>. QED
  BY <1>1, <1>2

\* The operator's switches, and the dashboard.
LEMMA PeopleType ==
    ASSUME TypeOK, Persona
    PROVE  TypeOK'
<1>. USE DEF TypeOK
<1>1. CASE \E v \in BOOLEAN : \/ SetAutocallEnabled(v) /\ UNCHANGED callVars
                              \/ SetJornadaAuthorized(v) /\ UNCHANGED callVars
  <2>. PICK v \in BOOLEAN : \/ SetAutocallEnabled(v) /\ UNCHANGED callVars
                            \/ SetJornadaAuthorized(v) /\ UNCHANGED callVars
    BY <1>1
  <2>1. RowsTypeOK' /\ CallsTypeOK'
    BY DEF RowsTypeOK, CallsTypeOK, SetAutocallEnabled, SetJornadaAuthorized, clockVars,
           rowVars, debtorVars, callVars
  <2>2. jornada' \subseteq Nat
    <3>1. {dia, dia + 1} \subseteq Nat /\ jornada \subseteq Nat
      BY DEF RowsTypeOK, DialerTypeOK
    <3>2. CASE SetAutocallEnabled(v)
      BY <3>1, <3>2 DEF SetAutocallEnabled
    <3>3. CASE SetJornadaAuthorized(v)
      BY <3>1, <3>3 DEF SetJornadaAuthorized
    <3>. QED
      BY <3>2, <3>3
  <2>3. DialerTypeOK'
    BY <2>2 DEF DialerTypeOK, SetAutocallEnabled, SetJornadaAuthorized, counterVars, loopVars,
                attemptVars, historyVars
  <2>. QED
    BY <2>1, <2>3
<1>2. CASE CambiaSaldo /\ UNCHANGED callVars
  <2>1. saldo' \in BOOLEAN
    BY <1>2 DEF CambiaSaldo
  <2>2. DialerTypeOK'
    BY <1>2, <2>1 DEF DialerTypeOK, CambiaSaldo, counterVars, loopVars, attemptVars, historyVars
  <2>3. RowsTypeOK' /\ CallsTypeOK'
    BY <1>2 DEF RowsTypeOK, CallsTypeOK, CambiaSaldo, clockVars, rowVars, debtorVars, callVars
  <2>. QED
    BY <2>2, <2>3
<1>3. ASSUME NEW d \in Debtors,
             MarcarPagado(d) \/ PausarDebtor(d) \/ PatchNoLlamar(d) \/ WaEscalate(d),
             DejaTodo
      PROVE  TypeOK'
  <2>1. DialerTypeOK' /\ CallsTypeOK'
    BY <1>3 DEF DialerTypeOK, CallsTypeOK, DejaTodo, dialerVars, switchVars, counterVars,
                loopVars, attemptVars, historyVars, callVars
  <2>2. MarcarPagado(d) \/ PausarDebtor(d) \/ WaEscalate(d) => RowsTypeOK'
    BY EscalateType DEF RowsTypeOK, MarcarPagado, PausarDebtor, WaEscalate, PonEstado,
       Estados, clockVars
  <2>3. PatchNoLlamar(d) => RowsTypeOK'
    BY DEF RowsTypeOK, PatchNoLlamar, clockVars
  <2>. QED
    BY <1>3, <2>1, <2>2, <2>3
<1>4. ASSUME NEW d \in Debtors, Reactivar(d)
      PROVE  TypeOK'
  <2>1. RowsTypeOK'
    BY <1>4 DEF RowsTypeOK, Reactivar, ReactivarDebtor, PonEstado, Estados, clockVars
  <2>2. DialerTypeOK' /\ CallsTypeOK'
    BY <1>4 DEF DialerTypeOK, CallsTypeOK, Reactivar, SueltaFila, DejaTodoMenosSuelta,
                switchVars, counterVars, loopVars, callVars
  <2>. QED
    BY <2>1, <2>2
<1>. QED
  BY <1>1, <1>2, <1>3, <1>4, InboundType DEF Persona

\* The clock, and the restart.
LEMMA TimeType ==
    ASSUME TypeOK, Tiempo \/ Reinicio
    PROVE  TypeOK'
<1>. USE DEF TypeOK
<1>1. CASE \E d \in Debtors : PasaRato(d)
  BY <1>1 DEF RowsTypeOK, DialerTypeOK, CallsTypeOK, PasaRato, clockVars, dialerVars,
              switchVars, counterVars, loopVars, attemptVars, historyVars, callVars
<1>2. CASE \E s \in Attempts : ExpiraMapa(s)
  BY <1>2 DEF RowsTypeOK, DialerTypeOK, CallsTypeOK, ExpiraMapa, clockVars, rowVars,
              debtorVars, switchVars, counterVars, loopVars, historyVars, callVars
<1>3. CASE PasaHora \/ PasaDia
  <2>1. RowsTypeOK'
    BY <1>3, DebtorsAssumption DEF RowsTypeOK, PasaHora, PasaDia, rowVars, debtorVars,
       DebtorsAssumption
  <2>2. jornada' \subseteq Nat
    BY <1>3 DEF DialerTypeOK, PasaHora, PasaDia, switchVars
  <2>3. hechasDia' \in Int /\ hechasHora' \in Int
    BY <1>3 DEF DialerTypeOK, PasaHora, PasaDia
  <2>4. hayHora' \in BOOLEAN
    BY <1>3 DEF PasaHora, PasaDia
  <2>5. DialerTypeOK' /\ CallsTypeOK'
    BY <1>3, <2>2, <2>3, <2>4 DEF DialerTypeOK, CallsTypeOK, PasaHora, PasaDia, switchVars, loopVars,
       attemptVars, historyVars, callVars
  <2>. QED
    BY <2>1, <2>5
<1>4. CASE Reinicio
  <2>1. RowsTypeOK'
    <3>1. Nunca \in Instantes
      BY DEF Nunca, Instantes
    <3>. QED
      BY <1>4, <3>1 DEF RowsTypeOK, Reinicio, clockVars, debtorVars
  <2>2. tarea' \in [Attempts -> Tareas] /\ fase' \in [Attempts -> Fases]
    BY <1>4 DEF DialerTypeOK, Reinicio, Tareas, Fases
  <2>3. /\ jobs' \in {"corriendo", "pausados", "sin_registrar"}
        /\ lote' = {} /\ debidos' = {}
    BY <1>4 DEF Reinicio
  <2>4. DialerTypeOK'
    BY <1>4, <2>2, <2>3 DEF DialerTypeOK, Reinicio, counterVars, historyVars
  <2>5. CallsTypeOK'
    BY <1>4 DEF CallsTypeOK, Reinicio, Avisos
  <2>. QED
    BY <2>1, <2>4, <2>5
<1>. QED
  BY <1>1, <1>2, <1>3, <1>4 DEF Tiempo

LEMMA NextType == TypeOK /\ [Next]_vars => TypeOK'
<1>. SUFFICES ASSUME TypeOK, [Next]_vars PROVE TypeOK'
  OBVIOUS
<1>1. CASE Job
  BY <1>1, PlanType, DispatchType, RescueType DEF Job
<1>2. ASSUME NEW s \in Attempts, Tarea(s) \/ Twilio(s) \/ Bot(s) \/ Aviso(s)
      PROVE  TypeOK'
  BY <1>2, TaskType, TwilioType, ToolType, HangUpType, CallbackType DEF Bot
<1>3. CASE Persona \/ Tiempo \/ Reinicio
  BY <1>3, PeopleType, TimeType
<1>4. CASE UNCHANGED vars
  BY <1>4 DEF vars, TypeOK, RowsTypeOK, DialerTypeOK, CallsTypeOK, clockVars, rowVars,
              debtorVars, dialerVars, switchVars, counterVars, loopVars, attemptVars,
              historyVars, callVars
<1>. QED
  BY <1>1, <1>2, <1>3, <1>4 DEF Next

\* Every document, counter and half-done handler keeps a value of its type.
THEOREM Typing == Spec => []TypeOK
  BY InitType, NextType, PTL DEF Spec

-----------------------------------------------------------------------------
\* One call per row and day.

\* What nearly every step does: no attempt is added or comes back, and a row
\* that becomes free has had its attempts of today released.
AttemptsKeep ==
    /\ nuevos' = nuevos /\ de' = de
    /\ \A s \in Attempts :
         /\ DeHoy(s)' => DeHoy(s)
         /\ creada'[s] = creada[s] \/ (creada'[s] = dia /\ DeHoy(s))
         /\ tarea[s] = "no" => tarea'[s] = "no" /\ creada'[s] = creada[s]

Benign ==
    /\ dia' = dia /\ lote' \subseteq lote
    /\ AttemptsKeep
    /\ \A s \in Attempts : suelta[s] => suelta'[s]
    /\ \A d \in Debtors :
         Libre(d)' => \/ Libre(d)
                      \/ \A s \in Attempts : de[s] = d /\ DeHoy(s) => suelta'[s]

LEMMA BenignStep ==
    ASSUME OneCallInv, TypeOK', Benign
    PROVE  OneCallInv'
<1>. USE DEF OneCallInv
<1>1. ASSUME NEW s \in Attempts, Abierto(s)'
      PROVE  Abierto(s) /\ de'[s] = de[s] /\ de[s] \in Debtors
  BY <1>1 DEF Benign, AttemptsKeep, Abierto, TypeOK, DialerTypeOK
<1>2. AttemptsInOrder'
  BY DEF AttemptsInOrder, Benign, AttemptsKeep, TypeOK, RowsTypeOK, DialerTypeOK
<1>3. HeldWhileOpen'
  <2>. SUFFICES ASSUME NEW s \in Attempts, Abierto(s)', Libre(de[s])'
                PROVE  FALSE
    BY DEF HeldWhileOpen
  <2>1. Abierto(s) /\ de'[s] = de[s] /\ de[s] \in Debtors
    BY <1>1
  <2>2. ~Libre(de[s])
    BY <2>1 DEF HeldWhileOpen
  <2>3. suelta'[s]
    BY <2>1, <2>2 DEF Benign, AttemptsKeep, Abierto
  <2>. QED
    BY <2>3 DEF Abierto
<1>4. QueuedRowsHaveNone'
  BY <1>1 DEF QueuedRowsHaveNone, Benign, AttemptsKeep
<1>5. OneOpenAttempt'
  BY <1>1 DEF OneOpenAttempt
<1>6. OneCallPerRowAndDay'
  <2>. SUFFICES ASSUME NEW s \in Attempts, NEW t \in Attempts,
                       Confirmada(s)', Confirmada(t)',
                       de'[s] = de'[t], creada'[s] = creada'[t], s # t
                PROVE  FALSE
    BY DEF OneCallPerRowAndDay
  <2>1. CASE creada'[s] = dia
    <3>1. Abierto(s)' /\ Abierto(t)'
      BY <2>1 DEF Abierto, DeHoy, Confirmada, Benign, AttemptsKeep
    <3>. QED
      BY <3>1, <1>5 DEF OneOpenAttempt
  <2>2. CASE creada'[s] # dia
    <3>1. creada'[s] = creada[s] /\ creada'[t] = creada[t]
      BY <2>2 DEF Benign, AttemptsKeep
    <3>2. Confirmada(s) /\ Confirmada(t) /\ de[s] = de[t]
      BY <3>1 DEF Confirmada, Benign, AttemptsKeep
    <3>. QED
      BY <3>1, <3>2 DEF OneCallPerRowAndDay
  <2>. QED
    BY <2>1, <2>2
<1>. QED
  BY <1>2, <1>3, <1>4, <1>5, <1>6

\* A step that touches none of the fields the promise is about.
LEMMA IdleBenign ==
    ASSUME UNCHANGED <<dia, estado, excluir, cita, ultimo, lote, nuevos, de, tarea, creada, suelta>>
    PROVE  Benign
  BY DEF Benign, AttemptsKeep, DeHoy, Libre, HasBeenContactedToday

LEMMA IdleKeeps ==
    ASSUME UNCHANGED <<dia, nuevos, de, tarea, creada>>
    PROVE  AttemptsKeep
  BY DEF AttemptsKeep, DeHoy

\* A step that writes row d, and leaves it taken or handed back.
LEMMA RowBenign ==
    ASSUME TypeOK, NEW d \in Debtors, AttemptsKeep,
           UNCHANGED <<dia, lote>>,
           \A c \in Debtors \ {d} :
              /\ estado'[c] = estado[c] /\ excluir'[c] = excluir[c]
              /\ cita'[c] = cita[c] /\ ultimo'[c] = ultimo[c],
           \/ UNCHANGED suelta /\ (Libre(d)' => Libre(d))
           \/ SueltaFila(d, cita'[d]) /\ ultimo' = ultimo
    PROVE  Benign
<1>1. \A s \in Attempts : suelta[s] => suelta'[s]
  BY DEF SueltaFila
<1>2. ASSUME NEW c \in Debtors, Libre(c)', ~Libre(c),
             NEW s \in Attempts, de[s] = c, DeHoy(s)
      PROVE  suelta'[s]
  <2>1. c = d
    BY <1>2 DEF Libre, HasBeenContactedToday
  <2>2. SueltaFila(d, cita'[d]) /\ ultimo' = ultimo
    BY <1>2, <2>1
  <2>3. ~HasBeenContactedToday(d) /\ cita'[d].dia <= dia
    BY <1>2, <2>1, <2>2 DEF Libre, HasBeenContactedToday
  <2>. QED
    BY <1>2, <2>1, <2>2, <2>3 DEF SueltaFila
<1>. QED
  BY <1>1, <1>2 DEF Benign

\* A failed attempt sends the row to the next working day, or gives it up.
LEMMA RescheduleTakes ==
    ASSUME TypeOK, NEW d \in Debtors, NEW n, RescheduleIntentoFallido(d, n), dia' = dia
    PROVE  /\ ~Libre(d)'
           /\ UNCHANGED <<ultimo, excluir>>
           /\ \A c \in Debtors \ {d} : estado'[c] = estado[c] /\ cita'[c] = cita[c]
<1>. USE DEF TypeOK, RowsTypeOK, RescheduleIntentoFallido, PonEstado
<1>1. UNCHANGED <<ultimo, excluir>>
  OBVIOUS
<1>2. \A c \in Debtors \ {d} : estado'[c] = estado[c] /\ cita'[c] = cita[c]
  OBVIOUS
<1>3. CASE n + 1 >= MaxIntentos
  <2>1. estado'[d] = "agotado"
    BY <1>3
  <2>. QED
    BY <1>1, <1>2, <2>1 DEF Libre, CALLABLE_ESTADOS
<1>4. CASE ~(n + 1 >= MaxIntentos)
  <2>1. cita'[d].dia = dia + 1
    BY <1>4
  <2>. QED
    BY <1>1, <1>2, <2>1 DEF Libre
<1>. QED
  BY <1>3, <1>4

LEMMA PlanBenign ==
    ASSUME TypeOK, NEW d \in Debtors, PlanLeeJob(d) \/ PlanEscribeJob(d)
    PROVE  Benign
<1>1. CASE PlanLeeJob(d)
  BY <1>1, IdleBenign DEF PlanLeeJob, PlanLee, DejaTodo, dialerVars, debtorVars, clockVars,
     loopVars, attemptVars, historyVars
<1>2. CASE PlanEscribeJob(d)
  <2>. USE DEF PlanEscribeJob, PlanEscribe, DejaTodoMenosSuelta, clockVars, loopVars,
               TypeOK, RowsTypeOK, PonEstado
  <2>0. /\ UNCHANGED <<dia, excluir, lote, nuevos, de, tarea, creada, ultimo>>
        /\ \A c \in Debtors \ {d} : estado'[c] = estado[c] /\ cita'[c] = cita[c]
    BY <1>2
  <2>1. CASE plan[d] = Agota
    <3>1. estado'[d] = "agotado" /\ UNCHANGED suelta
      BY <1>2, <2>1
    <3>. QED
      BY <2>0, <3>1, IdleKeeps, RowBenign DEF Libre, CALLABLE_ESTADOS
  <2>2. CASE plan[d] # Agota /\ cita[d] = Nunca
    <3>1. UNCHANGED <<suelta, estado>>
      BY <1>2, <2>2
    <3>2. Libre(d)' => Libre(d)
      BY <2>0, <2>2, <3>1 DEF Libre, HasBeenContactedToday, Nunca
    <3>. QED
      BY <2>0, <3>1, <3>2, IdleKeeps, RowBenign
  <2>3. CASE plan[d] # Agota /\ cita[d] # Nunca
    <3>1. SueltaFila(d, plan[d]) /\ cita'[d] = plan[d]
      BY <1>2, <2>3
    <3>. QED
      BY <2>0, <3>1, IdleKeeps, RowBenign
  <2>. QED
    BY <2>1, <2>2, <2>3
<1>. QED
  BY <1>1, <1>2

LEMMA RescueBenign ==
    ASSUME TypeOK, RescateLee \/ (\E d \in Debtors : RescateEscribe(d))
    PROVE  Benign
<1>. USE DEF dialerVars, clockVars, rowVars, debtorVars, loopVars, attemptVars, historyVars
<1>1. CASE RescateLee
  BY <1>1, IdleBenign DEF RescateLee
<1>2. ASSUME NEW d \in Debtors, RescateEscribe(d)
      PROVE  Benign
  <2>1. RescheduleIntentoFallido(d, rescate[d]) /\ UNCHANGED <<clockVars, dialerVars>>
    BY <1>2 DEF RescateEscribe
  <2>. QED
    BY <2>1, RescheduleTakes, IdleKeeps, RowBenign
<1>. QED
  BY <1>1, <1>2

LEMMA CallbackBenign ==
    ASSUME TypeOK, NEW s \in Attempts, Aviso(s)
    PROVE  Benign
<1>. USE DEF dialerVars, clockVars, rowVars, debtorVars, loopVars, attemptVars, historyVars
<1>1. CASE AvisoCompleted(s) \/ AvisoNoContesta(s)
  BY <1>1, IdleBenign DEF AvisoCompleted, AvisoNoContesta
<1>2. CASE AvisoReprograma(s)
  <2>1. RescheduleIntentoFallido(de[s], snap[s]) /\ UNCHANGED <<clockVars, dialerVars>>
    BY <1>2 DEF AvisoReprograma
  <2>2. de[s] \in Debtors
    BY DEF TypeOK, DialerTypeOK
  <2>. QED
    BY <2>1, <2>2, RescheduleTakes, IdleKeeps, RowBenign
<1>. QED
  BY <1>1, <1>2 DEF Aviso

\* A task only moves its own attempt on.
LEMMA TaskKeeps ==
    ASSUME TypeOK, NEW s \in Attempts, Tarea(s)
    PROVE  /\ AttemptsKeep /\ tarea[s] \in EnVuelo
           /\ UNCHANGED <<dia, cita, ultimo, lote>>
<1>. USE DEF TypeOK, DialerTypeOK, Tarea, clockVars, rowVars, debtorVars, loopVars, historyVars
<1>1. /\ tarea[s] \in EnVuelo
      /\ UNCHANGED <<dia, cita, ultimo, lote, nuevos, de>>
      /\ \E x \in Tareas : tarea' = [tarea EXCEPT ![s] = x]
      /\ creada' = creada \/ creada' = [creada EXCEPT ![s] = dia]
  <2>1. CASE TareaKillswitch(s) \/ TareaJornada(s) \/ TareaSaldo(s)
    BY <2>1 DEF TareaKillswitch, TareaJornada, TareaSaldo, Gate, Aborta, EnVuelo, Tareas
  <2>2. CASE TareaMarca(s) \/ TareaMapea(s) \/ TareaVapi(s)
    BY <2>2 DEF TareaMarca, TareaMapea, TareaVapi, EnVuelo, Tareas
  <2>3. CASE TareaNumeroInvalido(s) \/ TareaFallaCreate(s) \/ TareaFallaMongo(s)
    BY <2>3 DEF TareaNumeroInvalido, TareaFallaCreate, TareaFallaMongo, EnVuelo, Tareas
  <2>. QED
    BY <2>1, <2>2, <2>3
<1>2. DeHoy(s) /\ tarea[s] # "no"
  BY <1>1 DEF DeHoy, EnVuelo
<1>3. \A t \in Attempts \ {s} : tarea'[t] = tarea[t] /\ creada'[t] = creada[t]
  BY <1>1
<1>4. creada'[s] = creada[s] \/ creada'[s] = dia
  BY <1>1
<1>5. AttemptsKeep
  BY <1>1, <1>2, <1>3, <1>4 DEF AttemptsKeep, DeHoy
<1>. QED
  BY <1>1, <1>5

LEMMA TaskBenign ==
    ASSUME TypeOK, NEW s \in Attempts, Tarea(s)
    PROVE  Benign
<1>. USE DEF TypeOK, RowsTypeOK, DialerTypeOK, clockVars, historyVars
<1>d. de[s] \in Debtors
  OBVIOUS
<1>k. /\ AttemptsKeep
      /\ UNCHANGED <<dia, cita, ultimo, lote>>
  BY TaskKeeps
<1>1. CASE TareaKillswitch(s) \/ TareaJornada(s) \/ TareaSaldo(s)
  <2>1. /\ UNCHANGED excluir
        /\ \A c \in Debtors \ {de[s]} : estado'[c] = estado[c]
        /\ UNCHANGED <<estado, suelta>> \/ SueltaFila(de[s], cita'[de[s]])
    BY <1>1, <1>k DEF TareaKillswitch, TareaJornada, TareaSaldo, Gate, Aborta, PonEstado
  <2>. QED
    BY <1>d, <1>k, <2>1, RowBenign DEF Libre, HasBeenContactedToday
<1>2. CASE TareaMarca(s) \/ TareaMapea(s) \/ TareaVapi(s)
  <2>1. UNCHANGED <<estado, excluir, suelta>>
    BY <1>2 DEF TareaMarca, TareaMapea, TareaVapi, rowVars, debtorVars
  <2>. QED
    BY <1>d, <1>k, <2>1, RowBenign DEF Libre, HasBeenContactedToday
<1>3. CASE TareaNumeroInvalido(s)
  <2>1. /\ excluir'[de[s]] /\ UNCHANGED suelta
        /\ \A c \in Debtors \ {de[s]} : estado'[c] = estado[c] /\ excluir'[c] = excluir[c]
    BY <1>3, <1>d DEF TareaNumeroInvalido, PonEstado
  <2>. QED
    BY <1>d, <1>k, <2>1, RowBenign DEF Libre
<1>4. CASE TareaFallaCreate(s) \/ TareaFallaMongo(s)
  <2>1. /\ UNCHANGED excluir
        /\ \A c \in Debtors \ {de[s]} : estado'[c] = estado[c]
        /\ UNCHANGED <<estado, suelta>> \/ SueltaFila(de[s], cita'[de[s]])
    BY <1>4, <1>k DEF TareaFallaCreate, TareaFallaMongo, PonEstado
  <2>. QED
    BY <1>d, <1>k, <2>1, RowBenign DEF Libre, HasBeenContactedToday
<1>. QED
  BY <1>1, <1>2, <1>3, <1>4 DEF Tarea

LEMMA BotBenign ==
    ASSUME TypeOK, NEW s \in Attempts, Bot(s)
    PROVE  Benign
<1>. USE DEF TypeOK, RowsTypeOK, DialerTypeOK, clockVars, rowVars, debtorVars, loopVars,
             attemptVars, historyVars, dialerVars
<1>d. de[s] \in Debtors
  OBVIOUS
<1>1. CASE ToolReagendar(s)
  <2>1. PICK c \in CitasDeCliente : cita' = [cita EXCEPT ![de[s]] = c] /\ SueltaFila(de[s], c)
    BY <1>1 DEF ToolReagendar
  <2>2. SueltaFila(de[s], cita'[de[s]])
    BY <1>d, <2>1
  <2>. QED
    BY <1>1, <1>d, <2>1, <2>2, IdleKeeps, RowBenign DEF ToolReagendar, PonEstado
<1>2. CASE ToolPromesa(s) \/ ToolEscalate(s)
  <2>1. /\ estado'[de[s]] \notin CALLABLE_ESTADOS
        /\ UNCHANGED <<dia, lote, cita, ultimo, excluir, suelta, nuevos, de, tarea, creada>>
        /\ \A c \in Debtors \ {de[s]} : estado'[c] = estado[c]
    BY <1>2, <1>d DEF ToolPromesa, ToolEscalate, Escalate, PonEstado, CALLABLE_ESTADOS
  <2>. QED
    BY <1>d, <2>1, IdleKeeps, RowBenign DEF Libre
<1>3. CASE ToolOptOut(s) \/ Cuelga(s) \/ BotFalla(s) \/ PostLee(s)
  BY <1>3, IdleBenign DEF ToolOptOut, Cuelga, BotFalla, PostLee
<1>4. CASE PostEscribe(s)
  <2>1. /\ ultimo'[de[s]].dia = dia
        /\ \A c \in Debtors \ {de[s]} :
             estado'[c] = estado[c] /\ cita'[c] = cita[c] /\ ultimo'[c] = ultimo[c]
        /\ UNCHANGED <<dia, lote, excluir, suelta, nuevos, de, tarea, creada>>
    BY <1>4, <1>d DEF PostEscribe, PonEstado, Ahora
  <2>. QED
    BY <1>d, <2>1, IdleKeeps, RowBenign DEF Libre, HasBeenContactedToday
<1>. QED
  BY <1>1, <1>2, <1>3, <1>4 DEF Bot

LEMMA TwilioBenign ==
    ASSUME NEW s \in Attempts, Twilio(s)
    PROVE  Benign
  BY IdleBenign DEF Twilio, NoContesta, ContestaMaquina, ContestaPersona, PierdeAviso,
     clockVars, rowVars, debtorVars, loopVars, attemptVars, historyVars, dialerVars

LEMMA SwitchBenign ==
    ASSUME \/ \E v \in BOOLEAN : SetAutocallEnabled(v) \/ SetJornadaAuthorized(v)
           \/ CambiaSaldo
    PROVE  Benign
  BY IdleBenign DEF SetAutocallEnabled, SetJornadaAuthorized, CambiaSaldo,
     clockVars, rowVars, debtorVars, loopVars, attemptVars, historyVars

LEMMA DashboardBenign ==
    ASSUME TypeOK, NEW d \in Debtors,
           \/ Reactivar(d)
           \/ /\ MarcarPagado(d) \/ PausarDebtor(d) \/ PatchNoLlamar(d) \/ WaEscalate(d)
              /\ DejaTodo
    PROVE  Benign
<1>. USE DEF TypeOK, RowsTypeOK, clockVars, loopVars, attemptVars, historyVars, dialerVars,
             DejaTodo
<1>1. CASE Reactivar(d)
  <2>1. /\ UNCHANGED <<dia, lote, cita, ultimo, excluir, nuevos, de, tarea, creada>>
        /\ \A c \in Debtors \ {d} : estado'[c] = estado[c]
        /\ SueltaFila(d, cita'[d])
    BY <1>1 DEF Reactivar, ReactivarDebtor, PonEstado, DejaTodoMenosSuelta
  <2>. QED
    BY <2>1, IdleKeeps, RowBenign
<1>2. CASE (MarcarPagado(d) \/ PausarDebtor(d) \/ WaEscalate(d)) /\ DejaTodo
  <2>1. /\ estado'[d] \notin CALLABLE_ESTADOS
        /\ UNCHANGED <<dia, lote, cita, ultimo, excluir, suelta, nuevos, de, tarea, creada>>
        /\ \A c \in Debtors \ {d} : estado'[c] = estado[c]
    BY <1>2 DEF MarcarPagado, PausarDebtor, WaEscalate, Escalate, PonEstado, CALLABLE_ESTADOS
  <2>. QED
    BY <2>1, IdleKeeps, RowBenign DEF Libre
<1>3. CASE PatchNoLlamar(d) /\ DejaTodo
  BY <1>3, IdleBenign DEF PatchNoLlamar
<1>. QED
  BY <1>1, <1>2, <1>3

LEMMA TimeBenign ==
    ASSUME TypeOK,
           \/ \E d \in Debtors : PasaRato(d)
           \/ \E s \in Attempts : ExpiraMapa(s)
           \/ PasaHora
    PROVE  Benign
  BY IdleBenign DEF PasaRato, ExpiraMapa, PasaHora, clockVars, rowVars, debtorVars, loopVars,
     attemptVars, historyVars, dialerVars

\* A restart ends the tasks under way and empties the batch.
LEMMA RestartBenign ==
    ASSUME TypeOK, Reinicio
    PROVE  Benign
<1>1. UNCHANGED <<dia, estado, excluir, cita, ultimo, nuevos, de, creada, suelta>> /\ lote' = {}
  BY DEF Reinicio, clockVars, debtorVars, historyVars
<1>2. \A s \in Attempts : tarea'[s] = IF tarea[s] \in EnVuelo THEN "fin" ELSE tarea[s]
  BY DEF Reinicio
<1>3. AttemptsKeep
  BY <1>1, <1>2 DEF AttemptsKeep, DeHoy, EnVuelo
<1>. QED
  BY <1>1, <1>3 DEF Benign, Libre, HasBeenContactedToday

\* The dispatcher takes only rows that are free, so none has an open attempt.
LEMMA BatchOneCall ==
    ASSUME OneCallInv, DespachoLee, UNCHANGED callVars
    PROVE  OneCallInv'
<1>. USE DEF OneCallInv, TypeOK, RowsTypeOK, DialerTypeOK
<1>1. TypeOK'
  BY DispatchType
<1>2. UNCHANGED <<dia, estado, excluir, cita, ultimo, nuevos, de, tarea, creada, suelta>>
  BY DEF DespachoLee, clockVars, rowVars, debtorVars, attemptVars, historyVars
<1>2a. \A d \in lote' : Libre(d)
  <2>1. lote' \subseteq {d \in Debtors : EnHora(d)}
    BY DEF DespachoLee
  <2>2. \A d \in Debtors : EnHora(d) => Libre(d)
    BY DEF EnHora, Llamable, Llego, Libre, Instantes
  <2>. QED
    BY <2>1, <2>2
<1>3. QueuedRowsHaveNone'
  BY <1>2, <1>2a DEF QueuedRowsHaveNone, HeldWhileOpen, Abierto, DeHoy
<1>4. AttemptsInOrder' /\ HeldWhileOpen' /\ OneOpenAttempt' /\ OneCallPerRowAndDay'
  BY <1>2 DEF AttemptsInOrder, HeldWhileOpen, OneOpenAttempt, OneCallPerRowAndDay,
              Abierto, DeHoy, Libre, HasBeenContactedToday, Confirmada
<1>. QED
  BY <1>1, <1>3, <1>4

\* Marking a row of the batch opens its one attempt and takes the row.
LEMMA MarkOneCall ==
    ASSUME OneCallInv, NEW d \in Debtors, DespachoMarca(d), UNCHANGED callVars
    PROVE  OneCallInv'
<1>. USE DEF OneCallInv
<1>. DEFINE n == nuevos + 1
<1>1. TypeOK'
  BY DispatchType
<1>2. /\ d \in lote /\ lote' = lote \ {d} /\ n \in Attempts
      /\ UNCHANGED <<dia, excluir, cita, creada, suelta>>
      /\ estado' = [estado EXCEPT ![d] = "llamando"]
      /\ nuevos' = n
      /\ de' = [de EXCEPT ![n] = d]
      /\ tarea' = [tarea EXCEPT ![n] = "killswitch"]
  BY DEF DespachoMarca, clockVars
<1>3. \A c \in Debtors : ultimo'[c] = ultimo[c] \/ ultimo'[c].dia = dia
  BY DEF DespachoMarca, Ahora
<1>4. /\ \A s \in Attempts \ {n} : de'[s] = de[s] /\ (Abierto(s)' => Abierto(s))
      /\ de'[n] = d
  BY <1>2 DEF TypeOK, DialerTypeOK, Abierto, DeHoy
<1>5. \A s \in Attempts : Abierto(s) => de[s] # d
  BY <1>2 DEF QueuedRowsHaveNone
<1>6. \A s \in Attempts : de[s] \in Debtors
  BY DEF TypeOK, DialerTypeOK
<1>7. AttemptsInOrder'
  BY <1>2 DEF AttemptsInOrder, Attempts, TypeOK, DialerTypeOK
<1>8. HeldWhileOpen'
  <2>1. ~Libre(d)'
    BY <1>2 DEF Libre, CALLABLE_ESTADOS, TypeOK, RowsTypeOK
  <2>2. \A c \in Debtors : Libre(c)' => Libre(c) \/ c = d
    BY <1>2, <1>3 DEF Libre, HasBeenContactedToday, TypeOK, RowsTypeOK
  <2>. QED
    BY <1>4, <1>6, <2>1, <2>2 DEF HeldWhileOpen
<1>9. QueuedRowsHaveNone'
  BY <1>2, <1>4 DEF QueuedRowsHaveNone
<1>10. OneOpenAttempt'
  BY <1>4, <1>5 DEF OneOpenAttempt
<1>11. OneCallPerRowAndDay'
  <2>1. creada[n] = -1
    BY <1>2 DEF AttemptsInOrder, TypeOK, DialerTypeOK
  <2>. QED
    BY <1>2, <1>4, <2>1 DEF OneCallPerRowAndDay, Confirmada
<1>. QED
  BY <1>1, <1>7, <1>8, <1>9, <1>10, <1>11

\* An inbound call takes a number, but it is no attempt of the campaign.
LEMMA InboundOneCall ==
    ASSUME OneCallInv, NEW d \in Debtors, LlamadaEntrante(d)
    PROVE  OneCallInv'
<1>. USE DEF OneCallInv
<1>. DEFINE n == nuevos + 1
<1>1. TypeOK'
  BY InboundType
<1>2. /\ UNCHANGED <<dia, estado, excluir, cita, ultimo, lote, tarea, creada, suelta>>
      /\ nuevos' = n
      /\ de' = [de EXCEPT ![n] = d]
  BY DEF LlamadaEntrante, clockVars, rowVars, debtorVars, loopVars, historyVars
<1>3. \A s \in Attempts : s >= n => tarea[s] = "no" /\ creada[s] = -1
  BY DEF AttemptsInOrder, Attempts, TypeOK, DialerTypeOK
<1>4. \A s \in Attempts : Abierto(s)' => Abierto(s) /\ s # n /\ de'[s] = de[s]
  BY <1>2, <1>3 DEF Abierto, DeHoy, EnVuelo, TypeOK, RowsTypeOK, DialerTypeOK
<1>5. AttemptsInOrder'
  BY <1>2, <1>3 DEF AttemptsInOrder, Attempts, TypeOK, DialerTypeOK
<1>6. HeldWhileOpen' /\ QueuedRowsHaveNone' /\ OneOpenAttempt'
  BY <1>2, <1>4 DEF HeldWhileOpen, QueuedRowsHaveNone, OneOpenAttempt, Libre,
                    HasBeenContactedToday
<1>7. OneCallPerRowAndDay'
  BY <1>2, <1>3 DEF OneCallPerRowAndDay, Confirmada, TypeOK, DialerTypeOK
<1>. QED
  BY <1>1, <1>5, <1>6, <1>7

\* A new day begins with no attempt under way and no call placed.
LEMMA DayOneCall ==
    ASSUME OneCallInv, PasaDia
    PROVE  OneCallInv'
<1>. USE DEF OneCallInv
<1>1. TypeOK'
  BY TimeType DEF Tiempo
<1>2. dia' = dia + 1 /\ UNCHANGED <<lote, nuevos, de, tarea, creada, suelta>>
  BY DEF PasaDia, loopVars, attemptVars, historyVars
<1>3. \A s \in Attempts : tarea[s] \notin EnVuelo
  BY DEF PasaDia, SinActividad, Viva, TypeOK, DialerTypeOK
<1>4. \A s \in Attempts : creada[s] # dia'
  BY <1>2 DEF AttemptsInOrder, TypeOK, RowsTypeOK, DialerTypeOK
<1>5. \A s \in Attempts : ~Abierto(s)'
  BY <1>2, <1>3, <1>4 DEF Abierto, DeHoy
<1>6. HeldWhileOpen' /\ QueuedRowsHaveNone' /\ OneOpenAttempt'
  BY <1>5 DEF HeldWhileOpen, QueuedRowsHaveNone, OneOpenAttempt
<1>7. AttemptsInOrder'
  BY <1>2 DEF AttemptsInOrder, TypeOK, RowsTypeOK, DialerTypeOK
<1>8. OneCallPerRowAndDay'
  BY <1>2 DEF OneCallPerRowAndDay, Confirmada
<1>. QED
  BY <1>1, <1>6, <1>7, <1>8

LEMMA InitOneCall == Init => OneCallInv
<1>. SUFFICES ASSUME Init PROVE OneCallInv
  OBVIOUS
<1>1. TypeOK
  BY InitType
<1>2. /\ dia = 0
      /\ \A s \in Attempts : tarea[s] = "no" /\ creada[s] = -1
  BY DEF Init
<1>3. \A s \in Attempts : ~Abierto(s) /\ ~Confirmada(s)
  BY <1>2 DEF Abierto, Confirmada, DeHoy, EnVuelo
<1>. QED
  BY <1>1, <1>2, <1>3 DEF OneCallInv, AttemptsInOrder, HeldWhileOpen, QueuedRowsHaveNone,
                          OneOpenAttempt, OneCallPerRowAndDay

LEMMA NextOneCall == OneCallInv /\ [Next]_vars => OneCallInv'
<1>. SUFFICES ASSUME OneCallInv, [Next]_vars PROVE OneCallInv'
  OBVIOUS
<1>0. TypeOK /\ TypeOK'
  BY NextType DEF OneCallInv
<1>1. CASE Job
  <2>1. ASSUME NEW d \in Debtors, PlanLeeJob(d) \/ PlanEscribeJob(d)
        PROVE  OneCallInv'
    BY <1>0, <2>1, PlanBenign, BenignStep
  <2>2. CASE RescateLee \/ \E d \in Debtors : RescateEscribe(d)
    BY <1>0, <2>2, RescueBenign, BenignStep
  <2>. QED
    BY <1>1, <2>1, <2>2, BatchOneCall, MarkOneCall DEF Job
<1>2. ASSUME NEW s \in Attempts, Tarea(s) \/ Twilio(s) \/ Bot(s) \/ Aviso(s)
      PROVE  OneCallInv'
  BY <1>0, <1>2, TaskBenign, TwilioBenign, BotBenign, CallbackBenign, BenignStep
<1>3. CASE Persona
  <2>1. CASE \/ \E v \in BOOLEAN : SetAutocallEnabled(v) \/ SetJornadaAuthorized(v)
             \/ CambiaSaldo
    BY <1>0, <2>1, SwitchBenign, BenignStep
  <2>2. ASSUME NEW d \in Debtors,
               \/ Reactivar(d)
               \/ /\ MarcarPagado(d) \/ PausarDebtor(d) \/ PatchNoLlamar(d) \/ WaEscalate(d)
                  /\ DejaTodo
        PROVE  OneCallInv'
    BY <1>0, <2>2, DashboardBenign, BenignStep
  <2>. QED
    BY <1>3, <2>1, <2>2, InboundOneCall DEF Persona
<1>4. CASE Tiempo
  <2>1. CASE ~PasaDia
    BY <1>0, <1>4, <2>1, TimeBenign, BenignStep DEF Tiempo
  <2>. QED
    BY <2>1, DayOneCall
<1>5. CASE Reinicio
  BY <1>0, <1>5, RestartBenign, BenignStep
<1>6. CASE UNCHANGED vars
  <2>1. Benign
    BY <1>6, IdleBenign DEF vars, clockVars, rowVars, debtorVars, dialerVars, loopVars,
                            attemptVars, historyVars
  <2>. QED
    BY <1>0, <2>1, BenignStep
<1>. QED
  BY <1>1, <1>2, <1>3, <1>4, <1>5, <1>6 DEF Next

\* For any number of rows, attempts, hours and days, and whatever fails: a row
\* with an open attempt is not due, so a row is called once a day unless it
\* was handed back in between.
THEOREM OneCallADay == Spec => [](OneCallPerRowAndDay /\ HeldWhileOpen)
<1>1. OneCallInv => OneCallPerRowAndDay /\ HeldWhileOpen
  BY DEF OneCallInv
<1>. QED
  BY <1>1, InitOneCall, NextOneCall, PTL DEF Spec

\* While an attempt of a row is open, no write makes the row due again the same day.
THEOREM RowsHeld == Spec => []HeldWhileOpen
<1>1. OneCallInv => HeldWhileOpen
  BY DEF OneCallInv
<1>. QED
  BY <1>1, InitOneCall, NextOneCall, PTL DEF Spec

-----------------------------------------------------------------------------
\* The daily quota.

\* What is counted plus what waits in the batch fits the quota.
QuotaInv == TypeOK /\ hechasDia + Cardinality(lote) <= Cupo

LEMMA BatchFinite ==
    ASSUME TypeOK
    PROVE  IsFiniteSet(lote) /\ Cardinality(lote) \in Nat
  BY DebtorsAssumption, FS_Subset, FS_CardinalityType
     DEF TypeOK, DialerTypeOK, DebtorsAssumption

\* The slots of a tick never exceed what is left of the day's quota.
LEMMA SlotsWithinQuota ==
    ASSUME TypeOK, NEW permitidas \in Int
    PROVE  Slots(permitidas) \in Int /\ Slots(permitidas) <= Cupo - hechasDia
<1>1. IsFiniteSet(Attempts)
  BY FS_Interval, DialerAssumption DEF Attempts, DialerAssumption
<1>2. Activas \in Nat
  BY <1>1, FS_Subset, FS_CardinalityType DEF Activas
<1>. QED
  BY <1>2, DialerAssumption DEF Slots, TypeOK, DialerTypeOK, DialerAssumption

LEMMA BatchQuota ==
    ASSUME QuotaInv, DespachoLee
    PROVE  hechasDia' + Cardinality(lote') <= Cupo
<1>1. PICK permitidas \in 1..PorHora :
         \E L \in SUBSET debidos' :
            SonLideres(L, debidos', Slots(permitidas)) /\ lote' = L
  BY DEF DespachoLee
<1>2. Cardinality(lote') <= Slots(permitidas)
  BY <1>1 DEF SonLideres
<1>3. Slots(permitidas) \in Int /\ Slots(permitidas) <= Cupo - hechasDia
  BY <1>1, SlotsWithinQuota DEF QuotaInv
<1>4. lote' \subseteq Debtors
  BY DEF DespachoLee
<1>5. Cardinality(lote') \in Nat
  BY <1>4, DebtorsAssumption, FS_Subset, FS_CardinalityType DEF DebtorsAssumption
<1>6. hechasDia' = hechasDia /\ hechasDia \in Int /\ Cupo \in Int
  BY DialerAssumption
     DEF DespachoLee, counterVars, QuotaInv, TypeOK, DialerTypeOK, DialerAssumption
<1>. QED
  BY <1>2, <1>3, <1>5, <1>6

LEMMA MarkQuota ==
    ASSUME QuotaInv, NEW d \in Debtors, DespachoMarca(d)
    PROVE  hechasDia' + Cardinality(lote') <= Cupo
<1>1. d \in lote /\ lote' = lote \ {d} /\ hechasDia' = hechasDia + 1
  BY DEF DespachoMarca
<1>2. Cardinality(lote') = Cardinality(lote) - 1
  BY <1>1, BatchFinite, FS_RemoveElement DEF QuotaInv
<1>. QED
  BY <1>1, <1>2, BatchFinite, DialerAssumption
     DEF QuotaInv, TypeOK, DialerTypeOK, DialerAssumption

\* Every other step of the day counts nothing, and leaves the batch or drops it.
CountsNothing == hechasDia' \in {hechasDia, hechasDia - 1} /\ lote' \in {lote, {}}

LEMMA CountsNothingQuota ==
    ASSUME QuotaInv, CountsNothing
    PROVE  hechasDia' + Cardinality(lote') <= Cupo
<1>1. Cardinality(lote') \in Nat /\ Cardinality(lote') <= Cardinality(lote)
  BY BatchFinite, FS_EmptySet DEF QuotaInv, CountsNothing
<1>. QED
  BY <1>1, BatchFinite, DialerAssumption
     DEF QuotaInv, CountsNothing, TypeOK, DialerTypeOK, DialerAssumption

LEMMA AttemptCountsNothing ==
    ASSUME NEW s \in Attempts, Tarea(s) \/ Twilio(s) \/ Bot(s) \/ Aviso(s)
    PROVE  CountsNothing
<1>. USE DEF CountsNothing, dialerVars, counterVars, loopVars
<1>1. CASE Tarea(s)
  <2>1. CASE TareaKillswitch(s) \/ TareaJornada(s) \/ TareaSaldo(s)
    BY <2>1 DEF TareaKillswitch, TareaJornada, TareaSaldo, Gate
  <2>2. CASE TareaMarca(s) \/ TareaMapea(s) \/ TareaVapi(s)
    BY <2>2 DEF TareaMarca, TareaMapea, TareaVapi
  <2>3. CASE TareaNumeroInvalido(s) \/ TareaFallaCreate(s) \/ TareaFallaMongo(s)
    BY <2>3 DEF TareaNumeroInvalido, TareaFallaCreate, TareaFallaMongo, DeshaceCupo
  <2>. QED
    BY <1>1, <2>1, <2>2, <2>3 DEF Tarea
<1>2. CASE Twilio(s)
  BY <1>2 DEF Twilio, NoContesta, ContestaMaquina, ContestaPersona, PierdeAviso
<1>3. CASE Bot(s)
  BY <1>3 DEF Bot, ToolReagendar, ToolPromesa, ToolEscalate, ToolOptOut, Cuelga, BotFalla,
              PostLee, PostEscribe
<1>4. CASE Aviso(s)
  BY <1>4 DEF Aviso, AvisoCompleted, AvisoNoContesta, AvisoReprograma
<1>. QED
  BY <1>1, <1>2, <1>3, <1>4

LEMMA PersonCountsNothing ==
    ASSUME Persona
    PROVE  CountsNothing
  BY DEF Persona, CountsNothing, dialerVars, counterVars, loopVars, SetAutocallEnabled,
         SetJornadaAuthorized, CambiaSaldo, DejaTodo, Reactivar, DejaTodoMenosSuelta,
         LlamadaEntrante

LEMMA NextQuota == QuotaInv /\ [Next]_vars => QuotaInv'
<1>. SUFFICES ASSUME QuotaInv, [Next]_vars PROVE hechasDia' + Cardinality(lote') <= Cupo
  BY NextType DEF QuotaInv
<1>. USE DEF CountsNothing, dialerVars, counterVars, loopVars
<1>1. CASE Job
  <2>1. ASSUME NEW d \in Debtors, PlanLeeJob(d) \/ PlanEscribeJob(d) \/ RescateEscribe(d)
        PROVE  CountsNothing
    BY <2>1 DEF PlanLeeJob, PlanEscribeJob, RescateEscribe, DejaTodo, DejaTodoMenosSuelta
  <2>2. RescateLee => CountsNothing
    BY DEF RescateLee
  <2>. QED
    BY <1>1, <2>1, <2>2, BatchQuota, MarkQuota, CountsNothingQuota DEF Job
<1>2. ASSUME NEW s \in Attempts, Tarea(s) \/ Twilio(s) \/ Bot(s) \/ Aviso(s)
      PROVE  hechasDia' + Cardinality(lote') <= Cupo
  BY <1>2, AttemptCountsNothing, CountsNothingQuota
<1>3. CASE Persona
  BY <1>3, PersonCountsNothing, CountsNothingQuota
<1>4. CASE Tiempo
  <2>1. ASSUME \/ \E d \in Debtors : PasaRato(d)
               \/ \E s \in Attempts : ExpiraMapa(s)
               \/ PasaHora
        PROVE  CountsNothing
    BY <2>1 DEF PasaRato, ExpiraMapa, PasaHora
  <2>2. PasaDia => hechasDia' + Cardinality(lote') <= Cupo
    BY FS_EmptySet, DialerAssumption DEF PasaDia, DialerAssumption
  <2>. QED
    BY <1>4, <2>1, <2>2, CountsNothingQuota DEF Tiempo
<1>5. CASE Reinicio
  BY <1>5, CountsNothingQuota DEF Reinicio
<1>6. CASE UNCHANGED vars
  BY <1>6, CountsNothingQuota DEF vars
<1>. QED
  BY <1>1, <1>2, <1>3, <1>4, <1>5, <1>6 DEF Next

\* Whatever the batch sizes, restarts and undone attempts, the dispatcher does
\* not count past the tenant's daily quota.
THEOREM Quota == Spec => []QuotaRespected
<1>1. Init => QuotaInv
  <2>1. Init => hechasDia = 0 /\ lote = {}
    BY DEF Init
  <2>. QED
    BY <2>1, InitType, FS_EmptySet, DialerAssumption DEF QuotaInv, DialerAssumption
<1>2. QuotaInv => QuotaRespected
  BY BatchFinite, DialerAssumption
     DEF QuotaInv, QuotaRespected, TypeOK, DialerTypeOK, DialerAssumption
<1>. QED
  BY <1>1, <1>2, NextQuota, PTL DEF Spec

-----------------------------------------------------------------------------
\* The counter of the day and the attempts behind it.

CountedToday == {s \in Attempts : contada[s] /\ despacho[s] = dia}

\* Unused attempts are blank, and a task that is still running counts today.
RunningCounts ==
    \A s \in Attempts :
       /\ despacho[s] <= dia
       /\ s > nuevos => despacho[s] = -1 /\ tarea[s] = "no"
       /\ tarea[s] \in EnVuelo => contada[s] /\ despacho[s] = dia

BalanceInv == TypeOK /\ RunningCounts /\ QuotaBalances

LEMMA CountedFinite == IsFiniteSet(CountedToday) /\ Cardinality(CountedToday) \in Nat
<1>1. IsFiniteSet(Attempts)
  BY FS_Interval, DialerAssumption DEF Attempts, DialerAssumption
<1>2. IsFiniteSet(CountedToday)
  BY <1>1, FS_Subset DEF CountedToday
<1>. QED
  BY <1>2, FS_CardinalityType

\* A step that only moves tasks on, or uses a number for an inbound call.
Neutral ==
    /\ UNCHANGED <<dia, hechasDia, contada, despacho>>
    /\ nuevos' \in Int /\ nuevos' >= nuevos
    /\ \A s \in Attempts : tarea'[s] = tarea[s] \/ tarea[s] \in EnVuelo

LEMMA NeutralBalance ==
    ASSUME BalanceInv, Neutral PROVE RunningCounts' /\ QuotaBalances'
<1>1. CountedToday' = CountedToday
  BY DEF Neutral, CountedToday
<1>2. RunningCounts'
  BY DEF BalanceInv, RunningCounts, Neutral, TypeOK, DialerTypeOK, EnVuelo, Attempts
<1>. QED
  BY <1>1, <1>2 DEF BalanceInv, QuotaBalances, CountedToday, Neutral

\* A task counts its attempt back.
LEMMA UndoneBalance ==
    ASSUME BalanceInv, NEW s \in Attempts, tarea[s] \in EnVuelo, DeshaceCupo(s),
           tarea' = [tarea EXCEPT ![s] = "fin"], UNCHANGED <<dia, nuevos, despacho>>
    PROVE  RunningCounts' /\ QuotaBalances'
<1>. USE DEF BalanceInv, TypeOK, DialerTypeOK
<1>1. s \in CountedToday
  BY DEF RunningCounts, CountedToday
<1>2. CountedToday' = CountedToday \ {s}
  BY DEF CountedToday, DeshaceCupo
<1>3. Cardinality(CountedToday') = Cardinality(CountedToday) - 1
  BY <1>1, <1>2, CountedFinite, FS_RemoveElement
<1>4. hechasDia' = hechasDia - 1 /\ hechasDia = Cardinality(CountedToday)
  BY DEF DeshaceCupo, QuotaBalances, CountedToday
<1>5. QuotaBalances'
  BY <1>3, <1>4 DEF QuotaBalances, CountedToday
<1>6. RunningCounts'
  BY DEF RunningCounts, DeshaceCupo, EnVuelo
<1>. QED
  BY <1>5, <1>6

\* The dispatcher counts a number that nobody has used.
LEMMA MarkedBalance ==
    ASSUME BalanceInv, NEW d \in Debtors, DespachoMarca(d)
    PROVE  RunningCounts' /\ QuotaBalances'
<1>. DEFINE s == nuevos + 1
<1>. USE DEF BalanceInv, TypeOK, DialerTypeOK
<1>1. /\ s \in Attempts /\ nuevos \in Int /\ nuevos' = s /\ dia' = dia /\ hechasDia' = hechasDia + 1
      /\ tarea' = [tarea EXCEPT ![s] = "killswitch"]
      /\ despacho' = [despacho EXCEPT ![s] = dia]
      /\ contada' = [contada EXCEPT ![s] = TRUE]
  BY DEF DespachoMarca, clockVars
<1>2. despacho[s] = -1 /\ dia \in Nat
  BY <1>1 DEF RunningCounts, RowsTypeOK
<1>3. s \notin CountedToday
  BY <1>2 DEF CountedToday
<1>4. CountedToday' = CountedToday \cup {s}
  BY <1>1 DEF CountedToday
<1>5. Cardinality(CountedToday') = Cardinality(CountedToday) + 1
  BY <1>3, <1>4, CountedFinite, FS_AddElement
<1>6. hechasDia = Cardinality(CountedToday)
  BY DEF QuotaBalances, CountedToday
<1>7. QuotaBalances'
  BY <1>1, <1>5, <1>6 DEF QuotaBalances, CountedToday
<1>8. RunningCounts'
  BY <1>1, <1>2 DEF RunningCounts, EnVuelo, Attempts
<1>. QED
  BY <1>7, <1>8

\* A new day finds no task running and starts from zero.
LEMMA DayBalance ==
    ASSUME BalanceInv, PasaDia
    PROVE  RunningCounts' /\ QuotaBalances'
<1>. USE DEF BalanceInv, TypeOK, DialerTypeOK
<1>1. /\ dia' = dia + 1 /\ dia \in Nat /\ hechasDia' = 0
      /\ UNCHANGED <<nuevos, tarea, contada, despacho>>
  BY DEF PasaDia, attemptVars, historyVars, RowsTypeOK
<1>2. ASSUME NEW s \in Attempts PROVE tarea[s] \notin EnVuelo
  BY DEF PasaDia, SinActividad, Viva
<1>3. CountedToday' = {}
  BY <1>1 DEF CountedToday, RunningCounts
<1>4. Cardinality({}) = 0
  BY FS_EmptySet
<1>5. QuotaBalances'
  BY <1>1, <1>3, <1>4 DEF QuotaBalances, CountedToday
<1>6. RunningCounts'
  BY <1>1, <1>2 DEF RunningCounts
<1>. QED
  BY <1>5, <1>6

LEMMA TaskBalance ==
    ASSUME BalanceInv, NEW s \in Attempts, Tarea(s)
    PROVE  RunningCounts' /\ QuotaBalances'
<1>. USE DEF BalanceInv, TypeOK, DialerTypeOK
<1>1. CASE TareaKillswitch(s) \/ TareaJornada(s) \/ TareaSaldo(s)
  <2>1. Neutral
    BY <1>1 DEF TareaKillswitch, TareaJornada, TareaSaldo, Gate, Aborta, Neutral, EnVuelo,
                clockVars, counterVars
  <2>. QED
    BY <2>1, NeutralBalance
<1>2. CASE TareaMarca(s) \/ TareaMapea(s) \/ TareaVapi(s)
  <2>1. Neutral
    BY <1>2 DEF TareaMarca, TareaMapea, TareaVapi, Neutral, EnVuelo, clockVars, counterVars, historyVars
  <2>. QED
    BY <2>1, NeutralBalance
<1>3. CASE TareaNumeroInvalido(s) \/ TareaFallaCreate(s)
  <2>1. /\ tarea[s] \in EnVuelo /\ DeshaceCupo(s) /\ tarea' = [tarea EXCEPT ![s] = "fin"]
        /\ UNCHANGED <<dia, nuevos, despacho>>
    BY <1>3 DEF TareaNumeroInvalido, TareaFallaCreate, EnVuelo, clockVars
  <2>. QED
    BY <2>1, UndoneBalance
<1>4. CASE TareaFallaMongo(s)
  <2>1. /\ tarea[s] \in EnVuelo /\ tarea' = [tarea EXCEPT ![s] = "fin"]
        /\ UNCHANGED <<dia, nuevos, despacho>>
        /\ DeshaceCupo(s) \/ UNCHANGED <<counterVars, contada>>
    BY <1>4 DEF TareaFallaMongo, clockVars
  <2>2. UNCHANGED <<counterVars, contada>> => Neutral
    BY <2>1 DEF Neutral, counterVars
  <2>. QED
    BY <2>1, <2>2, UndoneBalance, NeutralBalance
<1>. QED
  BY <1>1, <1>2, <1>3, <1>4 DEF Tarea

LEMMA IdleBalance ==
    ASSUME BalanceInv, UNCHANGED <<dia, hechasDia, contada, despacho, nuevos, tarea>>
    PROVE  RunningCounts' /\ QuotaBalances'
<1>1. Neutral
  BY DEF Neutral, BalanceInv, TypeOK, DialerTypeOK
<1>. QED
  BY <1>1, NeutralBalance

LEMMA CallBalance ==
    ASSUME BalanceInv, NEW s \in Attempts, Twilio(s) \/ Bot(s) \/ Aviso(s)
    PROVE  RunningCounts' /\ QuotaBalances'
<1>. USE DEF clockVars, dialerVars, counterVars, attemptVars, historyVars
<1>1. CASE Twilio(s)
  BY <1>1, IdleBalance DEF Twilio, NoContesta, ContestaMaquina, ContestaPersona, PierdeAviso
<1>2. CASE Bot(s)
  <2>1. UNCHANGED <<dia, hechasDia, contada, despacho, nuevos, tarea>>
    BY <1>2 DEF Bot, ToolReagendar, ToolPromesa, ToolEscalate, ToolOptOut, Cuelga, BotFalla,
                PostLee, PostEscribe
  <2>. QED
    BY <2>1, IdleBalance
<1>3. CASE Aviso(s)
  BY <1>3, IdleBalance DEF Aviso, AvisoCompleted, AvisoNoContesta, AvisoReprograma
<1>. QED
  BY <1>1, <1>2, <1>3

LEMMA PersonBalance ==
    ASSUME BalanceInv, Persona
    PROVE  RunningCounts' /\ QuotaBalances'
<1>. USE DEF clockVars, dialerVars, counterVars, attemptVars, historyVars
<1>1. ASSUME NEW d \in Debtors, LlamadaEntrante(d) PROVE RunningCounts' /\ QuotaBalances'
  <2>1. Neutral
    BY <1>1 DEF LlamadaEntrante, Neutral, BalanceInv, TypeOK, DialerTypeOK
  <2>. QED
    BY <2>1, NeutralBalance
<1>2. ASSUME NEW d \in Debtors,
             \/ MarcarPagado(d) /\ DejaTodo
             \/ PausarDebtor(d) /\ DejaTodo
             \/ Reactivar(d)
             \/ PatchNoLlamar(d) /\ DejaTodo
             \/ WaEscalate(d) /\ DejaTodo
      PROVE  RunningCounts' /\ QuotaBalances'
  <2>1. UNCHANGED <<dia, hechasDia, contada, despacho, nuevos, tarea>>
    BY <1>2 DEF MarcarPagado, PausarDebtor, Reactivar, ReactivarDebtor, PatchNoLlamar, WaEscalate,
                DejaTodo, DejaTodoMenosSuelta
  <2>. QED
    BY <2>1, IdleBalance
<1>3. ASSUME \/ \E v \in BOOLEAN : SetAutocallEnabled(v) \/ SetJornadaAuthorized(v)
             \/ CambiaSaldo
      PROVE  RunningCounts' /\ QuotaBalances'
  BY <1>3, IdleBalance DEF SetAutocallEnabled, SetJornadaAuthorized, CambiaSaldo
<1>. QED
  BY <1>1, <1>2, <1>3 DEF Persona

LEMMA NextBalance == BalanceInv /\ [Next]_vars => BalanceInv'
<1>. SUFFICES ASSUME BalanceInv, [Next]_vars PROVE RunningCounts' /\ QuotaBalances'
  BY NextType DEF BalanceInv
<1>. USE DEF clockVars, dialerVars, counterVars, attemptVars, historyVars
<1>1. CASE Job
  <2>1. ASSUME NEW d \in Debtors, PlanLeeJob(d) \/ PlanEscribeJob(d) \/ RescateEscribe(d)
        PROVE  RunningCounts' /\ QuotaBalances'
    <3>1. UNCHANGED <<dia, hechasDia, contada, despacho, nuevos, tarea>>
      BY <2>1 DEF PlanLeeJob, PlanLee, PlanEscribeJob, PlanEscribe, RescateEscribe, DejaTodo,
                  DejaTodoMenosSuelta
    <3>. QED
      BY <3>1, IdleBalance
  <2>2. ASSUME DespachoLee \/ RescateLee PROVE RunningCounts' /\ QuotaBalances'
    BY <2>2, IdleBalance DEF DespachoLee, RescateLee
  <2>. QED
    BY <1>1, <2>1, <2>2, MarkedBalance DEF Job
<1>2. ASSUME NEW s \in Attempts, Tarea(s) \/ Twilio(s) \/ Bot(s) \/ Aviso(s)
      PROVE  RunningCounts' /\ QuotaBalances'
  BY <1>2, TaskBalance, CallBalance
<1>3. CASE Persona
  BY <1>3, PersonBalance
<1>4. CASE Tiempo
  <2>1. ASSUME \/ \E d \in Debtors : PasaRato(d)
               \/ \E s \in Attempts : ExpiraMapa(s)
               \/ PasaHora
        PROVE  RunningCounts' /\ QuotaBalances'
    BY <2>1, IdleBalance DEF PasaRato, ExpiraMapa, PasaHora
  <2>. QED
    BY <1>4, <2>1, DayBalance DEF Tiempo
<1>5. CASE Reinicio
  <2>1. Neutral
    BY <1>5 DEF Reinicio, Neutral, BalanceInv, TypeOK, DialerTypeOK
  <2>. QED
    BY <2>1, NeutralBalance
<1>6. CASE UNCHANGED vars
  BY <1>6, IdleBalance DEF vars
<1>. QED
  BY <1>1, <1>2, <1>3, <1>4, <1>5, <1>6 DEF Next

\* Whatever fails or restarts between the dispatcher's count and the call, the counter of the day
\* is the number of today's dispatches that nobody has counted back.
THEOREM Balance == Spec => []QuotaBalances
<1>1. Init => BalanceInv
  <2>. SUFFICES ASSUME Init PROVE BalanceInv
    OBVIOUS
  <2>1. TypeOK
    BY InitType
  <2>2. RunningCounts
    BY DEF Init, RunningCounts, EnVuelo
  <2>3. CountedToday = {} /\ hechasDia = 0
    BY DEF Init, CountedToday
  <2>4. QuotaBalances
    BY <2>3, FS_EmptySet DEF QuotaBalances, CountedToday
  <2>. QED
    BY <2>1, <2>2, <2>4 DEF BalanceInv
<1>2. BalanceInv => QuotaBalances
  BY DEF BalanceInv
<1>. QED
  BY <1>1, <1>2, NextBalance, PTL DEF Spec

=============================================================================
