----------------------------- MODULE EventLoop ------------------------------
(***************************************************************************)
(* One EventLoopNode of the agent framework, as the prospecting jobs run   *)
(* it: a node that no user faces, with one output key, no judge of its own *)
(* and no conversation store.  An iteration is a turn; a turn is a         *)
(* sequence of LLM streams, and each stream that calls tools is followed   *)
(* by its batch of tool calls, run in parallel and awaited.  Compaction,   *)
(* events, the doom loop warning and logging change no control and are     *)
(* left out.                                                               *)
(***************************************************************************)
EXTENDS Naturals, FiniteSets

CONSTANTS Runs,
          MaxIter,        \* max_iterations
          MaxReintentos,  \* max_stream_retries
          Umbral,         \* stall_detection_threshold
          LimiteDuro,     \* max_tool_calls_per_turn * (1 + tool_call_overflow_margin)
          MaxLote         \* bound: tool calls of one stream explored

ASSUME EventLoopAssumption ==
    /\ MaxIter \in Nat \ {0} /\ MaxReintentos \in Nat /\ Umbral \in Nat \ {0}
    /\ LimiteDuro \in Nat /\ MaxLote \in Nat \ {0}

VARIABLES
    fase,         \* where the node is; "fuera" when it does not run
    iter,         \* iteration
    reintentos,   \* _stream_retry_count
    vacios,       \* _consecutive_empty_turns
    racha,        \* similar answers at the end of recent_responses
    usadas,       \* tool_call_count
    puesta,       \* the output key is in the accumulator
    puestaTurno,  \* outputs_set_this_turn
    escalo,       \* queen_input_requested
    limite,       \* limit_hit
    lote,         \* awaited tool calls in flight: position and stage
    sinRespuesta  \* conversation: calls of its last message without a result

turnoVars == <<usadas, puestaTurno, escalo, limite, lote>>
nodoVars  == <<fase, iter, reintentos, vacios, racha, puesta, turnoVars, sinRespuesta>>

\* What the LLM may call.  "directa" is any call answered without awaiting: the report, an
\* unknown name, truncated arguments, an output key that is not the node's.
Llamadas == {"set_output", "escalate", "discover_companies", "analyze_company", "directa"}
Textos   == {"vacio", "similar", "nuevo"}
Etapas   == {"voz", "busca", "analiza", "guarda"}
Fases    == {"fuera", "stream", "lote", "espera", "fin"}

EventLoopTypeOK ==
    /\ fase \in [Runs -> Fases]
    /\ iter \in [Runs -> Nat] /\ reintentos \in [Runs -> Nat]
    /\ vacios \in [Runs -> Nat] /\ racha \in [Runs -> Nat] /\ usadas \in [Runs -> Nat]
    /\ puesta \in [Runs -> BOOLEAN] /\ puestaTurno \in [Runs -> BOOLEAN]
    /\ escalo \in [Runs -> BOOLEAN] /\ limite \in [Runs -> BOOLEAN]
    /\ lote \in [Runs -> SUBSET (Nat \X Etapas)]
    /\ sinRespuesta \in [Runs -> Nat]

EventLoopInit ==
    /\ fase = [r \in Runs |-> "fuera"]
    /\ iter = [r \in Runs |-> 0] /\ reintentos = [r \in Runs |-> 0]
    /\ vacios = [r \in Runs |-> 0] /\ racha = [r \in Runs |-> 0] /\ usadas = [r \in Runs |-> 0]
    /\ puesta = [r \in Runs |-> FALSE] /\ puestaTurno = [r \in Runs |-> FALSE]
    /\ escalo = [r \in Runs |-> FALSE] /\ limite = [r \in Runs |-> FALSE]
    /\ lote = [r \in Runs |-> {}] /\ sinRespuesta = [r \in Runs |-> 0]

-----------------------------------------------------------------------------
\* A turn starts: the locals of _run_single_turn.
TurnoNuevo(r) ==
    /\ usadas' = [usadas EXCEPT ![r] = 0]
    /\ puestaTurno' = [puestaTurno EXCEPT ![r] = FALSE]
    /\ escalo' = [escalo EXCEPT ![r] = FALSE]
    /\ limite' = [limite EXCEPT ![r] = FALSE]
    /\ lote' = [lote EXCEPT ![r] = {}]

\* The frame of execute is gone, or is made anew with the node in phase f.
NodoLimpio(r, f) ==
    /\ fase' = [fase EXCEPT ![r] = f]
    /\ iter' = [iter EXCEPT ![r] = 0] /\ reintentos' = [reintentos EXCEPT ![r] = 0]
    /\ vacios' = [vacios EXCEPT ![r] = 0] /\ racha' = [racha EXCEPT ![r] = 0]
    /\ puesta' = [puesta EXCEPT ![r] = FALSE]
    /\ TurnoNuevo(r)

\* execute returns or raises: the executor turns either into an ExecutionResult.
Sale(r) == NodoLimpio(r, "fin")

\* The next iteration, or "Max iterations reached without acceptance".
OtraIteracion(r, v, ra) ==
    IF iter[r] + 1 = MaxIter
    THEN Sale(r)
    ELSE /\ fase' = [fase EXCEPT ![r] = "stream"]
         /\ iter' = [iter EXCEPT ![r] = @ + 1]
         /\ reintentos' = [reintentos EXCEPT ![r] = 0]
         /\ vacios' = [vacios EXCEPT ![r] = v]
         /\ racha' = [racha EXCEPT ![r] = ra]
         /\ UNCHANGED puesta
         /\ TurnoNuevo(r)

\* truly_empty: no text, no result of a tool in the last stream, no output set in the turn.
Vacio(r, texto, hayReales) ==
    texto = "vacio" /\ ~hayReales /\ ~puestaTurno[r] /\ ~escalo[r]

\* Similar non-empty answers in a row, with the one of this turn.
RachaCon(r, texto) ==
    CASE texto = "vacio" -> 0 [] texto = "nuevo" -> 1 [] OTHER -> racha[r] + 1

\* An empty turn: accepted when the output is set, else a nudge, and a ghost stream at Umbral.
TurnoVacio(r) ==
    IF puesta[r] \/ vacios[r] + 1 >= Umbral
    THEN Sale(r)
    ELSE OtraIteracion(r, vacios[r] + 1, racha[r])

\* Any other turn: stalled; or escalated, which skips the judge; or accepted by the implicit
\* judge, which needs the output set and no tool results; or sent back for another iteration.
TurnoConAlgo(r, texto, hayReales) ==
    \/ RachaCon(r, texto) >= Umbral /\ Sale(r)
    \/ /\ RachaCon(r, texto) < Umbral
       /\ escalo[r]
       /\ fase' = [fase EXCEPT ![r] = "espera"]
       /\ UNCHANGED <<iter, reintentos, vacios, racha, puesta, turnoVars>>
    \/ RachaCon(r, texto) < Umbral /\ ~escalo[r] /\ puesta[r] /\ ~hayReales /\ Sale(r)
    \/ /\ RachaCon(r, texto) < Umbral /\ ~escalo[r]
       /\ ~puesta[r] \/ hayReales
       /\ OtraIteracion(r, 0, RachaCon(r, texto))

Turno(r, texto, hayReales) ==
    IF Vacio(r, texto, hayReales) THEN TurnoVacio(r) ELSE TurnoConAlgo(r, texto, hayReales)

-----------------------------------------------------------------------------
\* A stream without tool calls ends the turn.
RespondeTexto(r, texto) ==
    /\ fase[r] = "stream"
    /\ Turno(r, texto, FALSE)
    /\ UNCHANGED sinRespuesta

\* Calls of a stream that run: those that the turn's hard limit leaves.
Ejecutadas(r, llamadas) == {i \in DOMAIN llamadas : usadas[r] + i <= LimiteDuro}

\* A stream with tool calls: the framework's own are served in order and the rest is launched
\* together; enVuelo says which of them await something.
RespondeLlamadas(r, llamadas, enVuelo) ==
    /\ fase[r] = "stream"
    /\ LET hechas == {llamadas[i] : i \in Ejecutadas(r, llamadas)}
       IN /\ puesta' = [puesta EXCEPT ![r] = @ \/ "set_output" \in hechas]
          /\ puestaTurno' = [puestaTurno EXCEPT ![r] = @ \/ "set_output" \in hechas]
          /\ escalo' = [escalo EXCEPT ![r] = "escalate" \in hechas]
    /\ usadas' = [usadas EXCEPT ![r] = @ + Cardinality(Ejecutadas(r, llamadas))]
    /\ limite' = [limite EXCEPT ![r] = Ejecutadas(r, llamadas) # DOMAIN llamadas]
    /\ sinRespuesta' = [sinRespuesta EXCEPT ![r] = Cardinality(DOMAIN llamadas)]
    /\ lote' = [lote EXCEPT ![r] = enVuelo]
    /\ fase' = [fase EXCEPT ![r] = "lote"]
    /\ UNCHANGED <<iter, reintentos, vacios, racha>>

\* Mutant: the calls beyond the limit are dropped without a result.
ContestaEjecutadas(r) == sinRespuesta' = [sinRespuesta EXCEPT ![r] = IF limite[r] THEN 1 ELSE 0]

\* The conversation gets a result for each call of its last message, the discarded ones included.
Contesta(r) == sinRespuesta' = [sinRespuesta EXCEPT ![r] = 0]

\* Every call of the batch has ended.  The turn ends at the limit or after an escalation,
\* and otherwise streams again.
CierraLote(r, texto) ==
    /\ fase[r] = "lote" /\ lote[r] = {}
    /\ Contesta(r)
    /\ IF limite[r] \/ escalo[r]
       THEN Turno(r, texto, TRUE)
       ELSE /\ fase' = [fase EXCEPT ![r] = "stream"]
            /\ UNCHANGED <<iter, reintentos, vacios, racha, puesta, turnoVars>>

\* Mutant: a retry is not counted.
FallaStreamSinContar(r, transitorio) ==
    /\ fase[r] = "stream"
    /\ IF transitorio /\ reintentos[r] < MaxReintentos
       THEN TurnoNuevo(r) /\ UNCHANGED <<fase, iter, reintentos, vacios, racha, puesta>>
       ELSE Sale(r)
    /\ UNCHANGED sinRespuesta

\* The stream fails: a transient error repeats the turn on the same conversation, any other
\* (or one too many) is raised.
FallaStream(r, transitorio) ==
    /\ fase[r] = "stream"
    /\ IF transitorio /\ reintentos[r] < MaxReintentos
       THEN /\ reintentos' = [reintentos EXCEPT ![r] = @ + 1]
            /\ TurnoNuevo(r)
            /\ UNCHANGED <<fase, iter, vacios, racha, puesta>>
       ELSE Sale(r)
    /\ UNCHANGED sinRespuesta

=============================================================================
