----------------------------- MODULE HiveTools ------------------------------
(***************************************************************************)
(* The prospecting tools that the director calls, and the state that the   *)
(* registry of a job keeps across their calls.  What a company is, how it  *)
(* is found and judged is left out: a search ends, an analysis counts or    *)
(* is discarded.                                                           *)
(***************************************************************************)
EXTENDS EventLoop

CONSTANTS MaxAnalisis,  \* bound: companies counted before the last batch of analyses
          MaxFallas     \* bound: failed writes and dead processes explored

ASSUME HiveToolsAssumption == MaxAnalisis \in Nat /\ MaxFallas \in Nat

VARIABLES
    busquedas,  \* _state["discovery_calls"]
    analizadas, \* _state["analyzed"]
    guardadas,  \* leads in the database with the run's id
    terminada,  \* history: a search of this job has returned
    fallas      \* failures so far

registroVars == <<busquedas, analizadas, terminada>>
toolVars     == <<registroVars, guardadas, fallas>>

HiveToolsTypeOK ==
    /\ busquedas \in [Runs -> Nat]
    /\ analizadas \in [Runs -> Nat] /\ guardadas \in [Runs -> Nat]
    /\ terminada \in [Runs -> BOOLEAN]
    /\ fallas \in Nat

HiveToolsInit ==
    /\ busquedas = [r \in Runs |-> 0]
    /\ analizadas = [r \in Runs |-> 0] /\ guardadas = [r \in Runs |-> 0]
    /\ terminada = [r \in Runs |-> FALSE]
    /\ fallas = 0

Falla == fallas < MaxFallas /\ fallas' = fallas + 1

\* make_prospecting_registry: every job starts from an empty _state.
RegistroNuevo(r) ==
    /\ busquedas' = [busquedas EXCEPT ![r] = 0]
    /\ analizadas' = [analizadas EXCEPT ![r] = 0]
    /\ terminada' = [terminada EXCEPT ![r] = FALSE]

\* Mutant: off by one.
PasaGuardiaDeMas(r) == busquedas[r] <= 1

\* The guard meant as "discovery runs exactly once per pipeline execution": nobody has counted a
\* search yet.  A search is counted only after the company voice has been awaited (Cuenta).
PasaGuardia(r) == busquedas[r] = 0

\* The calls of a batch that await something.  All of them run up to their first await before
\* any goes on, so the searches of one batch pass the guard together or not at all.
EnVuelo(r, llamadas) ==
    {<<i, "voz">> : i \in {j \in Ejecutadas(r, llamadas) : llamadas[j] = "discover_companies" /\ PasaGuardia(r)}}
    \cup {<<i, "analiza">> : i \in {j \in Ejecutadas(r, llamadas) : llamadas[j] = "analyze_company"}}

\* The LLM asks for a batch of tools.
Lanza(r, llamadas) ==
    /\ (\E i \in DOMAIN llamadas : llamadas[i] = "analyze_company") => analizadas[r] < MaxAnalisis
    /\ RespondeLlamadas(r, llamadas, EnVuelo(r, llamadas))
    /\ UNCHANGED toolVars

\* A call in flight goes on to another stage, or ends.
EnLote(r, c)      == fase[r] = "lote" /\ c \in lote[r]
Sigue(r, c, otra) == lote' = [lote EXCEPT ![r] = (@ \ {c}) \cup {<<c[1], otra>>}]
Termina(r, c)     == lote' = [lote EXCEPT ![r] = @ \ {c}]

nodoSalvoLote == <<fase, iter, reintentos, vacios, racha, usadas, puesta, puestaTurno, escalo, limite,
                   sinRespuesta>>

\* discover_companies, after the company voice has been read: the search is counted ...
Cuenta(r, c) ==
    /\ EnLote(r, c) /\ c[2] = "voz"
    /\ busquedas' = [busquedas EXCEPT ![r] = @ + 1]
    /\ Sigue(r, c, "busca")
    /\ UNCHANGED <<analizadas, terminada, guardadas, fallas, nodoSalvoLote>>

\* ... and ends, with companies or without.
Descubre(r, c) ==
    /\ EnLote(r, c) /\ c[2] = "busca"
    /\ terminada' = [terminada EXCEPT ![r] = TRUE]
    /\ Termina(r, c)
    /\ UNCHANGED <<busquedas, analizadas, guardadas, fallas, nodoSalvoLote>>

\* analyze_company ends without a lead: the analysis raised, or it is silently discarded.
Descarta(r, c) ==
    /\ EnLote(r, c) /\ c[2] = "analiza"
    /\ Termina(r, c)
    /\ UNCHANGED <<toolVars, nodoSalvoLote>>

\* Mutant: only the approved ones are counted.
AnalizaAprobadas(r, c) ==
    /\ EnLote(r, c) /\ c[2] = "analiza"
    /\ analizadas' \in {analizadas, [analizadas EXCEPT ![r] = @ + 1]}
    /\ Sigue(r, c, "guarda")
    /\ UNCHANGED <<busquedas, terminada, guardadas, fallas, nodoSalvoLote>>

\* ... or with one, which is counted as approved or rejected before it is saved ...
Analiza(r, c) ==
    /\ EnLote(r, c) /\ c[2] = "analiza"
    /\ analizadas' = [analizadas EXCEPT ![r] = @ + 1]
    /\ Sigue(r, c, "guarda")
    /\ UNCHANGED <<busquedas, terminada, guardadas, fallas, nodoSalvoLote>>

\* ... by save_lead, whose failure is only logged.
Guarda(r, c) ==
    /\ EnLote(r, c) /\ c[2] = "guarda"
    /\ \/ guardadas' = [guardadas EXCEPT ![r] = @ + 1] /\ UNCHANGED fallas
       \/ Falla /\ UNCHANGED guardadas
    /\ Termina(r, c)
    /\ UNCHANGED <<registroVars, nodoSalvoLote>>

Herramienta(r, c) ==
    \/ Cuenta(r, c) \/ Descubre(r, c)
    \/ Descarta(r, c) \/ Analiza(r, c) \/ Guarda(r, c)

=============================================================================
