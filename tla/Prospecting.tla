---------------------------- MODULE Prospecting -----------------------------
(***************************************************************************)
(* The prospecting runs of one campaign: the requests that create them,    *)
(* the ARQ worker that executes their jobs, and the director that each job *)
(* runs (HiveTools and EventLoop).  A run is named by its request.         *)
(***************************************************************************)
EXTENDS HiveTools

CONSTANT MaxJobs  \* WorkerSettings.max_jobs

ASSUME ProspectingAssumption == MaxJobs \in Nat

VARIABLES
    status,    \* the run document
    peticion,  \* the request: launch goes from "libre" (no active run found) to "insertada" and
               \* "encolada"; /api/prospect from "sinCampana" (inserted) to "enviada"
    trabajo,   \* the ARQ job
    juntas,    \* history: pairs of launches that were both between their find and their insert
    tardias    \* inserts of leads that Motor still has, of a job that no longer awaits them

cicloVars == <<status, peticion, trabajo, juntas>>
runVars   == <<cicloVars, tardias>>
vars      == <<runVars, nodoVars, toolVars>>

EnCurso     == {"corre", "director", "radar"}
Lanzamiento == {"libre", "insertada", "encolada", "muerta"}

TypeOK ==
    /\ EventLoopTypeOK
    /\ HiveToolsTypeOK
    /\ status \in [Runs -> {"nada", "queued", "running", "complete", "error"}]
    /\ peticion \in [Runs -> Lanzamiento \cup {"nada", "rechazada", "sinCampana", "enviada", "perdida"}]
    /\ trabajo \in [Runs -> EnCurso \cup {"nada", "cola", "invalido", "hecho", "cortado", "muerto"}]
    /\ juntas \subseteq SUBSET Runs
    /\ tardias \in [Runs -> Nat]

Init ==
    /\ EventLoopInit
    /\ HiveToolsInit
    /\ status = [r \in Runs |-> "nada"]
    /\ peticion = [r \in Runs |-> "nada"]
    /\ trabajo = [r \in Runs |-> "nada"]
    /\ juntas = {}
    /\ tardias = [r \in Runs |-> 0]

-----------------------------------------------------------------------------
\* Mutant: only a run that has started counts as active.
ActivosCorriendo == {r \in Runs : status[r] = "running"}

\* Runs that a launch takes for active.
Activos == {r \in Runs : status[r] \in {"queued", "running"}}

Libres == {r \in Runs : peticion[r] = "libre"}

\* launch_campaign: find an active run; 409 when there is one.
Consulta(r) ==
    /\ peticion[r] = "nada"
    /\ peticion' = [peticion EXCEPT ![r] = IF Activos = {} THEN "libre" ELSE "rechazada"]
    /\ juntas' = IF Activos = {} THEN juntas \cup {{r, s} : s \in Libres} ELSE juntas
    /\ UNCHANGED <<status, trabajo, tardias, nodoVars, toolVars>>

\* The run is inserted, queued: by launch, or by /api/prospect, which does not look.
Inserta(r, de, a) ==
    /\ peticion[r] = de
    /\ peticion' = [peticion EXCEPT ![r] = a]
    /\ status' = [status EXCEPT ![r] = "queued"]
    /\ UNCHANGED <<trabajo, juntas, tardias, nodoVars, toolVars>>

\* Its job is enqueued, with the run's id as the job's.
Encola(r, de, a) ==
    /\ peticion[r] = de
    /\ peticion' = [peticion EXCEPT ![r] = a]
    /\ trabajo' = [trabajo EXCEPT ![r] = "cola"]
    /\ UNCHANGED <<status, juntas, tardias, nodoVars, toolVars>>

Peticion(r) ==
    \/ Consulta(r) \/ Inserta(r, "libre", "insertada") \/ Encola(r, "insertada", "encolada")
    \/ Inserta(r, "nada", "sinCampana") \/ Encola(r, "sinCampana", "enviada")

\* The API dies halfway, or has no pool to enqueue in.
ApiMuere(r) ==
    /\ peticion[r] \in {"libre", "insertada", "sinCampana"}
    /\ Falla
    /\ peticion' = [peticion EXCEPT ![r] = IF @ = "sinCampana" THEN "perdida" ELSE "muerta"]
    /\ UNCHANGED <<status, trabajo, juntas, tardias, nodoVars, registroVars, guardadas>>

-----------------------------------------------------------------------------
\* The worker takes a job.  A job of /api/prospect lacks campaign_id and dies of a TypeError
\* before it touches its run.  The others mark the run as running; a failure of that is logged.
Toma(r) ==
    /\ trabajo[r] = "cola"
    /\ Cardinality({s \in Runs : trabajo[s] \in EnCurso}) < MaxJobs
    /\ IF peticion[r] # "enviada"
       THEN /\ trabajo' = [trabajo EXCEPT ![r] = "corre"]
            /\ \/ status' = [status EXCEPT ![r] = "running"] /\ UNCHANGED fallas
               \/ Falla /\ UNCHANGED status
       ELSE trabajo' = [trabajo EXCEPT ![r] = "invalido"] /\ UNCHANGED <<status, fallas>>
    /\ UNCHANGED <<peticion, juntas, tardias, nodoVars, registroVars, guardadas>>

\* The web pipeline: a registry and a director of its own.
ArrancaDirector(r) ==
    /\ trabajo[r] = "corre"
    /\ trabajo' = [trabajo EXCEPT ![r] = "director"]
    /\ NodoLimpio(r, "stream")
    /\ UNCHANGED <<status, peticion, juntas, tardias, toolVars, sinRespuesta>>

\* The isolated pipelines (RUES, SECOP): the whole list is built first.
ArrancaRadar(r) ==
    /\ trabajo[r] = "corre"
    /\ trabajo' = [trabajo EXCEPT ![r] = "radar"]
    /\ UNCHANGED <<status, peticion, juntas, tardias, nodoVars, toolVars>>

\* ... and saved one lead at a time; a failure of one is logged.
GuardaRadar(r) ==
    /\ trabajo[r] = "radar" /\ guardadas[r] < MaxAnalisis
    /\ \/ guardadas' = [guardadas EXCEPT ![r] = @ + 1] /\ UNCHANGED fallas
       \/ Falla /\ UNCHANGED guardadas
    /\ UNCHANGED <<runVars, nodoVars, registroVars>>

\* Mutant: another word for the end.
CierraRadarCompleted(r) ==
    /\ trabajo[r] = "radar"
    /\ trabajo' = [trabajo EXCEPT ![r] = "hecho"]
    /\ status' = [status EXCEPT ![r] = "completed"]
    /\ UNCHANGED <<peticion, juntas, tardias, nodoVars, toolVars>>

CierraRadar(r) ==
    /\ trabajo[r] = "radar"
    /\ trabajo' = [trabajo EXCEPT ![r] = "hecho"]
    /\ status' = [status EXCEPT ![r] = "complete"]
    /\ UNCHANGED <<peticion, juntas, tardias, nodoVars, toolVars>>

\* An exception before the director runs, or in an isolated pipeline: the run ends in error,
\* unless that write fails too.
FallaTrabajo(r) ==
    /\ trabajo[r] \in {"corre", "radar"}
    /\ trabajo' = [trabajo EXCEPT ![r] = "hecho"]
    /\ \/ status' = [status EXCEPT ![r] = "error"] /\ UNCHANGED fallas
       \/ Falla /\ UNCHANGED status
    /\ UNCHANGED <<peticion, juntas, tardias, nodoVars, registroVars, guardadas>>

\* The state of a job dies with it.
Olvida(r) == NodoLimpio(r, "fuera") /\ RegistroNuevo(r) /\ Contesta(r)

\* However the director ended, _run returns and the run is complete, unless that write fails.
CierraDirector(r) ==
    /\ trabajo[r] = "director" /\ fase[r] = "fin"
    /\ trabajo' = [trabajo EXCEPT ![r] = "hecho"]
    /\ \/ status' = [status EXCEPT ![r] = "complete"] /\ UNCHANGED fallas
       \/ Falla /\ UNCHANGED status
    /\ Olvida(r)
    /\ UNCHANGED <<peticion, juntas, tardias, guardadas>>

\* Mutant: the run is closed at the timeout and nobody waits for the tools in flight.
CancelaDirectorSinEsperar(r) ==
    /\ trabajo[r] = "director" /\ fase[r] # "fin"
    /\ status' = [status EXCEPT ![r] = "complete"]
    /\ UNCHANGED <<trabajo, peticion, juntas, tardias, nodoVars, toolVars>>

\* The calls of a batch that are inside save_lead.
PorGuardar(r) == {c \in lote[r] : c[2] = "guarda"}

\* Cancelling the await of an insert_one does not stop the thread in which Motor runs it: a job
\* that is cut leaves behind the inserts it was waiting for (of an isolated pipeline, one).
EnMano(r) ==
    CASE trabajo[r] = "director" -> Cardinality(PorGuardar(r))
      [] trabajo[r] = "radar" /\ guardadas[r] < MaxAnalisis -> 1
      [] OTHER -> 0

Deja(r) == tardias' = [tardias EXCEPT ![r] = @ + EnMano(r)]

\* ... and each of them may still reach the database, at any later time.
Aterriza(r) ==
    /\ tardias[r] > 0
    /\ tardias' = [tardias EXCEPT ![r] = @ - 1]
    /\ guardadas' = [guardadas EXCEPT ![r] = @ + 1]
    /\ UNCHANGED <<cicloVars, nodoVars, registroVars, fallas>>

\* job_timeout, or a worker told to stop.  The executor turns the cancellation of a director into
\* a paused result once the tools in flight, cancelled too, are over: the job goes on as if it
\* had ended.
CancelaDirector(r) ==
    /\ trabajo[r] = "director" /\ fase[r] # "fin"
    /\ Sale(r)
    /\ Deja(r)
    /\ UNCHANGED <<cicloVars, toolVars, sinRespuesta>>

\* Outside the director nothing catches it: the run stays as it was.
CancelaTrabajo(r) ==
    /\ \/ trabajo[r] \in {"corre", "radar"}
       \/ trabajo[r] = "director" /\ fase[r] = "fin"
    /\ trabajo' = [trabajo EXCEPT ![r] = "cortado"]
    /\ Deja(r)
    /\ Olvida(r)
    /\ UNCHANGED <<status, peticion, juntas, guardadas, fallas>>

\* The worker process is killed; the jobs it runs die in consecutive steps.  ARQ gives a job
\* max_tries = 1 attempts, so nobody runs them again.  An insert already sent is carried out.
Muere(r) ==
    /\ trabajo[r] \in EnCurso
    /\ Falla
    /\ trabajo' = [trabajo EXCEPT ![r] = "muerto"]
    /\ Deja(r)
    /\ Olvida(r)
    /\ UNCHANGED <<status, peticion, juntas, guardadas>>

-----------------------------------------------------------------------------
\* A step of the director: the answer of the LLM, or the progress of the tools it called.
DirectorPaso(r) ==
    /\ trabajo[r] = "director"
    /\ UNCHANGED runVars
    /\ \/ \E texto \in Textos : (RespondeTexto(r, texto) \/ CierraLote(r, texto)) /\ UNCHANGED toolVars
       \/ \E n \in 1..MaxLote : \E llamadas \in [1..n -> Llamadas] : Lanza(r, llamadas)
       \/ \E transitorio \in BOOLEAN : FallaStream(r, transitorio) /\ UNCHANGED toolVars
       \/ \E c \in lote[r] : Herramienta(r, c)

Trabajo(r) ==
    \/ Toma(r) \/ ArrancaDirector(r) \/ ArrancaRadar(r) \/ GuardaRadar(r) \/ CierraRadar(r)
    \/ FallaTrabajo(r) \/ CierraDirector(r) \/ DirectorPaso(r)

Next == \E r \in Runs :
    \/ Peticion(r) \/ Trabajo(r)
    \/ CancelaDirector(r) \/ CancelaTrabajo(r) \/ Aterriza(r)
    \/ ApiMuere(r) \/ Muere(r)

\* The worker keeps working.  Of job_timeout only this is assumed: that it ends the wait of a
\* director that escalated, because no queen exists here to inject an answer.
Fairness == \A r \in Runs :
    /\ WF_vars(Trabajo(r))
    /\ WF_vars(fase[r] = "espera" /\ CancelaDirector(r))

Spec == Init /\ [][Next]_vars /\ Fairness

-----------------------------------------------------------------------------
\* Whenever the director asks the LLM, every tool call of the conversation has its result and no
\* tool is still running: discarded calls and the barrier of the batch (event_loop_node.py).
EveryCallAnswered ==
    \A r \in Runs : fase[r] = "stream" => sinRespuesta[r] = 0 /\ lote[r] = {}

\* The totals that report_campaign_complete sends cover every lead saved so far, whichever of
\* the parallel analyses have ended (hive_tools.py counts before it awaits save_lead).
EveryLeadCounted ==
    \A r \in Runs : trabajo[r] = "director" => guardadas[r] <= analizadas[r]

\* Two launched runs of the campaign are active together only when both requests had found no
\* active run before either inserted its own: the 409 of launch_campaign, up to that race.
OneActiveRun ==
    \A r, s \in Activos :
        peticion[r] \in Lanzamiento /\ peticion[s] \in Lanzamiento /\ r # s => {r, s} \in juntas

\* Once a search of the job has returned, the director cannot start another one: the guard of
\* discover_companies holds across batches, turns and stream retries.  Within a batch it does
\* not: its comment (hive_tools.py:196) promises a single search per execution, and the searches
\* of one batch all pass it, because the call is counted only after an await (line 264).
OneSearchBatch ==
    [][\A r \in Runs : terminada[r] => ~\E c \in lote'[r] \ lote[r] : c[2] = "voz"]_vars

\* Runs end once and for good, and no save of a lead starts after the run has ended, whether the
\* job ends by itself, times out with tools in flight, or dies.  What can still land then is at
\* most what was in Motor's hands when the job was cut.
Ciclo == INSTANCE RunLifecycle
RunsFollowLifecycle == Ciclo!LifecycleSpec

\* The end of a job that the worker could start, and of its run, unless the process or a write
\* failed or the job was cancelled outside the director.
Acabado(r) ==
    \/ trabajo[r] \in {"cortado", "muerto"}
    \/ trabajo[r] = "hecho" /\ (status[r] \in {"complete", "error"} \/ fallas > 0)

\* Once some launch has enqueued its job, all that have end, whatever the LLM answers.
RunsEnd ==
    (\E r \in Runs : peticion[r] = "encolada") ~>
        \A r \in Runs : peticion[r] = "encolada" => Acabado(r)

=============================================================================
