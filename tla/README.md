# Verification of the Lambda / ARIA platform

TLA+ models of the core of `lambda-proyect`: the ARIA debt-collection voice
campaign (`backend/cobranza/`), the package of minutes it spends, the sync that
fills its cartera and decides who may be called, the prospecting runs with
the agent loop that executes them, and three small protocols beside them: the
scheduled actions of the leads, the cache of the tenants' configuration, and the
mails of a jornada. The models
are checked with TLC on small instances and the results that matter most are
proved for every value of the constants with TLAPS. Names keep the source's
(Spanish) names wherever TLA+ allows it.

## 1. The system

A multi-tenant platform: one FastAPI process with an asyncio event loop, Motor
(MongoDB), an in-memory APScheduler, an ARQ worker process (Redis) for prospecting,
Twilio for telephony and Pipecat/Gemini for the voice bot, and a React
dashboard. Everything in the process interleaves at `await`; nothing in
`cobranza/` uses a transaction or a lock, so the only atomic step is one Mongo
operation or the code between two awaits.

| component | state it keeps | operations | talks to |
|---|---|---|---|
| Planner and dispatcher (`sequence_engine.py`) | `debtors.proximo_intento_at`, `estado`, `ultimo_contacto_fecha`; `cobranza_daily_stats`, `cobranza_hourly_stats` | `plan_intentos_job`, `compute_proximo_intento`, `dispatch_intentos_job` | starts dialling tasks; reads switch, jornada, call mappings |
| Dialling task, switch, rescue (`campaign_scheduler.py`) | `cobranza_runtime` (kill switch), `cobranza_jornada`, `cobranza_calls_in_progress`, the jobs | `safe_initiate_call`, `set_autocall_enabled`, `set_jornada_authorized`, `rescue_stuck_llamando_job`, `reschedule_intento_fallido`, `register_cobranza_jobs` | Twilio, the counters, the row |
| Call handling (`voice_router.py`) | the mapping, the row, the WebSocket | `twilio_webhook`, `voice_websocket`, `_process_call_ended`, `call_status_callback`, inbound IVR | Twilio callbacks, minutes, alerts |
| Voice bot and tools (`voice_pipecat.py`) | the row | reagendar, promesa, escalate, opt-out | the row |
| Debtor endpoints, WhatsApp bridge (`router.py`, `debtor_crud.py`, `wa_bridge_router.py`) | the row | pay, pause, reactivate, PATCH, escalate, block of a client | the row |
| Minutes (`minutes.py`) | `call_minutes_ledger` | `get_saldo`, `require_saldo`, `record_call_consumption`, `refund_uncontacted_call`, `record_purchase` | callback, post-call step |
| Report and recharge jobs (`report_scheduler.py`) | a flag per date, ledger entries | monthly recharge, report and notices of a jornada, daily and weekly reports | minutes, mail server |
| Opt-out and classification (`entidad_estatal.py`, `debtor_crud.py`) | `no_llamar`, its motive, `tipo_entidad`; the list of blocked clients | opt-out, PATCH, block of a client, `run_clasificacion` | planner and dispatcher filters, LLM |
| Cartera sync (`softseguros/`) | `is_active`, `pinned`, the fields of a row; the cancel flag | `run_cartera_sync`, `bulk_write_debtor_ops`, sweep, sync-cancel | Softseguros API, the classification |
| Tenant configuration (`config_cache.py`) | Redis entry with TTL | read, invalidate | every component |
| Lead actions (`landa/scheduler.py`, `routers/leads.py`) | `scheduled_actions`, jobs in memory | schedule, cancel, dispatch, bootstrap | outreach |
| Prospecting (`worker.py`, `hive_adapter.py`, `hive_tools.py`, `routers/landa.py`, `routers/prospect.py`) | `runs`, `leads`, the ARQ jobs, the `_state` of a job's tools | launch, `run_prospecting_job`, `discover_companies`, `analyze_company` | ARQ, the director, `prospector.py` |
| Agent framework (`framework/graph/`) | the conversation and loop counters of a node | `EventLoopNode.execute`, `_run_single_turn`, `GraphExecutor.execute` | LLM, tools |
| WhatsApp agents, Baileys bridge | conversations | receive, answer | LLM, WhatsApp |
| Reports, alerts, prompts | nothing read back | aggregate, format | e-mail |
| Vapi webhooks (`vapi_client.py`, `webhooks.py`) | the row | legacy provider | Vapi |
| Accounts, watchdog, dashboard | - | authentication; health polling; React | - |

### How the components interact, and what is hard

A row goes round this loop: the planner gives it an appointment; the
dispatcher finds it due, writes `llamando`, counts the attempt and starts a
task; the task passes three gates, asks Twilio for a call under a 15 s
`wait_for`, inserts the mapping and stores the SID; Twilio rings, opens the
WebSocket or reports no-answer; the bot's tools, the post-call step and the
callback write the row; if none of them does, the rescue job does 15 minutes
later. Every writer works from a copy it read earlier and writes by `_id`.

The rows come from the sync: twice a day, at a stale boot, or when the staff asks.
It reads the unpaid cuotas page by page, upserts them in one bulk write, sweeps
the active rows it did not see, and classifies the rows without `tipo_entidad`.
Two syncs may overlap, the cartera moves between pages, and people decide
on rows while a verdict is awaited.

A prospecting run is a document, an ARQ job and a director: `launch` looks for
an active run, inserts one and enqueues; the worker runs a director (one
`EventLoopNode`) whose tools search, analyse and save leads in parallel batches;
the end of the director, however it came, completes the run.

| component | hard behaviour | what makes it correct | where |
|---|---|---|---|
| planner, dispatcher | plan written over a newer row; batch marked from a counter read once; siblings of a client | one call per row and day; quota | `OneCallPerRowAndDay`, `QuotaRespected`, `OneCallPerClientAndDay` |
| dialling task | timeout of a call that exists; Mongo failing after the call exists; abort at any gate | a row with an open attempt is not due; counter = attempts | `HeldWhileOpen`, `QuotaBalances`, `AbortsDoNotUseQuota` |
| calls | callback before the SID is stored; callback, post-call and rescue on one attempt | an attempt is counted once, and never forgotten | `AttemptsAccountedFor`, `AttemptsNeverForgotten`, `ExhaustedAfterMaxAttempts`, `KeepsRegister` |
| rescue | lost callback, dead bot, restart, switch off | no row stays in `llamando` | `DialledRowsAreReleased` |
| minutes | duplicated delivery; refund before its charge; attribution lost | charge once, refund what was charged | `KeepsPromise`, `RefundsAreDue` |
| recharge | restart between check and insert | once, every month | `PackageRecharged`, `KeepsPromise` |
| cartera sync | pages shift under it; syncs overlap; failure in any phase | sweeps only what is gone; the queue converges to the unpaid cuotas | `SweepsOnlyTheGone`, `PaidLeavesQueue`, `UnpaidComesBack` |
| who may be called | verdict after a manual decision; block in two writes, against a snapshot of the list | only people lift a block; a block reaches every row | `OnlyPeopleLift`, `ManualOnlyInWindow`, `BlockReachesRows`, `EventuallyClassified` |
| event loop | parallel tools, hard limit, retries on the same conversation, turns without progress | the conversation is consistent at every stream; the node ends | `EveryCallAnswered`, `RunsEnd` |
| prospecting tools | guard read before an await; counting before saving | no search after one has returned, totals that cover the leads | `OneSearchBatch`, `EveryLeadCounted` |
| runs | find-then-insert, worker killed, timeout with tools in flight | one active run; a run ends once, and nothing lands afterwards but what was under way at the cut | `OneActiveRun`, `RunsFollowLifecycle`, `RunsEnd` |
| lead actions | jobs only in memory; cancellation in three steps; death during a dispatch | dispatched once; a pending action has its job; overdue ones are settled (they are not) | `DispatchedOnce`, `PendingIsArmed`, `OverdueIsSettled` |
| configuration | load before a write, store after its deletion; deletions lost | stale for a reason, and not for ever | `StaleHasCause`, `EventuallyFresh` |
| mails of a jornada | mail and flag apart, mail server down, hours edited | once a day; sealed only if it left; tried until it leaves or is given up | `MailsBounded`, `ReportSealedIfSent`, `ReportSettled` |

`PROJECT.json` lists each hazard at its line with the property that covers it,
or why none does yet.

## 2. The modules

    Debtors  <-  Dialer  <-  Calls  <-  Campaign  <-  CampaignProofs  <-  AttemptProofs
                                           ^- MCCampaign
    ContactRegister (abstract)  <--refines--  Campaign
    Ledger (abstract)  <--refines--  Minutes  <-  MinutesProofs
                                        ^- MCMinutes  <-  MCServices
    NoLlamar  <-  Cartera  <-  CarteraProofs
                     ^- MCCartera
    EventLoop  <-  HiveTools  <-  Prospecting  <-  ProspectingProofs
                                      ^- MCProspecting
    RunLifecycle (abstract)  <--refines--  Prospecting
    Fallas  <-  LeadActions        <-  LeadActionsProofs
    Fallas  <-  TenantConfigCache  <-  TenantConfigCacheProofs
    Fallas  <-  ReportFlags        <-  ReportFlagsProofs
    LeadActions  <-  MCLeadActions
    MCMinutes, MCLeadActions, TenantConfigCache, ReportFlags  <-  MCServices

`Debtors`, `Dialer` and `Calls` each declare their documents and the actions on
them; `Campaign` composes them into one `Init` and `Next`. One action is the
code between two awaits. `Cartera` composes the writers of `NoLlamar` with the
sync, and `Prospecting` composes the loop and the tools with requests and worker.

### Debtors
The rows and the operators every writer shares. One row is one instalment;
`Cliente` says which rows belong to one client.

| TLA+ | code |
|---|---|
| `estado`, `intentos`, `cita`, `ultimo`, `noLlamar`, `excluir`, `vapi` | `estado`, `intentos`, `proximo_intento_at`, `ultimo_contacto_fecha`, `no_llamar`, `excluir_llamada`, `vapi_call_id` |
| `viejo` | `updated_at` is older than the rescue's 15 minutes |
| `plan` | what the planner has computed and not yet written |
| `PlanLee`, `PlanEscribe`, `ComputeProximoIntento` | `plan_intentos_job`, `compute_proximo_intento` |
| `RescheduleIntentoFallido` | `reschedule_intento_fallido`, from a copy of `intentos` |
| `MarcarPagado`, `PausarDebtor`, `ReactivarDebtor`, `PatchNoLlamar`, `WaEscalate` | the dashboard endpoints and the WhatsApp bridge |

`promesa_de_pago` stands for the other two estados that a tool writes and
nobody dials (`pago_reportado`, `disputa`).

### Dialer
Switch, jornada, dispatcher and dialling task. An attempt is a number; `tarea`
is the program counter of its task (`killswitch`, `jornada`, `saldo`, `marcar`,
`mapear`, `vapi`), `mapa` its mapping, `fase` its call.
`DespachoLee` is the tick up to the query and the cut at `slots`;
`DespachoMarca` is the loop body for one leader; the `Tarea...` actions are
`safe_initiate_call` await by await, with its failures.
Priority (days in arrears) and the token bucket's value of the minute are data:
any leaders, any number of permits in `1..PorHora`.

### Calls
Twilio (environment), the WebSocket, the bot's tools, the post-call step
(`PostLee`, `PostEscribe`), the callback (`AvisoCompleted`, `AvisoNoContesta`,
`AvisoReprograma`), the rescue (`RescateLee`, `RescateEscribe`), restart and
time.

### Campaign
`Init`, `Next`, fairness and the properties. Two history notions make them
precise. An attempt is *open* (`Abierto`) while its task runs or its call was
placed today, unless the row was handed back meanwhile (`suelta`). The
hand-backs are those of the code: a task whose gate fails, or whose create
or Mongo call fails; the planner overwriting a newer appointment; the bot's
reagendar tool, which accepts an hour of today; a person who reactivates a
paused row. Only if the row can become due today by that does the attempt
become `suelta`. `OneCallPerRowAndDay` therefore says: apart from calls the code
itself took for lost, or whose row somebody or the planner made due again, a row
has at most one call a day.

### ContactRegister
What the campaign promises about the attempts of a row, without tasks, copies,
SIDs or estados. Of a row it knows its attempt of today (`hoy`: none, under
way, called), what was attempted or escalated (`hechos`), what `intentos` says of
it (`contados`), whether the last attempt may still count (`cuentan`), and
whether its count has become a mere bound (`turbias`). A row is opened (`Abre`), called
(`Llama`), handed back (`Devuelve`); its attempt counts once, when its call exists
(`Cuenta`), or never (`Olvida`). `Campaign` implements it (`KeepsRegister`), with
these values for what it knows:

| abstract | in `Campaign` |
|---|---|
| `hoy` | `Hoy`: from the open attempts and the day of their calls |
| `hechos` | `Hechos`: dispatched attempts and escalations |
| `cuentan` | `Cuenta`: somebody may still report the attempt (`PorContar`), the rescue will find the row in `llamando`, or a copy of `intentos` has been read and not yet written |
| `turbias` | `Estorbada`: the row was escalated, or handed back with its call placed |

For the rows of `Estorbada` the code keeps less of a promise, and so does the model: a call that a task
took for lost still posts its outcome, and copies of `intentos` are written over it.

### Ledger and Minutes
`Ledger` is the promise: charge once, refund once and only after the charge,
recharge once a month, in hundredths of a minute. `Minutes` is `minutes.py`
with the callers that race: the callback (per delivery: mapping, row, insert,
delete of the mapping), the post-call step that removes what the callback looks
for, the refund task 20 s later, and the recharge job with its check and
insert apart. The refinement mapping reads the abstract state off the ledger's
entries (`cobro`, `cargados`, `saldoDeVoz`, which leaves out what staff entered).

### NoLlamar and Cartera
`NoLlamar` has the flags of the rows and the people who write them.

| TLA+ | code |
|---|---|
| `activa`, `fija`, `motivo`, `tipo`, `por` | `is_active`, `pinned`, `no_llamar` with `no_llamar_motivo`, `tipo_entidad`, `clasificado_por` |
| `bloqueados`, `gestion` | `cobranza_cliente_no_llamar`; a `set_cliente_no_llamar` between its two writes |
| `OptOut`, `PatchNoLlamar` | the bot's `registrar_no_desea_llamadas`; PATCH of a row |
| `ClienteEnLista`, `ClienteEnFilas` | the two writes of `set_cliente_no_llamar` |

`Cartera` is `run_cartera_sync`, one action per await; `paso` is where each
sync stands and `vistas`, `bloq`, `pagina`, `total`, `lista` are its locals.
`LeePagina` and `CheckCancel` read the pages, `Escribe` is the bulk write (all of
it, or any part when it fails), `ListaActivas` and `Barre` the sweep,
`Pendientes`, `MarcaRegex` and `MarcaLLM` the classification. `SyncFalla`,
`ClasificacionFalla` and `Reinicio` end a sync anywhere. Softseguros is an
environment with a set of unpaid cuotas (`impagas`) listed in order and cut in
pages (`EnPagina`), so that a payment shifts the cuotas behind it. Two histories:
`movida` (the cartera moved during a sync) and `tarde` (rows on which a person
has decided while their verdict was awaited).

### EventLoop, HiveTools, Prospecting, RunLifecycle
`EventLoop` is an `EventLoopNode` as the prospecting jobs configure it. An
iteration is a turn, a turn a sequence of streams, and a stream with tool calls
is followed by its batch.

| TLA+ | code |
|---|---|
| `iter`, `reintentos`, `vacios`, `racha` | `iteration`, `_stream_retry_count`, `_consecutive_empty_turns`, similar answers at the end of `recent_responses` |
| `usadas`, `puestaTurno`, `escalo`, `limite` | `tool_call_count`, `outputs_set_this_turn`, `queen_input_requested`, `limit_hit` |
| `lote`, `sinRespuesta` | awaited calls in flight; calls of the conversation without a result |
| `RespondeTexto`, `RespondeLlamadas`, `CierraLote` | `_run_single_turn`: answer, triage of a batch, results of a batch |
| `Turno` (`TurnoVacio`, `TurnoConAlgo`) | `execute` after a turn: empty turn, stall, escalation, judge |
| `FallaStream` | the retry of transient errors |

`HiveTools` is what the tools of `make_prospecting_registry` do to the state they
share: a search is guarded, counted after an await, and ends; an analysis is
counted and then saved, or ends without a lead. The LLM may call anything in any
order. `Prospecting` adds the requests (`Consulta`, `Inserta`, `Encola`), the
worker (`Toma`, `CierraDirector`, `FallaTrabajo`, `Muere`), the isolated RUES and
SECOP pipelines (`...Radar`) and cancellation: a cancelled director comes back
as a paused result and its run completes (`CancelaDirector`), while a
cancellation elsewhere leaves the run as it was (`CancelaTrabajo`). Neither, nor a
kill, stops the `insert_one` of a `save_lead` that is being awaited: Motor runs it in a
thread. A job that is cut leaves those inserts behind (`Deja`, counted in `tardias`), and
each of them may reach the database at any later time, also after the run is
complete (`Aterriza`).
`RunLifecycle` is the promise: created queued, may start, ends once and for
good, no save of a lead starts after the end or after the job was cut, and
what lands later was under way then. The refinement maps `status`, `guardadas` and
`tardias` to themselves; most steps of requests, worker and tools are stutters of it.

### Fallas
The number of failures so far (a process that ends, Mongo or Redis not answering),
which the three modules below share.

### LeadActions
`scheduled_actions` (`estado`, `fecha`) and what the process has of them in
memory (`jobs`, `programando`, `despachos`, `halladas`), which `Cae` loses.
`Inserta` and `Registra` are the two halves of `schedule_retry`; `Busca`,
`Cancela` and `Quita` the three of `cancel_lead_actions`; `Dispara`,
`PierdeDisparo` and `Despacha` what becomes of a job; `Arranca`, `RecargaAccion` and
`Listo` the bootstrap. `TzAware` says whether the deployment asks Mongo for aware
dates; the code does not, and `Arranca` then ends the process at the first pending action
(run `OverdueAtBoot`). `DispatchedOnce` and `PendingIsArmed` do not depend on it; `Services`
sets it to explore what a boot does with the actions it finds. The dispatch
imports a module that the repository does not have, so every action that is
dispatched ends in `error`; the outreach it would run is not modelled for that reason.

### TenantConfigCache
One tenant's document (`doc`, numbered by its writes) and its entry in Redis.
A reader goes through `Consulta`, `Carga` and `Guarda`; a writer through `Escribe`
and `Invalida`, after which its write is `confirmada`. Readers and writers of
several processes interleave, Redis may not answer and processes may die between
two steps. The history `causas` says how the entry came to be, or to stay.

### ReportFlags
The flags of `cobranza_runtime` for three kinds of mail (`sello`; `cuentaDia`,
`cuenta`, `ultima`). `Corre` reads the flags and decides (`Toca`), `Envia` is the
mail, `Sella` the write of the flag, and `Pierde` a restart or failure of Mongo
before it. `enviados` counts the mails that left, but for those whose run was lost.

## 3. The runs

| run | instance | properties | shows |
|---|---|---|---|
| RowFailures | 1 row, 2 attempts, 2 hours, 2 days; refusals, timeouts, Mongo failures, restart | `TypeOK` `OneCallPerRowAndDay` `ExhaustedAfterMaxAttempts` `AttemptsNeverForgotten` | no failure between two awaits gives the row a second confirmed call, exhausts it early or loses a count (of a row handed back with its call placed, `Estorbada`, the last two are not promised) |
| RowPeople | 1 row, 2 attempts, 2 days; pause, reactivate, opt-out, withdrawn jornada, inbound call | `HeldWhileOpen` `AttemptsAccountedFor` | the row is never due while its attempt is open, an inbound call counts nothing |
| Clients | 2 rows of 2 clients, 3 attempts, quota 2; switch, balance, invalid numbers | `QuotaBalances` `QuotaRespected` | the counter equals the standing dispatches and never passes the quota |
| RowReleased | 1 row, 2 attempts, 1 escalation, 2 days, fairness; timeouts, dead bot, lost callbacks, payment, restart | `DialledRowsAreReleased` `KeepsRegister` | somebody always takes a row out of `llamando`; the campaign implements `ContactRegister` |
| CarteraSyncs | 2 cuotas of 2 clients in pages of one; cron sync and panel sync, or one decision of a person; 2 payments or new cuotas, a failure or a restart; fairness | `TypeOK` `SweepsOnlyTheGone` `OnlyPeopleLift` `ManualOnlyInWindow` `PaidLeavesQueue` `UnpaidComesBack` `BlockReachesRows` `EventuallyClassified` | the queue follows what is unpaid, and who may be called follows what people decided |
| Prospecting | 2 requests of either kind, one worker slot, 2 iterations, 1 retry, batches of up to 2 calls, a failed write or a killed process; fairness | `TypeOK` `EveryCallAnswered` `EveryLeadCounted` `OneActiveRun` `OneSearchBatch` `RunsFollowLifecycle` `RunsEnd` | whatever the LLM answers, the conversation stays consistent, the totals cover the leads, no search follows one that has returned, no save starts after the end of its run, and every job that launch enqueued ends |
| Services | an outbound call whose callback is delivered twice, or an outbound and an inbound call, 2 months, a staff movement or a restart; an action of each of 2 leads, due after 1 or 2 units of time; 2 readers, 2 writers and 3 writes of a configuration; 2 days of 7 hours with 8 attempts at the report, 3 reminders 2 hours apart and a closing hour that is edited; 2 restarts or failures; fairness | `PackageTypeOK` `RefundsAreDue` `KeepsPromise` `PackageRecharged`; `LeadTypeOK` `DispatchedOnce` `PendingIsArmed`; `CacheTypeOK` `StaleHasCause` `EventuallyFresh`; `ReportTypeOK` `MailsBounded` `ReportSealedIfSent` `ReportSettled` | the package implements `Ledger`, refunds are due and no month that lasts is without its recharge; memory and documents of the leads' actions agree through cancellations and restarts; staleness has one of three causes and ends with the time to live; a day has one report, one notice and 3 reminders at most, the report sealed only if it left, and sent or given up |

`MCServices` checks `Minutes`, `LeadActions`, `TenantConfigCache` and `ReportFlags` in one
run. They share no state, so `servicio` says which of them runs in a behaviour, and in
`ReportFlags` which of the two jobs, which write different flags: the product would only
add interleavings of steps that cannot see each other. `PackageRecharged` and
`ReportSettled` are the properties of `Minutes` and `ReportFlags` where those run.

Every property of these runs is paired in `PROJECT.json` with a change to one
definition that a plausible bug would make, under which the run finds it
violated.

Five runs show where the code does not do what its own comments say:

| run | what it shows |
|---|---|
| Siblings | `sequence_engine.py:406-414` promises one attempt a day per client. Only siblings due in the same tick are stamped: a row due later that day is dialled too. |
| AbortedQuota | `sequence_engine.py:343-348` recalls the bug in which aborts burned the day's quota. The gates inside `safe_initiate_call` still abort without undoing the count, so an empty package repeats it. |
| SwitchOff | `campaign_scheduler.py:47` says that with autocall off the jobs keep running. Turning it off pauses the rescue too: a row stays in `llamando`. |
| MachineCharged | `minutes.py:124` says a call without contact is not charged. A machine is hung up on without a stream, so the post-call step that starts the refund never runs. |
| OverdueAtBoot | `landa/scheduler.py:7` says that pending actions are reloaded on restart, and 45 that what is past due is marked. The dates come back without time zone (`database.py:43`), the comparison with an aware `now` raises (59), and nothing catches it at boot (`main.py:72`): with one pending action the process does not start, and the action is never settled (`Arranca` with `TzAware` false). |

Six more disagreements are in the models, each with its hazard, and no run is about them;
where a property is stated of that code, it says what is left of the promise:

- `hive_tools.py:196` says that discovery runs exactly once per
  pipeline execution. The guard is read before two awaits (237-245) and the search is counted
  after them (264), so all the searches of one parallel batch pass it (`EnVuelo`,
  `Cuenta`). `OneSearchBatch` says only that none starts after one has returned.
- `cobranza/entidad_estatal.py:184` says that the classification never touches manual ones. Only
  the query looks for them (190); the verdict is written by `_id` (209), over a
  decision that came while the LLM was awaited (`MarcaLLM` of a row in `tarde`).
  `ManualOnlyInWindow` says that it happens in that window only.
- `landa/scheduler.py:207` says that a cancellation removes the jobs. One between the
  insertion of an action and `add_job` (`Cancela`, `Quita`, then `Registra`) finds no
  job, and the cancelled action is dispatched.
- `cobranza/config_cache.py:106` says that the call after a write reloads. A reader that loaded
  before it stores the old document after the deletion (`Guarda` after `Invalida`).
- `cobranza/report_scheduler.py:91` recalls the bug of a flag sealed for a mail that did not
  leave. The notice's flag still is (`SellaInicio`).
- `cobranza/debtor_crud.py:592` says that unblocking a client leaves opt-outs alone. Blocking it
  had overwritten their motive, so unblocking frees them too (`ClienteEnFilas`).

### Bounds and why they are enough
- `MaxIntento` (attempts): two let a second call race the leftovers of the
  first (callback, rescue, post-call); `Clients` uses three to pass the quota of 2.
- `MaxIntentos = 2`: one failure reschedules, two exhaust.
- `MaxDia = 1`: today and tomorrow, where a reschedule lands; a jornada after it
  is not authorised. `Clients` needs
  one day only: the counters start anew every day.
- `Horas`, `Corte`, `Tarde`: one or two slots; with two, morning and afternoon
  failures differ and the planner writes later the same day.
- `MaxReinicios = 1`, `MaxEscaladas <= 1`, `MaxSucesos = 1`: the interesting
  case is one restart or one staff movement anywhere in the behaviour.
- `Entorno` selects the environment's events: each run explores those its
  properties are sensitive to. The proofs quantify over every `Entorno`.
- `PageSize = 1` with two cuotas: two pages, so a cuota can shift from the second
  to the first while a sync is between them. Two clients: a block reaches only
  its own rows. `MaxMovs = 2`: paid and back, or two payments. `MaxGestiones = 1`:
  a panel sync, a cancellation, or a decision, anywhere.
- `MaxIter = 2`, `Umbral = 2`, `MaxReintentos = 1`, `LimiteDuro = MaxLote = 2`: each
  limit can be reached and not reached, and a batch can cross the hard limit
  after an earlier batch of the turn. `MaxJobs = 1` with two jobs: one waits.
  `MaxAnalisis = 1`: a batch of two still counts two.
- `LeadActions`: two leads, so that a cancellation has jobs of another lead to spare;
  `MaxAhora = 3` and `Plazos = {1, 2}`: an action can be due before, during and
  after a bootstrap; `MaxFallas = 2`: a restart during the bootstrap of another,
  or a lost write and then a restart.
- `TenantConfigCache`: `MaxEscrituras = 3` with two writers: a reader can be two writes
  behind, and a write can fall between the two steps of another.
- `ReportFlags`: two days, so a run that began yesterday writes its flag
  today; hours before, in and after the jornada; closing hours of which one is
  passed and the other not. Eight attempts and three reminders are the code's numbers.
- `CHECK_DEADLOCK FALSE`: the bounded campaign stops when attempts and days are
  used up, the package when every delivery is over, the prospecting side when
  both jobs have ended, the lead actions when no process may end any more. The cartera
  always has a next cron job: there deadlock is checked.

### Fairness
Weak fairness of what runs by itself: dialling tasks, the end of a ringing call
and of a conversation (Twilio's ring timeout, the 240 s watchdog), the post-call
step, a callback being handled, planner and dispatcher writes under way, ageing
of `updated_at`, expiry of mappings, and the rescue job, which APScheduler runs
every few minutes while it is not paused. Nothing obliges a person to act, the
dispatcher to find slots or a callback to arrive. In `Minutes`, only the
recharge job is fair: it runs every day from the 15th and at boot.

In `Cartera`, a sync that has started runs on (`Avanza`), the daily one comes back
(`Arranca(Cron, "cron_daily")`) and a request that blocks a client goes on to its
second write. A payment, a decision, a panel sync or a cancellation is never
obliged to happen, and failures are not fair but bounded: the properties say
that one failure is repaired by what runs later. In `Prospecting`, the worker's jobs
go on (`Trabajo`), which includes that LLM and tools answer in the end, one way
or another. Of `job_timeout` only one thing is assumed: that it ends the wait of a
director that escalated, because nobody runs the queen who would answer.

In `LeadActions` (`OverdueAtBoot`), coroutines run on and the platform restarts a
process that has ended; a job that fires, a request and the clock are not fair. In
`TenantConfigCache` only one thing is: Redis drops what has expired. Nobody is obliged
to read, write or finish a deletion. In `ReportFlags`, the report's job runs periodically
(and 45 s after a boot), and the mail server gives some answer.

### Assumptions about time and merged steps
- A dialling task (15 s for Twilio), a call (rings 18 s, cut off at 240 s) and
  their handlers end within the rescue's 15 minutes (`SinActividad`).
- Days are working days, at least twelve hours of silence apart: nothing is
  under way when the day changes. The dispatcher's loop does not straddle an hour.
- One step instead of several writes: the dispatcher's writes for one leader;
  `set_autocall_enabled` (flag and jobs); reactivar (read and write); an invalid
  number (row and counters); in `Calls` the post-call write and the deletion of
  the mapping (`Minutes` has them apart).
- A date that has passed is dropped from `jornada`: it authorises nothing.
- The unique index on `call_sid` exists: `scripts/seed_dpg_minutos.py` creates
  it, `ensure_indexes` is not called at boot.
- In `Minutes` every call has a row of its own; calls without duration, which
  are not charged, are left out.
- In `Cartera` the rate limit of manual syncs (one in five minutes) bounds nothing:
  a sync of thousands of cuotas lasts longer, and the cron job does not look at it.
- In `LeadActions`, the rejected transition of a lead (`state_machine.py` knows no estado
  that this code stores) leaves no trace.
- In `ReportFlags`, an hour is the unit of time, `Cierres` are the closing hours the
  configuration may take, and Mongo failing loses one job's run.
- In `Prospecting`, a status write whose await is cancelled is carried out (the step is the
  write, `Toma` or a `Cierra...`) or is not (the step is the cancellation). The
  deaths of the jobs of a killed worker are consecutive steps. All launches are of one
  campaign.

## 4. The proofs

For any rows, clients, attempts, hours, quotas and environment:

- `CampaignProofs!Typing`: `Spec => []TypeOK`, one lemma per group of actions.
- `CampaignProofs!OneCallADay`: `Spec => [](OneCallPerRowAndDay /\ HeldWhileOpen)`.
  `OneCallPerRowAndDay` is not inductive: a second call is dispatched steps
  before it is placed. The invariant `OneCallInv` adds that a row with an open
  attempt is not due for the rest of the day (`HeldWhileOpen`), does not wait in
  the dispatcher's batch (`QueuedRowsHaveNone`), has no second open attempt
  (`OneOpenAttempt`), and that unused attempts are blank (`AttemptsInOrder`).
  Most actions are `Benign`: they open no attempt, and make no row due unless
  its attempts are handed back. `BenignStep` proves the invariant for
  all of them at once; the tick (`BatchOneCall`), the marking of a leader
  (`MarkOneCall`), an inbound call (`InboundOneCall`) and the change of day
  (`DayOneCall`) have lemmas of their own.
- `CampaignProofs!Quota`: `Spec => []QuotaRespected`. Strengthened to
  `hechasDia + Cardinality(lote) <= Cupo`: tasks that undo a count only leave room.
- `CampaignProofs!RowsHeld`: `Spec => []HeldWhileOpen`, a part of `OneCallInv`.
- `CampaignProofs!Balance`: `Spec => []QuotaBalances`, from `BalanceInv`: the counter of
  the day equals the attempts of the day that were counted and not undone, which
  needs `RunningCounts`: a task that is still running has a counted attempt of today.
- `AttemptProofs!Accounted`: `Spec => []AttemptsAccountedFor`, in any environment.
  `intentos[d] <= Hechos(d)` says nothing of what is yet to be counted. `AccountedInv`
  (`CountedRow`) leaves room for it: `intentos` and the attempts that may still
  count (`PorContar`) are within what was attempted; so is a copy that a callback or the
  rescue will write back, with the attempts still alive (`CabeEnAvisos`,
  `CabeEnRescate`); and a row in `llamando` has an attempt to count.
  `CallShape` and `SidShape` say where the call of an attempt stands and which attempt a
  stored SID is of. Most steps are `QuietStep`s, which count nothing and read nothing.
- `AttemptProofs!NeverForgotten`: `Spec => AttemptsNeverForgotten`, and
  `Exhausted`: `Spec => []ExhaustedAfterMaxAttempts`, under `SoloCampania` (below). The
  invariant `CadenceInv` says of each row that it is either `Estorbada` or *clean*
  (`FilaLimpia`): all copies read of it are the same number and at most one of
  them has been written (`UnaCopia`); while one is held no attempt of the row is alive
  and it is not due (`EnCopia`); while an attempt can post, no planner or
  dispatcher may take the row (`EnVivo`, `EnPlan`, `EnLote`); and it is agotado, or
  planned to be, only at `MaxIntentos` (`Agotada`). `PlacedShape` and `BatchShape`
  are about attempts past their task and siblings in one batch.
  `ShrinkKeeps` proves most steps at once: they take possibilities away.
- `AttemptProofs!Registers`: `Spec => KeepsRegister` under `SoloCampania`, from the same
  invariant. A step changes the register in one row at most (`OneRow`), in one of
  seven ways (`Paso`), and leaves the others (`Deja`); `GoesOn` is the turn of a task or
  call, `Overwritten` the write of a copy, `WrittenRow` a row that is done.

`SoloCampania` leaves out the events `pausar` (a person pauses or reactivates) and
`entrante` (a client calls in). Both are needed: TLC finds counterexamples to
`AttemptsNeverForgotten` with either of them alone in `RowFailures` (`Entorno = {"pausar"}`;
or `Entorno = {"entrante"}` with `MaxIntento` and `Cupo` 3, `Horas` 1, `Tarde` 0). With `pausar` two attempts are enough: the
rescue reads yesterday's row, a person pauses and reactivates it, it is dialled and
counted, and the rescue writes the older number. With `entrante` three: a client
reschedules for today in an inbound call while the callback of yesterday's attempt holds its
copy; the new call counts, and the callback writes. What `Accounted` says holds
with both.

- `MinutesProofs!Typing`, and `Refunds`: `Spec => []RefundsAreDue`, from `IInv`:
  a refund task looks only at a call that its post-call step found without
  contact (`Motivo`), inserts only what it saw charged and not refunded
  (`Buscado`), and calls not dialled have none (`SinReembolso`, `SinEmpezar`).
- `MinutesProofs!Implements`: `Spec => KeepsPromise`. Every step is a charge, a
  refund, a recharge, or a stutter; `Pendiente` (the month the job is about to
  enter has not entered) is what makes the insert a recharge of the abstract ledger.

For any cuotas, clients, syncs and page size:

- `CarteraProofs!Typing`, `Sweeps`, `Decisions` and `Lifts`. `SweepsOnlyTheGone` rests on
  `PaginasLeidas` and `TodoVisto`: while the cartera stands still, the pages read
  are the first `n * PageSize` cuotas of the list, the page after which a sync stops
  reaches its end by counting, and so a sync that is to write has seen every
  unpaid cuota it asks for; `EnEspera` and `Reposo` say what a sync holds in each step.
- `Decisions` is `ManualOnlyInWindow`: a row to be marked was active and without type
  when it was listed; only a person can have changed that since, and then the
  row is in `tarde`. `Lifts` is `OnlyPeopleLift`, step by step.

For any runs, limits and batches:

- `ProspectingProofs!Typing`, `Answers`, `Leads`, `Launches`, `Searches` and `Lives`, from
  `IInv`: a job, its request and its run document agree (`Expediente`), a director
  exists exactly while its job is in that phase (`Director`), launches that found
  nothing are remembered in `juntas` (`Carreras`), leads saved, left behind and in flight
  are within what was counted (`Cuentas`), a finished search was counted (`Contadas`).
- `Lives` is the refinement `Spec => Ciclo!LifecycleSpec`: every step of requests,
  worker, director and tools is a step of the run's life or a stutter. It needs that a
  job has left no insert behind while it may still save one (`Director`).

For any actions, leads, readers, writers, hours and failures:

- `LeadActionsProofs!Typing`, `Dispatches` and `Arms`. `DispatchedOnce` needs `Vencidas`:
  what has been dispatched is past its date, also for the `now` of a bootstrap under
  way, which therefore marks it and does not schedule it. `PendingIsArmed` needs
  `Canceladas` (the jobs about to be removed are of actions that are not
  pending any more), `Memoria` and `UnaVez` (what a process that is not up has not, and
  that an action waits in one place), and the same property for the bootstrap (`Armada`).
- `TenantConfigCacheProofs!Typing` and `StaleCauses`, from `Numerada`: nothing is newer
  than the document.
- `ReportFlagsProofs!Typing`, `Mailed` and `Seals`. The invariant counts the mails whose
  flag is written (`Firmes`): starting a run, sending a mail or losing a run leaves
  that number alone, and writing a flag adds one. `SinSellar` and `Unica` make it at
  most one for the seals, `Contados` and `Vigente` tie it to the number in the flag.

The assumptions are the named `ASSUME`s of the modules: finite rows, positive
`Horas`, `PorHora` and `MaxIntentos`, a percentage in `0..100`, positive prices,
a finite set of numbered cuotas, a positive page size, positive loop limits,
delays of at least one unit of time, and the two jobs of `report_scheduler.py`.

Only model-checked:
- `DialledRowsAreReleased`, `PackageRecharged`, `PaidLeavesQueue`, `UnpaidComesBack`,
  `BlockReachesRows`, `EventuallyClassified`, `RunsEnd`,
  `EventuallyFresh`, `ReportSettled`: liveness is out of the
  prover's reach. Every safety property of a passing run is a theorem.
- The liveness run leaves out a person who edits the row for ever: each PATCH
  refreshes `updated_at` and so puts the rescue off.

## 5. Not modelled

- Left out of the modelled parts: the `fecha_activacion` gate (it aborts as the
  kill switch does), `is_active` and `tipo_entidad` filters, calendar holidays
  (days are working days), manual calls (`llamar_ahora`, initiate-v2), the choice
  among several policies of a caller, asynchronous AMD, `wa_update_debtor`,
  communications log entries, recordings and audio.
- Of the sync: the older `run_sync` per policy, the mapping of fields (data),
  credentials, HTTP and its retries, Chatwoot contacts. `estado` and the campaign's
  fields of a row are in `Debtors`; the two models meet in `no_llamar` and `is_active`,
  which the dispatcher only filters by.
- Of the framework: queen, sub-agents, graphs of several nodes, compaction,
  conversation stores and resumption, the runner, the CLI and the agent builder,
  which prospecting does not use or which change no control. The doom-loop
  warning only adds a message. Similarity of texts is a choice (`Textos`).
- Of prospecting: what `prospector.py` and the radars find and how they score it
  (external services and data), NIT enrichment after a lead is saved, campaign
  and lead endpoints, the mail agents.
- Of the lead actions: `schedule_nurturing` (never called), the outreach messages, and
  `state_machine.py` (see the assumptions). Of the jobs: the daily and weekly
  reports, which keep no flag. Of the configuration: `agent_instances`, not cached.
- Whole parts: prompts, RAG, TTS/STT and the LLM are external services; reports
  and alerts only read; the Vapi path is superseded; accounts, dashboard and
  watchdog keep no state of the campaign.
- Planned: see below.

## 6. Plan

1. Campaign core and its proofs - done.
2. Minutes refining Ledger, and its proofs - done.
3. `NoLlamar` and `Cartera`, and their proofs - done.
4. `EventLoop`, `HiveTools`, `Prospecting` refining `RunLifecycle`, and their proofs - done.
5. `LeadActions`, `TenantConfigCache`, `ReportFlags`, and their proofs - done.
6. `ContactRegister`, refined by `Campaign`, and the theorems about attempts - done.
7. `CallRules`: business days, `compute_proximo_intento`, franjas and token
   bucket as functions against a reference definition.
8. `InboundIvr`: the inbound call by document, with its retries.
