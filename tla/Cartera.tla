------------------------------ MODULE Cartera -------------------------------
(***************************************************************************)
(* run_cartera_sync: it copies the unpaid cuotas of Softseguros into rows, *)
(* page by page, deactivates the rows it has not seen, and classifies the  *)
(* new ones as private or state entities.  Syncs overlap (cron, catch-up   *)
(* at boot, /sincronizar), and people decide on the rows meanwhile.        *)
(* Each step is what runs between two awaits.                              *)
(***************************************************************************)
EXTENDS NoLlamar, FiniteSets

CONSTANTS Syncs, Cron,      \* the syncs that may run, and the one of the cron job
          Ventana,          \* cuotas that the standing configuration of the tenant asks for
          Estatales,        \* cuotas whose client's name clasificar_regex knows
          PageSize,
          MaxMovs,          \* bound: payments and new cuotas at Softseguros
          MaxFallas         \* bound: failures of a step and restarts, together

ASSUME CarteraAssumption ==
    /\ IsFiniteSet(Cuotas)
    /\ Cron \in Syncs
    /\ Ventana \subseteq Cuotas /\ Estatales \subseteq Cuotas
    /\ PageSize \in Nat \ {0}
    /\ MaxMovs \in Nat /\ MaxFallas \in Nat

VARIABLES
    impagas,    \* Softseguros: the unpaid cuotas
    cancelar,   \* cancel_requested
    paso,       \* where each sync stands
    modo,       \* mode
    bloq,       \* blocked_docs
    vistas,     \* seen, which are also the ops to write
    pagina,     \* pages read
    total,      \* count, from the first page
    lista,      \* active - seen, then pendientes
    movida,     \* history: impagas changed while the sync was running
    tarde,      \* history: rows of pendientes that a person has decided on since
    movs, fallas

syncVars == <<paso, modo, bloq, vistas, pagina, total, lista, movida, tarde>>
cotaVars == <<movs, fallas>>
vars == <<filaVars, clienteVars, gestiones, impagas, cancelar, syncVars, cotaVars>>

Pasos == {"libre", "pagina", "escribe", "activas", "barre", "pendientes", "marca"}
Modos == {"cron_daily", "manual"}

TypeOK ==
    /\ NoLlamarTypeOK
    /\ impagas \subseteq Cuotas
    /\ cancelar \in BOOLEAN
    /\ paso \in [Syncs -> Pasos]
    /\ modo \in [Syncs -> Modos]
    /\ bloq \in [Syncs -> SUBSET Clientes]
    /\ vistas \in [Syncs -> SUBSET Cuotas]
    /\ pagina \in [Syncs -> Nat] /\ total \in [Syncs -> Nat]
    /\ lista \in [Syncs -> SUBSET Cuotas]
    /\ movida \in [Syncs -> BOOLEAN]
    /\ tarde \in [Syncs -> SUBSET Cuotas]
    /\ movs \in Nat /\ fallas \in Nat

Init ==
    /\ NoLlamarInit
    /\ impagas \in SUBSET Cuotas
    /\ cancelar = FALSE
    /\ paso = [s \in Syncs |-> "libre"] /\ modo = [s \in Syncs |-> "cron_daily"]
    /\ bloq = [s \in Syncs |-> {}] /\ vistas = [s \in Syncs |-> {}]
    /\ pagina = [s \in Syncs |-> 0] /\ total = [s \in Syncs |-> 0]
    /\ lista = [s \in Syncs |-> {}] /\ tarde = [s \in Syncs |-> {}]
    /\ movida = [s \in Syncs |-> FALSE]
    /\ movs = 0 /\ fallas = 0

-----------------------------------------------------------------------------
\* _build_cartera_query: a manual load brings filters of its own.
Pide(m) == impagas \cap (IF m = "manual" THEN Cuotas ELSE Ventana)

\* Softseguros lists the cuotas in order, which is their number here, and cuts them in pages.
Orden(q, c) == Cardinality({d \in q : d <= c})

EnPagina(q, n) == {c \in q : (n - 1) * PageSize < Orden(q, c) /\ Orden(q, c) <= n * PageSize}

\* Where a sync goes; a sync that has ended keeps nothing but its log.
Sigue(s, p) ==
    /\ paso' = [paso EXCEPT ![s] = p]
    /\ movida' = [movida EXCEPT ![s] = @ /\ p # "libre"]

\* A sync starts: by cron (or by the catch-up at boot), or because the staff asks for it.
\* get_no_llamar_clientes is read once for the whole run.
Arranca(s, m) ==
    /\ paso[s] = "libre"
    /\ IF s = Cron THEN m = "cron_daily" /\ UNCHANGED gestiones ELSE Gestiona
    /\ Sigue(s, "pagina")
    /\ modo' = [modo EXCEPT ![s] = m]
    /\ bloq' = [bloq EXCEPT ![s] = bloqueados]
    /\ UNCHANGED <<filaVars, clienteVars, impagas, cancelar, vistas, pagina, total,
                   lista, tarde, cotaVars>>

\* Mutant: the loop over pages leaves out the last one.
SinLaUltima(n, t) == t <= (n + 1) * PageSize

\* The last page is ceil(total / PAGE_SIZE), and at least the first.
UltimaLeida(n, t) == t <= n * PageSize

\* list_pagos_filtrados and _handle.  From the second page on the flag is looked at first.
LeePagina(s) ==
    /\ paso[s] = "pagina"
    /\ pagina[s] > 0 => ~cancelar
    /\ LET n == pagina[s] + 1
           q == Pide(modo[s])
           t == IF n = 1 THEN Cardinality(q) ELSE total[s]
       IN /\ pagina' = [pagina EXCEPT ![s] = n]
          /\ total' = [total EXCEPT ![s] = t]
          /\ vistas' = [vistas EXCEPT ![s] = @ \cup EnPagina(q, n)]
          /\ Sigue(s, IF UltimaLeida(n, t) THEN "escribe" ELSE "pagina")
    /\ UNCHANGED <<filaVars, clienteVars, gestiones, impagas, cancelar, modo, bloq, lista,
                   tarde, cotaVars>>

\* The local variables of a sync that ends without writing.
Suelta(s) ==
    /\ Sigue(s, "libre")
    /\ modo' = [modo EXCEPT ![s] = "cron_daily"]
    /\ bloq' = [bloq EXCEPT ![s] = {}] /\ vistas' = [vistas EXCEPT ![s] = {}]
    /\ pagina' = [pagina EXCEPT ![s] = 0] /\ total' = [total EXCEPT ![s] = 0]
    /\ lista' = [lista EXCEPT ![s] = {}] /\ tarde' = [tarde EXCEPT ![s] = {}]

\* _check_cancel finds the flag, clears it and stops the sync.
CheckCancel(s) ==
    /\ paso[s] = "pagina" /\ pagina[s] > 0
    /\ cancelar
    /\ cancelar' = FALSE
    /\ Suelta(s)
    /\ UNCHANGED <<filaVars, clienteVars, gestiones, impagas, cotaVars>>

\* Mutants: no_llamar is one of the fields refreshed by every sync,
UpsertRefrescaNoLlamar(s, cs) ==
    /\ activa' = [c \in Cuotas |-> IF c \in cs THEN "si" ELSE activa[c]]
    /\ fija' = [c \in Cuotas |-> fija[c] \/ (c \in cs /\ modo[s] = "manual")]
    /\ motivo' = [c \in Cuotas |-> IF c \notin cs THEN motivo[c]
                                   ELSE IF Cliente[c] \in bloq[s] THEN "cliente_bloqueado"
                                   ELSE "ninguno"]
    /\ UNCHANGED <<tipo, por>>

\* is_active is among the fields written on insert only,
UpsertSoloInserta(s, cs) ==
    /\ activa' = [c \in Cuotas |-> IF c \in cs /\ ~Existe(c) THEN "si" ELSE activa[c]]
    /\ fija' = [c \in Cuotas |-> fija[c] \/ (c \in cs /\ modo[s] = "manual")]
    /\ motivo' = [c \in Cuotas |-> IF c \in cs /\ Cliente[c] \in bloq[s]
                                   THEN "cliente_bloqueado" ELSE motivo[c]]
    /\ UNCHANGED <<tipo, por>>

\* and the list of blocked clients is not looked at.
UpsertSinLista(s, cs) ==
    /\ activa' = [c \in Cuotas |-> IF c \in cs THEN "si" ELSE activa[c]]
    /\ fija' = [c \in Cuotas |-> fija[c] \/ (c \in cs /\ modo[s] = "manual")]
    /\ UNCHANGED <<motivo, tipo, por>>

\* The upserts of some cuotas, with the documents that the sync found blocked.
Upsert(s, cs) ==
    /\ activa' = [c \in Cuotas |-> IF c \in cs THEN "si" ELSE activa[c]]
    /\ fija' = [c \in Cuotas |-> fija[c] \/ (c \in cs /\ modo[s] = "manual")]
    /\ motivo' = [c \in Cuotas |-> IF c \in cs /\ Cliente[c] \in bloq[s]
                                   THEN "cliente_bloqueado" ELSE motivo[c]]
    /\ UNCHANGED <<tipo, por>>

\* Mutant: no mode sweeps.
TrasEscribirSinBarrer(s) ==
    /\ Sigue(s, "pendientes")
    /\ modo' = [modo EXCEPT ![s] = "cron_daily"]
    /\ bloq' = [bloq EXCEPT ![s] = {}]
    /\ pagina' = [pagina EXCEPT ![s] = 0] /\ total' = [total EXCEPT ![s] = 0]

\* After the bulk write: a standing sync sweeps, a manual load does not.
TrasEscribir(s) ==
    /\ Sigue(s, IF modo[s] = "cron_daily" THEN "activas" ELSE "pendientes")
    /\ modo' = [modo EXCEPT ![s] = "cron_daily"]
    /\ bloq' = [bloq EXCEPT ![s] = {}]
    /\ pagina' = [pagina EXCEPT ![s] = 0] /\ total' = [total EXCEPT ![s] = 0]

\* bulk_write_debtor_ops.  A BulkWriteError leaves part of it undone, and the sync goes on.
Escribe(s) ==
    /\ paso[s] = "escribe"
    /\ \/ Upsert(s, vistas[s]) /\ UNCHANGED fallas
       \/ /\ fallas < MaxFallas /\ fallas' = fallas + 1
          /\ \E cs \in SUBSET vistas[s] : Upsert(s, cs)
    /\ TrasEscribir(s)
    /\ UNCHANGED <<clienteVars, gestiones, impagas, cancelar, vistas, lista, tarde, movs>>

\* list_active_softseguros_pago_ids leaves pinned rows out.
ListaActivas(s) ==
    /\ paso[s] = "activas"
    /\ LET faltan == {c \in Cuotas : activa[c] = "si" /\ ~fija[c]} \ vistas[s]
       IN /\ lista' = [lista EXCEPT ![s] = faltan]
          /\ Sigue(s, IF faltan = {} THEN "pendientes" ELSE "barre")
    /\ vistas' = [vistas EXCEPT ![s] = {}]
    /\ UNCHANGED <<filaVars, clienteVars, gestiones, impagas, cancelar, modo, bloq, pagina,
                   total, tarde, cotaVars>>

\* mark_debtor_paid_by_softseguros_pago_id, row by row, by its id alone.
Barre(s, c) ==
    /\ paso[s] = "barre"
    /\ c \in lista[s]
    /\ activa' = [activa EXCEPT ![c] = "no"]
    /\ lista' = [lista EXCEPT ![s] = @ \ {c}]
    /\ Sigue(s, IF lista[s] = {c} THEN "pendientes" ELSE "barre")
    /\ UNCHANGED <<fija, motivo, tipo, por, clienteVars, gestiones, impagas, cancelar, modo,
                   bloq, vistas, pagina, total, tarde, cotaVars>>

-----------------------------------------------------------------------------
\* Mutants: every active row, or only those that may be called.
ActivasTodas == {c \in Cuotas : activa[c] = "si"}
SinTipoLlamables == {c \in Cuotas : activa[c] = "si" /\ tipo[c] = "nulo" /\ motivo[c] = "ninguno"}

SinTipo == {c \in Cuotas : activa[c] = "si" /\ tipo[c] = "nulo"}

\* run_clasificacion: active rows without tipo_entidad.
Pendientes(s) ==
    /\ paso[s] = "pendientes"
    /\ lista' = [lista EXCEPT ![s] = SinTipo]
    /\ vistas' = [vistas EXCEPT ![s] = {}]
    /\ Sigue(s, IF SinTipo = {} THEN "libre" ELSE "marca")
    /\ UNCHANGED <<filaVars, clienteVars, gestiones, impagas, cancelar, modo, bloq, pagina,
                   total, tarde, cotaVars>>

\* Mutant: type and author in each other's place.
MarcarCambiado(c, t, quien) ==
    /\ tipo' = [tipo EXCEPT ![c] = quien]
    /\ por' = [por EXCEPT ![c] = t]
    /\ motivo' = [motivo EXCEPT ![c] = IF t = "estatal" THEN "entidad_estatal" ELSE @]
    /\ UNCHANGED <<activa, fija>>

\* _marcar, by _id alone.
Marcar(c, t, quien) ==
    /\ tipo' = [tipo EXCEPT ![c] = t]
    /\ por' = [por EXCEPT ![c] = quien]
    /\ motivo' = [motivo EXCEPT ![c] = IF t = "estatal" THEN "entidad_estatal" ELSE @]
    /\ UNCHANGED <<activa, fija>>

TrasMarcar(s, c) ==
    /\ lista' = [lista EXCEPT ![s] = @ \ {c}]
    /\ tarde' = [tarde EXCEPT ![s] = @ \ {c}]
    /\ Sigue(s, IF lista[s] = {c} THEN "libre" ELSE "marca")
    /\ UNCHANGED <<clienteVars, gestiones, impagas, cancelar, modo, bloq, vistas, pagina,
                   total, cotaVars>>

\* The first layer knows the name; the second asks the LLM about the names that are left.
MarcaRegex(s, c) ==
    /\ paso[s] = "marca"
    /\ c \in lista[s] \cap Estatales
    /\ Marcar(c, "estatal", "regex")
    /\ TrasMarcar(s, c)

MarcaLLM(s, c) ==
    /\ paso[s] = "marca"
    /\ c \in lista[s]
    /\ lista[s] \cap Estatales = {}
    /\ \E t \in {"estatal", "privada"} : Marcar(c, t, "llm")
    /\ TrasMarcar(s, c)

\* No verdict, or Mongo fails: what is left stays for the next sync, and this one ends well.
ClasificacionFalla(s) ==
    /\ paso[s] \in {"pendientes", "marca"}
    /\ fallas < MaxFallas /\ fallas' = fallas + 1
    /\ Suelta(s)
    /\ UNCHANGED <<filaVars, clienteVars, gestiones, impagas, cancelar, movs>>

\* Softseguros or Mongo fails before: the sync is logged as failed.
SyncFalla(s) ==
    /\ paso[s] \in {"pagina", "escribe", "activas", "barre"}
    /\ fallas < MaxFallas /\ fallas' = fallas + 1
    /\ Suelta(s)
    /\ UNCHANGED <<filaVars, clienteVars, gestiones, impagas, cancelar, movs>>

\* The process restarts: syncs and half-done requests are gone.
Reinicio ==
    /\ fallas < MaxFallas /\ fallas' = fallas + 1
    /\ gestion' = {}
    /\ paso' = [s \in Syncs |-> "libre"] /\ modo' = [s \in Syncs |-> "cron_daily"]
    /\ bloq' = [s \in Syncs |-> {}] /\ vistas' = [s \in Syncs |-> {}]
    /\ pagina' = [s \in Syncs |-> 0] /\ total' = [s \in Syncs |-> 0]
    /\ lista' = [s \in Syncs |-> {}] /\ tarde' = [s \in Syncs |-> {}]
    /\ movida' = [s \in Syncs |-> FALSE]
    /\ UNCHANGED <<filaVars, bloqueados, gestiones, impagas, cancelar, movs>>

-----------------------------------------------------------------------------
\* What happens around the syncs

\* A cuota is paid, or enters the window (again), at Softseguros.
CambiaCuota(c) ==
    /\ movs < MaxMovs /\ movs' = movs + 1
    /\ impagas' = IF c \in impagas THEN impagas \ {c} ELSE impagas \cup {c}
    /\ movida' = [s \in Syncs |-> paso[s] # "libre"]
    /\ UNCHANGED <<filaVars, clienteVars, gestiones, cancelar, paso, modo, bloq, vistas, pagina,
                   total, lista, tarde, fallas>>

\* POST /sync-cancel, whether or not a sync is running.
SyncCancel ==
    /\ Gestiona
    /\ cancelar' = TRUE
    /\ UNCHANGED <<filaVars, clienteVars, impagas, syncVars, cotaVars>>

\* A decision on a row, perhaps one whose verdict is being awaited.
Decide(c) ==
    /\ OptOut(c) \/ PatchNoLlamar(c, TRUE) \/ PatchNoLlamar(c, FALSE)
    /\ tarde' = [s \in Syncs |-> IF paso[s] = "marca" /\ c \in lista[s]
                                 THEN tarde[s] \cup {c} ELSE tarde[s]]
    /\ UNCHANGED <<impagas, cancelar, paso, modo, bloq, vistas, pagina, total, lista, movida,
                   cotaVars>>

DecideCliente(c) ==
    /\ ClienteEnLista(c, TRUE) \/ ClienteEnLista(c, FALSE)
    /\ UNCHANGED <<impagas, cancelar, syncVars, cotaVars>>

TerminaGestion(g) ==
    /\ ClienteEnFilas(g)
    /\ UNCHANGED <<impagas, cancelar, syncVars, cotaVars>>

\* A step of a sync that does its work.
Avanza(s) ==
    \/ LeePagina(s) \/ CheckCancel(s) \/ Escribe(s) \/ ListaActivas(s) \/ Pendientes(s)
    \/ \E c \in Cuotas : Barre(s, c) \/ MarcaRegex(s, c) \/ MarcaLLM(s, c)

Sync(s) ==
    \/ Avanza(s) \/ ClasificacionFalla(s) \/ SyncFalla(s)
    \/ \E m \in Modos : Arranca(s, m)

Next ==
    \/ \E s \in Syncs : Sync(s)
    \/ \E c \in Cuotas : Decide(c) \/ DecideCliente(c) \/ CambiaCuota(c)
    \/ \E g \in Clientes \X BOOLEAN : TerminaGestion(g)
    \/ SyncCancel
    \/ Reinicio

\* The event loop runs every coroutine on; the cron job comes back every day.
Fairness ==
    /\ \A s \in Syncs : WF_vars(Avanza(s))
    /\ WF_vars(Arranca(Cron, "cron_daily"))
    /\ \A g \in Clientes \X BOOLEAN : WF_vars(TerminaGestion(g))

Spec == Init /\ [][Next]_vars /\ Fairness

-----------------------------------------------------------------------------
(* Properties *)

\* The soft-delete sweep takes away what was paid or left the window, and nothing else, unless
\* the cartera moved between the pages (a cuota that is paid shifts the ones after it).
SweepsOnlyTheGone ==
    \A s \in Syncs :
       paso[s] = "barre" /\ ~movida[s] => lista[s] \cap impagas \cap Ventana = {}

\* no_llamar is lifted by people only: no sync, verdict, failure or restart makes a row callable.
OnlyPeopleLift ==
    [][\A c \in Cuotas :
         motivo[c] # "ninguno" /\ motivo'[c] = "ninguno" =>
            gestiones' # gestiones \/ gestion' # gestion]_vars

\* The classifier changes what a person decided on a row only if the decision came while the
\* verdict was awaited.  Its docstring promises that it never does (entidad_estatal.py:184); but
\* only the query looks for manual decisions (190), and a verdict is written by _id (209).
ManualOnlyInWindow ==
    [][\A c \in Cuotas :
         por[c] = "manual" /\ tipo[c] # "nulo" /\ por'[c] # "manual" =>
            \E s \in Syncs : c \in tarde[s]]_vars

\* A cuota that is no longer unpaid leaves the queue, whatever overlapping syncs write back.
PaidLeavesQueue ==
    \A c \in Cuotas :
       c \notin impagas /\ activa[c] = "si" /\ ~fija[c]
          ~> activa[c] = "no" \/ c \in impagas \/ fija[c]

\* A cuota of the window that is unpaid is in the queue, even if a sweep took it away by mistake.
UnpaidComesBack ==
    \A c \in Ventana :
       c \in impagas /\ activa[c] # "si" ~> activa[c] = "si" \/ c \notin impagas

\* A client on the list is not called on any cuota, although the request died between its writes.
BlockReachesRows ==
    \A c \in Ventana :
       c \in impagas /\ Cliente[c] \in bloqueados
          ~> motivo[c] # "ninguno" \/ Cliente[c] \notin bloqueados \/ c \notin impagas

\* Every row that may be called gets a tipo_entidad, although verdicts fail.
EventuallyClassified ==
    \A c \in Cuotas :
       activa[c] = "si" /\ tipo[c] = "nulo" ~> tipo[c] # "nulo" \/ activa[c] = "no"

=============================================================================
