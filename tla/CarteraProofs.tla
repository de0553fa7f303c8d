--------------------------- MODULE CarteraProofs ---------------------------
(***************************************************************************)
(* Theorems about the sync of the cartera and the people who decide on its *)
(* rows, for any cuotas, clients, page size, number of overlapping syncs,  *)
(* decisions, failures and restarts.                                       *)
(***************************************************************************)
EXTENDS Cartera, FiniteSetTheorems, TLAPS

\* A sync that is not running has read nothing, and one that has written forgets its pages.
Reposo ==
    \A s \in Syncs :
       /\ paso[s] = "libre" => ~movida[s]
       /\ paso[s] \notin {"pagina", "escribe"} => pagina[s] = 0
       /\ paso[s] \in {"libre", "barre", "marca"} => vistas[s] = {}

\* While Softseguros does not move, n pages hold the first n * PageSize cuotas.
Primeras(q, n) == {c \in q : Orden(q, c) <= n * PageSize}

PaginasLeidas ==
    \A s \in Syncs :
       paso[s] = "pagina" /\ ~movida[s] =>
          /\ vistas[s] = Primeras(Pide(modo[s]), pagina[s])
          /\ pagina[s] > 0 => total[s] = Cardinality(Pide(modo[s]))

\* All pages hold all cuotas, and that is what the sweep starts from.
TodoVisto ==
    \A s \in Syncs :
       /\ paso[s] = "escribe" /\ ~movida[s] => vistas[s] = Pide(modo[s])
       /\ paso[s] = "activas" /\ ~movida[s] => vistas[s] = Pide("cron_daily")

\* Only rows that a person decided on in the meantime are manual and still to be marked.
EnEspera ==
    \A s \in Syncs, c \in Cuotas :
       paso[s] = "marca" /\ c \in lista[s] /\ por[c] = "manual" /\ tipo[c] # "nulo" =>
          c \in tarde[s]

IInv == TypeOK /\ Reposo /\ PaginasLeidas /\ TodoVisto /\ SweepsOnlyTheGone /\ EnEspera

-----------------------------------------------------------------------------
\* The type invariant, action by action.
LEMMA InitTyped == Init => TypeOK
<1> SUFFICES ASSUME Init PROVE TypeOK
  OBVIOUS
<1>1. NoLlamarTypeOK
  BY DEF Init, NoLlamarInit, NoLlamarTypeOK, Motivos
<1>2. /\ paso \in [Syncs -> Pasos] /\ modo \in [Syncs -> Modos]
      /\ bloq \in [Syncs -> SUBSET Clientes] /\ vistas \in [Syncs -> SUBSET Cuotas]
      /\ lista \in [Syncs -> SUBSET Cuotas] /\ tarde \in [Syncs -> SUBSET Cuotas]
  BY DEF Init, Pasos, Modos
<1>3. /\ impagas \subseteq Cuotas /\ cancelar \in BOOLEAN /\ movida \in [Syncs -> BOOLEAN]
      /\ pagina \in [Syncs -> Nat] /\ total \in [Syncs -> Nat]
      /\ movs \in Nat /\ fallas \in Nat
  BY DEF Init
<1> QED
  BY <1>1, <1>2, <1>3 DEF TypeOK

LEMMA UnpaidFinite ==
    ASSUME TypeOK, NEW m PROVE IsFiniteSet(Pide(m)) /\ Cardinality(Pide(m)) \in Nat
<1>1. Pide(m) \subseteq Cuotas
  BY DEF Pide, TypeOK
<1> QED
  BY <1>1, CarteraAssumption, FS_Subset, FS_CardinalityType DEF CarteraAssumption

\* What a decision on a row or a client changes.
LEMMA PeopleTyped ==
    ASSUME TypeOK, NEW c \in Cuotas, Decide(c) \/ DecideCliente(c) PROVE TypeOK'
<1> USE DEF TypeOK, NoLlamarTypeOK, Motivos
<1>1. CASE Decide(c)
  <2>1. NoLlamarTypeOK'
    <3>1. CASE OptOut(c)
      BY <3>1, <1>1 DEF OptOut, Gestiona, clienteVars
    <3>2. ASSUME NEW b \in BOOLEAN, PatchNoLlamar(c, b) PROVE NoLlamarTypeOK'
      BY <3>2 DEF PatchNoLlamar, Gestiona, clienteVars
    <3> QED
      BY <1>1, <3>1, <3>2 DEF Decide
  <2> QED
    BY <1>1, <2>1 DEF Decide, cotaVars
<1>2. CASE DecideCliente(c)
  <2>1. NoLlamarTypeOK'
    <3>1. Cliente[c] \in Clientes
      BY NoLlamarAssumption DEF NoLlamarAssumption
    <3>2. ASSUME NEW b \in BOOLEAN, ClienteEnLista(c, b) PROVE NoLlamarTypeOK'
      BY <3>1, <3>2 DEF ClienteEnLista, Gestiona, filaVars
    <3> QED
      BY <1>2, <3>2 DEF DecideCliente
  <2> QED
    BY <1>2, <2>1 DEF DecideCliente, cotaVars, syncVars
<1> QED
  BY <1>1, <1>2

LEMMA SyncTyped == ASSUME TypeOK, NEW s \in Syncs, Sync(s) PROVE TypeOK'
<1> USE DEF TypeOK, NoLlamarTypeOK, Motivos, Pasos, Modos, filaVars, clienteVars,
            cotaVars, Sigue
<1>1. CASE LeePagina(s)
  <2>1. Cardinality(Pide(modo[s])) \in Nat /\ EnPagina(Pide(modo[s]), pagina[s] + 1) \subseteq Cuotas
    BY UnpaidFinite DEF EnPagina, Pide
  <2> QED
    BY <1>1, <2>1 DEF LeePagina
<1>2. CASE CheckCancel(s)
  BY <1>2 DEF CheckCancel, Suelta
<1>3. CASE Escribe(s)
  <2>1. PICK cs \in SUBSET vistas[s] : Upsert(s, cs)
    BY <1>3 DEF Escribe
  <2>2. cs \subseteq Cuotas
    BY <2>1
  <2>3. NoLlamarTypeOK'
    BY <1>3, <2>1, <2>2 DEF Escribe, Upsert
  <2> QED
    BY <1>3, <2>3 DEF Escribe, TrasEscribir
<1>4. CASE ListaActivas(s)
  BY <1>4 DEF ListaActivas
<1>5. CASE Pendientes(s)
  BY <1>5 DEF Pendientes, SinTipo
<1>6. ASSUME NEW c \in Cuotas, Barre(s, c) PROVE TypeOK'
  BY <1>6 DEF Barre
<1>7. ASSUME NEW c \in Cuotas, MarcaRegex(s, c) PROVE TypeOK'
  BY <1>7 DEF MarcaRegex, Marcar, TrasMarcar
<1>8. ASSUME NEW c \in Cuotas, MarcaLLM(s, c) PROVE TypeOK'
  BY <1>8 DEF MarcaLLM, Marcar, TrasMarcar
<1>9. CASE ClasificacionFalla(s)
  BY <1>9 DEF ClasificacionFalla, Suelta
<1>10. CASE SyncFalla(s)
  BY <1>10 DEF SyncFalla, Suelta
<1>11. ASSUME NEW m \in Modos, Arranca(s, m) PROVE TypeOK'
  BY <1>11 DEF Arranca, Gestiona
<1> QED
  BY <1>1, <1>2, <1>3, <1>4, <1>5, <1>6, <1>7, <1>8, <1>9, <1>10, <1>11 DEF Sync, Avanza

LEMMA NextTyped == TypeOK /\ [Next]_vars => TypeOK'
<1> SUFFICES ASSUME TypeOK, [Next]_vars PROVE TypeOK'
  OBVIOUS
<1>1. ASSUME NEW g \in Clientes \X BOOLEAN, TerminaGestion(g) PROVE TypeOK'
  BY <1>1 DEF TerminaGestion, ClienteEnFilas, TypeOK, NoLlamarTypeOK, Motivos,
              cotaVars, syncVars
<1>2. ASSUME NEW c \in Cuotas, CambiaCuota(c) PROVE TypeOK'
  BY <1>2 DEF CambiaCuota, TypeOK, NoLlamarTypeOK, filaVars, clienteVars
<1>3. CASE SyncCancel
  BY <1>3 DEF SyncCancel, Gestiona, TypeOK, NoLlamarTypeOK, filaVars, clienteVars, syncVars,
              cotaVars
<1>4. CASE Reinicio
  BY <1>4 DEF Reinicio, TypeOK, NoLlamarTypeOK, filaVars, Pasos, Modos
<1>5. CASE UNCHANGED vars
  BY <1>5 DEF vars, TypeOK, NoLlamarTypeOK, filaVars, clienteVars, cotaVars, syncVars
<1> QED
  BY <1>1, <1>2, <1>3, <1>4, <1>5, PeopleTyped, SyncTyped DEF Next

\* Rows, people, Softseguros and every half-done sync keep their type.
THEOREM Typing == Spec => []TypeOK
<1> QED
  BY InitTyped, NextTyped, PTL DEF Spec

-----------------------------------------------------------------------------
(* The lists *)

\* A page extends the cuotas read by the next ones in order.
LEMMA NextPage ==
    ASSUME NEW q, IsFiniteSet(q), q \subseteq Nat, NEW n \in Nat
    PROVE  /\ Primeras(q, 0) = {}
           /\ Primeras(q, n) \cup EnPagina(q, n + 1) = Primeras(q, n + 1)
<1> USE CarteraAssumption DEF CarteraAssumption
<1>1. ASSUME NEW c \in q PROVE Orden(q, c) \in Nat /\ Orden(q, c) >= 1
  <2> DEFINE hasta == {d \in q : d <= c}
  <2>1. IsFiniteSet(hasta)
    BY FS_Subset
  <2>2. c \in hasta
    OBVIOUS
  <2>3. Cardinality(hasta) \in Nat /\ Cardinality(hasta) # 0
    BY <2>1, <2>2, FS_CardinalityType, FS_EmptySet
  <2> QED
    BY <2>3 DEF Orden
<1>2. Primeras(q, 0) = {}
  <2>1. 0 * PageSize = 0
    OBVIOUS
  <2>2. ASSUME NEW c \in q PROVE ~(Orden(q, c) <= 0 * PageSize)
    BY <1>1, <2>1
  <2> QED
    BY <2>2 DEF Primeras
<1>3. /\ n * PageSize \in Nat /\ (n + 1) * PageSize \in Nat
      /\ n * PageSize <= (n + 1) * PageSize
      /\ (n + 1) - 1 = n
  <2>1. ASSUME NEW k \in Nat PROVE (n + 1) * k = n * k + k /\ n * k \in Nat
    OBVIOUS
  <2> QED
    BY <2>1
<1>4. ASSUME NEW c \in q
      PROVE  (c \in Primeras(q, n) \/ c \in EnPagina(q, n + 1)) <=> c \in Primeras(q, n + 1)
  BY <1>1, <1>3, <1>4 DEF Primeras, EnPagina
<1>5. Primeras(q, n) \subseteq q /\ EnPagina(q, n + 1) \subseteq q /\ Primeras(q, n + 1) \subseteq q
  BY DEF Primeras, EnPagina
<1> QED
  BY <1>2, <1>4, <1>5

\* The pages up to the last one hold the whole list.
LEMMA LastPage ==
    ASSUME NEW q, IsFiniteSet(q), q \subseteq Nat, NEW n \in Nat, UltimaLeida(n, Cardinality(q))
    PROVE  Primeras(q, n) = q
<1> USE CarteraAssumption DEF CarteraAssumption
<1>1. ASSUME NEW c \in q PROVE Orden(q, c) \in Nat /\ Orden(q, c) <= Cardinality(q)
  <2>1. {d \in q : d <= c} \subseteq q
    OBVIOUS
  <2> QED
    BY <2>1, FS_Subset, FS_CardinalityType DEF Orden
<1>2. Cardinality(q) \in Nat /\ n * PageSize \in Nat /\ Cardinality(q) <= n * PageSize
  BY FS_CardinalityType DEF UltimaLeida
<1>3. ASSUME NEW c \in q PROVE Orden(q, c) <= n * PageSize
  BY <1>1, <1>2
<1> QED
  BY <1>3 DEF Primeras

\* Steps that leave a sync's variables, and the lists, alone.
LEMMA SyncsUntouched ==
    ASSUME IInv, UNCHANGED <<impagas, syncVars, filaVars>>
    PROVE  Reposo' /\ PaginasLeidas' /\ TodoVisto' /\ SweepsOnlyTheGone' /\ EnEspera'
<1>1. /\ \A s \in Syncs : Pide(modo[s])' = Pide(modo[s])
      /\ Pide("cron_daily")' = Pide("cron_daily")
  BY DEF Pide, syncVars
<1>2. Reposo' /\ TodoVisto' /\ SweepsOnlyTheGone' /\ EnEspera'
  BY <1>1 DEF IInv, syncVars, filaVars, Reposo, TodoVisto, SweepsOnlyTheGone, EnEspera
<1>3. PaginasLeidas'
  BY <1>1 DEF IInv, PaginasLeidas, syncVars
<1> QED
  BY <1>2, <1>3

\* Every step of a sync keeps what is known about the lists of all of them.
LEMMA SyncLists ==
    ASSUME IInv, NEW s \in Syncs, Sync(s)
    PROVE  Reposo' /\ PaginasLeidas' /\ TodoVisto' /\ SweepsOnlyTheGone'
<1>0. TypeOK /\ Reposo /\ PaginasLeidas /\ TodoVisto /\ SweepsOnlyTheGone
  BY DEF IInv
<1>u. /\ Pide("cron_daily") = impagas \cap Ventana
      /\ impagas' = impagas => \A m \in Modos : Pide(m)' = Pide(m)
  <2>1. Pide("cron_daily") = impagas \cap Ventana
    BY DEF Pide
  <2>2. ASSUME impagas' = impagas, NEW m \in Modos PROVE Pide(m)' = Pide(m)
    BY <2>2 DEF Pide
  <2> QED
    BY <2>1, <2>2
<1> USE <1>0, <1>u DEF TypeOK, Sigue, Pasos, Modos
<1>1. CASE LeePagina(s)
  <2> DEFINE q == Pide(modo[s])
             n == pagina[s] + 1
  <2>1. IsFiniteSet(q) /\ q \subseteq Nat /\ n \in Nat /\ pagina[s] \in Nat
    <3>1. IsFiniteSet(q)
      BY UnpaidFinite
    <3>2. q \subseteq Nat
      BY NoLlamarAssumption DEF Pide, NoLlamarAssumption
    <3> QED
      BY <3>1, <3>2
  <2>2. Cardinality(q) \in Nat
    BY UnpaidFinite
  <2>3. vistas'[s] = vistas[s] \cup EnPagina(q, n) /\ pagina'[s] = n /\ modo'[s] = modo[s]
    BY <1>1 DEF LeePagina
  <2>4. movida'[s] = movida[s] /\ paso'[s] \in {"pagina", "escribe"}
    BY <1>1 DEF LeePagina
  <2>5. ~movida[s] => vistas'[s] = Primeras(q, n) /\ total'[s] = Cardinality(q)
    <3>1. ~movida[s] => vistas[s] = Primeras(q, pagina[s])
      BY <1>1 DEF LeePagina, PaginasLeidas
    <3>2. ~movida[s] => vistas'[s] = Primeras(q, n)
      BY <2>1, <2>3, <3>1, NextPage
    <3>3. n = 1 \/ pagina[s] > 0
      BY <2>1
    <3>4. total'[s] = IF n = 1 THEN Cardinality(q) ELSE total[s]
      BY <1>1 DEF LeePagina
    <3>5. ~movida[s] => total'[s] = Cardinality(q)
      BY <1>1, <3>3, <3>4 DEF LeePagina, PaginasLeidas
    <3> QED
      BY <3>2, <3>5
  <2>6. ~movida[s] /\ paso'[s] = "escribe" => vistas'[s] = q
    <3>1. paso'[s] = "escribe" => UltimaLeida(n, total'[s])
      BY <1>1 DEF LeePagina
    <3> QED
      BY <2>1, <2>5, <3>1, LastPage
  <2>7. \A r \in Syncs \ {s} : /\ paso'[r] = paso[r] /\ movida'[r] = movida[r]
                                /\ vistas'[r] = vistas[r] /\ pagina'[r] = pagina[r]
                                /\ total'[r] = total[r]
    BY <1>1 DEF LeePagina
  <2>8. UNCHANGED <<impagas, modo, lista>>
    BY <1>1 DEF LeePagina
  <2>9. Reposo'
    BY <2>3, <2>4, <2>7 DEF Reposo
  <2>10. PaginasLeidas'
    <3>1. ASSUME NEW r \in Syncs, paso'[r] = "pagina", ~movida'[r]
          PROVE  /\ vistas'[r] = Primeras(Pide(modo[r]), pagina'[r])
                 /\ pagina'[r] > 0 => total'[r] = Cardinality(Pide(modo[r]))
      <4>1. CASE r = s
        BY <4>1, <3>1, <2>3, <2>4, <2>5
      <4>2. CASE r # s
        BY <4>2, <3>1, <2>7 DEF PaginasLeidas
      <4> QED
        BY <4>1, <4>2
    <3> QED
      BY <3>1, <2>8 DEF PaginasLeidas
  <2>11. TodoVisto'
    <3>1. ASSUME NEW r \in Syncs, ~movida'[r]
          PROVE  /\ paso'[r] = "escribe" => vistas'[r] = Pide(modo[r])
                 /\ paso'[r] = "activas" => vistas'[r] = Pide("cron_daily")
      <4>1. CASE r = s
        BY <4>1, <3>1, <2>4, <2>6
      <4>2. CASE r # s
        BY <4>2, <3>1, <2>7 DEF TodoVisto
      <4> QED
        BY <4>1, <4>2
    <3> QED
      BY <3>1, <2>8 DEF TodoVisto
  <2>12. SweepsOnlyTheGone'
    BY <2>4, <2>7, <2>8 DEF SweepsOnlyTheGone
  <2> QED
    BY <2>9, <2>10, <2>11, <2>12
<1>2. CASE Suelta(s) /\ UNCHANGED impagas
  BY <1>2 DEF Suelta, Reposo, PaginasLeidas, TodoVisto, SweepsOnlyTheGone
<1>3. CASE Escribe(s)
  BY <1>3 DEF Escribe, TrasEscribir, Reposo, PaginasLeidas, TodoVisto, SweepsOnlyTheGone
<1>4. CASE ListaActivas(s)
  BY <1>4 DEF ListaActivas, Reposo, PaginasLeidas, TodoVisto, SweepsOnlyTheGone
<1>5. CASE Pendientes(s)
  BY <1>5 DEF Pendientes, Reposo, PaginasLeidas, TodoVisto, SweepsOnlyTheGone
<1>6. ASSUME NEW c \in Cuotas, Barre(s, c)
      PROVE  Reposo' /\ PaginasLeidas' /\ TodoVisto' /\ SweepsOnlyTheGone'
  BY <1>6 DEF Barre, Reposo, PaginasLeidas, TodoVisto, SweepsOnlyTheGone
<1>7. ASSUME NEW c \in Cuotas, paso[s] = "marca", TrasMarcar(s, c)
      PROVE  Reposo' /\ PaginasLeidas' /\ TodoVisto' /\ SweepsOnlyTheGone'
  BY <1>7 DEF TrasMarcar, Reposo, PaginasLeidas, TodoVisto, SweepsOnlyTheGone
<1>8. ASSUME NEW m \in Modos, Arranca(s, m)
      PROVE  Reposo' /\ PaginasLeidas' /\ TodoVisto' /\ SweepsOnlyTheGone'
  <2>1. Pide(m) \subseteq Nat
    BY NoLlamarAssumption DEF Pide, NoLlamarAssumption
  <2>2. Primeras(Pide(m), 0) = {}
    BY <2>1, UnpaidFinite, NextPage
  <2> QED
    BY <1>8, <2>2 DEF Arranca, Reposo, PaginasLeidas, TodoVisto, SweepsOnlyTheGone
<1> QED
  BY <1>1, <1>2, <1>3, <1>4, <1>5, <1>6, <1>7, <1>8
     DEF Sync, Avanza, CheckCancel, MarcaRegex, MarcaLLM, ClasificacionFalla, SyncFalla

\* A mark stamps its own author, so it cannot make a row manual; a decision that comes while
\* the row waits is remembered.
LEMMA SyncWaits == ASSUME IInv, NEW s \in Syncs, Sync(s) PROVE EnEspera'
<1> USE DEF IInv, TypeOK, NoLlamarTypeOK, Sigue, Pasos, filaVars, EnEspera
<1>1. CASE LeePagina(s)
  BY <1>1 DEF LeePagina
<1>2. CASE Suelta(s) /\ UNCHANGED filaVars
  BY <1>2 DEF Suelta
<1>3. CASE Escribe(s)
  BY <1>3 DEF Escribe, TrasEscribir, Upsert
<1>4. CASE ListaActivas(s)
  BY <1>4 DEF ListaActivas
<1>5. CASE Pendientes(s)
  BY <1>5 DEF Pendientes, SinTipo
<1>6. ASSUME NEW c \in Cuotas, Barre(s, c) PROVE EnEspera'
  BY <1>6 DEF Barre
<1>7. ASSUME NEW c \in Cuotas, NEW t, NEW quien \in {"regex", "llm"},
             paso[s] = "marca", Marcar(c, t, quien), TrasMarcar(s, c)
      PROVE  EnEspera'
  BY <1>7 DEF Marcar, TrasMarcar
<1>8. ASSUME NEW m \in Modos, Arranca(s, m) PROVE EnEspera'
  BY <1>8 DEF Arranca
<1> QED
  BY <1>1, <1>2, <1>3, <1>4, <1>5, <1>6, <1>7, <1>8
     DEF Sync, Avanza, CheckCancel, MarcaRegex, MarcaLLM, ClasificacionFalla, SyncFalla

LEMMA DecisionWaits == ASSUME IInv, NEW c \in Cuotas, Decide(c) PROVE EnEspera'
<1> SUFFICES ASSUME NEW s \in Syncs, NEW x \in Cuotas,
                    paso'[s] = "marca", x \in lista'[s], por'[x] = "manual", tipo'[x] # "nulo"
             PROVE  x \in tarde'[s]
  BY DEF EnEspera
<1> USE DEF IInv, TypeOK, NoLlamarTypeOK, EnEspera
<1>1. /\ paso' = paso /\ lista' = lista
      /\ tarde'[s] = IF paso[s] = "marca" /\ c \in lista[s] THEN tarde[s] \cup {c} ELSE tarde[s]
  BY DEF Decide
<1>2. CASE x = c
  BY <1>1, <1>2
<1>3. CASE x # c
  <2>1. por'[x] = por[x] /\ tipo'[x] = tipo[x]
    BY <1>3 DEF Decide, OptOut, PatchNoLlamar
  <2> QED
    BY <1>1, <2>1
<1> QED
  BY <1>2, <1>3

-----------------------------------------------------------------------------
LEMMA Invariant == IInv /\ [Next]_vars => IInv'
<1> SUFFICES ASSUME IInv, [Next]_vars PROVE IInv'
  OBVIOUS
<1>0. TypeOK'
  BY NextTyped DEF IInv
<1>1. ASSUME NEW s \in Syncs, Sync(s) PROVE IInv'
  BY <1>0, <1>1, SyncLists, SyncWaits DEF IInv
<1>2. ASSUME NEW c \in Cuotas, Decide(c) PROVE IInv'
  <2>1. UNCHANGED <<impagas, paso, modo, vistas, pagina, total, lista, movida>>
    BY <1>2 DEF Decide
  <2>2. Reposo' /\ PaginasLeidas' /\ TodoVisto' /\ SweepsOnlyTheGone'
    BY <2>1 DEF IInv, Reposo, PaginasLeidas, TodoVisto, SweepsOnlyTheGone, Pide
  <2> QED
    BY <1>0, <1>2, <2>2, DecisionWaits DEF IInv
<1>3. ASSUME NEW c \in Cuotas, DecideCliente(c) PROVE IInv'
  <2>1. UNCHANGED <<impagas, syncVars, filaVars>>
    BY <1>3 DEF DecideCliente, ClienteEnLista
  <2> QED
    BY <1>0, <2>1, SyncsUntouched DEF IInv
<1>4. ASSUME NEW g \in Clientes \X BOOLEAN, TerminaGestion(g) PROVE IInv'
  <2>1. UNCHANGED <<impagas, syncVars, tipo, por>>
    BY <1>4 DEF TerminaGestion, ClienteEnFilas
  <2>2. Reposo' /\ PaginasLeidas' /\ TodoVisto' /\ SweepsOnlyTheGone' /\ EnEspera'
    BY <2>1 DEF IInv, Reposo, PaginasLeidas, TodoVisto, SweepsOnlyTheGone, EnEspera, Pide, syncVars
  <2> QED
    BY <1>0, <2>2 DEF IInv
<1>5. CASE SyncCancel
  <2>1. UNCHANGED <<impagas, syncVars, filaVars>>
    BY <1>5 DEF SyncCancel
  <2> QED
    BY <1>0, <2>1, SyncsUntouched DEF IInv
<1>6. ASSUME NEW c \in Cuotas, CambiaCuota(c) PROVE IInv'
  <2>1. /\ UNCHANGED <<paso, modo, vistas, pagina, total, lista, tarde, filaVars>>
        /\ \A s \in Syncs : movida'[s] = (paso[s] # "libre")
    BY <1>6 DEF CambiaCuota
  <2>2. Reposo' /\ PaginasLeidas' /\ TodoVisto' /\ SweepsOnlyTheGone' /\ EnEspera'
    BY <2>1 DEF IInv, Reposo, PaginasLeidas, TodoVisto, SweepsOnlyTheGone, EnEspera, filaVars
  <2> QED
    BY <1>0, <2>2 DEF IInv
<1>7. CASE Reinicio
  <2>1. Reposo' /\ PaginasLeidas' /\ TodoVisto' /\ SweepsOnlyTheGone' /\ EnEspera'
    BY <1>7 DEF Reinicio, Reposo, PaginasLeidas, TodoVisto, SweepsOnlyTheGone, EnEspera
  <2> QED
    BY <1>0, <2>1 DEF IInv
<1>8. CASE UNCHANGED vars
  <2>1. UNCHANGED <<impagas, syncVars, filaVars>>
    BY <1>8 DEF vars
  <2> QED
    BY <1>0, <2>1, SyncsUntouched DEF IInv
<1> QED
  BY <1>1, <1>2, <1>3, <1>4, <1>5, <1>6, <1>7, <1>8 DEF Next

LEMMA Start == Init => IInv
<1> SUFFICES ASSUME Init PROVE IInv
  OBVIOUS
<1>1. TypeOK
  BY InitTyped
<1>2. Reposo /\ PaginasLeidas /\ TodoVisto /\ SweepsOnlyTheGone /\ EnEspera
  BY DEF Init, Reposo, PaginasLeidas, TodoVisto, SweepsOnlyTheGone, EnEspera
<1> QED
  BY <1>1, <1>2 DEF IInv

\* A sweep that no change at Softseguros has crossed takes away only rows that are no longer
\* unpaid in the window, with any number of pages and of syncs at once.
THEOREM Sweeps == Spec => []SweepsOnlyTheGone
<1>1. IInv => SweepsOnlyTheGone
  BY DEF IInv
<1> QED
  BY <1>1, Start, Invariant, PTL DEF Spec

\* A decision of a person on a row gives way to a verdict only if the row was waiting for it.
THEOREM Decisions == Spec => ManualOnlyInWindow
<1>1. IInv /\ [Next]_vars =>
        [\A c \in Cuotas :
           por[c] = "manual" /\ tipo[c] # "nulo" /\ por'[c] # "manual" =>
              \E s \in Syncs : c \in tarde[s]]_vars
  <2> SUFFICES ASSUME IInv, Next, NEW c \in Cuotas,
                      por[c] = "manual", tipo[c] # "nulo", por'[c] # "manual"
               PROVE  \E s \in Syncs : c \in tarde[s]
    OBVIOUS
  <2> USE DEF IInv, TypeOK, NoLlamarTypeOK, filaVars
  <2>1. ASSUME NEW s \in Syncs, Sync(s) PROVE c \in tarde[s]
    <3>1. CASE LeePagina(s) \/ CheckCancel(s) \/ ListaActivas(s) \/ Pendientes(s)
               \/ ClasificacionFalla(s) \/ SyncFalla(s) \/ \E m \in Modos : Arranca(s, m)
      BY <3>1 DEF LeePagina, CheckCancel, ListaActivas, Pendientes, ClasificacionFalla, SyncFalla,
                  Arranca
    <3>2. CASE Escribe(s) \/ \E x \in Cuotas : Barre(s, x)
      BY <3>2 DEF Escribe, Upsert, Barre
    <3>3. ASSUME NEW x \in Cuotas, MarcaRegex(s, x) \/ MarcaLLM(s, x) PROVE c \in tarde[s]
      <4>1. paso[s] = "marca" /\ x \in lista[s] /\ x = c
        BY <3>3 DEF MarcaRegex, MarcaLLM, Marcar
      <4> QED
        BY <4>1 DEF EnEspera
    <3> QED
      BY <2>1, <3>1, <3>2, <3>3 DEF Sync, Avanza
  <2>2. ASSUME NEW x \in Cuotas, Decide(x) PROVE FALSE
    BY <2>2 DEF Decide, OptOut, PatchNoLlamar
  <2>3. ASSUME NEW x \in Cuotas, DecideCliente(x) \/ CambiaCuota(x) PROVE FALSE
    BY <2>3 DEF DecideCliente, ClienteEnLista, CambiaCuota
  <2>4. ASSUME NEW g \in Clientes \X BOOLEAN, TerminaGestion(g) PROVE FALSE
    BY <2>4 DEF TerminaGestion, ClienteEnFilas
  <2>5. ~SyncCancel /\ ~Reinicio
    BY DEF SyncCancel, Reinicio
  <2> QED
    BY <2>1, <2>2, <2>3, <2>4, <2>5 DEF Next
<1> QED
  BY <1>1, Start, Invariant, PTL DEF Spec, ManualOnlyInWindow

\* Nothing but a decision of a person makes a row callable that was not.
THEOREM Lifts == Spec => OnlyPeopleLift
<1>1. TypeOK /\ [Next]_vars =>
        [\A c \in Cuotas :
           motivo[c] # "ninguno" /\ motivo'[c] = "ninguno" =>
              gestiones' # gestiones \/ gestion' # gestion]_vars
  <2> SUFFICES ASSUME TypeOK, Next, NEW c \in Cuotas,
                      motivo[c] # "ninguno", motivo'[c] = "ninguno"
               PROVE  gestiones' # gestiones \/ gestion' # gestion
    OBVIOUS
  <2> USE DEF TypeOK, NoLlamarTypeOK, filaVars
  <2>1. ASSUME NEW s \in Syncs, Sync(s) PROVE FALSE
    <3>1. CASE LeePagina(s) \/ CheckCancel(s) \/ ListaActivas(s) \/ Pendientes(s)
               \/ ClasificacionFalla(s) \/ SyncFalla(s) \/ \E m \in Modos : Arranca(s, m)
      BY <3>1 DEF LeePagina, CheckCancel, ListaActivas, Pendientes, ClasificacionFalla, SyncFalla,
                  Arranca
    <3>2. CASE Escribe(s) \/ \E x \in Cuotas : Barre(s, x)
      BY <3>2 DEF Escribe, Upsert, Barre
    <3>3. ASSUME NEW x \in Cuotas, MarcaRegex(s, x) \/ MarcaLLM(s, x) PROVE FALSE
      BY <3>3 DEF MarcaRegex, MarcaLLM, Marcar
    <3> QED
      BY <2>1, <3>1, <3>2, <3>3 DEF Sync, Avanza
  <2>2. ASSUME NEW x \in Cuotas, Decide(x) \/ DecideCliente(x) PROVE gestiones' # gestiones
    <3>1. Gestiona
      BY <2>2 DEF Decide, DecideCliente, OptOut, PatchNoLlamar, ClienteEnLista
    <3> QED
      BY <3>1 DEF Gestiona
  <2>3. ASSUME NEW g \in Clientes \X BOOLEAN, TerminaGestion(g) PROVE gestion' # gestion
    BY <2>3 DEF TerminaGestion, ClienteEnFilas
  <2>4. ASSUME NEW x \in Cuotas, CambiaCuota(x) PROVE FALSE
    BY <2>4 DEF CambiaCuota
  <2>5. ~SyncCancel /\ ~Reinicio
    BY DEF SyncCancel, Reinicio
  <2> QED
    BY <2>1, <2>2, <2>3, <2>4, <2>5 DEF Next
<1> QED
  BY <1>1, Typing, PTL DEF Spec, OnlyPeopleLift

=============================================================================
