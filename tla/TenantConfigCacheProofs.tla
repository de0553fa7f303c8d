---------------------- MODULE TenantConfigCacheProofs -----------------------
(***************************************************************************)
(* Proofs about module TenantConfigCache, for any readers, writers, writes *)
(* and failures: its type invariant, and what a stale entry comes from.    *)
(***************************************************************************)
EXTENDS TenantConfigCache, TLAPS

\* Nothing is newer than the document, and it is the writer's own write that a writer is about to
\* follow with a deletion.
Numerada ==
    /\ \A v \in entrada : v <= doc
    /\ \A r \in Lectores : leido[r] <= doc
    /\ \A w \in Escritores : escritura[w] <= doc

IInv == CacheTypeOK /\ Numerada /\ StaleHasCause

-----------------------------------------------------------------------------
\* CacheTypeOK holds of every reachable state of the cache.
LEMMA InitTyped == CacheInit => CacheTypeOK
  BY DEF CacheInit, CacheTypeOK

LEMMA NextTyped == CacheTypeOK /\ [CacheNext]_<<cacheVars, fallas>> => CacheTypeOK'
<1> SUFFICES ASSUME CacheTypeOK, [CacheNext]_<<cacheVars, fallas>> PROVE CacheTypeOK'
  OBVIOUS
<1> USE CacheAssumption DEF CacheTypeOK, Falla, Confirma, redisVars, lectorVars, escritorVars
<1>1. ASSUME NEW r \in Lectores, Consulta(r) PROVE CacheTypeOK'
  BY <1>1 DEF Consulta
<1>2. ASSUME NEW r \in Lectores, Carga(r) PROVE CacheTypeOK'
  BY <1>2 DEF Carga
<1>3. ASSUME NEW r \in Lectores, Guarda(r) PROVE CacheTypeOK'
  BY <1>3 DEF Guarda
<1>4. ASSUME NEW r \in Lectores, LectorFalla(r) PROVE CacheTypeOK'
  BY <1>4 DEF LectorFalla
<1>5. ASSUME NEW w \in Escritores, Escribe(w) PROVE CacheTypeOK'
  BY <1>5 DEF Escribe
<1>6. ASSUME NEW w \in Escritores, Invalida(w) PROVE CacheTypeOK'
  BY <1>6 DEF Invalida
<1>7. ASSUME NEW w \in Escritores, InvalidaFalla(w) PROVE CacheTypeOK'
  <2>1. confirmada' \in Nat
    BY <1>7 DEF InvalidaFalla
  <2>2. causas' \subseteq {"tardia", "perdida"}
    BY <1>7 DEF InvalidaFalla
  <2>3. fallas' \in Nat
    BY <1>7 DEF InvalidaFalla
  <2>4. UNCHANGED <<entrada, doc, escritura, lectorVars>>
    BY <1>7 DEF InvalidaFalla
  <2>5. escritor' \in [Escritores -> {"no", "escrita"}]
    BY <1>7 DEF InvalidaFalla
  <2> QED
    BY <2>1, <2>2, <2>3, <2>4, <2>5
<1>8. CASE Expira
  BY <1>8 DEF Expira
<1>9. CASE UNCHANGED <<cacheVars, fallas>>
  BY <1>9 DEF cacheVars
<1> QED
  BY <1>1, <1>2, <1>3, <1>4, <1>5, <1>6, <1>7, <1>8, <1>9 DEF CacheNext

THEOREM Typing == CacheSpec => []CacheTypeOK
  BY InitTyped, NextTyped, PTL DEF CacheSpec

-----------------------------------------------------------------------------
LEMMA InitIInv == CacheInit => IInv
  BY InitTyped DEF CacheInit, IInv, CacheTypeOK, Numerada, StaleHasCause

LEMMA NextNumbered == CacheTypeOK /\ Numerada /\ [CacheNext]_<<cacheVars, fallas>> => Numerada'
<1> SUFFICES ASSUME CacheTypeOK, Numerada, [CacheNext]_<<cacheVars, fallas>> PROVE Numerada'
  OBVIOUS
<1> USE DEF CacheTypeOK, Numerada, redisVars, lectorVars, escritorVars
<1>1. ASSUME NEW r \in Lectores, Consulta(r) \/ Carga(r) \/ Guarda(r) \/ LectorFalla(r)
      PROVE Numerada'
  <2>1. CASE Consulta(r) \/ LectorFalla(r)
    BY <2>1 DEF Consulta, LectorFalla
  <2>2. CASE Carga(r)
    BY <2>2 DEF Carga
  <2>3. CASE Guarda(r)
    BY <2>3 DEF Guarda
  <2> QED
    BY <1>1, <2>1, <2>2, <2>3
<1>2. ASSUME NEW w \in Escritores, Escribe(w) PROVE Numerada'
  BY <1>2 DEF Escribe
<1>3. ASSUME NEW w \in Escritores, Invalida(w) \/ InvalidaFalla(w) PROVE Numerada'
  BY <1>3 DEF Invalida, InvalidaFalla
<1>4. CASE Expira
  BY <1>4 DEF Expira
<1>5. CASE UNCHANGED <<cacheVars, fallas>>
  BY <1>5 DEF cacheVars
<1> QED
  BY <1>1, <1>2, <1>3, <1>4, <1>5 DEF CacheNext

\* A write makes the entry stale and is itself the cause; a deletion that comes through leaves no
\* entry, and one that is lost leaves its mark; a reader that stores an old document leaves its own.
LEMMA NextCaused == IInv /\ [CacheNext]_<<cacheVars, fallas>> => StaleHasCause'
<1> SUFFICES ASSUME IInv, [CacheNext]_<<cacheVars, fallas>> PROVE StaleHasCause'
  OBVIOUS
<1> USE DEF IInv, CacheTypeOK, StaleHasCause, redisVars, lectorVars, escritorVars
<1>1. ASSUME NEW r \in Lectores, Guarda(r) PROVE StaleHasCause'
  <2>1. CASE leido[r] # 0
    BY <1>1, <2>1 DEF Guarda
  <2>2. CASE leido[r] = 0
    BY <1>1, <2>2 DEF Guarda
  <2> QED
    BY <2>1, <2>2
<1>2. ASSUME NEW r \in Lectores, Consulta(r) \/ Carga(r) \/ LectorFalla(r)
      PROVE StaleHasCause'
  BY <1>2 DEF Consulta, Carga, LectorFalla
<1>3. ASSUME NEW w \in Escritores, Escribe(w) PROVE StaleHasCause'
  <2>1. escritor'[w] = "escrita" /\ escritura'[w] = doc' /\ entrada' = entrada
    BY <1>3 DEF Escribe
  <2> QED
    BY <1>3, <2>1 DEF Escribe
<1>4. ASSUME NEW w \in Escritores, Invalida(w) PROVE StaleHasCause'
  BY <1>4 DEF Invalida
<1>5. ASSUME NEW w \in Escritores, InvalidaFalla(w) PROVE StaleHasCause'
  <2>1. entrada # {} => causas' # {}
    BY <1>5 DEF InvalidaFalla
  <2> QED
    BY <1>5, <2>1 DEF InvalidaFalla
<1>6. CASE Expira
  BY <1>6 DEF Expira
<1>7. CASE UNCHANGED <<cacheVars, fallas>>
  BY <1>7 DEF cacheVars
<1> QED
  BY <1>1, <1>2, <1>3, <1>4, <1>5, <1>6, <1>7 DEF CacheNext

\* An entry older than the document always has one of three causes: the writer has still to delete
\* it, its deletion was lost, or a reader that loaded before a write stored it after.
THEOREM StaleCauses == CacheSpec => []StaleHasCause
<1>1. IInv /\ [CacheNext]_<<cacheVars, fallas>> => IInv'
  BY NextTyped, NextNumbered, NextCaused DEF IInv
<1>2. IInv => StaleHasCause
  BY DEF IInv
<1> QED
  BY InitIInv, <1>1, <1>2, PTL DEF CacheSpec

=============================================================================
