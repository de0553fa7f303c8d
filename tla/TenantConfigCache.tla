------------------------- MODULE TenantConfigCache --------------------------
(***************************************************************************)
(* The configuration of a tenant: its document in Mongo, the entry that    *)
(* readers of every process keep of it in Redis (config_cache.py), and the *)
(* writers that update the document and then delete the entry              *)
(* (tenant_config.py).  A document is the number of the write that made    *)
(* it.                                                                     *)
(***************************************************************************)
EXTENDS Fallas

CONSTANTS Lectores, Escritores,
          MaxEscrituras  \* bound: writes

ASSUME CacheAssumption == MaxEscrituras \in Nat

VARIABLES
    doc,         \* the document in Mongo, 0 when there is none
    entrada,     \* the entry in Redis: no document, or one
    lector,      \* "no", "falta" (a miss, or Redis unavailable), "cargado"
    leido,       \* what the reader loaded from Mongo
    escritor,    \* "no", "escrita" (the document is written, the entry not deleted yet)
    escritura,   \* the write of that writer
    confirmada,  \* history: the last write that has returned to its caller
    causas       \* history, of the entry: "tardia", stored by a reader that had loaded before the
                 \* last write; "perdida", a deletion of it was lost

redisVars    == <<entrada, causas>>
lectorVars   == <<lector, leido>>
escritorVars == <<doc, escritor, escritura, confirmada>>
cacheVars    == <<redisVars, lectorVars, escritorVars>>

CacheTypeOK ==
    /\ doc \in Nat /\ confirmada \in Nat /\ fallas \in Nat
    /\ entrada \subseteq Nat \ {0}
    /\ lector \in [Lectores -> {"no", "falta", "cargado"}]
    /\ leido \in [Lectores -> Nat]
    /\ escritor \in [Escritores -> {"no", "escrita"}]
    /\ escritura \in [Escritores -> Nat]
    /\ causas \subseteq {"tardia", "perdida"}

CacheInit ==
    /\ doc = 0 /\ confirmada = 0 /\ fallas = 0
    /\ entrada = {} /\ causas = {}
    /\ lector = [r \in Lectores |-> "no"] /\ leido = [r \in Lectores |-> 0]
    /\ escritor = [w \in Escritores |-> "no"] /\ escritura = [w \in Escritores |-> 0]

-----------------------------------------------------------------------------
\* get_tenant_config: a hit returns at once.  After a miss the document is loaded, and so it is
\* when Redis does not answer, whatever the entry.
Consulta(r) ==
    /\ lector[r] = "no"
    /\ \/ entrada = {} /\ UNCHANGED fallas
       \/ Falla
    /\ lector' = [lector EXCEPT ![r] = "falta"]
    /\ UNCHANGED <<leido, redisVars, escritorVars>>

Carga(r) ==
    /\ lector[r] = "falta"
    /\ lector' = [lector EXCEPT ![r] = "cargado"]
    /\ leido' = [leido EXCEPT ![r] = doc]
    /\ UNCHANGED <<redisVars, escritorVars, fallas>>

\* Mutant: the absence of a document is cached.
GuardaSiempre(r) ==
    /\ lector[r] = "cargado"
    /\ lector' = [lector EXCEPT ![r] = "no"]
    /\ entrada' = {leido[r]}
    /\ causas' = IF leido[r] < doc THEN {"tardia"} ELSE {}
    /\ UNCHANGED <<leido, escritorVars, fallas>>

\* setex, when there was a document.  It does not look at what is there.
Guarda(r) ==
    /\ lector[r] = "cargado"
    /\ lector' = [lector EXCEPT ![r] = "no"]
    /\ IF leido[r] # 0
       THEN entrada' = {leido[r]} /\ causas' = IF leido[r] < doc THEN {"tardia"} ELSE {}
       ELSE UNCHANGED redisVars
    /\ UNCHANGED <<leido, escritorVars, fallas>>

\* Redis does not take the entry, or the reader's process dies.
LectorFalla(r) ==
    /\ lector[r] # "no"
    /\ Falla
    /\ lector' = [lector EXCEPT ![r] = "no"]
    /\ UNCHANGED <<leido, redisVars, escritorVars>>

-----------------------------------------------------------------------------
\* upsert_tenant_config, toggle_module, set_voice_persona, set_cobranza_config: the document ...
Escribe(w) ==
    /\ escritor[w] = "no"
    /\ doc < MaxEscrituras
    /\ doc' = doc + 1
    /\ escritor' = [escritor EXCEPT ![w] = "escrita"]
    /\ escritura' = [escritura EXCEPT ![w] = doc + 1]
    /\ UNCHANGED <<confirmada, redisVars, lectorVars, fallas>>

Confirma(w) ==
    confirmada' = IF escritura[w] > confirmada THEN escritura[w] ELSE confirmada

\* Mutant: the deletion is forgotten.
InvalidaNada(w) ==
    /\ escritor[w] = "escrita"
    /\ escritor' = [escritor EXCEPT ![w] = "no"]
    /\ Confirma(w)
    /\ UNCHANGED <<redisVars, doc, escritura, lectorVars, fallas>>

\* ... and then the deletion of the entry.
Invalida(w) ==
    /\ escritor[w] = "escrita"
    /\ escritor' = [escritor EXCEPT ![w] = "no"]
    /\ entrada' = {} /\ causas' = {}
    /\ Confirma(w)
    /\ UNCHANGED <<doc, escritura, lectorVars, fallas>>

\* Redis does not answer, which the writer ignores, or the process dies between the two.
InvalidaFalla(w) ==
    /\ escritor[w] = "escrita"
    /\ Falla
    /\ escritor' = [escritor EXCEPT ![w] = "no"]
    /\ causas' = IF entrada = {} THEN {} ELSE causas \cup {"perdida"}
    /\ Confirma(w) \/ UNCHANGED confirmada
    /\ UNCHANGED <<entrada, doc, escritura, lectorVars>>

\* Mutant: setex without its expiry.
NoExpira == entrada # {} /\ UNCHANGED <<cacheVars, fallas>>

\* The time to live of the entry is over.
Expira ==
    /\ entrada # {}
    /\ entrada' = {} /\ causas' = {}
    /\ UNCHANGED <<lectorVars, escritorVars, fallas>>

-----------------------------------------------------------------------------
CacheNext ==
    \/ \E r \in Lectores : Consulta(r) \/ Carga(r) \/ Guarda(r) \/ LectorFalla(r)
    \/ \E w \in Escritores : Escribe(w) \/ Invalida(w) \/ InvalidaFalla(w)
    \/ Expira

\* Redis drops what has expired.  No reader or writer is obliged to go on.
CacheFairness == WF_cacheVars(Expira)

CacheSpec == CacheInit /\ [][CacheNext]_<<cacheVars, fallas>> /\ CacheFairness

-----------------------------------------------------------------------------
(* Properties *)

\* An entry is older than the document only while the writer has still to delete it, or because
\* its deletion was lost, or because its reader loaded before a write and stored after it.
StaleHasCause ==
    \A v \in entrada :
       v < doc => \/ causas # {}
                  \/ \E w \in Escritores : escritor[w] = "escrita" /\ escritura[w] > v

\* Once nobody writes any more, readers get the last configuration for good, although deletions
\* were lost and slow readers stored old ones (the 300 seconds of CACHE-01).
EventuallyFresh == <>[](entrada \subseteq {doc})

=============================================================================
