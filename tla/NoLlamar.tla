------------------------------ MODULE NoLlamar ------------------------------
(***************************************************************************)
(* Who may be called: the flags of the rows of the Softseguros cartera     *)
(* (one row per cuota) and the people who write them, which are the client *)
(* on the phone, the staff on a row, and the staff on a whole client.      *)
(* Every writer of no_llamar writes no_llamar_motivo with it, so a motive  *)
(* other than "ninguno" stands for no_llamar = True.                       *)
(***************************************************************************)
EXTENDS Naturals

CONSTANTS Cuotas, Clientes,
          Cliente,        \* the client (cliente_documento) of each cuota
          MaxGestiones    \* bound: decisions of people explored

ASSUME NoLlamarAssumption ==
    /\ Cuotas \subseteq Nat
    /\ Cliente \in [Cuotas -> Clientes]
    /\ MaxGestiones \in Nat

VARIABLES
    activa,      \* "ausente" before its first sync, then is_active
    fija,        \* pinned
    motivo,      \* no_llamar_motivo
    tipo,        \* tipo_entidad
    por,         \* clasificado_por
    bloqueados,  \* documents of cobranza_cliente_no_llamar
    gestion,     \* set_cliente_no_llamar between its two writes
    gestiones    \* decisions of people so far

filaVars    == <<activa, fija, motivo, tipo, por>>
clienteVars == <<bloqueados, gestion>>

Motivos == {"ninguno", "opt_out", "manual", "entidad_estatal", "cliente_bloqueado"}

NoLlamarTypeOK ==
    /\ activa \in [Cuotas -> {"ausente", "si", "no"}]
    /\ fija \in [Cuotas -> BOOLEAN]
    /\ motivo \in [Cuotas -> Motivos]
    /\ tipo \in [Cuotas -> {"nulo", "estatal", "privada"}]
    /\ por \in [Cuotas -> {"nulo", "regex", "llm", "manual"}]
    /\ bloqueados \subseteq Clientes
    /\ gestion \subseteq Clientes \X BOOLEAN
    /\ gestiones \in Nat

NoLlamarInit ==
    /\ activa = [c \in Cuotas |-> "ausente"] /\ fija = [c \in Cuotas |-> FALSE]
    /\ motivo = [c \in Cuotas |-> "ninguno"]
    /\ tipo = [c \in Cuotas |-> "nulo"] /\ por = [c \in Cuotas |-> "nulo"]
    /\ bloqueados = {} /\ gestion = {}
    /\ gestiones = 0

Existe(c) == activa[c] # "ausente"

Gestiona == gestiones < MaxGestiones /\ gestiones' = gestiones + 1

-----------------------------------------------------------------------------
\* registrar_no_desea_llamadas: the client refuses calls.  It leaves tipo_entidad.
OptOut(c) ==
    /\ Existe(c)
    /\ Gestiona
    /\ motivo' = [motivo EXCEPT ![c] = "opt_out"]
    /\ por' = [por EXCEPT ![c] = "manual"]
    /\ UNCHANGED <<activa, fija, tipo, clienteVars>>

\* PATCH no_llamar: the staff decides on one row.
PatchNoLlamar(c, noLlamar) ==
    /\ Existe(c)
    /\ Gestiona
    /\ motivo' = [motivo EXCEPT ![c] = IF noLlamar THEN "manual" ELSE "ninguno"]
    /\ tipo' = [tipo EXCEPT ![c] = IF noLlamar THEN "estatal" ELSE "privada"]
    /\ por' = [por EXCEPT ![c] = "manual"]
    /\ UNCHANGED <<activa, fija, clienteVars>>

\* set_cliente_no_llamar, first write: the document enters or leaves the list.
ClienteEnLista(c, bloquear) ==
    /\ Existe(c)
    /\ Gestiona
    /\ bloqueados' = IF bloquear THEN bloqueados \cup {Cliente[c]} ELSE bloqueados \ {Cliente[c]}
    /\ gestion' = gestion \cup {<<Cliente[c], bloquear>>}
    /\ UNCHANGED filaVars

\* ... second write: all its rows are blocked, or those that the list had blocked are freed.
ClienteEnFilas(g) ==
    /\ g \in gestion
    /\ gestion' = gestion \ {g}
    /\ motivo' = [c \in Cuotas |->
                     IF ~(Existe(c) /\ Cliente[c] = g[1])         THEN motivo[c]
                     ELSE IF g[2]                                 THEN "cliente_bloqueado"
                     ELSE IF motivo[c] = "cliente_bloqueado"      THEN "ninguno"
                     ELSE motivo[c]]
    /\ UNCHANGED <<activa, fija, tipo, por, bloqueados, gestiones>>

=============================================================================
