------------------------------- MODULE Ledger -------------------------------
(***************************************************************************)
(* What the minutes package promises a tenant: a finished call is charged  *)
(* at most once, gives back its refund at most once and only after it was  *)
(* charged, and the contracted recharge enters once a month.  Amounts are  *)
(* hundredths of a minute.  Movements entered by staff are not part of it. *)
(***************************************************************************)
EXTENDS Integers

CONSTANTS Llamadas, \* calls, by CallSid
          Minutos,  \* what each call costs: its duration, rounded up
          Pct,      \* facturacion.reembolso_sin_contacto_pct, in per cent
          Meses,    \* months explored, numbered from 1
          Recarga   \* facturacion.recarga_mensual_minutos

VARIABLES cobro,    \* how far the charge of each call has gone
          cargados, \* the months whose recharge has entered
          saldo     \* the balance these movements add up to

Init ==
    /\ cobro = [c \in Llamadas |-> "nada"]
    /\ cargados = {}
    /\ saldo = 0

Cobra(c) ==
    /\ cobro[c] = "nada"
    /\ cobro' = [cobro EXCEPT ![c] = "cobrada"]
    /\ saldo' = saldo - 100 * Minutos[c]
    /\ UNCHANGED cargados

Devuelve(c) ==
    /\ cobro[c] = "cobrada"
    /\ cobro' = [cobro EXCEPT ![c] = "devuelta"]
    /\ saldo' = saldo + Pct * Minutos[c]
    /\ UNCHANGED cargados

CargaMes(m) ==
    /\ m \notin cargados
    /\ cargados' = cargados \cup {m}
    /\ saldo' = saldo + 100 * Recarga
    /\ UNCHANGED cobro

Next == \/ \E c \in Llamadas : Cobra(c) \/ Devuelve(c)
        \/ \E m \in Meses : CargaMes(m)

Spec == Init /\ [][Next]_<<cobro, cargados, saldo>>

=============================================================================
