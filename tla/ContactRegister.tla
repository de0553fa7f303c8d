-------------------------- MODULE ContactRegister --------------------------
(***************************************************************************)
(* What the campaign promises about the attempts of a row.  A row has one  *)
(* attempt at a time and one call a day, unless it is handed back before   *)
(* the day ends; an attempt counts once at most, not before its call       *)
(* exists, and what was counted is not forgotten.  The count of a row that *)
(* was handed back with a call placed, or escalated, is only a bound: it   *)
(* never exceeds what was attempted.                                       *)
(***************************************************************************)
EXTENDS Integers

CONSTANT Debtors

VARIABLES
    hoy,      \* the row's attempt of today: none, under way, or with its call placed
    hechos,   \* attempts made and escalations
    contados, \* what intentos says of them
    cuentan,  \* rows whose last attempt may still count
    turbias   \* rows handed back with a call placed, or escalated

register == <<hoy, hechos, contados, cuentan, turbias>>

RegisterInit ==
    /\ hoy = [d \in Debtors |-> "libre"]
    /\ hechos = [d \in Debtors |-> 0]
    /\ contados = [d \in Debtors |-> 0]
    /\ cuentan = {}
    /\ turbias = {}

\* The dispatcher takes the row.
Abre(d) ==
    /\ hoy[d] = "libre" /\ d \notin cuentan
    /\ hoy' = [hoy EXCEPT ![d] = "abierta"]
    /\ hechos' = [hechos EXCEPT ![d] = @ + 1]
    /\ cuentan' = cuentan \cup ({d} \ turbias)
    /\ UNCHANGED <<contados, turbias>>

\* Its call exists.
Llama(d) ==
    /\ hoy[d] = "abierta"
    /\ hoy' = [hoy EXCEPT ![d] = "llamada"]
    /\ UNCHANGED <<hechos, contados, cuentan, turbias>>

\* The task gives the row up: before its call, or after it, and then the row
\* becomes one of turbias.
Devuelve(d) ==
    /\ hoy[d] # "libre"
    /\ hoy' = [hoy EXCEPT ![d] = "libre"]
    /\ \/ hoy[d] = "abierta" /\ UNCHANGED turbias /\ cuentan' \in {cuentan, cuentan \ {d}}
       \/ turbias' = turbias \cup {d} /\ cuentan' = cuentan \ {d}
    /\ UNCHANGED <<hechos, contados>>

\* The attempt will not count: its call ended without a word to the row.
Olvida(d) ==
    /\ cuentan' = cuentan \ {d}
    /\ UNCHANGED <<hoy, hechos, contados, turbias>>

\* The attempt counts.
Cuenta(d) ==
    /\ d \in cuentan /\ hoy[d] # "abierta"
    /\ contados' = [contados EXCEPT ![d] = @ + 1]
    /\ cuentan' = cuentan \ {d}
    /\ UNCHANGED <<hoy, hechos, turbias>>

\* The count of a row of turbias is overwritten; an attempt whose call does
\* not exist is not in it.
Confunde(d) ==
    /\ d \in turbias
    /\ \E n \in 0..(IF hoy[d] = "abierta" THEN hechos[d] - 1 ELSE hechos[d]) :
          contados' = [contados EXCEPT ![d] = n]
    /\ UNCHANGED <<hoy, hechos, cuentan, turbias>>

Escala(d) ==
    /\ contados' = [contados EXCEPT ![d] = @ + 1]
    /\ hechos' = [hechos EXCEPT ![d] = @ + 1]
    /\ cuentan' = cuentan \ {d}
    /\ turbias' = turbias \cup {d}
    /\ UNCHANGED hoy

\* A restart loses the attempts under way; the calls are made.
PierdeTareas ==
    /\ hoy' = [d \in Debtors |-> IF hoy[d] = "abierta" THEN "libre" ELSE hoy[d]]
    /\ cuentan' \subseteq cuentan
    /\ UNCHANGED <<hechos, contados, turbias>>

\* A new day, with no attempt under way.
NuevoDia ==
    /\ \A d \in Debtors : hoy[d] # "abierta"
    /\ hoy' = [d \in Debtors |-> "libre"]
    /\ UNCHANGED <<hechos, contados, cuentan, turbias>>

RegisterNext ==
    \/ PierdeTareas
    \/ NuevoDia
    \/ \E d \in Debtors : \/ Abre(d) \/ Llama(d) \/ Devuelve(d) \/ Olvida(d)
                          \/ Cuenta(d) \/ Confunde(d) \/ Escala(d)

RegisterSpec == RegisterInit /\ [][RegisterNext]_register

=============================================================================
