------------------------------ MODULE Minutes ------------------------------
(***************************************************************************)
(* minutes.py and its callers: the balance gate before a call, the status  *)
(* callback that charges it, the post-call step that takes away what the   *)
(* callback looks for, the deferred refund, and the monthly recharge.      *)
(* Each step is what runs between two awaits.  Every call belongs to a row *)
(* of its own; its dialling task goes from the gate to the stored SID.     *)
(***************************************************************************)
EXTENDS Integers

CONSTANTS Llamadas, Minutos, Pct, Meses, Recarga,
          Entrantes,    \* the calls that clients make
          Entregas,     \* <<call, n>>: deliveries of its callback, Twilio's retries included
          Compras,      \* what staff may enter, in minutes: compra or ajuste
          MaxSucesos    \* bound: staff movements and restarts explored, together

ASSUME MinutesAssumption ==
    /\ Minutos \in [Llamadas -> Nat \ {0}]
    /\ Pct \in 0..100
    /\ Meses \subseteq Nat /\ 1 \in Meses
    /\ Recarga \in Nat \ {0}
    /\ Entrantes \subseteq Llamadas
    /\ Entregas \subseteq Llamadas \X Nat
    /\ Compras \subseteq Int
    /\ MaxSucesos \in Nat

VARIABLES
    comprados,   \* sum of the entries of tipo compra, in hundredths of a minute
    consumidos,  \* sum of the entries of tipo consumo, as a positive number
    ajustes,     \* sum of the entries of tipo ajuste
    nConsumo,    \* consumo entries of each call_sid
    nReembolso,  \* ajuste entries of each refund_call_sid
    nCarga,      \* compra entries with the note of each month
    tarea,       \* the dialling task of a call
    vida,        \* the call: at Twilio, then at voice_websocket
    mapa,        \* cobranza_calls_in_progress holds the call
    sid,         \* vapi_call_id of the row is the call
    entrega,     \* where each delivery of the status callback stands
    reembolso,   \* the deferred refund task of a call
    mes,         \* current month
    recarga,     \* recarga_mensual_job: the month it is about to enter, 0 if none
    sinContacto, \* history: nobody talked to the bot
    manual,      \* history: what staff entered
    sucesos      \* staff movements and restarts so far

totalVars   == <<comprados, consumidos, ajustes>>
indexVars   == <<nConsumo, nReembolso, nCarga>>
callVars    == <<tarea, vida, mapa, sid, sinContacto>>
recargaVars == <<mes, recarga>>
packageVars == <<totalVars, indexVars, callVars, entrega, reembolso, recargaVars, manual, sucesos>>

Vivas == {"timbrando", "hablando", "post", "cierra"}

PackageTypeOK ==
    /\ comprados \in Int /\ consumidos \in Int /\ ajustes \in Int
    /\ nConsumo \in [Llamadas -> Nat] /\ nReembolso \in [Llamadas -> Nat]
    /\ nCarga \in [Meses -> Nat]
    /\ tarea \in [Llamadas -> {"saldo", "crear", "mapear", "sid", "fin"}]
    /\ vida \in [Llamadas -> Vivas \cup {"libre", "fin"}]
    /\ mapa \in [Llamadas -> BOOLEAN] /\ sid \in [Llamadas -> BOOLEAN]
    /\ entrega \in [Entregas -> {"no", "mapping", "deudor", "inserta", "libera", "fin"}]
    /\ reembolso \in [Llamadas -> {"no", "espera", "inserta", "fin"}]
    /\ mes \in Meses /\ recarga \in Meses \cup {0}
    /\ sinContacto \in [Llamadas -> BOOLEAN]
    /\ manual \in Int /\ sucesos \in Nat

PackageInit ==
    /\ comprados = 0 /\ consumidos = 0 /\ ajustes = 0
    /\ nConsumo = [c \in Llamadas |-> 0] /\ nReembolso = [c \in Llamadas |-> 0]
    /\ nCarga = [m \in Meses |-> 0]
    /\ tarea = [c \in Llamadas |-> "saldo"]
    /\ vida = [c \in Llamadas |-> "libre"]
    /\ mapa = [c \in Llamadas |-> FALSE] /\ sid = [c \in Llamadas |-> FALSE]
    /\ entrega = [h \in Entregas |-> "no"]
    /\ reembolso = [c \in Llamadas |-> "no"]
    /\ mes = 1 /\ recarga = 0
    /\ sinContacto = [c \in Llamadas |-> FALSE]
    /\ manual = 0 /\ sucesos = 0

-----------------------------------------------------------------------------
\* The balance

\* int() of a sum of hundredths: it drops the fraction, towards zero.
Entero(x) == IF x >= 0 THEN x \div 100 ELSE -((-x) \div 100)

\* get_saldo: minutos_restantes
Restantes == Entero(comprados) + Entero(ajustes) - Entero(consumidos)

\* record_purchase by staff.  A compra is positive; an ajuste may be negative.
CompraStaff(n) ==
    /\ sucesos < MaxSucesos
    /\ sucesos' = sucesos + 1
    /\ manual' = manual + 100 * n
    /\ \/ n > 0 /\ comprados' = comprados + 100 * n /\ UNCHANGED ajustes
       \/ ajustes' = ajustes + 100 * n /\ UNCHANGED comprados
    /\ UNCHANGED <<consumidos, indexVars, callVars, entrega, reembolso, recargaVars>>

-----------------------------------------------------------------------------
\* The call

\* require_saldo lets the task go on, or ends it.
RequireSaldo(c) ==
    /\ c \notin Entrantes
    /\ tarea[c] = "saldo"
    /\ tarea' = [tarea EXCEPT ![c] = IF Restantes <= 0 THEN "fin" ELSE "crear"]
    /\ UNCHANGED <<totalVars, indexVars, vida, mapa, sid, sinContacto, entrega, reembolso,
                   recargaVars, manual, sucesos>>

Crea(c) ==
    /\ tarea[c] = "crear"
    /\ tarea' = [tarea EXCEPT ![c] = "mapear"]
    /\ vida' = [vida EXCEPT ![c] = "timbrando"]
    /\ UNCHANGED <<totalVars, indexVars, mapa, sid, sinContacto, entrega, reembolso,
                   recargaVars, manual, sucesos>>

Mapea(c) ==
    /\ tarea[c] = "mapear"
    /\ tarea' = [tarea EXCEPT ![c] = "sid"]
    /\ mapa' = [mapa EXCEPT ![c] = TRUE]
    /\ UNCHANGED <<totalVars, indexVars, vida, sid, sinContacto, entrega, reembolso,
                   recargaVars, manual, sucesos>>

GuardaSid(c) ==
    /\ tarea[c] = "sid"
    /\ tarea' = [tarea EXCEPT ![c] = "fin"]
    /\ sid' = [sid EXCEPT ![c] = TRUE]
    /\ UNCHANGED <<totalVars, indexVars, vida, mapa, sinContacto, entrega, reembolso,
                   recargaVars, manual, sucesos>>

\* A client calls in: no gate, and the mapping comes from the document he types.
LlamadaEntrante(c) ==
    /\ c \in Entrantes
    /\ vida[c] = "libre"
    /\ vida' = [vida EXCEPT ![c] = "hablando"]
    /\ tarea' = [tarea EXCEPT ![c] = "fin"]
    /\ mapa' = [mapa EXCEPT ![c] = TRUE]
    /\ UNCHANGED <<totalVars, indexVars, sid, sinContacto, entrega, reembolso,
                   recargaVars, manual, sucesos>>

\* The call is answered and lasts some seconds without a post-call step: by a
\* machine, which gets no stream, or by a person whose stream finds no mapping.
SinStream(c) ==
    /\ vida[c] = "timbrando"
    /\ \/ vida' = [vida EXCEPT ![c] = "fin"]
       \/ ~mapa[c] /\ vida' = [vida EXCEPT ![c] = "cierra"]
    /\ sinContacto' = [sinContacto EXCEPT ![c] = TRUE]
    /\ UNCHANGED <<totalVars, indexVars, tarea, mapa, sid, entrega, reembolso,
                   recargaVars, manual, sucesos>>

\* voice_websocket takes the call if the mapping is there.
Contesta(c) ==
    /\ vida[c] = "timbrando" /\ mapa[c]
    /\ vida' = [vida EXCEPT ![c] = "hablando"]
    /\ UNCHANGED <<totalVars, indexVars, tarea, mapa, sid, sinContacto, entrega, reembolso,
                   recargaVars, manual, sucesos>>

\* The bot ends; if it fails, voice_websocket skips the post-call step.
Cuelga(c) ==
    /\ vida[c] = "hablando"
    /\ \E v \in {"post", "cierra"} : vida' = [vida EXCEPT ![c] = v]
    /\ UNCHANGED <<totalVars, indexVars, tarea, mapa, sid, sinContacto, entrega, reembolso,
                   recargaVars, manual, sucesos>>

\* _process_call_ended takes the SID off the row and, for an outbound call
\* without contact, starts the refund task.
PostEscribe(c) ==
    /\ vida[c] = "post"
    /\ vida' = [vida EXCEPT ![c] = "cierra"]
    /\ sid' = [sid EXCEPT ![c] = FALSE]
    /\ \E contacto \in BOOLEAN :
         /\ sinContacto' = [sinContacto EXCEPT ![c] = ~contacto]
         /\ reembolso' = IF ~contacto /\ c \notin Entrantes
                         THEN [reembolso EXCEPT ![c] = "espera"] ELSE reembolso
    /\ UNCHANGED <<totalVars, indexVars, tarea, mapa, entrega, recargaVars, manual, sucesos>>

\* The finally of voice_websocket deletes the mapping.
BorraMapa(c) ==
    /\ vida[c] = "cierra"
    /\ vida' = [vida EXCEPT ![c] = "fin"]
    /\ mapa' = [mapa EXCEPT ![c] = FALSE]
    /\ UNCHANGED <<totalVars, indexVars, tarea, sid, sinContacto, entrega, reembolso,
                   recargaVars, manual, sucesos>>

-----------------------------------------------------------------------------
\* call_status_callback with completed, once per delivery

AvanzaAviso(h, de, a) == entrega[h] = de /\ entrega' = [entrega EXCEPT ![h] = a]

\* Twilio reports as soon as the call is over, and again if nobody answers.
AvisoLlega(h) ==
    /\ vida[h[1]] \in {"post", "cierra", "fin"}
    /\ AvanzaAviso(h, "no", "mapping")
    /\ UNCHANGED <<totalVars, indexVars, callVars, reembolso, recargaVars, manual, sucesos>>

\* record_call_consumption looks for the owner in the mapping, then on the row.
AvisoMapping(h) ==
    /\ AvanzaAviso(h, "mapping", IF mapa[h[1]] THEN "inserta" ELSE "deudor")
    /\ UNCHANGED <<totalVars, indexVars, callVars, reembolso, recargaVars, manual, sucesos>>

AvisoDeudor(h) ==
    /\ AvanzaAviso(h, "deudor", IF sid[h[1]] THEN "inserta" ELSE "libera")
    /\ UNCHANGED <<totalVars, indexVars, callVars, reembolso, recargaVars, manual, sucesos>>

\* Mutant: no unique index on call_sid.
AvisoSinIndice(h) ==
    /\ AvanzaAviso(h, "inserta", "libera")
    /\ nConsumo' = [nConsumo EXCEPT ![h[1]] = @ + 1]
    /\ consumidos' = consumidos + 100 * Minutos[h[1]]
    /\ UNCHANGED <<comprados, ajustes, nReembolso, nCarga, callVars, reembolso, recargaVars,
                   manual, sucesos>>

\* insert_one under the unique index on call_sid.
AvisoInserta(h) ==
    LET c == h[1]
    IN /\ AvanzaAviso(h, "inserta", "libera")
       /\ \/ /\ nConsumo[c] = 0
             /\ nConsumo' = [nConsumo EXCEPT ![c] = @ + 1]
             /\ consumidos' = consumidos + 100 * Minutos[c]
          \/ nConsumo[c] > 0 /\ UNCHANGED <<nConsumo, consumidos>>
       /\ UNCHANGED <<comprados, ajustes, nReembolso, nCarga, callVars, reembolso, recargaVars,
                      manual, sucesos>>

AvisoLibera(h) ==
    /\ AvanzaAviso(h, "libera", "fin")
    /\ mapa' = [mapa EXCEPT ![h[1]] = FALSE]
    /\ UNCHANGED <<totalVars, indexVars, tarea, vida, sid, sinContacto, reembolso, recargaVars,
                   manual, sucesos>>

-----------------------------------------------------------------------------
\* refund_uncontacted_call

\* Mutant: the refund does not ask whether the call was charged.
ReembolsoSinCobro(c) ==
    /\ reembolso[c] = "espera"
    /\ reembolso' = [reembolso EXCEPT ![c] = IF nReembolso[c] = 0 THEN "inserta" ELSE "fin"]
    /\ UNCHANGED <<totalVars, indexVars, callVars, entrega, recargaVars, manual, sucesos>>

\* Twenty seconds later the task looks the charge up, and a refund of before.
ReembolsoBusca(c) ==
    /\ reembolso[c] = "espera"
    /\ reembolso' = [reembolso EXCEPT ![c] =
                       IF nConsumo[c] > 0 /\ nReembolso[c] = 0 /\ Pct * Minutos[c] > 0
                       THEN "inserta" ELSE "fin"]
    /\ UNCHANGED <<totalVars, indexVars, callVars, entrega, recargaVars, manual, sucesos>>

ReembolsoInserta(c) ==
    /\ reembolso[c] = "inserta"
    /\ reembolso' = [reembolso EXCEPT ![c] = "fin"]
    /\ nReembolso' = [nReembolso EXCEPT ![c] = @ + 1]
    /\ ajustes' = ajustes + Pct * Minutos[c]
    /\ UNCHANGED <<comprados, consumidos, nConsumo, nCarga, callVars, entrega, recargaVars,
                   manual, sucesos>>

-----------------------------------------------------------------------------
\* recarga_mensual_job, from the 15th on, every day and after every boot

\* Mutant: any compra of the month, staff's included, counts as the recharge.
RecargaSinNota ==
    /\ recarga = 0
    /\ comprados = 0
    /\ recarga' = mes
    /\ UNCHANGED <<totalVars, indexVars, callVars, entrega, reembolso, mes, manual, sucesos>>

\* Mutant: the month is entered in advance.
RecargaAdelantada ==
    /\ recarga = 0
    /\ nCarga[mes] = 0
    /\ recarga' = mes + 1
    /\ UNCHANGED <<totalVars, indexVars, callVars, entrega, reembolso, mes, manual, sucesos>>

RecargaLee ==
    /\ recarga = 0
    /\ nCarga[mes] = 0
    /\ recarga' = mes
    /\ UNCHANGED <<totalVars, indexVars, callVars, entrega, reembolso, mes, manual, sucesos>>

RecargaInserta ==
    /\ recarga # 0
    /\ recarga' = 0
    /\ nCarga' = [nCarga EXCEPT ![recarga] = @ + 1]
    /\ comprados' = comprados + 100 * Recarga
    /\ UNCHANGED <<consumidos, ajustes, nConsumo, nReembolso, callVars, entrega, reembolso,
                   mes, manual, sucesos>>

PasaMes ==
    /\ mes + 1 \in Meses
    /\ recarga = 0
    /\ mes' = mes + 1
    /\ UNCHANGED <<totalVars, indexVars, callVars, entrega, reembolso, recarga, manual,
                   sucesos>>

\* Tasks, sockets, handlers and the job are in memory only.
Reinicio ==
    /\ sucesos < MaxSucesos
    /\ sucesos' = sucesos + 1
    /\ tarea' = [c \in Llamadas |-> IF tarea[c] = "saldo" THEN "saldo" ELSE "fin"]
    /\ vida' = [c \in Llamadas |-> IF vida[c] \in {"hablando", "post", "cierra"}
                                   THEN "fin" ELSE vida[c]]
    /\ entrega' = [h \in Entregas |-> IF entrega[h] = "no" THEN "no" ELSE "fin"]
    /\ reembolso' = [c \in Llamadas |-> IF reembolso[c] = "no" THEN "no" ELSE "fin"]
    /\ recarga' = 0
    /\ UNCHANGED <<totalVars, indexVars, mapa, sid, sinContacto, mes, manual>>

-----------------------------------------------------------------------------
Llamada(c) == \/ RequireSaldo(c) \/ Crea(c) \/ Mapea(c) \/ GuardaSid(c)
              \/ LlamadaEntrante(c) \/ SinStream(c) \/ Contesta(c) \/ Cuelga(c)
              \/ PostEscribe(c) \/ BorraMapa(c)

Aviso(h) == AvisoLlega(h) \/ AvisoMapping(h) \/ AvisoDeudor(h) \/ AvisoInserta(h) \/ AvisoLibera(h)

PackageNext ==
    \/ \E n \in Compras : CompraStaff(n)
    \/ \E c \in Llamadas : Llamada(c) \/ ReembolsoBusca(c) \/ ReembolsoInserta(c)
    \/ \E h \in Entregas : Aviso(h)
    \/ RecargaLee \/ RecargaInserta \/ PasaMes
    \/ Reinicio

PackageSpec == PackageInit /\ [][PackageNext]_packageVars

\* The recharge job keeps running; nothing else is obliged to happen.
PackageFairSpec == PackageSpec /\ WF_packageVars(RecargaLee) /\ WF_packageVars(RecargaInserta)

-----------------------------------------------------------------------------
\* The ledger keeps the promise of module Ledger, whatever the deliveries of
\* the callback, the refund task and the restarts do.
cobro == [c \in Llamadas |-> IF nConsumo[c] = 0 THEN "nada"
                             ELSE IF nReembolso[c] = 0 THEN "cobrada" ELSE "devuelta"]
cargados == {m \in Meses : nCarga[m] > 0}
saldoDeVoz == comprados - consumidos + ajustes - manual

Promise == INSTANCE Ledger WITH cobro <- cobro, cargados <- cargados, saldo <- saldoDeVoz
KeepsPromise == Promise!Spec

\* A refund gives back a charge that was made, of an outbound call in which
\* nobody talked: a contact is never given back.
RefundsAreDue ==
    \A c \in Llamadas :
       nReembolso[c] > 0 => nConsumo[c] > 0 /\ sinContacto[c] /\ c \notin Entrantes

\* No month that lasts is left without its recharge, although a restart may interrupt the job
\* between its check and its insert.
RechargedEveryMonth == nCarga[mes] = 0 ~> nCarga[mes] > 0

-----------------------------------------------------------------------------
\* What the comments of the code say, and the code does not do.

\* Everything that reports on the call is over.
Terminada(c) ==
    /\ vida[c] = "fin" /\ tarea[c] = "fin" /\ reembolso[c] \in {"no", "fin"}
    /\ \A h \in Entregas : h[1] = c => entrega[h] = "fin"

\* minutes.py:122-130: a call without contact is not charged to the client:
\* what was taken for it was given back.
UncontactedCallsAreNotCharged ==
    \A c \in Llamadas \ Entrantes :
       Terminada(c) /\ sinContacto[c] /\ nConsumo[c] > 0 => nReembolso[c] > 0
=============================================================================
