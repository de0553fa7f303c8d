--------------------------- MODULE MinutesProofs ---------------------------
(***************************************************************************)
(* Proofs about module Minutes, for any calls, prices, months, deliveries  *)
(* and restarts: its type invariant, that refunds are due, and that it     *)
(* implements module Ledger.                                               *)
(***************************************************************************)
EXTENDS Minutes, TLAPS

\* Before its post-call step a call has had nothing to do with refunds.
SinReembolso ==
    \A c \in Llamadas :
       vida[c] \in {"libre", "timbrando", "hablando", "post"} =>
          reembolso[c] = "no" /\ nReembolso[c] = 0

\* A call that Twilio does not know yet has not begun.
SinEmpezar == \A c \in Llamadas : tarea[c] \in {"saldo", "crear"} => vida[c] = "libre"

\* A refund under way, or entered, is of an outbound call without contact.
Motivo ==
    \A c \in Llamadas :
       reembolso[c] \in {"espera", "inserta"} \/ nReembolso[c] > 0 =>
          sinContacto[c] /\ c \notin Entrantes

\* The refund task acts on what it has looked up, and it still holds.
Buscado ==
    \A c \in Llamadas :
       /\ reembolso[c] = "inserta" => nConsumo[c] > 0 /\ nReembolso[c] = 0
       /\ nReembolso[c] > 0 => nConsumo[c] > 0

\* The recharge job acts on what it has looked up, and it still holds.
Pendiente == recarga # 0 => nCarga[recarga] = 0

IInv == PackageTypeOK /\ SinReembolso /\ SinEmpezar /\ Motivo /\ Buscado /\ Pendiente

\* PackageTypeOK holds of every reachable state of the package.
LEMMA InitTyped == PackageInit => PackageTypeOK
  BY MinutesAssumption DEF PackageInit, PackageTypeOK, Vivas

LEMMA NextTyped == PackageTypeOK /\ [PackageNext]_packageVars => PackageTypeOK'
<1> SUFFICES ASSUME PackageTypeOK, [PackageNext]_packageVars PROVE PackageTypeOK'
  OBVIOUS
<1> USE MinutesAssumption DEF PackageTypeOK, Vivas, totalVars, indexVars, callVars, recargaVars
<1>1. ASSUME NEW n \in Compras, CompraStaff(n) PROVE PackageTypeOK'
  BY <1>1 DEF CompraStaff
<1>2. ASSUME NEW c \in Llamadas, Llamada(c) PROVE PackageTypeOK'
  <2>1. CASE RequireSaldo(c)
    BY <2>1 DEF RequireSaldo
  <2>2. CASE Crea(c)
    BY <2>2 DEF Crea
  <2>3. CASE Mapea(c)
    BY <2>3 DEF Mapea
  <2>4. CASE GuardaSid(c)
    BY <2>4 DEF GuardaSid
  <2>5. CASE LlamadaEntrante(c)
    BY <2>5 DEF LlamadaEntrante
  <2>6. CASE SinStream(c)
    BY <2>6 DEF SinStream
  <2>7. CASE Contesta(c)
    BY <2>7 DEF Contesta
  <2>8. CASE Cuelga(c)
    BY <2>8 DEF Cuelga
  <2>9. CASE PostEscribe(c)
    BY <2>9 DEF PostEscribe
  <2>10. CASE BorraMapa(c)
    BY <2>10 DEF BorraMapa
  <2> QED
    BY <1>2, <2>1, <2>2, <2>3, <2>4, <2>5, <2>6, <2>7, <2>8, <2>9, <2>10 DEF Llamada
<1>3. ASSUME NEW c \in Llamadas, ReembolsoBusca(c) PROVE PackageTypeOK'
  BY <1>3 DEF ReembolsoBusca
<1>4. ASSUME NEW c \in Llamadas, ReembolsoInserta(c) PROVE PackageTypeOK'
  BY <1>4 DEF ReembolsoInserta
<1>5. ASSUME NEW h \in Entregas, Aviso(h) PROVE PackageTypeOK'
  <2>1. h[1] \in Llamadas
    OBVIOUS
  <2>2. CASE AvisoLlega(h)
    BY <2>1, <2>2 DEF AvisoLlega, AvanzaAviso
  <2>3. CASE AvisoMapping(h)
    BY <2>1, <2>3 DEF AvisoMapping, AvanzaAviso
  <2>4. CASE AvisoDeudor(h)
    BY <2>1, <2>4 DEF AvisoDeudor, AvanzaAviso
  <2>5. CASE AvisoInserta(h)
    BY <2>1, <2>5 DEF AvisoInserta, AvanzaAviso
  <2>6. CASE AvisoLibera(h)
    BY <2>1, <2>6 DEF AvisoLibera, AvanzaAviso
  <2> QED
    BY <1>5, <2>2, <2>3, <2>4, <2>5, <2>6 DEF Aviso
<1>6. CASE RecargaLee
  BY <1>6 DEF RecargaLee
<1>7. CASE RecargaInserta
  BY <1>7 DEF RecargaInserta
<1>8. CASE PasaMes
  BY <1>8 DEF PasaMes
<1>9. CASE Reinicio
  BY <1>9 DEF Reinicio
<1>10. CASE UNCHANGED packageVars
  BY <1>10 DEF packageVars
<1> QED
  BY <1>1, <1>2, <1>3, <1>4, <1>5, <1>6, <1>7, <1>8, <1>9, <1>10 DEF PackageNext

THEOREM Typing == PackageSpec => []PackageTypeOK
<1>1. PackageInit => PackageTypeOK
  BY InitTyped
<1>2. PackageTypeOK /\ [PackageNext]_packageVars => PackageTypeOK'
  BY NextTyped
<1> QED
  BY <1>1, <1>2, PTL DEF PackageSpec

\* What the refund task and the recharge job rely on is not undone by any step.
LEMMA InitLinked == PackageInit => IInv
  BY InitTyped, MinutesAssumption DEF PackageInit, IInv, SinReembolso, SinEmpezar, Motivo, Buscado, Pendiente

LEMMA NextLinked == IInv /\ [PackageNext]_packageVars => IInv'
<1> SUFFICES ASSUME IInv, [PackageNext]_packageVars PROVE IInv'
  OBVIOUS
<1> USE MinutesAssumption DEF IInv, totalVars, indexVars, callVars, recargaVars
<1> DEFINE Resto == SinReembolso /\ SinEmpezar /\ Motivo /\ Buscado /\ Pendiente
<1>0. PackageTypeOK'
  BY NextTyped
<1> USE DEF PackageTypeOK, SinReembolso, SinEmpezar, Motivo, Buscado, Pendiente
<1>1. ASSUME NEW n \in Compras, CompraStaff(n) PROVE Resto'
  BY <1>1 DEF CompraStaff
<1>2. ASSUME NEW c \in Llamadas, Llamada(c) PROVE Resto'
  <2>1. CASE RequireSaldo(c)
    BY <2>1 DEF RequireSaldo
  <2>2. CASE Crea(c)
    BY <2>2 DEF Crea
  <2>3. CASE Mapea(c)
    BY <2>3 DEF Mapea
  <2>4. CASE GuardaSid(c)
    BY <2>4 DEF GuardaSid
  <2>5. CASE LlamadaEntrante(c)
    BY <2>5 DEF LlamadaEntrante
  <2>6. CASE SinStream(c)
    BY <2>6 DEF SinStream
  <2>7. CASE Contesta(c)
    BY <2>7 DEF Contesta
  <2>8. CASE Cuelga(c)
    BY <2>8 DEF Cuelga
  <2>9. CASE PostEscribe(c)
    <3>1. PICK contacto \in BOOLEAN :
            /\ sinContacto' = [sinContacto EXCEPT ![c] = ~contacto]
            /\ reembolso' = IF ~contacto /\ c \notin Entrantes
                            THEN [reembolso EXCEPT ![c] = "espera"] ELSE reembolso
      BY <2>9 DEF PostEscribe
    <3>2. /\ vida[c] = "post"
          /\ vida' = [vida EXCEPT ![c] = "cierra"]
          /\ UNCHANGED <<tarea, nConsumo, nReembolso, nCarga, recarga>>
      BY <2>9 DEF PostEscribe
    <3>3. reembolso[c] = "no" /\ nReembolso[c] = 0 /\ tarea[c] \notin {"saldo", "crear"}
      BY <3>2
    <3>4. SinReembolso' /\ SinEmpezar'
      BY <3>1, <3>2, <3>3
    <3>5. Motivo'
      <4> SUFFICES ASSUME NEW d \in Llamadas,
                          (reembolso[d] \in {"espera", "inserta"} \/ nReembolso[d] > 0)'
                   PROVE  sinContacto'[d] /\ d \notin Entrantes
        OBVIOUS
      <4>1. CASE d # c
        BY <3>1, <3>2, <4>1
      <4>2. CASE d = c
        <5>1. ~contacto /\ c \notin Entrantes
          BY <3>1, <3>2, <3>3, <4>2
        <5>2. sinContacto'[c]
          BY <3>1, <5>1
        <5> QED
          BY <4>2, <5>1, <5>2
      <4> QED
        BY <4>1, <4>2
    <3>6. Buscado' /\ Pendiente'
      BY <3>1, <3>2, <3>3
    <3> QED
      BY <3>4, <3>5, <3>6
  <2>10. CASE BorraMapa(c)
    BY <2>10 DEF BorraMapa
  <2> QED
    BY <1>2, <2>1, <2>2, <2>3, <2>4, <2>5, <2>6, <2>7, <2>8, <2>9, <2>10 DEF Llamada
<1>3. ASSUME NEW c \in Llamadas, ReembolsoBusca(c) PROVE Resto'
  BY <1>3 DEF ReembolsoBusca
<1>4. ASSUME NEW c \in Llamadas, ReembolsoInserta(c) PROVE Resto'
  BY <1>4 DEF ReembolsoInserta
<1>5. ASSUME NEW h \in Entregas, Aviso(h) PROVE Resto'
  <2>1. h[1] \in Llamadas
    OBVIOUS
  <2>2. CASE AvisoLlega(h)
    BY <2>1, <2>2 DEF AvisoLlega, AvanzaAviso
  <2>3. CASE AvisoMapping(h)
    BY <2>1, <2>3 DEF AvisoMapping, AvanzaAviso
  <2>4. CASE AvisoDeudor(h)
    BY <2>1, <2>4 DEF AvisoDeudor, AvanzaAviso
  <2>5. CASE AvisoInserta(h)
    BY <2>1, <2>5 DEF AvisoInserta, AvanzaAviso
  <2>6. CASE AvisoLibera(h)
    BY <2>1, <2>6 DEF AvisoLibera, AvanzaAviso
  <2> QED
    BY <1>5, <2>2, <2>3, <2>4, <2>5, <2>6 DEF Aviso
<1>6. CASE RecargaLee
  BY <1>6 DEF RecargaLee
<1>7. CASE RecargaInserta
  BY <1>7 DEF RecargaInserta
<1>8. CASE PasaMes
  BY <1>8 DEF PasaMes
<1>9. CASE Reinicio
  BY <1>9 DEF Reinicio
<1>10. CASE UNCHANGED packageVars
  BY <1>10 DEF packageVars
<1>11. Resto'
  BY <1>1, <1>2, <1>3, <1>4, <1>5, <1>6, <1>7, <1>8, <1>9, <1>10 DEF PackageNext
<1> QED
  BY <1>0, <1>11

LEMMA Invariance == PackageSpec => []IInv
<1>1. PackageInit => IInv
  BY InitLinked
<1>2. IInv /\ [PackageNext]_packageVars => IInv'
  BY NextLinked
<1> QED
  BY <1>1, <1>2, PTL DEF PackageSpec

\* A refund gives back a charge that was made, of an outbound call in which
\* nobody talked: refund_uncontacted_call is scheduled by such a post-call step
\* only, and looks the charge up before it writes.
THEOREM Refunds == PackageSpec => []RefundsAreDue
<1>1. IInv => RefundsAreDue
  BY DEF IInv, Motivo, Buscado, RefundsAreDue
<1> QED
  BY <1>1, Invariance, PTL

-----------------------------------------------------------------------------
\* Every step of the package is a step of module Ledger, or leaves it as it was.
LEMMA StepImplements == IInv /\ IInv' /\ [PackageNext]_packageVars => [Promise!Next]_<<cobro, cargados, saldoDeVoz>>
<1> SUFFICES ASSUME IInv, IInv', [PackageNext]_packageVars
             PROVE  [Promise!Next]_<<cobro, cargados, saldoDeVoz>>
  OBVIOUS
<1> USE MinutesAssumption
<1> DEFINE Igual == UNCHANGED <<cobro, cargados, saldoDeVoz>>
<1>0. PackageTypeOK /\ PackageTypeOK'
  BY DEF IInv
<1>1. ASSUME UNCHANGED <<totalVars, indexVars, manual>> PROVE Igual
  BY <1>1 DEF totalVars, indexVars, cobro, cargados, saldoDeVoz
<1>2. ASSUME NEW n \in Compras, CompraStaff(n) PROVE Igual
  <2>1. UNCHANGED indexVars
    BY <1>2 DEF CompraStaff
  <2>2. saldoDeVoz' = saldoDeVoz
    <3>1. /\ manual' = manual + 100 * n /\ UNCHANGED consumidos
          /\ \/ comprados' = comprados + 100 * n /\ UNCHANGED ajustes
             \/ ajustes' = ajustes + 100 * n /\ UNCHANGED comprados
      BY <1>2 DEF CompraStaff
    <3>2. ajustes \in Int /\ comprados \in Int /\ consumidos \in Int /\ manual \in Int
      BY <1>0 DEF PackageTypeOK
    <3>3. n \in Int
      OBVIOUS
    <3> QED
      BY <3>1, <3>2, <3>3 DEF saldoDeVoz
  <2> QED
    BY <2>1, <2>2 DEF indexVars, cobro, cargados
<1>3. ASSUME NEW c \in Llamadas, Llamada(c) PROVE Igual
  BY <1>1, <1>3 DEF Llamada, RequireSaldo, Crea, Mapea, GuardaSid, LlamadaEntrante, SinStream,
                    Contesta, Cuelga, PostEscribe, BorraMapa
<1>4. ASSUME NEW c \in Llamadas, ReembolsoBusca(c) PROVE Igual
  BY <1>1, <1>4 DEF ReembolsoBusca
<1>5. ASSUME NEW c \in Llamadas, ReembolsoInserta(c) PROVE Promise!Devuelve(c)
  <2>1. nConsumo[c] > 0 /\ nReembolso[c] = 0
    BY <1>5 DEF IInv, Buscado, ReembolsoInserta
  <2>2. cobro[c] = "cobrada" /\ cobro' = [cobro EXCEPT ![c] = "devuelta"]
    <3>1. nReembolso' = [nReembolso EXCEPT ![c] = @ + 1] /\ UNCHANGED nConsumo
      BY <1>5 DEF ReembolsoInserta
    <3>2. nConsumo \in [Llamadas -> Nat] /\ nReembolso \in [Llamadas -> Nat]
      BY <1>0 DEF PackageTypeOK
    <3>3. nReembolso'[c] = 1 /\ \A d \in Llamadas \ {c} : nReembolso'[d] = nReembolso[d]
      BY <2>1, <3>1, <3>2
    <3>4. cobro[c] = "cobrada"
      BY <2>1 DEF cobro
    <3>5. cobro'[c] = "devuelta"
      BY <2>1, <3>1, <3>3 DEF cobro
    <3>6. \A d \in Llamadas \ {c} : cobro'[d] = cobro[d]
      BY <3>1, <3>3 DEF cobro
    <3>7. cobro' = [d \in Llamadas |-> cobro'[d]] /\ cobro = [d \in Llamadas |-> cobro[d]]
      BY DEF cobro
    <3> HIDE DEF cobro
    <3> QED
      BY <3>4, <3>5, <3>6, <3>7
  <2>3. saldoDeVoz' = saldoDeVoz + Pct * Minutos[c]
    <3> DEFINE dev == Pct * Minutos[c]
    <3>1. dev \in Int
      OBVIOUS
    <3>2. ajustes' = ajustes + dev /\ UNCHANGED <<comprados, consumidos, manual>>
      BY <1>5 DEF ReembolsoInserta
    <3>3. ajustes \in Int /\ comprados \in Int /\ consumidos \in Int /\ manual \in Int
      BY <1>0 DEF PackageTypeOK
    <3> HIDE DEF dev
    <3>4. saldoDeVoz' = saldoDeVoz + dev
      BY <3>1, <3>2, <3>3 DEF saldoDeVoz
    <3> QED
      BY <3>4 DEF dev
  <2>4. UNCHANGED cargados
    BY <1>5 DEF ReembolsoInserta, cargados
  <2> QED
    BY <2>2, <2>3, <2>4 DEF Promise!Devuelve
<1>6. ASSUME NEW h \in Entregas, Aviso(h) PROVE Igual \/ Promise!Cobra(h[1])
  <2>1. CASE AvisoInserta(h)
    <3>1. h[1] \in Llamadas
      OBVIOUS
    <3>2. CASE nConsumo[h[1]] > 0
      <4>1. UNCHANGED <<totalVars, indexVars, manual>>
        BY <2>1, <3>2 DEF AvisoInserta, totalVars, indexVars
      <4> QED
        BY <1>1, <4>1
    <3>3. CASE nConsumo[h[1]] = 0
      <4>1. nReembolso[h[1]] = 0
        BY <1>0, <3>1, <3>3 DEF IInv, Buscado, PackageTypeOK
      <4>2. cobro[h[1]] = "nada" /\ cobro' = [cobro EXCEPT ![h[1]] = "cobrada"]
        BY <1>0, <2>1, <3>1, <3>3, <4>1 DEF AvisoInserta, cobro, PackageTypeOK
      <4>3. saldoDeVoz' = saldoDeVoz - 100 * Minutos[h[1]]
        <5>1. consumidos' = consumidos + 100 * Minutos[h[1]]
              /\ UNCHANGED <<comprados, ajustes, manual>>
          BY <2>1, <3>3 DEF AvisoInserta
        <5>2. ajustes \in Int /\ comprados \in Int /\ consumidos \in Int /\ manual \in Int
          BY <1>0 DEF PackageTypeOK
        <5>3. Minutos[h[1]] \in Int
          BY <3>1
        <5> QED
          BY <5>1, <5>2, <5>3 DEF saldoDeVoz
      <4>4. UNCHANGED cargados
        BY <2>1 DEF AvisoInserta, cargados
      <4> QED
        BY <4>2, <4>3, <4>4 DEF Promise!Cobra
    <3> QED
      BY <1>0, <3>1, <3>2, <3>3 DEF PackageTypeOK
  <2>2. CASE AvisoLlega(h) \/ AvisoMapping(h) \/ AvisoDeudor(h) \/ AvisoLibera(h)
    BY <1>1, <2>2 DEF AvisoLlega, AvisoMapping, AvisoDeudor, AvisoLibera
  <2> QED
    BY <1>6, <2>1, <2>2 DEF Aviso
<1>7. CASE RecargaInserta
  <2>1. recarga \in Meses /\ nCarga[recarga] = 0
    BY <1>0, <1>7 DEF IInv, Pendiente, RecargaInserta, PackageTypeOK
  <2>2. recarga \notin cargados /\ cargados' = cargados \cup {recarga}
    BY <1>0, <1>7, <2>1 DEF RecargaInserta, cargados, PackageTypeOK
  <2>3. saldoDeVoz' = saldoDeVoz + 100 * Recarga
    BY <1>0, <1>7 DEF RecargaInserta, saldoDeVoz, PackageTypeOK
  <2>4. UNCHANGED cobro
    BY <1>7 DEF RecargaInserta, cobro
  <2>5. Promise!CargaMes(recarga)
    BY <2>2, <2>3, <2>4 DEF Promise!CargaMes
  <2> QED
    BY <2>1, <2>5 DEF Promise!Next
<1>8. CASE RecargaLee \/ PasaMes \/ Reinicio
  BY <1>1, <1>8 DEF RecargaLee, PasaMes, Reinicio
<1>9. CASE UNCHANGED packageVars
  BY <1>1, <1>9 DEF packageVars
<1> QED
  BY <1>2, <1>3, <1>4, <1>5, <1>6, <1>7, <1>8, <1>9 DEF PackageNext, Promise!Next

\* The package implements module Ledger: however often a callback is delivered
\* and wherever a restart cuts the refund task or the recharge job, each call is
\* charged once, refunded once, and each month is recharged once.
THEOREM Implements == PackageSpec => KeepsPromise
<1>1. PackageInit => Promise!Init
  BY MinutesAssumption DEF PackageInit, Promise!Init, cobro, cargados, saldoDeVoz
<1>2. IInv /\ IInv' /\ [PackageNext]_packageVars => [Promise!Next]_<<cobro, cargados, saldoDeVoz>>
  BY StepImplements
<1> QED
  BY <1>1, <1>2, Invariance, PTL DEF PackageSpec, KeepsPromise, Promise!Spec
=============================================================================
