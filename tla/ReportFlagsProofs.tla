------------------------- MODULE ReportFlagsProofs --------------------------
(***************************************************************************)
(* Proofs about module ReportFlags, for any hours, days, attempts and      *)
(* restarts: its type invariant, that the mails of a day are bounded, and  *)
(* that a day is sealed only if its report left.                           *)
(***************************************************************************)
EXTENDS ReportFlags, Integers, TLAPS

\* The mail of a kind and day has left, and its flag is not written yet.
EnVuelo(k, d) == \E j \in Jobs : job[j] = "salio" /\ aviso[j] = k /\ delDia[j] = d

\* The mails whose flag is written.
Firmes(k, d) == enviados[k][d] - (IF EnVuelo(k, d) THEN 1 ELSE 0)

\* Each job sends its kinds of mail, of days that have come.
Encargo ==
    \A j \in Jobs :
       job[j] # "no" =>
          /\ aviso[j] \in Avisos
          /\ aviso[j] = "fin" <=> j = "finJornada"
          /\ delDia[j] <= dia

\* A run that sends the mail of a day found that day without its seal, and it still has none.
SinSellar ==
    \A k \in {"fin", "inicio"} :
       /\ sello[k] <= dia
       /\ \A j \in Jobs : job[j] # "no" /\ aviso[j] = k => sello[k] < delDia[j]

\* A mail whose flag is written is the only one of its day.
Unica ==
    \A k \in {"fin", "inicio"} : \A d \in Dias :
       /\ Firmes(k, d) \in {0, 1}
       /\ Firmes(k, d) > 0 => d <= sello[k]

\* A day is sealed for a report that left.
Sellada == \A d \in Dias : sello["fin"] = d => Firmes("fin", d) > 0

\* The reminders of the last day that had some are in the number of the flag.
Contados ==
    /\ cuentaDia["recordatorio"] <= dia
    /\ cuenta["recordatorio"] <= MaxRecordatorios
    /\ \A d \in Dias :
          /\ 0 <= Firmes("recordatorio", d) /\ Firmes("recordatorio", d) <= MaxRecordatorios
          /\ d = cuentaDia["recordatorio"] => Firmes("recordatorio", d) <= cuenta["recordatorio"]
          /\ d > cuentaDia["recordatorio"] => Firmes("recordatorio", d) = 0

\* The number that a run has read is still the one in the flag.
Vigente ==
    \A j \in Jobs :
       job[j] # "no" /\ aviso[j] = "recordatorio" =>
          /\ cuentaDia["recordatorio"] <= delDia[j]
          /\ iban[j] < MaxRecordatorios
          /\ iban[j] = IF cuentaDia["recordatorio"] = delDia[j] THEN cuenta["recordatorio"] ELSE 0

Mails == Encargo /\ SinSellar /\ Unica /\ Sellada /\ Contados /\ Vigente

IInv == ReportTypeOK /\ Mails

-----------------------------------------------------------------------------
\* Days are numbers.
LEMMA DiasNat == Dias \subseteq Nat
  BY ReportFlagsAssumption DEF Dias

LEMMA Naturales ==
    ASSUME ReportTypeOK
    PROVE  /\ dia \in Nat
           /\ \A k \in Avisos : sello[k] \in Nat /\ cuentaDia[k] \in Nat
<1>1. dia \in Nat
  BY DiasNat DEF ReportTypeOK
<1>2. ASSUME NEW k \in Avisos PROVE sello[k] \in Nat
  <2>1. sello[k] \in {0} \cup Dias
    BY DEF ReportTypeOK
  <2> QED
    BY <2>1, DiasNat, 0 \in Nat
<1>3. ASSUME NEW k \in Avisos PROVE cuentaDia[k] \in Nat
  <2>1. cuentaDia[k] \in {0} \cup Dias
    BY DEF ReportTypeOK
  <2> QED
    BY <2>1, DiasNat, 0 \in Nat
<1> QED
  BY <1>1, <1>2, <1>3

\* Two runs do not send mails of one kind.
LEMMA SoloUno ==
    ASSUME Encargo, NEW i \in Jobs, NEW j \in Jobs,
           job[i] # "no", job[j] # "no", aviso[i] = aviso[j]
    PROVE  i = j
  BY ReportFlagsAssumption DEF Encargo

\* A mail that has left is counted.
LEMMA Contada ==
    ASSUME IInv, NEW k \in Avisos, NEW d \in Dias
    PROVE  /\ Firmes(k, d) \in Nat
           /\ EnVuelo(k, d) => enviados[k][d] = Firmes(k, d) + 1
           /\ ~EnVuelo(k, d) => enviados[k][d] = Firmes(k, d)
<1>1. enviados[k][d] \in Nat
  BY DEF IInv, ReportTypeOK
<1>2. Firmes(k, d) \in Int
  BY <1>1 DEF Firmes
<1>3. Firmes(k, d) >= 0
  BY <1>2 DEF IInv, Mails, Unica, Contados, Avisos
<1> QED
  BY <1>1, <1>2, <1>3 DEF Firmes

\* What a run finds to send changes no number of mails ...
LEMMA CorreKeepsFirmes ==
    ASSUME IInv, NEW i \in Jobs, NEW h \in Avisos, Corre(i, h),
           NEW k \in Avisos, NEW d \in Dias
    PROVE  Firmes(k, d)' = Firmes(k, d)
<1>1. EnVuelo(k, d)' <=> EnVuelo(k, d)
  BY DEF IInv, ReportTypeOK, Corre, EnVuelo
<1> QED
  BY <1>1 DEF Corre, Firmes, histVars

\* ... nor does a mail that leaves, whose flag is still to be written ...
LEMMA EnviaKeepsFirmes ==
    ASSUME IInv, NEW i \in Jobs, NEW sale \in BOOLEAN, Envia(i, sale),
           NEW k \in Avisos, NEW d \in Dias
    PROVE  Firmes(k, d)' = Firmes(k, d)
<1>1. CASE sale /\ aviso[i] = k /\ delDia[i] = d
  <2>1. ~EnVuelo(k, d)
    BY <1>1, SoloUno DEF IInv, Mails, Envia, EnVuelo
  <2>2. EnVuelo(k, d)'
    BY <1>1 DEF IInv, ReportTypeOK, Envia, EnVuelo
  <2>3. enviados'[k][d] = enviados[k][d] + 1
    BY <1>1 DEF IInv, ReportTypeOK, Envia
  <2>4. enviados[k][d] \in Nat
    BY DEF IInv, ReportTypeOK
  <2> QED
    BY <2>1, <2>2, <2>3, <2>4 DEF Firmes
<1>2. CASE ~(sale /\ aviso[i] = k /\ delDia[i] = d)
  <2>1. EnVuelo(k, d)' <=> EnVuelo(k, d)
    BY <1>2 DEF IInv, ReportTypeOK, Envia, EnVuelo
  <2>2. enviados'[k][d] = enviados[k][d]
    BY <1>2 DEF IInv, ReportTypeOK, Envia
  <2> QED
    BY <2>1, <2>2 DEF Firmes
<1> QED
  BY <1>1, <1>2

\* ... nor a run that is lost, whose mail is not counted any more.
LEMMA PierdeKeepsFirmes ==
    ASSUME IInv, NEW S \in SUBSET Jobs, Pierde(S), NEW k \in Avisos, NEW d \in Dias
    PROVE  Firmes(k, d)' = Firmes(k, d)
<1>1. CASE \E j \in S : job[j] = "salio" /\ aviso[j] = k /\ delDia[j] = d
  <2>1. EnVuelo(k, d)
    BY <1>1 DEF EnVuelo
  <2>2. ~EnVuelo(k, d)'
    <3>1. PICK j \in S : job[j] = "salio" /\ aviso[j] = k /\ delDia[j] = d
      BY <1>1
    <3>2. \A i \in Jobs \ S : ~(job[i] = "salio" /\ aviso[i] = k)
      BY <3>1, SoloUno DEF IInv, Mails
    <3> QED
      BY <3>2 DEF Pierde, Acaban, EnVuelo
  <2>3. enviados'[k][d] = enviados[k][d] - 1
    BY <1>1 DEF Pierde
  <2>4. enviados[k][d] \in Nat
    BY DEF IInv, ReportTypeOK
  <2> QED
    BY <2>1, <2>2, <2>3, <2>4 DEF Firmes
<1>2. CASE ~ \E j \in S : job[j] = "salio" /\ aviso[j] = k /\ delDia[j] = d
  <2>1. EnVuelo(k, d)' <=> EnVuelo(k, d)
    BY <1>2 DEF Pierde, Acaban, EnVuelo
  <2>2. enviados'[k][d] = enviados[k][d]
    BY <1>2 DEF Pierde
  <2> QED
    BY <2>1, <2>2 DEF Firmes
<1> QED
  BY <1>1, <1>2

\* A flag that is written adds the mail of its run, if it left.
LEMMA SellaAdds ==
    ASSUME IInv, NEW i \in Jobs, Sella(i), NEW k \in Avisos, NEW d \in Dias
    PROVE  Firmes(k, d)' = IF job[i] = "salio" /\ aviso[i] = k /\ delDia[i] = d
                           THEN Firmes(k, d) + 1 ELSE Firmes(k, d)
<1>1. enviados' = enviados /\ enviados[k][d] \in Nat
  BY DEF IInv, ReportTypeOK, Sella, histVars
<1>2. CASE job[i] = "salio" /\ aviso[i] = k /\ delDia[i] = d
  <2>1. EnVuelo(k, d)
    BY <1>2 DEF EnVuelo
  <2>2. ~EnVuelo(k, d)'
    <3>1. \A j \in Jobs \ {i} : ~(job[j] = "salio" /\ aviso[j] = k)
      BY <1>2, SoloUno DEF IInv, Mails
    <3> QED
      BY <3>1 DEF Sella, Acaban, EnVuelo
  <2> QED
    BY <1>1, <1>2, <2>1, <2>2 DEF Firmes
<1>3. CASE ~(job[i] = "salio" /\ aviso[i] = k /\ delDia[i] = d)
  <2>1. EnVuelo(k, d)' <=> EnVuelo(k, d)
    BY <1>3 DEF Sella, Acaban, EnVuelo
  <2> QED
    BY <1>1, <1>3, <2>1 DEF Firmes
<1> QED
  BY <1>2, <1>3

-----------------------------------------------------------------------------
\* ReportTypeOK in parts: the day, the flags, the runs, what has been sent.
TipoReloj ==
    /\ dia \in Dias /\ hora \in Nat /\ cierre \in Cierres
    /\ actividad \in BOOLEAN /\ autorizada \in BOOLEAN
TipoFlags ==
    /\ sello \in [Avisos -> {0} \cup Dias] /\ cuentaDia \in [Avisos -> {0} \cup Dias]
    /\ cuenta \in [Avisos -> Nat] /\ ultima \in [Avisos -> Nat]
TipoRuns ==
    /\ job \in [Jobs -> {"no", "envia", "salio", "noSalio"}]
    /\ aviso \in [Jobs -> Avisos \cup {"nada"}]
    /\ delDia \in [Jobs -> Dias] /\ iban \in [Jobs -> Nat]
TipoHist == enviados \in [Avisos -> [Dias -> Nat]] /\ fallas \in Nat

LEMMA Partes == ReportTypeOK <=> TipoReloj /\ TipoFlags /\ TipoRuns /\ TipoHist
  BY DEF ReportTypeOK, TipoReloj, TipoFlags, TipoRuns, TipoHist

LEMMA InitTyped == ReportInit => ReportTypeOK
<1> SUFFICES ASSUME ReportInit PROVE TipoReloj /\ TipoFlags /\ TipoRuns /\ TipoHist
  BY Partes
<1> USE ReportFlagsAssumption DEF ReportInit, Dias, Avisos
<1>1. dia \in Dias /\ hora \in Nat /\ cierre \in Cierres
  OBVIOUS
<1>2. actividad \in BOOLEAN /\ autorizada \in BOOLEAN
  OBVIOUS
<1>3. TipoFlags
  BY DEF TipoFlags
<1>4. TipoRuns
  BY DEF TipoRuns
<1>5. TipoHist
  BY DEF TipoHist
<1> QED
  BY <1>1, <1>2, <1>3, <1>4, <1>5 DEF TipoReloj

\* The day goes on: nothing else moves.
LEMMA RelojTyped == TipoReloj /\ (Avanza \/ Jornada) => TipoReloj'
<1> SUFFICES ASSUME TipoReloj, Avanza \/ Jornada PROVE TipoReloj'
  OBVIOUS
<1>1. dia' \in Dias /\ hora' \in Nat /\ cierre' \in Cierres
  BY ReportFlagsAssumption
     DEF TipoReloj, Dias, Avanza, Jornada, Autoriza, EmpiezaLlamadas, CambiaCierre
<1>2. actividad' \in BOOLEAN /\ autorizada' \in BOOLEAN
  BY Zenon DEF TipoReloj, Avanza, Jornada, Autoriza, EmpiezaLlamadas, CambiaCierre
<1> QED
  BY <1>1, <1>2 DEF TipoReloj

\* A mail that is not counted any more had been.
LEMMA PierdeTyped == ASSUME IInv, NEW S \in SUBSET Jobs, Pierde(S) PROVE TipoHist'
<1>1. ASSUME NEW k \in Avisos, NEW d \in Dias PROVE enviados'[k][d] \in Nat
  <2>1. enviados[k][d] \in Nat
    BY DEF IInv, ReportTypeOK
  <2>2. CASE \E j \in S : job[j] = "salio" /\ aviso[j] = k /\ delDia[j] = d
    <3>1. EnVuelo(k, d)
      BY <2>2 DEF EnVuelo
    <3>2. enviados[k][d] - 1 \in Nat
      BY <3>1, <2>1, Contada
    <3> QED
      BY <2>2, <3>2 DEF Pierde
  <2>3. CASE ~ \E j \in S : job[j] = "salio" /\ aviso[j] = k /\ delDia[j] = d
    BY <2>1, <2>3 DEF Pierde
  <2> QED
    BY <2>2, <2>3
<1>2. enviados' \in [Avisos -> [Dias -> Nat]]
  BY <1>1 DEF Pierde
<1>3. fallas' \in Nat
  BY DEF IInv, ReportTypeOK, Pierde, Falla
<1> QED
  BY <1>2, <1>3 DEF TipoHist

LEMMA SellaTyped == ASSUME ReportTypeOK, NEW i \in Jobs, Sella(i) PROVE TipoFlags' /\ TipoRuns'
<1>1. TipoFlags /\ TipoRuns /\ hora \in Nat
  BY Partes DEF TipoReloj
<1>2. delDia[i] \in Dias /\ iban[i] \in Nat
  BY <1>1 DEF TipoRuns
<1>3. TipoRuns'
  BY <1>1, ReportFlagsAssumption DEF TipoRuns, Dias, Sella, Acaban
<1>4. ASSUME SellaFin(i) PROVE TipoFlags'
  BY <1>1, <1>2, <1>4 DEF TipoFlags, Avisos, SellaFin
<1>5. ASSUME SellaInicio(i) PROVE TipoFlags'
  BY <1>1, <1>2, <1>5 DEF TipoFlags, Avisos, SellaInicio
<1>6. ASSUME SellaRecordatorio(i) PROVE TipoFlags'
  BY <1>1, <1>2, <1>6 DEF TipoFlags, Avisos, SellaRecordatorio
<1> QED
  BY <1>3, <1>4, <1>5, <1>6 DEF Sella

LEMMA NextTyped == IInv /\ [ReportNext]_<<reportVars, fallas>> => ReportTypeOK'
<1> SUFFICES ASSUME IInv, [ReportNext]_<<reportVars, fallas>>
             PROVE  TipoReloj' /\ TipoFlags' /\ TipoRuns' /\ TipoHist'
  BY Partes, PTL
<1>0. ReportTypeOK /\ TipoReloj /\ TipoFlags /\ TipoRuns /\ TipoHist
  BY Partes DEF IInv
<1> USE DEF relojVars, flagVars, jobVars, histVars
<1>1. CASE Avanza \/ Jornada
  <2>1. UNCHANGED <<flagVars, jobVars, histVars>>
    BY <1>1 DEF Avanza, Jornada
  <2> QED
    BY <1>0, <1>1, <2>1, RelojTyped DEF TipoFlags, TipoRuns, TipoHist
<1>2. ASSUME NEW i \in Jobs, NEW k \in Avisos, Corre(i, k)
      PROVE TipoReloj' /\ TipoFlags' /\ TipoRuns' /\ TipoHist'
  <2>1. Cuenta(k) \in Nat
    BY <1>0 DEF TipoFlags, Cuenta
  <2>2. TipoRuns'
    BY <1>0, <1>2, <2>1 DEF TipoReloj, TipoRuns, Corre
  <2> QED
    BY <1>0, <1>2, <2>2 DEF Corre, TipoReloj, TipoFlags, TipoHist
<1>3. ASSUME NEW i \in Jobs, NEW sale \in BOOLEAN, Envia(i, sale)
      PROVE TipoReloj' /\ TipoFlags' /\ TipoRuns' /\ TipoHist'
  <2>1. aviso[i] \in Avisos /\ delDia[i] \in Dias
    BY <1>0, <1>3 DEF IInv, Mails, Encargo, Envia, TipoRuns
  <2>2. TipoRuns'
    BY <1>0, <1>3 DEF TipoRuns, Envia
  <2>3. TipoHist'
    BY <1>0, <1>3, <2>1 DEF TipoHist, Envia
  <2> QED
    BY <1>0, <1>3, <2>2, <2>3 DEF Envia, TipoReloj, TipoFlags
<1>4. ASSUME NEW i \in Jobs, Sella(i)
      PROVE TipoReloj' /\ TipoFlags' /\ TipoRuns' /\ TipoHist'
  BY <1>0, <1>4, SellaTyped DEF Sella, TipoReloj, TipoHist
<1>5. ASSUME NEW S \in SUBSET Jobs, Pierde(S)
      PROVE TipoReloj' /\ TipoFlags' /\ TipoRuns' /\ TipoHist'
  <2>1. TipoRuns'
    BY <1>0, <1>5, ReportFlagsAssumption DEF TipoRuns, Pierde, Acaban, Dias
  <2> QED
    BY <1>0, <1>5, <2>1, PierdeTyped DEF Pierde, TipoReloj, TipoFlags
<1>6. CASE UNCHANGED <<reportVars, fallas>>
  BY <1>0, <1>6 DEF reportVars, TipoReloj, TipoFlags, TipoRuns, TipoHist
<1> QED
  BY <1>1, <1>2, <1>3, <1>4, <1>5, <1>6 DEF ReportNext, Trabajo

-----------------------------------------------------------------------------
LEMMA InitMails == ReportInit => Mails
<1> SUFFICES ASSUME ReportInit PROVE Mails
  OBVIOUS
<1>1. ASSUME NEW k \in Avisos, NEW d \in Dias PROVE Firmes(k, d) = 0
  BY DEF ReportInit, Firmes, EnVuelo
<1>2. Encargo /\ SinSellar /\ Vigente
  BY DEF ReportInit, Encargo, SinSellar, Vigente, Avisos
<1>3. Unica /\ Sellada /\ Contados
  BY <1>1, ReportFlagsAssumption DEF ReportInit, Unica, Sellada, Contados, Avisos, Dias
<1> QED
  BY <1>2, <1>3 DEF Mails

\* A step that leaves the flags and the firm mails alone, and starts no run.
LEMMA FrameKeepsMails ==
    ASSUME IInv, ReportTypeOK', flagVars' = flagVars, dia <= dia',
           \A k \in Avisos : \A d \in Dias : Firmes(k, d)' = Firmes(k, d),
           \A j \in Jobs : job'[j] # "no" =>
              job[j] # "no" /\ aviso'[j] = aviso[j] /\ delDia'[j] = delDia[j] /\ iban'[j] = iban[j]
    PROVE  Mails'
<1> USE DEF IInv, Mails, ReportTypeOK, Dias, flagVars
<1>1. Encargo'
  BY DEF Encargo
<1>2. SinSellar'
  BY DEF SinSellar, Avisos
<1>3. Unica'
  BY DEF Unica, Avisos
<1>4. Sellada'
  BY DEF Sellada, Avisos
<1>5. Contados'
  BY DEF Contados, Avisos
<1>6. Vigente'
  BY DEF Vigente
<1> QED
  BY <1>1, <1>2, <1>3, <1>4, <1>5, <1>6

\* A run starts where there is no seal, and the reminders are not all out.
LEMMA CorreKeepsMails ==
    ASSUME IInv, ReportTypeOK', NEW i \in Jobs, NEW h \in Avisos, Corre(i, h)
    PROVE  Mails'
<1>1. /\ dia' = dia /\ sello' = sello /\ cuentaDia' = cuentaDia /\ cuenta' = cuenta
      /\ \A j \in Jobs : job'[j] # "no" /\ j # i =>
            job[j] # "no" /\ aviso'[j] = aviso[j] /\ delDia'[j] = delDia[j] /\ iban'[j] = iban[j]
      /\ aviso'[i] = h /\ delDia'[i] = dia /\ iban'[i] = Cuenta(h)
  BY DEF IInv, ReportTypeOK, Corre, relojVars, flagVars
<1>2. \A k \in Avisos : \A d \in Dias : Firmes(k, d)' = Firmes(k, d)
  BY CorreKeepsFirmes
<1>3. dia \in Nat
  BY Naturales DEF IInv
<1>4. Encargo'
  <2>1. h = "fin" <=> i = "finJornada"
    BY ReportFlagsAssumption DEF Corre, Toca
  <2>2. ASSUME NEW j \in Jobs, job'[j] # "no"
        PROVE  /\ aviso'[j] \in Avisos
               /\ aviso'[j] = "fin" <=> j = "finJornada"
               /\ delDia'[j] <= dia'
    <3>1. CASE j = i
      BY <1>1, <1>3, <2>1, <3>1
    <3>2. CASE j # i
      BY <1>1, <2>2, <3>2 DEF IInv, Mails, Encargo
    <3> QED
      BY <3>1, <3>2
  <2> QED
    BY <2>2 DEF Encargo
<1>5. SinSellar'
  <2>1. h \in {"fin", "inicio"} => sello[h] # dia
    BY DEF Corre, Toca, TocaFin, TocaInicio, Sellado
  <2>2. \A k \in {"fin", "inicio"} : sello[k] \in Nat
    BY Naturales DEF IInv, Avisos
  <2> QED
    BY <1>1, <1>3, <2>1, <2>2 DEF IInv, Mails, SinSellar
<1>6. Unica' /\ Sellada' /\ Contados'
  <2>1. Unica'
    BY <1>1, <1>2 DEF IInv, Mails, Unica, Avisos
  <2>2. Sellada'
    BY <1>1, <1>2 DEF IInv, Mails, Sellada, Avisos
  <2>3. Contados'
    BY <1>1, <1>2 DEF IInv, Mails, Contados, Avisos
  <2> QED
    BY <2>1, <2>2, <2>3
<1>7. Vigente'
  <2>1. h = "recordatorio" => Cuenta(h) < MaxRecordatorios /\ cuentaDia[h] <= dia
    BY DEF Corre, Toca, TocaRecordatorio, IInv, Mails, Contados
  <2> QED
    BY <1>1, <2>1 DEF IInv, Mails, Vigente, Cuenta
<1> QED
  BY <1>4, <1>5, <1>6, <1>7 DEF Mails

\* A flag that is written: the seal of a mail that has left, or its number.
LEMMA SellaKeepsMails ==
    ASSUME IInv, ReportTypeOK', NEW i \in Jobs, Sella(i),
           NEW k, k = aviso[i],
           NEW d, d = delDia[i],
           NEW n, n = IF job[i] = "salio" THEN 1 ELSE 0
    PROVE  Mails'
<1>1. /\ dia' = dia /\ dia \in Nat
      /\ \A j \in Jobs : job'[j] # "no" =>
            /\ j # i /\ job[j] # "no"
            /\ aviso'[j] = aviso[j] /\ delDia'[j] = delDia[j] /\ iban'[j] = iban[j]
  BY ReportFlagsAssumption DEF IInv, ReportTypeOK, Dias, Sella, Acaban, relojVars
<1>2. job[i] \in {"salio", "noSalio"} /\ k \in Avisos /\ d \in Dias /\ d \in Nat /\ d <= dia
  <2>1. job[i] \in {"salio", "noSalio"}
    BY DEF Sella
  <2>2. k \in Avisos /\ d <= dia
    BY <2>1 DEF IInv, Mails, Encargo
  <2>3. d \in Dias /\ d \in Nat
    BY DiasNat DEF IInv, ReportTypeOK
  <2> QED
    BY <2>1, <2>2, <2>3
<1>3. \A j \in Jobs : job'[j] # "no" => aviso'[j] # k
  BY <1>1, <1>2, SoloUno DEF IInv, Mails
<1>4. /\ Firmes(k, d)' = Firmes(k, d) + n
      /\ \A h \in Avisos : \A e \in Dias :
            ~(h = k /\ e = d) => Firmes(h, e)' = Firmes(h, e)
  <2>1. \A h \in Avisos : \A e \in Dias :
           Firmes(h, e)' = IF job[i] = "salio" /\ aviso[i] = h /\ delDia[i] = e
                           THEN Firmes(h, e) + 1 ELSE Firmes(h, e)
    BY SellaAdds
  <2>2. Firmes(k, d) \in Nat
    BY <1>2, Contada
  <2>3. Firmes(k, d)' = IF job[i] = "salio" THEN Firmes(k, d) + 1 ELSE Firmes(k, d)
    BY <1>2, <2>1
  <2>4. Firmes(k, d)' = Firmes(k, d) + n
    BY <2>2, <2>3
  <2> QED
    BY <2>1, <2>4
<1>5. Encargo'
  BY <1>1 DEF IInv, Mails, Encargo
<1>6. CASE k = "recordatorio"
  <2>1. /\ sello' = sello
        /\ cuentaDia'["recordatorio"] = d /\ cuenta'["recordatorio"] = iban[i] + 1
    BY <1>6 DEF Sella, SellaRecordatorio, IInv, ReportTypeOK, Avisos
  <2>2. SinSellar'
    BY <1>1, <2>1 DEF IInv, Mails, SinSellar
  <2>3. Unica' /\ Sellada'
    BY <1>4, <1>6, <2>1 DEF IInv, Mails, Unica, Sellada, Avisos
  <2>4. iban[i] \in Nat /\ iban[i] < MaxRecordatorios
    BY <1>2, <1>6 DEF IInv, ReportTypeOK, Mails, Vigente
  <2>5. Contados'
    <3>1. ASSUME NEW e \in Dias
          PROVE  /\ 0 <= Firmes("recordatorio", e)' /\ Firmes("recordatorio", e)' <= MaxRecordatorios
                 /\ e = d => Firmes("recordatorio", e)' <= iban[i] + 1
                 /\ e > d => Firmes("recordatorio", e)' = 0
      <4>1. Firmes("recordatorio", e) \in Nat
        BY Contada DEF Avisos
      <4>2. e \in Nat /\ cuentaDia["recordatorio"] \in Nat /\ cuentaDia["recordatorio"] <= d
        BY <1>2, <1>6, DiasNat, Naturales DEF IInv, Mails, Vigente, Avisos
      <4>3. CASE e = d
        <5>1. Firmes("recordatorio", d) <= iban[i]
          <6>1. iban[i] = IF cuentaDia["recordatorio"] = d THEN cuenta["recordatorio"] ELSE 0
            BY <1>2, <1>6 DEF IInv, Mails, Vigente
          <6>2. /\ d = cuentaDia["recordatorio"] => Firmes("recordatorio", d) <= cuenta["recordatorio"]
                /\ d > cuentaDia["recordatorio"] => Firmes("recordatorio", d) = 0
            BY <1>2 DEF IInv, Mails, Contados
          <6> QED
            BY <2>4, <4>2, <4>3, <6>1, <6>2
        <5>2. Firmes("recordatorio", e)' = Firmes("recordatorio", e) + n /\ n \in {0, 1}
          BY <1>4, <1>6, <4>3
        <5>3. MaxRecordatorios \in Nat
          BY ReportFlagsAssumption
        <5> QED
          BY <2>4, <4>1, <4>2, <4>3, <5>1, <5>2, <5>3
      <4>4. CASE e # d
        BY <1>2, <1>4, <1>6, <4>1, <4>2, <4>4 DEF IInv, Mails, Contados, Avisos
      <4> QED
        BY <4>3, <4>4
    <3>2. MaxRecordatorios \in Nat
      BY ReportFlagsAssumption
    <3>3. cuentaDia'["recordatorio"] <= dia' /\ cuenta'["recordatorio"] <= MaxRecordatorios
      BY <1>1, <1>2, <2>1, <2>4, <3>2
    <3>4. ASSUME NEW e \in Dias
          PROVE  /\ e = cuentaDia'["recordatorio"] =>
                       Firmes("recordatorio", e)' <= cuenta'["recordatorio"]
                 /\ e > cuentaDia'["recordatorio"] => Firmes("recordatorio", e)' = 0
      BY <2>1, <3>1
    <3> QED
      BY <3>1, <3>3, <3>4 DEF Contados
  <2>6. Vigente'
    BY <1>3, <1>6 DEF Vigente
  <2> QED
    BY <1>5, <2>2, <2>3, <2>5, <2>6 DEF Mails
<1>7. CASE k \in {"fin", "inicio"}
  <2>1. /\ cuentaDia'["recordatorio"] = cuentaDia["recordatorio"]
        /\ cuenta'["recordatorio"] = cuenta["recordatorio"]
    BY <1>7 DEF Sella, SellaFin, SellaInicio, IInv, ReportTypeOK, Avisos
  <2>2. Contados' /\ Vigente'
    BY <1>1, <1>4, <1>7, <2>1 DEF IInv, Mails, Contados, Vigente, Avisos
  <2>3. \/ sello' = [sello EXCEPT ![k] = d]
        \/ sello' = sello /\ n = 0
    BY <1>7 DEF Sella, SellaFin, SellaInicio
  <2>4. k = "fin" /\ sello' # sello => n = 1
    BY <1>7 DEF Sella, SellaFin
  <2>5. \A h \in {"fin", "inicio"} : sello[h] \in Nat
    BY Naturales DEF IInv, Avisos
  <2>6. \A h \in {"fin", "inicio"} :
           /\ h # k => sello'[h] = sello[h]
           /\ sello'[k] \in {sello[k], d} /\ (n = 1 => sello'[k] = d)
    BY <1>7, <2>3 DEF IInv, ReportTypeOK, Avisos
  <2>7. sello[k] < d
    BY <1>2, <1>7 DEF IInv, Mails, SinSellar
  <2>8. Firmes(k, d) = 0
    BY <1>2, <1>7, <2>5, <2>7 DEF IInv, Mails, Unica
  <2>9. SinSellar'
    BY <1>1, <1>2, <1>3, <2>5, <2>6 DEF IInv, Mails, SinSellar
  <2>10. Unica'
    <3>1. ASSUME NEW h \in {"fin", "inicio"}, NEW e \in Dias
          PROVE  Firmes(h, e)' \in {0, 1} /\ (Firmes(h, e)' > 0 => e <= sello'[h])
      <4>1. e \in Nat /\ h \in Avisos
        BY DiasNat DEF Avisos
      <4>2. CASE h = k /\ e = d
        <5>1. Firmes(h, e)' = n
          BY <1>4, <2>8, <4>2
        <5> QED
          BY <1>2, <2>6, <4>2, <5>1
      <4>3. CASE ~(h = k /\ e = d)
        <5>1. Firmes(h, e)' = Firmes(h, e)
          BY <1>4, <4>1, <4>3
        <5>2. Firmes(h, e) \in {0, 1} /\ (Firmes(h, e) > 0 => e <= sello[h])
          BY DEF IInv, Mails, Unica
        <5> QED
          BY <1>2, <2>5, <2>6, <2>7, <4>1, <5>1, <5>2
      <4> QED
        BY <4>2, <4>3
    <3> QED
      BY <3>1 DEF Unica
  <2>11. Sellada'
    <3>1. ASSUME NEW e \in Dias, sello'["fin"] = e PROVE Firmes("fin", e)' > 0
      <4>1. CASE sello' # sello /\ k = "fin"
        <5>1. n = 1 /\ e = d
          BY <1>2, <2>3, <2>4, <2>6, <3>1, <4>1
        <5> QED
          BY <1>4, <2>8, <4>1, <5>1
      <4>2. CASE sello'["fin"] = sello["fin"]
        <5>1. Firmes("fin", e) > 0
          BY <3>1, <4>2 DEF IInv, Mails, Sellada
        <5>2. Firmes("fin", e)' = Firmes("fin", e)
          BY <1>4, <2>8, <5>1 DEF Avisos
        <5> QED
          BY <5>1, <5>2
      <4> QED
        BY <2>6, <4>1, <4>2
    <3> QED
      BY <3>1 DEF Sellada
  <2> QED
    BY <1>5, <2>2, <2>9, <2>10, <2>11 DEF Mails
<1> QED
  BY <1>2, <1>6, <1>7 DEF Avisos

LEMMA NextMails == IInv /\ ReportTypeOK' /\ [ReportNext]_<<reportVars, fallas>> => Mails'
<1> SUFFICES ASSUME IInv, ReportTypeOK', [ReportNext]_<<reportVars, fallas>> PROVE Mails'
  OBVIOUS
<1>0. dia \in Nat /\ hora \in Nat
  BY ReportFlagsAssumption DEF IInv, ReportTypeOK, Dias
<1>1. CASE Avanza \/ Jornada \/ UNCHANGED <<reportVars, fallas>>
  <2>1. UNCHANGED <<flagVars, jobVars, histVars>> /\ dia <= dia'
    BY <1>0, <1>1 DEF Avanza, Jornada, Autoriza, EmpiezaLlamadas, CambiaCierre,
                           reportVars, relojVars, histVars
  <2>2. \A k \in Avisos : \A d \in Dias : Firmes(k, d)' = Firmes(k, d)
    BY <2>1 DEF Firmes, EnVuelo, jobVars, histVars
  <2> QED
    BY <2>1, <2>2, FrameKeepsMails DEF jobVars
<1>2. ASSUME NEW i \in Jobs, NEW h \in Avisos, Corre(i, h) PROVE Mails'
  BY <1>2, CorreKeepsMails
<1>3. ASSUME NEW i \in Jobs, NEW sale \in BOOLEAN, Envia(i, sale) PROVE Mails'
  <2>1. /\ flagVars' = flagVars /\ dia <= dia'
        /\ \A j \in Jobs : job'[j] # "no" =>
              job[j] # "no" /\ aviso'[j] = aviso[j] /\ delDia'[j] = delDia[j] /\ iban'[j] = iban[j]
    BY <1>0, <1>3 DEF Envia, IInv, ReportTypeOK, relojVars
  <2>2. \A k \in Avisos : \A d \in Dias : Firmes(k, d)' = Firmes(k, d)
    BY <1>3, EnviaKeepsFirmes
  <2> QED
    BY <2>1, <2>2, FrameKeepsMails
<1>4. ASSUME NEW i \in Jobs, Sella(i) PROVE Mails'
  <2>1. PICK k : k = aviso[i]
    OBVIOUS
  <2>2. PICK d : d = delDia[i]
    OBVIOUS
  <2>3. PICK n : n = IF job[i] = "salio" THEN 1 ELSE 0
    OBVIOUS
  <2> QED
    BY <1>4, <2>1, <2>2, <2>3, SellaKeepsMails
<1>5. ASSUME NEW S \in SUBSET Jobs, Pierde(S) PROVE Mails'
  <2>1. /\ flagVars' = flagVars /\ dia <= dia'
        /\ \A j \in Jobs : job'[j] # "no" =>
              job[j] # "no" /\ aviso'[j] = aviso[j] /\ delDia'[j] = delDia[j] /\ iban'[j] = iban[j]
    BY <1>0, <1>5 DEF Pierde, Acaban, relojVars
  <2>2. \A k \in Avisos : \A d \in Dias : Firmes(k, d)' = Firmes(k, d)
    BY <1>5, PierdeKeepsFirmes
  <2> QED
    BY <2>1, <2>2, FrameKeepsMails
<1> QED
  BY <1>1, <1>2, <1>3, <1>4, <1>5 DEF ReportNext, Trabajo

LEMMA Inductive == ReportSpec => []IInv
<1>1. ReportInit => IInv
  BY InitTyped, InitMails DEF IInv
<1>2. IInv /\ [ReportNext]_<<reportVars, fallas>> => IInv'
  BY NextTyped, NextMails DEF IInv
<1> QED
  BY <1>1, <1>2, PTL DEF ReportSpec

-----------------------------------------------------------------------------
\* ReportTypeOK holds of every reachable state of the jobs.
THEOREM Typing == ReportSpec => []ReportTypeOK
<1>1. IInv => ReportTypeOK
  BY DEF IInv
<1> QED
  BY <1>1, Inductive, PTL

\* A day has at most one report and one notice, and MaxRecordatorios reminders, whatever is edited,
\* authorised or restarted, but for the mails whose flag was lost.
THEOREM Mailed == ReportSpec => []MailsBounded
<1>1. IInv => MailsBounded
  <2> SUFFICES ASSUME IInv, NEW d \in Dias
               PROVE  /\ \A k \in {"fin", "inicio"} : enviados[k][d] <= 1
                      /\ enviados["recordatorio"][d] <= MaxRecordatorios
    BY DEF MailsBounded
  <2>1. d \in Nat
    BY ReportFlagsAssumption DEF Dias
  <2>2. ASSUME NEW k \in {"fin", "inicio"} PROVE enviados[k][d] <= 1
    <3>1. k \in Avisos /\ sello[k] \in Nat
      BY Naturales DEF IInv, Avisos
    <3>2. CASE EnVuelo(k, d)
      <4>1. sello[k] < d
        BY <3>2 DEF EnVuelo, IInv, Mails, SinSellar
      <4>2. Firmes(k, d) = 0
        BY <2>1, <3>1, <4>1 DEF IInv, Mails, Unica
      <4> QED
        BY <3>1, <3>2, <4>2, Contada
    <3>3. CASE ~EnVuelo(k, d)
      BY <3>1, <3>3, Contada DEF IInv, Mails, Unica
    <3> QED
      BY <3>2, <3>3
  <2>3. enviados["recordatorio"][d] <= MaxRecordatorios
    <3>1. "recordatorio" \in Avisos /\ cuentaDia["recordatorio"] \in Nat
      BY Naturales DEF IInv, Avisos
    <3>2. CASE EnVuelo("recordatorio", d)
      <4>1. PICK j \in Jobs : job[j] = "salio" /\ aviso[j] = "recordatorio" /\ delDia[j] = d
        BY <3>2 DEF EnVuelo
      <4>2. iban[j] \in Nat /\ iban[j] < MaxRecordatorios /\ Firmes("recordatorio", d) <= iban[j]
        <5>1. iban[j] \in Nat
          BY DEF IInv, ReportTypeOK
        <5>2. cuentaDia["recordatorio"] <= d /\ iban[j] < MaxRecordatorios
          BY <4>1 DEF IInv, Mails, Vigente
        <5>3. iban[j] = IF cuentaDia["recordatorio"] = d THEN cuenta["recordatorio"] ELSE 0
          BY <4>1 DEF IInv, Mails, Vigente
        <5> QED
          BY <2>1, <3>1, <5>1, <5>2, <5>3 DEF IInv, Mails, Contados
      <4> QED
        BY <3>1, <3>2, <4>2, Contada, ReportFlagsAssumption
    <3>3. CASE ~EnVuelo("recordatorio", d)
      BY <3>1, <3>3, Contada DEF IInv, Mails, Contados
    <3> QED
      BY <3>2, <3>3
  <2> QED
    BY <2>2, <2>3
<1> QED
  BY <1>1, Inductive, PTL

\* A day is sealed only if its report left, however many attempts fail and runs are lost.
THEOREM Seals == ReportSpec => []ReportSealedIfSent
<1>1. IInv => ReportSealedIfSent
  <2> SUFFICES ASSUME IInv, NEW d \in Dias, sello["fin"] = d PROVE enviados["fin"][d] > 0
    BY DEF ReportSealedIfSent
  <2>1. "fin" \in Avisos
    BY DEF Avisos
  <2>2. Firmes("fin", d) > 0
    BY DEF IInv, Mails, Sellada
  <2> QED
    BY <2>1, <2>2, Contada
<1> QED
  BY <1>1, Inductive, PTL

=============================================================================
