--------------------------- MODULE AttemptProofs ---------------------------
(***************************************************************************)
(* Theorems about the attempts of a row, for any number of rows, clients,  *)
(* attempts and days, however callbacks, post-call steps, escalations and  *)
(* the rescue interleave, each on the copy of the row it has read.  An     *)
(* attempt is counted at most once (Accounted).  While nobody pauses a row *)
(* or calls in, none is forgotten (NeverForgotten), a row is agotado only  *)
(* after max_intentos attempts (Exhausted), and the campaign implements    *)
(* ContactRegister (Registers).                                            *)
(***************************************************************************)
EXTENDS CampaignProofs

\* The attempts of a row that may still post their outcome.
Vivos(d) == {s \in Attempts : de[s] = d /\ Vivo(s)}

\* Where the call of an attempt stands, and what a stored SID tells.
CallShape ==
    \A s \in Attempts :
       /\ ~Saliente(s) => /\ tarea[s] = "no" /\ fase[s] # "timbrando"
                          /\ cb[s] \notin {"no-answer", "reprograma"}
       /\ s > nuevos => ~Saliente(s) /\ fase[s] = "libre"
       /\ cb[s] \in {"no-answer", "reprograma"} => fase[s] = "fin"
       /\ tarea[s] \in {"killswitch", "jornada", "saldo", "marcar"} => fase[s] = "libre"

SidShape ==
    \A d \in Debtors :
       vapi[d] # 0 => /\ vapi[d] \in Attempts /\ de[vapi[d]] = d
                      /\ Saliente(vapi[d]) /\ tarea[vapi[d]] = "fin"

\* A copy of intentos that a callback or the rescue will write back leaves
\* room for the attempts that may still be counted after it.
CabeEnAvisos(d) ==
    \A s \in Attempts : de[s] = d /\ cb[s] = "reprograma"
                        => snap[s] + 1 + Cardinality(Vivos(d)) <= Hechos(d)
CabeEnRescate(d) ==
    rescate[d] # -1 => rescate[d] + 1 + Cardinality(Vivos(d)) <= Hechos(d)

CountedRow(d) ==
    /\ intentos[d] + Cardinality(PorContar(d)) <= Hechos(d)
    /\ estado[d] = "llamando" => intentos[d] + 1 <= Hechos(d)
    /\ viejo[d] => Vivos(d) = {}
    /\ CabeEnAvisos(d)
    /\ CabeEnRescate(d)

\* The inductive invariant behind AttemptsAccountedFor.
AccountedInv == /\ TypeOK
                /\ CallShape
                /\ SidShape
                /\ \A d \in Debtors : CountedRow(d)

-----------------------------------------------------------------------------
\* Counting

LEMMA AttemptSets ==
    ASSUME NEW d
    PROVE  /\ IsFiniteSet(Despachos(d)) /\ Cardinality(Despachos(d)) \in Nat
           /\ IsFiniteSet(Vivos(d)) /\ Cardinality(Vivos(d)) \in Nat
           /\ IsFiniteSet(PorContar(d)) /\ Cardinality(PorContar(d)) \in Nat
           /\ Vivos(d) \subseteq PorContar(d)
           /\ PorContar(d) \subseteq Despachos(d)
<1>1. IsFiniteSet(Attempts)
  BY DialerAssumption, FS_Interval DEF Attempts, DialerAssumption
<1>2. /\ Vivos(d) \subseteq PorContar(d) /\ PorContar(d) \subseteq Despachos(d)
      /\ Despachos(d) \subseteq Attempts
  BY DEF Vivos, PorContar, Despachos, Vivo, Reportado
<1>3. IsFiniteSet(Despachos(d)) /\ IsFiniteSet(PorContar(d)) /\ IsFiniteSet(Vivos(d))
  BY <1>1, <1>2, FS_Subset
<1>. QED
  BY <1>2, <1>3, FS_CardinalityType

\* The same facts about the next state.
LEMMA AttemptSetsNext ==
    ASSUME NEW d
    PROVE  /\ IsFiniteSet(Despachos(d)') /\ Cardinality(Despachos(d)') \in Nat
           /\ IsFiniteSet(Vivos(d)') /\ Cardinality(Vivos(d)') \in Nat
           /\ IsFiniteSet(PorContar(d)') /\ Cardinality(PorContar(d)') \in Nat
           /\ Vivos(d)' \subseteq PorContar(d)'
           /\ PorContar(d)' \subseteq Despachos(d)'
<1>1. IsFiniteSet(Attempts)
  BY DialerAssumption, FS_Interval DEF Attempts, DialerAssumption
<1>2. /\ Vivos(d)' \subseteq PorContar(d)' /\ PorContar(d)' \subseteq Despachos(d)'
      /\ Despachos(d)' \subseteq Attempts
  BY DEF Vivos, PorContar, Despachos, Vivo, Reportado
<1>3. IsFiniteSet(Despachos(d)') /\ IsFiniteSet(PorContar(d)') /\ IsFiniteSet(Vivos(d)')
  BY <1>1, <1>2, FS_Subset
<1>. QED
  BY <1>2, <1>3, FS_CardinalityType

LEMMA OneLess ==
    ASSUME NEW S, IsFiniteSet(S), NEW x \in S, NEW T \in SUBSET (S \ {x})
    PROVE  Cardinality(T) <= Cardinality(S) - 1
<1>1. IsFiniteSet(S \ {x}) /\ Cardinality(S \ {x}) = Cardinality(S) - 1
  BY FS_RemoveElement
<1>. QED
  BY <1>1, FS_Subset

LEMMA HechosType ==
    ASSUME TypeOK, NEW d \in Debtors
    PROVE  Hechos(d) \in Nat
  BY AttemptSets DEF Hechos, TypeOK, RowsTypeOK

-----------------------------------------------------------------------------
\* What a step may do to an attempt and to a row without counting anything.
QuietAttempt(s) ==
    /\ Saliente(s)' = Saliente(s)
    /\ Saliente(s) => de'[s] = de[s]
    /\ Vivo(s)' => Vivo(s)
    /\ Reportado(s)' => Vivo(s) \/ Reportado(s)

QuietRow(d) ==
    /\ estado'[d] = "llamando" => estado[d] = "llamando"
    /\ viejo'[d] => viejo[d] \/ Vivos(d) = {}
    /\ \/ intentos'[d] = intentos[d] /\ escaladas'[d] = escaladas[d]
       \/ intentos'[d] = intentos[d] + 1 /\ escaladas'[d] = escaladas[d] + 1

\* Copies of intentos that leave room now, in whoever's hands they end.
QuietCopies(d) ==
    /\ \A s \in Attempts : de'[s] = d /\ cb'[s] = "reprograma"
                           => snap'[s] + 1 + Cardinality(Vivos(d)) <= Hechos(d)
    /\ rescate'[d] # -1 => rescate'[d] + 1 + Cardinality(Vivos(d)) <= Hechos(d)

QuietSets(d) == /\ Despachos(d)' = Despachos(d)
                /\ Vivos(d)' \subseteq Vivos(d)
                /\ PorContar(d)' \subseteq PorContar(d)

LEMMA QuietAttempts ==
    ASSUME NEW d, \A s \in Attempts : QuietAttempt(s)
    PROVE  QuietSets(d)
<1>1. \A s \in Attempts : (Vivo(s) => Saliente(s)) /\ (Reportado(s) => Saliente(s))
  BY DEF Vivo, Reportado
<1>2. \A s \in Attempts : (Vivo(s)' => Saliente(s)') /\ (Reportado(s)' => Saliente(s)')
  BY DEF Vivo, Reportado
<1>. QED
  BY <1>1, <1>2 DEF QuietAttempt, QuietSets, Despachos, Vivos, PorContar

\* Copies keep their room while no attempt is added.
LEMMA QuietRoom ==
    ASSUME TypeOK, TypeOK', NEW d \in Debtors, QuietSets(d), QuietCopies(d),
           escaladas'[d] >= escaladas[d]
    PROVE  CabeEnAvisos(d)' /\ CabeEnRescate(d)'
<1>1. /\ Cardinality(Vivos(d)') <= Cardinality(Vivos(d))
      /\ Cardinality(Vivos(d)) \in Nat /\ Cardinality(Vivos(d)') \in Nat
  BY AttemptSets, AttemptSetsNext, FS_Subset DEF QuietSets
<1>2. Hechos(d)' >= Hechos(d) /\ Hechos(d) \in Nat /\ Hechos(d)' \in Nat
  <2>1. Cardinality(Despachos(d)) \in Nat /\ Despachos(d)' = Despachos(d)
    BY AttemptSets DEF QuietSets
  <2>2. escaladas[d] \in Nat /\ escaladas'[d] \in Nat
    BY DEF TypeOK, RowsTypeOK
  <2>. QED
    BY <2>1, <2>2 DEF Hechos
<1>3. CabeEnAvisos(d)'
  <2>. SUFFICES ASSUME NEW s \in Attempts, de'[s] = d, cb'[s] = "reprograma"
                PROVE  snap'[s] + 1 + Cardinality(Vivos(d)') <= Hechos(d)'
    BY DEF CabeEnAvisos
  <2>1. snap'[s] + 1 + Cardinality(Vivos(d)) <= Hechos(d) /\ snap'[s] \in Nat
    BY DEF QuietCopies, TypeOK, CallsTypeOK
  <2>. QED
    BY <1>1, <1>2, <2>1
<1>4. CabeEnRescate(d)'
  <2>. SUFFICES ASSUME rescate'[d] # -1
                PROVE  rescate'[d] + 1 + Cardinality(Vivos(d)') <= Hechos(d)'
    BY DEF CabeEnRescate
  <2>1. rescate'[d] + 1 + Cardinality(Vivos(d)) <= Hechos(d) /\ rescate'[d] \in Nat \cup {-1}
    BY DEF QuietCopies, TypeOK, CallsTypeOK
  <2>. QED
    BY <1>1, <1>2, <2>1
<1>. QED
  BY <1>3, <1>4

LEMMA QuietCounts ==
    ASSUME TypeOK, TypeOK', NEW d \in Debtors, CountedRow(d),
           QuietSets(d), QuietRow(d), QuietCopies(d)
    PROVE  CountedRow(d)'
<1>1. /\ Cardinality(PorContar(d)') <= Cardinality(PorContar(d))
      /\ Cardinality(PorContar(d)) \in Nat /\ Cardinality(PorContar(d)') \in Nat
  BY AttemptSets, AttemptSetsNext, FS_Subset DEF QuietSets
<1>2. /\ intentos[d] \in Nat /\ intentos'[d] \in Nat
      /\ escaladas[d] \in Nat /\ escaladas'[d] \in Nat
  BY DEF TypeOK, RowsTypeOK
<1>3. /\ \/ intentos'[d] = intentos[d] /\ escaladas'[d] = escaladas[d]
         \/ intentos'[d] = intentos[d] + 1 /\ escaladas'[d] = escaladas[d] + 1
      /\ estado'[d] = "llamando" => estado[d] = "llamando"
  BY DEF QuietRow
<1>4. Hechos(d)' = Hechos(d) + (escaladas'[d] - escaladas[d]) /\ Hechos(d) \in Nat
  <2>1. Cardinality(Despachos(d)) \in Nat /\ Despachos(d)' = Despachos(d)
    BY AttemptSets DEF QuietSets
  <2>. QED
    BY <1>2, <2>1 DEF Hechos
<1>5. /\ intentos'[d] + Cardinality(PorContar(d)') <= Hechos(d)'
      /\ estado'[d] = "llamando" => intentos'[d] + 1 <= Hechos(d)'
  <2>1. /\ intentos[d] + Cardinality(PorContar(d)) <= Hechos(d)
        /\ estado[d] = "llamando" => intentos[d] + 1 <= Hechos(d)
    BY DEF CountedRow
  <2>. QED
    BY <1>1, <1>2, <1>3, <1>4, <2>1
<1>6. viejo'[d] => Vivos(d)' = {}
  BY DEF CountedRow, QuietRow, QuietSets
<1>7. CabeEnAvisos(d)' /\ CabeEnRescate(d)'
  BY <1>2, <1>3, QuietRoom
<1>. QED
  BY <1>5, <1>6, <1>7 DEF CountedRow

\* What nearly every step does.
QuietStep ==
    /\ \A s \in Attempts :
          /\ QuietAttempt(s)
          /\ cb'[s] = "reprograma" => cb[s] = "reprograma" /\ snap'[s] = snap[s]
    /\ \A d \in Debtors : QuietRow(d) /\ (rescate'[d] # -1 => rescate'[d] = rescate[d])

LEMMA SameCopies ==
    ASSUME AccountedInv, NEW d \in Debtors,
           \A s \in Attempts : QuietAttempt(s),
           \A s \in Attempts : cb'[s] = "reprograma" => cb[s] = "reprograma" /\ snap'[s] = snap[s],
           rescate'[d] # -1 => rescate'[d] = rescate[d]
    PROVE  QuietCopies(d)
<1>1. CabeEnAvisos(d) /\ CabeEnRescate(d)
  BY DEF AccountedInv, CountedRow
<1>2. \A s \in Attempts : cb'[s] = "reprograma" => de'[s] = de[s]
  BY DEF AccountedInv, CallShape, QuietAttempt
<1>. QED
  BY <1>1, <1>2 DEF QuietCopies, CabeEnAvisos, CabeEnRescate

LEMMA QuietStepCounts ==
    ASSUME AccountedInv, TypeOK', QuietStep
    PROVE  \A d \in Debtors : CountedRow(d)'
<1>. SUFFICES ASSUME NEW d \in Debtors PROVE CountedRow(d)'
  OBVIOUS
<1>1. QuietSets(d)
  BY QuietAttempts DEF QuietStep
<1>2. QuietCopies(d) /\ QuietRow(d)
  BY SameCopies DEF QuietStep
<1>. QED
  BY <1>1, <1>2, QuietCounts DEF AccountedInv

\* The callback or the rescue writes its copy back: the attempt it counts
\* can no longer be found by its SID.
LEMMA RescheduleCounts ==
    ASSUME AccountedInv, TypeOK', NEW d \in Debtors, NEW n \in Nat,
           n + 1 + Cardinality(Vivos(d)) <= Hechos(d),
           RescheduleIntentoFallido(d, n), UNCHANGED <<escaladas, dialerVars>>,
           \A s \in Attempts : /\ cb'[s] = cb[s] \/ (cb[s] = "reprograma" /\ cb'[s] = "no")
                               /\ cb'[s] = "reprograma" => snap'[s] = snap[s],
           \A e \in Debtors : rescate'[e] # -1 => rescate'[e] = rescate[e]
    PROVE  \A e \in Debtors : CountedRow(e)'
<1>. USE DEF AccountedInv
<1>1. /\ intentos' = [intentos EXCEPT ![d] = n + 1]
      /\ vapi' = [vapi EXCEPT ![d] = 0]
      /\ \E e \in {"agotado", "sin_contacto"} : PonEstado(d, e)
      /\ escaladas' = escaladas /\ UNCHANGED <<de, despacho, tarea, fase>>
  BY DEF RescheduleIntentoFallido, dialerVars, attemptVars, historyVars
<1>2. \A s \in Attempts : de[s] \in Debtors
  BY DEF TypeOK, DialerTypeOK
<1>3. \A s \in Attempts : Vivo(s)' => Vivo(s)
  BY <1>1 DEF Vivo, Saliente
<1>4. \A s \in Attempts : Reportado(s)' => Reportado(s) /\ de[s] # d
  BY <1>1, <1>2 DEF Reportado, Saliente, TypeOK, RowsTypeOK, Attempts
<1>5. \A s \in Attempts : QuietAttempt(s)
  BY <1>1, <1>3, <1>4 DEF QuietAttempt, Saliente
<1>6. \A e \in Debtors : QuietSets(e) /\ QuietCopies(e)
  BY <1>5, QuietAttempts, SameCopies
<1>7. ASSUME NEW e \in Debtors, e # d PROVE CountedRow(e)'
  <2>1. QuietRow(e)
    BY <1>1, <1>7 DEF QuietRow, PonEstado, TypeOK, RowsTypeOK
  <2>. QED
    BY <1>6, <2>1, QuietCounts
<1>8. CountedRow(d)'
  <2>1. PorContar(d)' \subseteq Vivos(d)
    BY <1>1, <1>3, <1>4 DEF PorContar, Vivos
  <2>2. /\ Cardinality(PorContar(d)') <= Cardinality(Vivos(d))
        /\ Cardinality(Vivos(d)) \in Nat /\ Cardinality(PorContar(d)') \in Nat
    BY <2>1, AttemptSets, AttemptSetsNext, FS_Subset
  <2>3. Hechos(d)' = Hechos(d) /\ Hechos(d) \in Nat
    BY <1>1, <1>6, HechosType DEF Hechos, QuietSets
  <2>4. intentos'[d] = n + 1 /\ estado'[d] # "llamando" /\ viejo'[d] = FALSE
    BY <1>1 DEF PonEstado, TypeOK, RowsTypeOK
  <2>5. intentos'[d] + Cardinality(PorContar(d)') <= Hechos(d)'
    BY <2>2, <2>3, <2>4
  <2>6. CabeEnAvisos(d)' /\ CabeEnRescate(d)'
    BY <1>1, <1>6, QuietRoom DEF TypeOK, RowsTypeOK
  <2>. QED
    BY <2>4, <2>5, <2>6 DEF CountedRow
<1>. QED
  BY <1>7, <1>8

\* The post-call step counts its attempt, which is then over.
LEMMA PostCounts ==
    ASSUME AccountedInv, TypeOK', NEW s \in Attempts, PostEscribe(s)
    PROVE  \A e \in Debtors : CountedRow(e)'
<1>. USE DEF AccountedInv
<1>. PICK d \in Debtors : d = de[s]
  BY DEF TypeOK, DialerTypeOK
<1>1. /\ fase[s] = "escribe" /\ fase' = [fase EXCEPT ![s] = "fin"]
      /\ vapi' = [vapi EXCEPT ![d] = 0]
      /\ \E contacto \in BOOLEAN : PonEstado(d, EstadoFinal(s, contacto))
      /\ escaladas' = escaladas /\ UNCHANGED <<de, despacho, tarea, cb, rescate>>
      /\ snap' = [snap EXCEPT ![s] = 0]
      /\ IF Entrante(s) THEN intentos' = intentos
                        ELSE intentos' = [intentos EXCEPT ![d] = @ + 1]
  BY DEF PostEscribe, historyVars
<1>2. \A t \in Attempts : de[t] \in Debtors
  BY DEF TypeOK, DialerTypeOK
<1>3. cb[s] \notin {"no-answer", "reprograma"}
  BY <1>1 DEF CallShape
<1>4. \A t \in Attempts : Vivo(t)' => Vivo(t) /\ t # s
  BY <1>1, <1>3 DEF Vivo, Saliente, Abierta, TypeOK, DialerTypeOK
<1>5. \A t \in Attempts : Reportado(t)' => Reportado(t) /\ de[t] # d
  BY <1>1, <1>2 DEF Reportado, Saliente, TypeOK, RowsTypeOK, Attempts
<1>6. \A t \in Attempts : QuietAttempt(t)
  BY <1>1, <1>4, <1>5 DEF QuietAttempt, Saliente
<1>7. \A t \in Attempts : cb'[t] = "reprograma" => cb[t] = "reprograma" /\ snap'[t] = snap[t]
  BY <1>1, <1>3 DEF TypeOK, CallsTypeOK
<1>8. \A e \in Debtors : QuietSets(e) /\ QuietCopies(e)
  BY <1>1, <1>6, <1>7, QuietAttempts, SameCopies
<1>9. \A contacto \in BOOLEAN : EstadoFinal(s, contacto) # "llamando"
  BY DEF EstadoFinal, TERMINAL_ESTADOS
<1>10. estado'[d] # "llamando" /\ viejo'[d] = FALSE
  BY <1>1, <1>2, <1>9 DEF PonEstado, TypeOK, RowsTypeOK
<1>11. ASSUME NEW e \in Debtors, e # d \/ Entrante(s) PROVE CountedRow(e)'
  <2>1. QuietRow(e)
    BY <1>1, <1>2, <1>10, <1>11 DEF QuietRow, PonEstado, TypeOK, RowsTypeOK
  <2>. QED
    BY <1>8, <2>1, QuietCounts
<1>12. CASE ~Entrante(s)
  <2>1. Saliente(s) /\ s \in Vivos(d)
    BY <1>1, <1>12 DEF CallShape, Entrante, Saliente, Vivo, Vivos, Abierta, TypeOK,
                       DialerTypeOK, Attempts
  <2>2. PorContar(d)' \subseteq Vivos(d) \ {s}
    BY <1>1, <1>4, <1>5 DEF PorContar, Vivos
  <2>3. /\ Cardinality(PorContar(d)') <= Cardinality(Vivos(d)) - 1
        /\ Cardinality(Vivos(d)) <= Cardinality(PorContar(d))
        /\ Cardinality(Vivos(d)) \in Nat /\ Cardinality(PorContar(d)') \in Nat
        /\ Cardinality(PorContar(d)) \in Nat
    BY <2>1, <2>2, AttemptSets, AttemptSetsNext, FS_Subset, FS_RemoveElement
  <2>4. Hechos(d)' = Hechos(d) /\ Hechos(d) \in Nat
    BY <1>1, <1>2, <1>8, HechosType DEF Hechos, QuietSets
  <2>5. intentos'[d] = intentos[d] + 1 /\ intentos[d] \in Nat
    BY <1>1, <1>2, <1>12 DEF TypeOK, RowsTypeOK
  <2>6. intentos[d] + Cardinality(PorContar(d)) <= Hechos(d)
    BY <1>2 DEF CountedRow
  <2>7. intentos'[d] + Cardinality(PorContar(d)') <= Hechos(d)'
    BY <2>3, <2>4, <2>5, <2>6
  <2>8. CabeEnAvisos(d)' /\ CabeEnRescate(d)'
    BY <1>1, <1>2, <1>8, QuietRoom DEF TypeOK, RowsTypeOK
  <2>9. CountedRow(d)'
    BY <1>10, <2>7, <2>8 DEF CountedRow
  <2>. QED
    BY <1>11, <2>9
<1>. QED
  BY <1>11, <1>12

\* A dispatch is one more attempt that may be counted, and one that was
\* placed.
LEMMA MarkCounts ==
    ASSUME AccountedInv, TypeOK', UNCHANGED callVars, NEW d \in Debtors, DespachoMarca(d)
    PROVE  \A e \in Debtors : CountedRow(e)'
<1>. USE DEF AccountedInv
<1>. PICK s : s = nuevos + 1
  OBVIOUS
<1>1. /\ s \in Attempts /\ s > nuevos
      /\ de' = [de EXCEPT ![s] = d] /\ tarea' = [tarea EXCEPT ![s] = "killswitch"]
      /\ despacho' = [despacho EXCEPT ![s] = dia]
      /\ UNCHANGED <<fase, cb, vapi, snap, rescate, intentos, escaladas>>
      /\ estado' = [estado EXCEPT ![d] = "llamando"]
      /\ viejo' = [h \in Debtors |-> viejo[h] /\ h # d /\ h \notin Hermanas(d)]
  BY DEF DespachoMarca, callVars, TypeOK, DialerTypeOK
<1>2. /\ ~Saliente(s) /\ fase[s] = "libre" /\ cb[s] \notin {"no-answer", "reprograma"}
      /\ Saliente(s)' /\ Vivo(s)' /\ de'[s] = d
  <2>1. dia # -1
    BY DEF TypeOK, RowsTypeOK
  <2>. QED
    BY <1>1, <2>1 DEF CallShape, Saliente, Vivo, EnVuelo, TypeOK, DialerTypeOK
<1>3. \A t \in Attempts : t # s => /\ Saliente(t)' = Saliente(t) /\ de'[t] = de[t]
                                   /\ Vivo(t)' = Vivo(t) /\ Reportado(t)' = Reportado(t)
  BY <1>1 DEF Saliente, Vivo, Reportado, TypeOK, DialerTypeOK
<1>4. ~Reportado(s)' /\ ~Vivo(s) /\ ~Reportado(s)
  BY <1>1, <1>2 DEF Reportado, Vivo
<1>5. ASSUME NEW e \in Debtors, e # d PROVE CountedRow(e)'
  <2>1. QuietSets(e)
    BY <1>2, <1>3, <1>4, <1>5 DEF QuietSets, Despachos, Vivos, PorContar
  <2>2. QuietRow(e)
    BY <1>1, <1>5 DEF QuietRow, TypeOK, RowsTypeOK
  <2>3. QuietCopies(e)
    BY <1>1, <1>2, <1>3 DEF QuietCopies, CountedRow, CabeEnAvisos, CabeEnRescate
  <2>. QED
    BY <2>1, <2>2, <2>3, QuietCounts
<1>6. CountedRow(d)'
  <2>1. /\ Despachos(d)' = Despachos(d) \cup {s} /\ s \notin Despachos(d)
        /\ Vivos(d)' = Vivos(d) \cup {s} /\ s \notin Vivos(d)
        /\ PorContar(d)' = PorContar(d) \cup {s} /\ s \notin PorContar(d)
    BY <1>1, <1>2, <1>3, <1>4 DEF Despachos, Vivos, PorContar
  <2>2. /\ Cardinality(Despachos(d)') = Cardinality(Despachos(d)) + 1
        /\ Cardinality(Vivos(d)') = Cardinality(Vivos(d)) + 1
        /\ Cardinality(PorContar(d)') = Cardinality(PorContar(d)) + 1
    BY <2>1, AttemptSets, FS_AddElement
  <2>3. /\ Cardinality(Despachos(d)) \in Nat /\ Cardinality(Vivos(d)) \in Nat
        /\ Cardinality(PorContar(d)) \in Nat /\ escaladas[d] \in Nat /\ intentos[d] \in Nat
    BY AttemptSets DEF TypeOK, RowsTypeOK
  <2>4. Hechos(d)' = Hechos(d) + 1 /\ Hechos(d) \in Nat
    BY <1>1, <2>2, <2>3 DEF Hechos
  <2>5. /\ intentos'[d] + Cardinality(PorContar(d)') <= Hechos(d)'
        /\ intentos'[d] + 1 <= Hechos(d)'
    <3>1. intentos[d] + Cardinality(PorContar(d)) <= Hechos(d) /\ intentos' = intentos
      BY <1>1 DEF CountedRow
    <3>. QED
      BY <2>2, <2>3, <2>4, <3>1
  <2>6. viejo'[d] = FALSE
    BY <1>1
  <2>7. CabeEnAvisos(d)'
    <3>. SUFFICES ASSUME NEW t \in Attempts, de'[t] = d, cb'[t] = "reprograma"
                  PROVE  snap'[t] + 1 + Cardinality(Vivos(d)') <= Hechos(d)'
      BY DEF CabeEnAvisos
    <3>1. snap[t] + 1 + Cardinality(Vivos(d)) <= Hechos(d) /\ snap'[t] = snap[t] /\ snap[t] \in Nat
      BY <1>1, <1>2, <1>3 DEF CountedRow, CabeEnAvisos, TypeOK, CallsTypeOK
    <3>. QED
      BY <2>2, <2>3, <2>4, <3>1
  <2>8. CabeEnRescate(d)'
    <3>. SUFFICES ASSUME rescate'[d] # -1
                  PROVE  rescate'[d] + 1 + Cardinality(Vivos(d)') <= Hechos(d)'
      BY DEF CabeEnRescate
    <3>1. /\ rescate[d] + 1 + Cardinality(Vivos(d)) <= Hechos(d)
          /\ rescate'[d] = rescate[d] /\ rescate[d] \in Nat \cup {-1}
      BY <1>1 DEF CountedRow, CabeEnRescate, TypeOK, CallsTypeOK
    <3>. QED
      BY <2>2, <2>3, <2>4, <3>1
  <2>. QED
    BY <2>5, <2>6, <2>7, <2>8 DEF CountedRow
<1>. QED
  BY <1>5, <1>6

\* The callback reads a row it finds by SID: its own attempt is not counted
\* yet, and can no longer post.
LEMMA ReadCounts ==
    ASSUME AccountedInv, TypeOK', NEW s \in Attempts, AvisoNoContesta(s)
    PROVE  \A e \in Debtors : CountedRow(e)'
<1>. USE DEF AccountedInv
<1>. PICK d \in Debtors : d = de[s]
  BY DEF TypeOK, DialerTypeOK
<1>1. /\ cb[s] = "no-answer"
      /\ UNCHANGED <<de, despacho, tarea, fase, rescate, vapi, estado, viejo, intentos, escaladas>>
      /\ \/ /\ vapi[d] = s /\ estado[d] = "llamando"
            /\ cb' = [cb EXCEPT ![s] = "reprograma"]
            /\ snap' = [snap EXCEPT ![s] = intentos[d]]
         \/ cb' = [cb EXCEPT ![s] = "no"] /\ snap' = snap
  BY DEF AvisoNoContesta, clockVars, rowVars, debtorVars, historyVars
<1>2. \A t \in Attempts : QuietAttempt(t)
  BY <1>1 DEF QuietAttempt, Vivo, Reportado, Saliente, TypeOK, CallsTypeOK
<1>3. \A e \in Debtors : QuietSets(e) /\ QuietRow(e)
  BY <1>1, <1>2, QuietAttempts DEF QuietRow
<1>4. ASSUME NEW e \in Debtors PROVE QuietCopies(e)
  <2>1. ASSUME NEW t \in Attempts, de'[t] = e, cb'[t] = "reprograma"
        PROVE  snap'[t] + 1 + Cardinality(Vivos(e)) <= Hechos(e)
    <3>1. CASE t # s
      BY <1>1, <2>1, <3>1 DEF CountedRow, CabeEnAvisos, TypeOK, CallsTypeOK
    <3>2. CASE t = s
      <4>1. e = d /\ vapi[d] = s /\ snap'[s] = intentos[d] /\ s # 0
        BY <1>1, <2>1, <3>2 DEF TypeOK, CallsTypeOK, Attempts
      <4>2. Saliente(s) /\ tarea[s] = "fin" /\ fase[s] = "fin"
        BY <1>1, <4>1 DEF SidShape, CallShape
      <4>3. s \in PorContar(d) /\ s \notin Vivos(d)
        BY <1>1, <4>1, <4>2 DEF PorContar, Vivos, Vivo, Reportado, EnVuelo, Abierta
      <4>4. Vivos(d) \in SUBSET (PorContar(d) \ {s}) /\ IsFiniteSet(PorContar(d))
        BY <4>3, AttemptSets
      <4>5. Cardinality(Vivos(d)) <= Cardinality(PorContar(d)) - 1
        BY <4>3, <4>4, OneLess
      <4>6. intentos[d] + Cardinality(PorContar(d)) <= Hechos(d)
        BY DEF CountedRow
      <4>7. /\ Cardinality(Vivos(d)) \in Nat /\ Cardinality(PorContar(d)) \in Nat
            /\ intentos[d] \in Nat /\ Hechos(d) \in Nat
        BY AttemptSets, HechosType DEF TypeOK, RowsTypeOK
      <4>8. intentos[d] + 1 + Cardinality(Vivos(d)) <= Hechos(d)
        BY <4>5, <4>6, <4>7
      <4>. QED
        BY <3>2, <4>1, <4>8
    <3>. QED
      BY <3>1, <3>2
  <2>2. rescate'[e] # -1 => rescate'[e] + 1 + Cardinality(Vivos(e)) <= Hechos(e)
    BY <1>1 DEF CountedRow, CabeEnRescate
  <2>. QED
    BY <2>1, <2>2 DEF QuietCopies
<1>. QED
  BY <1>3, <1>4, QuietCounts

\* The rescue reads rows nobody has worked on for 15 minutes.
LEMMA RescueReadCounts ==
    ASSUME AccountedInv, TypeOK', RescateLee
    PROVE  \A e \in Debtors : CountedRow(e)'
<1>. USE DEF AccountedInv
<1>1. /\ rescate' = [d \in Debtors |-> IF Atascado(d) THEN intentos[d] ELSE -1]
      /\ UNCHANGED <<de, despacho, tarea, fase, vapi, estado, viejo, intentos, escaladas, cb, snap>>
  BY DEF RescateLee, clockVars, rowVars, debtorVars, dialerVars, attemptVars, historyVars
<1>2. \A t \in Attempts : QuietAttempt(t)
  BY <1>1 DEF QuietAttempt, Vivo, Reportado, Saliente
<1>3. \A e \in Debtors : QuietSets(e) /\ QuietRow(e)
  BY <1>1, <1>2, QuietAttempts DEF QuietRow
<1>4. ASSUME NEW e \in Debtors PROVE QuietCopies(e)
  <2>1. ASSUME rescate'[e] # -1 PROVE rescate'[e] + 1 + Cardinality(Vivos(e)) <= Hechos(e)
    <3>1. Atascado(e) /\ rescate'[e] = intentos[e]
      BY <1>1, <2>1
    <3>2. Cardinality(Vivos(e)) = 0
      BY <3>1, FS_EmptySet DEF Atascado, CountedRow
    <3>3. intentos[e] + 1 <= Hechos(e) /\ intentos[e] \in Nat
      BY <3>1 DEF Atascado, CountedRow, TypeOK, RowsTypeOK
    <3>. QED
      BY <3>1, <3>2, <3>3
  <2>. QED
    BY <1>1, <2>1 DEF QuietCopies, CountedRow, CabeEnAvisos
<1>. QED
  BY <1>3, <1>4, QuietCounts

-----------------------------------------------------------------------------
\* The steps that count nothing

LEMMA TaskQuiet ==
    ASSUME AccountedInv, NEW s \in Attempts, Tarea(s)
    PROVE  QuietStep
<1>. USE DEF AccountedInv
<1>. PICK d \in Debtors : d = de[s]
  BY DEF TypeOK, DialerTypeOK
<1>1. /\ UNCHANGED <<de, despacho, cb, snap, rescate, intentos, escaladas>>
      /\ tarea[s] \in EnVuelo /\ Saliente(s)
      /\ \A t \in Attempts : t # s => tarea'[t] = tarea[t] /\ fase'[t] = fase[t]
      /\ \A e \in Debtors : estado'[e] = estado[e] \/ estado'[e] \in {"pendiente", "sin_contacto"}
      /\ \A e \in Debtors : viejo'[e] = viejo[e] \/ viejo'[e] = FALSE
  <2>1. tarea[s] \in EnVuelo
    BY DEF Tarea, TareaKillswitch, TareaJornada, TareaSaldo, Gate, TareaMarca, TareaMapea,
           TareaVapi, TareaNumeroInvalido, TareaFallaCreate, TareaFallaMongo, EnVuelo
  <2>2. UNCHANGED <<de, despacho, cb, snap, rescate, intentos, escaladas>>
    BY DEF Tarea, TareaKillswitch, TareaJornada, TareaSaldo, Gate, TareaMarca, TareaMapea,
           TareaVapi, TareaNumeroInvalido, TareaFallaCreate, TareaFallaMongo, callVars,
           rowVars, debtorVars, historyVars
  <2>3. \A t \in Attempts : t # s => tarea'[t] = tarea[t] /\ fase'[t] = fase[t]
    BY DEF Tarea, TareaKillswitch, TareaJornada, TareaSaldo, Gate, Aborta, TareaMarca,
           TareaMapea, TareaVapi, TareaNumeroInvalido, TareaFallaCreate, TareaFallaMongo,
           TypeOK, DialerTypeOK
  <2>4. /\ \A e \in Debtors : estado'[e] = estado[e] \/ estado'[e] \in {"pendiente", "sin_contacto"}
        /\ \A e \in Debtors : viejo'[e] = viejo[e] \/ viejo'[e] = FALSE
    BY DEF Tarea, TareaKillswitch, TareaJornada, TareaSaldo, Gate, Aborta, TareaMarca,
           TareaMapea, TareaVapi, TareaNumeroInvalido, TareaFallaCreate, TareaFallaMongo,
           PonEstado, rowVars, debtorVars, TypeOK, RowsTypeOK
  <2>5. Saliente(s)
    BY <2>1 DEF CallShape, EnVuelo
  <2>. QED
    BY <2>1, <2>2, <2>3, <2>4, <2>5
<1>2. \/ vapi' = vapi
      \/ vapi' = [vapi EXCEPT ![d] = s] /\ fase' = fase
  BY DEF Tarea, TareaKillswitch, TareaJornada, TareaSaldo, Gate, TareaMarca, TareaMapea,
         TareaVapi, TareaNumeroInvalido, TareaFallaCreate, TareaFallaMongo, rowVars, debtorVars
<1>3. Vivo(s)' => Vivo(s)
  <2>1. fase' = fase \/ (tarea[s] = "marcar" /\ tarea'[s] \in {"fin", "mapear"})
    BY DEF Tarea, TareaKillswitch, TareaJornada, TareaSaldo, Gate, TareaMarca, TareaMapea,
           TareaVapi, TareaNumeroInvalido, TareaFallaCreate, TareaFallaMongo, TypeOK,
           DialerTypeOK
  <2>2. CASE fase' = fase
    BY <1>1, <2>2 DEF Vivo, Saliente
  <2>3. CASE tarea[s] = "marcar"
    BY <1>1, <2>3 DEF Vivo, Saliente, CallShape
  <2>. QED
    BY <2>1, <2>2, <2>3
<1>4. Reportado(s)' => Vivo(s) \/ Reportado(s)
  BY <1>1, <1>2 DEF Vivo, Reportado, Saliente
<1>5. \A t \in Attempts : t # s => (Vivo(t)' => Vivo(t)) /\ (Reportado(t)' => Reportado(t))
  BY <1>1, <1>2 DEF Vivo, Reportado, Saliente, TypeOK, RowsTypeOK, DialerTypeOK
<1>6. \A t \in Attempts : QuietAttempt(t)
  BY <1>1, <1>3, <1>4, <1>5 DEF QuietAttempt, Saliente
<1>. QED
  BY <1>1, <1>6 DEF QuietStep, QuietRow

LEMMA TwilioQuiet ==
    ASSUME AccountedInv, NEW s \in Attempts, Twilio(s)
    PROVE  QuietStep
<1>. USE DEF AccountedInv, TypeOK, DialerTypeOK, CallsTypeOK
<1>1. UNCHANGED <<de, despacho, tarea, vapi, estado, viejo, intentos, escaladas, rescate>>
  BY DEF Twilio, NoContesta, ContestaMaquina, ContestaPersona, PierdeAviso, rowVars,
         debtorVars, dialerVars, attemptVars, historyVars
<1>2. \A t \in Attempts : t # s => fase'[t] = fase[t] /\ cb'[t] = cb[t] /\ snap'[t] = snap[t]
  BY DEF Twilio, NoContesta, ContestaMaquina, ContestaPersona, PierdeAviso, dialerVars,
         attemptVars
<1>3. CASE fase[s] = "timbrando"
  <2>1. Vivo(s) /\ cb'[s] # "reprograma"
    BY <1>3 DEF CallShape, Vivo, Abierta, Twilio, NoContesta, ContestaMaquina,
                ContestaPersona, PierdeAviso
  <2>. QED
    BY <1>1, <1>2, <2>1 DEF QuietStep, QuietRow, QuietAttempt, Vivo, Reportado, Saliente
<1>4. CASE fase[s] # "timbrando"
  <2>1. fase' = fase /\ cb'[s] = "no" /\ snap' = snap
    BY <1>4 DEF Twilio, NoContesta, ContestaMaquina, ContestaPersona, PierdeAviso,
                dialerVars, attemptVars
  <2>. QED
    BY <1>1, <1>2, <2>1 DEF QuietStep, QuietRow, QuietAttempt, Vivo, Reportado, Saliente
<1>. QED
  BY <1>3, <1>4

LEMMA ToolQuiet ==
    ASSUME AccountedInv, NEW s \in Attempts,
           ToolReagendar(s) \/ ToolPromesa(s) \/ ToolEscalate(s) \/ ToolOptOut(s)
    PROVE  QuietStep
<1>. USE DEF AccountedInv, TypeOK, RowsTypeOK
<1>1. UNCHANGED <<de, despacho, tarea, fase, vapi, rescate, cb, snap>>
  BY DEF ToolReagendar, ToolPromesa, ToolEscalate, ToolOptOut, Escalate, dialerVars,
         attemptVars, historyVars, callVars
<1>2. \A t \in Attempts : QuietAttempt(t)
  BY <1>1 DEF QuietAttempt, Vivo, Reportado, Saliente
<1>3. ASSUME NEW d \in Debtors PROVE QuietRow(d)
  BY DEF ToolReagendar, ToolPromesa, ToolEscalate, ToolOptOut, Escalate, PonEstado, QuietRow
<1>. QED
  BY <1>1, <1>2, <1>3 DEF QuietStep

LEMMA HangUpQuiet ==
    ASSUME AccountedInv, NEW s \in Attempts,
           Cuelga(s) \/ BotFalla(s) \/ PostLee(s) \/ AvisoCompleted(s)
    PROVE  QuietStep
<1>. USE DEF AccountedInv, TypeOK, DialerTypeOK, CallsTypeOK
<1>1. UNCHANGED <<de, despacho, tarea, vapi, estado, viejo, intentos, escaladas, rescate>>
  BY DEF Cuelga, BotFalla, PostLee, AvisoCompleted, rowVars, debtorVars, historyVars
<1>2. \A t \in Attempts : t # s => fase'[t] = fase[t] /\ cb'[t] = cb[t] /\ snap'[t] = snap[t]
  BY DEF Cuelga, BotFalla, PostLee, AvisoCompleted
<1>3. CASE AvisoCompleted(s)
  <2>1. fase' = fase /\ cb'[s] = "no"
    BY <1>3 DEF AvisoCompleted
  <2>. QED
    BY <1>1, <1>2, <2>1 DEF QuietStep, QuietRow, QuietAttempt, Vivo, Reportado, Saliente
<1>4. CASE Cuelga(s) \/ BotFalla(s) \/ PostLee(s)
  <2>1. fase[s] \in Abierta /\ fase[s] # "fin"
    BY <1>4 DEF Cuelga, BotFalla, PostLee, Abierta
  <2>2. Saliente(s) => Vivo(s)
    BY <2>1 DEF Vivo
  <2>3. cb[s] \notin {"no-answer", "reprograma"} /\ cb'[s] \notin {"no-answer", "reprograma"}
    BY <1>4, <2>1 DEF CallShape, Cuelga, BotFalla, PostLee
  <2>. QED
    BY <1>1, <1>2, <2>2, <2>3 DEF QuietStep, QuietRow, QuietAttempt, Vivo, Reportado, Saliente
<1>. QED
  BY <1>3, <1>4

LEMMA PlanQuiet ==
    ASSUME AccountedInv, NEW d \in Debtors, PlanLeeJob(d) \/ PlanEscribeJob(d)
    PROVE  QuietStep
<1>. USE DEF AccountedInv, TypeOK, RowsTypeOK
<1>1. UNCHANGED <<de, despacho, tarea, fase, vapi, rescate, cb, snap, intentos, escaladas>>
  BY DEF PlanLeeJob, PlanLee, PlanEscribeJob, PlanEscribe, DejaTodo, DejaTodoMenosSuelta,
         debtorVars, dialerVars, attemptVars, historyVars, callVars
<1>2. \A t \in Attempts : QuietAttempt(t)
  BY <1>1 DEF QuietAttempt, Vivo, Reportado, Saliente
<1>3. ASSUME NEW e \in Debtors PROVE QuietRow(e)
  BY <1>1 DEF PlanLeeJob, PlanLee, PlanEscribeJob, PlanEscribe, PonEstado, QuietRow, debtorVars
<1>. QED
  BY <1>1, <1>2, <1>3 DEF QuietStep

LEMMA DashboardQuiet ==
    ASSUME AccountedInv, NEW d \in Debtors,
           \/ MarcarPagado(d) /\ DejaTodo
           \/ PausarDebtor(d) /\ DejaTodo
           \/ Reactivar(d)
           \/ PatchNoLlamar(d) /\ DejaTodo
           \/ WaEscalate(d) /\ DejaTodo
    PROVE  QuietStep
<1>. USE DEF AccountedInv, TypeOK, RowsTypeOK
<1>1. UNCHANGED <<de, despacho, tarea, fase, vapi, rescate, cb, snap>>
  BY DEF MarcarPagado, PausarDebtor, Reactivar, ReactivarDebtor, PatchNoLlamar, WaEscalate,
         Escalate, DejaTodo, DejaTodoMenosSuelta, dialerVars, attemptVars, historyVars, callVars
<1>2. \A t \in Attempts : QuietAttempt(t)
  BY <1>1 DEF QuietAttempt, Vivo, Reportado, Saliente
<1>3. ASSUME NEW e \in Debtors PROVE QuietRow(e)
  BY DEF MarcarPagado, PausarDebtor, Reactivar, ReactivarDebtor, PatchNoLlamar, WaEscalate,
         Escalate, PonEstado, QuietRow
<1>. QED
  BY <1>1, <1>2, <1>3 DEF QuietStep

LEMMA InboundQuiet ==
    ASSUME AccountedInv, NEW d \in Debtors, LlamadaEntrante(d)
    PROVE  QuietStep
<1>. USE DEF AccountedInv, TypeOK, DialerTypeOK, CallsTypeOK
<1>. PICK s : s = nuevos + 1
  OBVIOUS
<1>1. /\ UNCHANGED <<despacho, tarea, vapi, estado, viejo, intentos, escaladas, rescate, cb>>
      /\ de' = [de EXCEPT ![s] = d] /\ fase' = [fase EXCEPT ![s] = "hablando"]
      /\ snap' = [snap EXCEPT ![s] = intentos[d]]
      /\ s > nuevos
  BY DEF LlamadaEntrante, rowVars, debtorVars, historyVars
<1>2. s \in Attempts => ~Saliente(s) /\ cb[s] # "reprograma"
  BY <1>1 DEF CallShape
<1>3. \A t \in Attempts : QuietAttempt(t)
  BY <1>1, <1>2 DEF QuietAttempt, Vivo, Reportado, Saliente
<1>4. \A t \in Attempts : cb'[t] = "reprograma" => cb[t] = "reprograma" /\ snap'[t] = snap[t]
  BY <1>1, <1>2
<1>. QED
  BY <1>1, <1>3, <1>4 DEF QuietStep, QuietRow

\* Switches, the dispatcher's query, the clock and a stutter leave attempts
\* and rows alone, or only let a row age on which nobody works.
LEMMA IdleQuiet ==
    ASSUME AccountedInv,
           UNCHANGED <<de, despacho, tarea, fase, vapi, estado, intentos, escaladas, rescate, cb, snap>>,
           \A d \in Debtors : viejo'[d] => viejo[d] \/ SinActividad(d)
    PROVE  QuietStep
<1>1. \A t \in Attempts : QuietAttempt(t)
  BY DEF QuietAttempt, Vivo, Reportado, Saliente
<1>2. \A d \in Debtors : SinActividad(d) => Vivos(d) = {}
  BY DEF SinActividad, Viva, Vivo, Vivos
<1>. QED
  BY <1>1, <1>2 DEF QuietStep, QuietRow

LEMMA RestartQuiet ==
    ASSUME AccountedInv, Reinicio
    PROVE  QuietStep
<1>. USE DEF AccountedInv, TypeOK, DialerTypeOK, CallsTypeOK
<1>1. /\ UNCHANGED <<despacho, de, vapi, estado, viejo, intentos, escaladas>>
      /\ \A d \in Debtors : rescate'[d] = -1
  BY DEF Reinicio, debtorVars, historyVars
<1>2. \A s \in Attempts :
         /\ tarea'[s] \notin EnVuelo
         /\ fase'[s] \in Abierta => fase[s] = "timbrando"
         /\ cb'[s] # "reprograma" /\ (cb'[s] = "no-answer" => cb[s] = "no-answer")
  BY DEF Reinicio, EnVuelo, Abierta
<1>3. \A s \in Attempts : QuietAttempt(s)
  BY <1>1, <1>2 DEF QuietAttempt, Vivo, Reportado, Saliente, Abierta
<1>. QED
  BY <1>1, <1>2, <1>3 DEF QuietStep, QuietRow

-----------------------------------------------------------------------------
\* The shape of attempts and stored SIDs

\* Most steps leave the SIDs alone, and no task that is over starts again.
LEMMA SidsKept ==
    ASSUME AccountedInv,
           \A d \in Debtors : vapi'[d] = vapi[d] \/ vapi'[d] = 0,
           \A s \in Attempts : Saliente(s) => /\ Saliente(s)' /\ de'[s] = de[s]
                                              /\ tarea[s] = "fin" => tarea'[s] = "fin"
    PROVE  SidShape'
  BY DEF AccountedInv, SidShape

LEMMA TaskShape ==
    ASSUME AccountedInv, NEW s \in Attempts, Tarea(s)
    PROVE  CallShape' /\ SidShape'
<1>. USE DEF AccountedInv, TypeOK, DialerTypeOK, RowsTypeOK, CallsTypeOK
<1>. PICK d \in Debtors : d = de[s]
  OBVIOUS
<1>1. UNCHANGED <<de, despacho, cb, nuevos>>
  BY DEF Tarea, TareaKillswitch, TareaJornada, TareaSaldo, Gate, TareaMarca, TareaMapea,
         TareaVapi, TareaNumeroInvalido, TareaFallaCreate, TareaFallaMongo, callVars,
         historyVars
<1>2. \E pc \in Tareas :
        /\ tarea' = [tarea EXCEPT ![s] = pc]
        /\ \/ fase' = fase
           \/ fase' = [fase EXCEPT ![s] = "timbrando"] /\ tarea[s] = "marcar"
        /\ pc \in {"jornada", "saldo", "marcar"}
             => fase' = fase /\ tarea[s] \in {"killswitch", "jornada", "saldo"}
  BY DEF Tarea, TareaKillswitch, TareaJornada, TareaSaldo, Gate, Aborta, TareaMarca,
         TareaMapea, TareaVapi, TareaNumeroInvalido, TareaFallaCreate, TareaFallaMongo, Tareas
<1>3. tarea[s] \in EnVuelo /\ Saliente(s)
  <2>1. tarea[s] \in EnVuelo
    BY DEF Tarea, TareaKillswitch, TareaJornada, TareaSaldo, Gate, TareaMarca, TareaMapea,
           TareaVapi, TareaNumeroInvalido, TareaFallaCreate, TareaFallaMongo, EnVuelo
  <2>. QED
    BY <2>1 DEF CallShape, EnVuelo
<1>4. \/ vapi' = vapi
      \/ vapi' = [vapi EXCEPT ![d] = s] /\ tarea' = [tarea EXCEPT ![s] = "fin"]
  BY DEF Tarea, TareaKillswitch, TareaJornada, TareaSaldo, Gate, TareaMarca, TareaMapea,
         TareaVapi, TareaNumeroInvalido, TareaFallaCreate, TareaFallaMongo, rowVars, debtorVars
<1>5. CallShape'
  <2>. PICK pc \in Tareas :
        /\ tarea' = [tarea EXCEPT ![s] = pc]
        /\ \/ fase' = fase
           \/ fase' = [fase EXCEPT ![s] = "timbrando"] /\ tarea[s] = "marcar"
        /\ pc \in {"jornada", "saldo", "marcar"}
             => fase' = fase /\ tarea[s] \in {"killswitch", "jornada", "saldo"}
    BY <1>2
  <2>1. pc # "killswitch"
    BY <1>3 DEF Tarea, TareaKillswitch, TareaJornada, TareaSaldo, Gate, Aborta, TareaMarca,
            TareaMapea, TareaVapi, TareaNumeroInvalido, TareaFallaCreate, TareaFallaMongo
  <2>2. ASSUME NEW t \in Attempts, t # s
        PROVE  tarea'[t] = tarea[t] /\ fase'[t] = fase[t] /\ Saliente(t)' = Saliente(t)
    BY <1>1, <2>2 DEF Saliente
  <2>. QED
    BY <1>1, <1>3, <2>1, <2>2 DEF CallShape, Saliente
<1>6. SidShape'
  <2>1. CASE vapi' = vapi
    BY <1>1, <1>2, <1>3, <2>1 DEF SidShape, Saliente, EnVuelo
  <2>2. CASE vapi' = [vapi EXCEPT ![d] = s] /\ tarea' = [tarea EXCEPT ![s] = "fin"]
    BY <1>1, <1>3, <2>2 DEF SidShape, Saliente, EnVuelo
  <2>. QED
    BY <1>4, <2>1, <2>2
<1>. QED
  BY <1>5, <1>6

LEMMA CallStepShape ==
    ASSUME AccountedInv, NEW s \in Attempts, Twilio(s) \/ Bot(s) \/ Aviso(s)
    PROVE  CallShape' /\ SidShape'
<1>. USE DEF AccountedInv, TypeOK, DialerTypeOK, RowsTypeOK, CallsTypeOK
<1>1. UNCHANGED <<de, despacho, tarea, nuevos>>
  <2>1. CASE Twilio(s)
    BY <2>1 DEF Twilio, NoContesta, ContestaMaquina, ContestaPersona, PierdeAviso, dialerVars,
                attemptVars, historyVars
  <2>2. CASE Bot(s)
    BY <2>2 DEF Bot, ToolReagendar, ToolPromesa, ToolEscalate, ToolOptOut, Cuelga, BotFalla,
                PostLee, PostEscribe, dialerVars, attemptVars, historyVars
  <2>3. CASE Aviso(s)
    BY <2>3 DEF Aviso, AvisoCompleted, AvisoNoContesta, AvisoReprograma, dialerVars,
                attemptVars, historyVars
  <2>. QED
    BY <2>1, <2>2, <2>3
<1>2. \A d \in Debtors : vapi'[d] = vapi[d] \/ vapi'[d] = 0
  <2>1. CASE Twilio(s)
    BY <2>1 DEF Twilio, NoContesta, ContestaMaquina, ContestaPersona, PierdeAviso, rowVars,
                debtorVars
  <2>2. CASE Bot(s)
    BY <2>2 DEF Bot, ToolReagendar, ToolPromesa, ToolEscalate, ToolOptOut, Escalate, Cuelga,
                BotFalla, PostLee, PostEscribe, rowVars, debtorVars
  <2>3. CASE Aviso(s)
    BY <2>3 DEF Aviso, AvisoCompleted, AvisoNoContesta, AvisoReprograma,
                RescheduleIntentoFallido, rowVars, debtorVars
  <2>. QED
    BY <2>1, <2>2, <2>3
<1>3. SidShape'
  BY <1>1, <1>2, SidsKept DEF Saliente
<1>4. /\ \A t \in Attempts : t # s => fase'[t] = fase[t] /\ cb'[t] = cb[t]
      /\ \/ fase' = fase /\ (cb'[s] = cb[s] \/ cb'[s] = "no" \/ (cb[s] = "no-answer" /\ cb'[s] = "reprograma"))
         \/ fase[s] = "timbrando" /\ fase'[s] = "fin" /\ cb'[s] \in {"no-answer", "completed"}
         \/ fase[s] \in Abierta /\ fase'[s] \in {"hablando", "post", "escribe", "fin"}
            /\ (cb'[s] = cb[s] \/ cb'[s] = "completed")
  <2>1. CASE Twilio(s)
    BY <2>1 DEF Twilio, NoContesta, ContestaMaquina, ContestaPersona, PierdeAviso, dialerVars,
                attemptVars, Abierta
  <2>2. CASE Bot(s)
    BY <2>2 DEF Bot, ToolReagendar, ToolPromesa, ToolEscalate, ToolOptOut, Cuelga, BotFalla,
                PostLee, PostEscribe, dialerVars, attemptVars, callVars, Abierta
  <2>3. CASE Aviso(s)
    BY <2>3 DEF Aviso, AvisoCompleted, AvisoNoContesta, AvisoReprograma, dialerVars,
                attemptVars
  <2>. QED
    BY <2>1, <2>2, <2>3
<1>5. CallShape'
  BY <1>1, <1>4 DEF CallShape, Saliente, Abierta
<1>. QED
  BY <1>3, <1>5

\* The steps of which nothing but the dispatch and an inbound call start an
\* attempt.
LEMMA IdleShape ==
    ASSUME AccountedInv,
           UNCHANGED <<de, despacho, tarea, fase, cb, nuevos>>,
           \A d \in Debtors : vapi'[d] = vapi[d] \/ vapi'[d] = 0
    PROVE  CallShape' /\ SidShape'
<1>1. SidShape'
  BY SidsKept DEF Saliente
<1>2. CallShape'
  BY DEF AccountedInv, CallShape, Saliente
<1>. QED
  BY <1>1, <1>2

LEMMA NewAttemptShape ==
    ASSUME AccountedInv, NEW d \in Debtors,
           (DespachoMarca(d) /\ UNCHANGED callVars) \/ LlamadaEntrante(d)
    PROVE  CallShape' /\ SidShape'
<1>. USE DEF AccountedInv, TypeOK, DialerTypeOK, RowsTypeOK, CallsTypeOK
<1>. PICK s : s = nuevos + 1
  OBVIOUS
<1>1. /\ nuevos' = s /\ UNCHANGED <<vapi, cb>>
      /\ de' = [de EXCEPT ![s] = d]
      /\ \/ /\ fase' = fase /\ tarea' = [tarea EXCEPT ![s] = "killswitch"]
            /\ despacho' = [despacho EXCEPT ![s] = dia]
         \/ fase' = [fase EXCEPT ![s] = "hablando"] /\ UNCHANGED <<tarea, despacho>>
      /\ dia # -1
  BY DEF DespachoMarca, LlamadaEntrante, callVars, rowVars, debtorVars, historyVars
<1>2. s \in Attempts => /\ ~Saliente(s) /\ fase[s] = "libre" /\ tarea[s] = "no"
                        /\ cb[s] \notin {"no-answer", "reprograma"}
  BY DEF CallShape
<1>3. \A t \in Attempts : t # s => /\ Saliente(t)' = Saliente(t) /\ tarea'[t] = tarea[t]
                                   /\ fase'[t] = fase[t]
  BY <1>1 DEF Saliente
<1>4. s \in Attempts => \/ fase'[s] = "libre" /\ Saliente(s)' /\ cb'[s] = cb[s]
                        \/ fase'[s] = "hablando" /\ tarea'[s] = "no" /\ cb'[s] = cb[s]
  BY <1>1, <1>2 DEF Saliente
<1>5. CallShape'
  <2>1. ASSUME NEW t \in Attempts, t # s
        PROVE  (t > nuevos' => t > nuevos) /\ cb'[t] = cb[t]
    <3>1. nuevos' = nuevos + 1 /\ nuevos \in Int /\ t \in Int /\ cb' = cb
      BY <1>1 DEF Attempts
    <3>. QED
      BY <3>1
  <2>2. s \in Attempts => ~(s > nuevos')
    BY <1>1 DEF Attempts
  <2>. QED
    BY <1>2, <1>3, <1>4, <2>1, <2>2 DEF CallShape
<1>6. SidShape'
  BY <1>1, <1>2, <1>3, SidsKept
<1>. QED
  BY <1>5, <1>6

LEMMA RestartShape ==
    ASSUME AccountedInv, Reinicio
    PROVE  CallShape' /\ SidShape'
<1>. USE DEF AccountedInv, TypeOK, DialerTypeOK, CallsTypeOK
<1>1. UNCHANGED <<despacho, de, vapi, nuevos>>
  BY DEF Reinicio, debtorVars, historyVars
<1>2. CallShape'
  BY <1>1 DEF CallShape, Saliente, Reinicio, EnVuelo
<1>3. SidShape'
  BY <1>1, SidsKept DEF Reinicio, Saliente, EnVuelo
<1>. QED
  BY <1>2, <1>3

-----------------------------------------------------------------------------
\* The invariant

LEMMA JobAccounted ==
    ASSUME AccountedInv, TypeOK', Job
    PROVE  AccountedInv'
<1>. USE DEF AccountedInv
<1>1. ASSUME NEW d \in Debtors, PlanLeeJob(d) \/ PlanEscribeJob(d) PROVE AccountedInv'
  <2>1. UNCHANGED <<de, despacho, tarea, fase, cb, nuevos, vapi>>
    BY <1>1 DEF PlanLeeJob, PlanLee, PlanEscribeJob, PlanEscribe, DejaTodo,
                DejaTodoMenosSuelta, debtorVars, dialerVars, attemptVars, historyVars, callVars
  <2>. QED
    BY <1>1, <2>1, PlanQuiet, QuietStepCounts, IdleShape
<1>2. CASE DespachoLee /\ UNCHANGED callVars
  <2>1. UNCHANGED <<de, despacho, tarea, fase, cb, nuevos, vapi, snap, rescate, estado,
                    intentos, escaladas, viejo>>
    BY <1>2 DEF DespachoLee, rowVars, debtorVars, attemptVars, historyVars, callVars
  <2>. QED
    BY <2>1, IdleQuiet, QuietStepCounts, IdleShape
<1>3. ASSUME NEW d \in Debtors, DespachoMarca(d), UNCHANGED callVars PROVE AccountedInv'
  BY <1>3, MarkCounts, NewAttemptShape
<1>4. CASE RescateLee
  <2>1. UNCHANGED <<de, despacho, tarea, fase, cb, nuevos, vapi>>
    BY <1>4 DEF RescateLee, rowVars, debtorVars, dialerVars, attemptVars, historyVars
  <2>. QED
    BY <1>4, <2>1, RescueReadCounts, IdleShape
<1>5. ASSUME NEW d \in Debtors, RescateEscribe(d) PROVE AccountedInv'
  <2>1. /\ rescate[d] \in Nat /\ rescate[d] + 1 + Cardinality(Vivos(d)) <= Hechos(d)
        /\ RescheduleIntentoFallido(d, rescate[d])
        /\ UNCHANGED <<escaladas, dialerVars, cb, snap>>
        /\ \A e \in Debtors : rescate'[e] # -1 => rescate'[e] = rescate[e]
    BY <1>5 DEF RescateEscribe, CountedRow, CabeEnRescate, TypeOK, CallsTypeOK
  <2>2. \A e \in Debtors : CountedRow(e)'
    BY <2>1, RescheduleCounts
  <2>3. \A e \in Debtors : vapi'[e] = vapi[e] \/ vapi'[e] = 0
    BY <2>1 DEF RescheduleIntentoFallido, TypeOK, RowsTypeOK
  <2>4. UNCHANGED <<de, despacho, tarea, fase, cb, nuevos>>
    BY <2>1 DEF dialerVars, attemptVars, historyVars
  <2>. QED
    BY <2>2, <2>3, <2>4, IdleShape
<1>. QED
  BY <1>1, <1>2, <1>3, <1>4, <1>5 DEF Job

LEMMA CallAccounted ==
    ASSUME AccountedInv, TypeOK', NEW s \in Attempts, Twilio(s) \/ Bot(s) \/ Aviso(s)
    PROVE  AccountedInv'
<1>1. CallShape' /\ SidShape'
  BY CallStepShape
<1>2. CASE Twilio(s)
  BY <1>1, <1>2, TwilioQuiet, QuietStepCounts DEF AccountedInv
<1>3. CASE Bot(s)
  BY <1>1, <1>3, ToolQuiet, HangUpQuiet, QuietStepCounts, PostCounts DEF AccountedInv, Bot
<1>4. CASE AvisoCompleted(s) \/ AvisoNoContesta(s)
  BY <1>1, <1>4, HangUpQuiet, QuietStepCounts, ReadCounts DEF AccountedInv
<1>5. CASE AvisoReprograma(s)
  <2>. PICK d \in Debtors : d = de[s]
    BY DEF AccountedInv, TypeOK, DialerTypeOK
  <2>1. /\ snap[s] \in Nat /\ snap[s] + 1 + Cardinality(Vivos(d)) <= Hechos(d)
        /\ RescheduleIntentoFallido(d, snap[s])
        /\ UNCHANGED <<escaladas, dialerVars, rescate>>
        /\ \A t \in Attempts : /\ cb'[t] = cb[t] \/ (cb[t] = "reprograma" /\ cb'[t] = "no")
                               /\ cb'[t] = "reprograma" => snap'[t] = snap[t]
    BY <1>5 DEF AvisoReprograma, AccountedInv, CountedRow, CabeEnAvisos, TypeOK, CallsTypeOK
  <2>2. \A e \in Debtors : CountedRow(e)'
    BY <2>1, RescheduleCounts
  <2>. QED
    BY <1>1, <2>2 DEF AccountedInv
<1>. QED
  BY <1>2, <1>3, <1>4, <1>5 DEF Aviso

LEMMA PersonAccounted ==
    ASSUME AccountedInv, TypeOK', Persona
    PROVE  AccountedInv'
<1>. USE DEF AccountedInv
<1>1. ASSUME \/ \E v \in BOOLEAN : SetAutocallEnabled(v) /\ UNCHANGED callVars
             \/ \E v \in BOOLEAN : SetJornadaAuthorized(v) /\ UNCHANGED callVars
             \/ CambiaSaldo /\ UNCHANGED callVars
      PROVE  AccountedInv'
  <2>1. UNCHANGED <<de, despacho, tarea, fase, cb, nuevos, vapi, snap, rescate, estado,
                    intentos, escaladas, viejo>>
    BY <1>1 DEF SetAutocallEnabled, SetJornadaAuthorized, CambiaSaldo, rowVars, debtorVars,
                attemptVars, historyVars, callVars
  <2>. QED
    BY <2>1, IdleQuiet, QuietStepCounts, IdleShape
<1>2. ASSUME NEW d \in Debtors,
             \/ MarcarPagado(d) /\ DejaTodo
             \/ PausarDebtor(d) /\ DejaTodo
             \/ Reactivar(d)
             \/ PatchNoLlamar(d) /\ DejaTodo
             \/ WaEscalate(d) /\ DejaTodo
      PROVE  AccountedInv'
  <2>1. UNCHANGED <<de, despacho, tarea, fase, cb, nuevos, vapi>>
    BY <1>2 DEF MarcarPagado, PausarDebtor, Reactivar, ReactivarDebtor, PatchNoLlamar,
                WaEscalate, Escalate, DejaTodo, DejaTodoMenosSuelta, dialerVars, attemptVars,
                historyVars, callVars
  <2>. QED
    BY <1>2, <2>1, DashboardQuiet, QuietStepCounts, IdleShape
<1>3. ASSUME NEW d \in Debtors, LlamadaEntrante(d) PROVE AccountedInv'
  BY <1>3, InboundQuiet, QuietStepCounts, NewAttemptShape
<1>. QED
  BY <1>1, <1>2, <1>3 DEF Persona

LEMMA TimeAccounted ==
    ASSUME AccountedInv, TypeOK', Tiempo
    PROVE  AccountedInv'
<1>. USE DEF AccountedInv
<1>1. UNCHANGED <<de, despacho, tarea, fase, cb, nuevos, vapi, snap, rescate, estado,
                  intentos, escaladas>>
  BY DEF Tiempo, PasaRato, ExpiraMapa, PasaHora, PasaDia, rowVars, debtorVars, dialerVars,
         attemptVars, historyVars, callVars
<1>2. \A d \in Debtors : viejo'[d] => viejo[d] \/ SinActividad(d)
  BY DEF Tiempo, PasaRato, ExpiraMapa, PasaHora, PasaDia, rowVars, debtorVars, TypeOK,
         RowsTypeOK
<1>. QED
  BY <1>1, <1>2, IdleQuiet, QuietStepCounts, IdleShape

LEMMA InitAccounted == Init => AccountedInv
<1>. SUFFICES ASSUME Init PROVE AccountedInv
  OBVIOUS
<1>1. TypeOK
  BY InitType
<1>2. CallShape /\ SidShape
  BY DEF Init, CallShape, SidShape, Saliente
<1>3. ASSUME NEW d \in Debtors PROVE CountedRow(d)
  <2>1. Vivos(d) = {} /\ PorContar(d) = {}
    BY DEF Init, Vivos, PorContar, Vivo, Reportado, Saliente
  <2>2. intentos[d] + Cardinality(PorContar(d)) <= Hechos(d)
    <3>1. intentos[d] = 0 /\ Cardinality(PorContar(d)) = 0 /\ Hechos(d) \in Nat
      BY <1>1, <2>1, FS_EmptySet, HechosType DEF Init
    <3>. QED
      BY <3>1
  <2>3. CabeEnAvisos(d) /\ CabeEnRescate(d)
    BY DEF Init, CabeEnAvisos, CabeEnRescate
  <2>. QED
    BY <2>1, <2>2, <2>3 DEF Init, CountedRow
<1>. QED
  BY <1>1, <1>2, <1>3 DEF AccountedInv

LEMMA NextAccounted == AccountedInv /\ [Next]_vars => AccountedInv'
<1>. SUFFICES ASSUME AccountedInv, [Next]_vars PROVE AccountedInv'
  OBVIOUS
<1>1. TypeOK'
  BY NextType DEF AccountedInv
<1>2. ASSUME NEW s \in Attempts, Tarea(s) PROVE AccountedInv'
  BY <1>1, <1>2, TaskShape, TaskQuiet, QuietStepCounts DEF AccountedInv
<1>3. CASE Reinicio
  BY <1>1, <1>3, RestartShape, RestartQuiet, QuietStepCounts DEF AccountedInv
<1>4. CASE UNCHANGED vars
  <2>1. UNCHANGED <<de, despacho, tarea, fase, cb, nuevos, vapi, snap, rescate, estado,
                    intentos, escaladas, viejo>>
    BY <1>4 DEF vars, rowVars, debtorVars, dialerVars, attemptVars, historyVars, callVars
  <2>. QED
    BY <1>1, <2>1, IdleQuiet, QuietStepCounts, IdleShape DEF AccountedInv
<1>. QED
  BY <1>1, <1>2, <1>3, <1>4, JobAccounted, CallAccounted, PersonAccounted, TimeAccounted
     DEF Next

\* Whatever fails, restarts or comes late, intentos never exceeds what was
\* dispatched or escalated: no attempt is counted twice.
THEOREM Accounted == Spec => []AttemptsAccountedFor
<1>1. AccountedInv => AttemptsAccountedFor
  <2>. SUFFICES ASSUME AccountedInv, NEW d \in Debtors
                PROVE  intentos[d] <= escaladas[d] + Cardinality(Despachos(d))
    BY DEF AttemptsAccountedFor, Hechos, Despachos, Saliente
  <2>1. intentos[d] + Cardinality(PorContar(d)) <= Hechos(d)
    BY DEF AccountedInv, CountedRow
  <2>2. /\ intentos[d] \in Nat /\ escaladas[d] \in Nat
        /\ Cardinality(PorContar(d)) \in Nat /\ Cardinality(Despachos(d)) \in Nat
    BY AttemptSets DEF AccountedInv, TypeOK, RowsTypeOK
  <2>. QED
    BY <2>1, <2>2 DEF Hechos
<1>. QED
  BY <1>1, InitAccounted, NextAccounted, PTL DEF Spec

-----------------------------------------------------------------------------
\* No attempt is forgotten: copies of intentos that are read and written
\* back, while nobody pauses a row or calls in.  Both must be left out: each
\* makes a row due while a callback or the rescue holds a copy of it, so that
\* a second call is counted and then overwritten from that copy.

SoloCampania == {"pausar", "entrante"} \cap Entorno = {}

Callable(d) == estado[d] \in CALLABLE_ESTADOS
Parada(d)   == \A s \in Attempts : de[s] = d => ~Viva(s)
Atendida(s) == fase[s] \in {"hablando", "post", "escribe"}

\* Nothing is about to be written to the row but by planner and dispatcher.
Quieta(d) == PorContar(d) = {} /\ Leidos(d) = {} /\ estado[d] # "llamando"

EnSuelta(d) == \A s \in Attempts : de[s] = d /\ suelta[s] => tarea[s] \notin EnVuelo

EnPlan(d) == plan[d] # Nunca => cita[d] = Nunca /\ d \notin lote /\ Quieta(d)

EnLote(d) == d \in lote => /\ cita[d] # Nunca /\ cita[d].dia <= dia
                           /\ ~HasBeenContactedToday(d)
                           /\ Quieta(d)

\* While an attempt can still post, the row is not due: it is held, or the
\* client has asked for another day.
EnVivo(d) ==
    \A s \in Vivos(d) :
       /\ ~HasBeenContactedToday(d)
       /\ \/ ~Callable(d) /\ cita[d].dia <= dia
          \/ cita[d].dia > dia /\ Atendida(s)
       /\ \A c \in lote : d \in debidos => Cliente[c] # Cliente[d]
       /\ Atendida(s) => snap[s] <= intentos[d]

EnReporte(d) ==
    \A s \in Attempts : de[s] = d /\ Reportado(s) => ~Callable(d) /\ Parada(d)

EnCopia(d) == Leidos(d) # {} => Parada(d) /\ (~Callable(d) \/ cita[d].dia > dia)

\* All copies are the same number, and at most one of them was written.
UnaCopia(d) ==
    \A n \in Leidos(d) :
       /\ intentos[d] = n \/ (intentos[d] = n + 1 /\ estado[d] # "llamando")
       /\ \A m \in Leidos(d) : m = n

EnViejo(d) == viejo[d] => Parada(d)

Agotada(d) == estado[d] = "agotado" \/ plan[d] = Agota => intentos[d] >= MaxIntentos

FilaLimpia(d) == /\ EnSuelta(d) /\ EnPlan(d) /\ EnLote(d) /\ EnVivo(d) /\ EnReporte(d)
                 /\ EnCopia(d) /\ UnaCopia(d) /\ EnViejo(d) /\ Agotada(d)

\* An attempt that went past its task has placed a call, on the day it is
\* still up; a number nobody has used is blank.
PlacedShape ==
    \A s \in Attempts :
       /\ ~Saliente(s) => fase[s] = "libre" /\ creada[s] = -1 /\ ~suelta[s]
       /\ Saliente(s) /\ fase[s] # "libre" => creada[s] # -1 /\ (Viva(s) => creada[s] = dia)

\* The batch holds one row of each client.
BatchShape == \A c, d \in lote : Cliente[c] = Cliente[d] => c = d

\* The inductive invariant behind AttemptsNeverForgotten and
\* ExhaustedAfterMaxAttempts.
CadenceInv == /\ AccountedInv /\ OneCallInv
              /\ PlacedShape /\ BatchShape
              /\ \A d \in Debtors : Estorbada(d) \/ FilaLimpia(d)

-----------------------------------------------------------------------------
\* What most steps do to the attempts of a row and to the row.
ShrinkAttempt(d, s) ==
    /\ Viva(s)' => Viva(s)
    /\ tarea'[s] \in EnVuelo => tarea[s] \in EnVuelo
    /\ suelta'[s] => suelta[s]
    /\ Vivo(s)' => /\ Vivo(s)
                   /\ Atendida(s) => Atendida(s)'
                   /\ Atendida(s)' => snap'[s] = intentos[d] \/ (Atendida(s) /\ snap'[s] = snap[s])
    /\ Reportado(s)' => Reportado(s) \/ (Vivo(s) /\ ~Atendida(s) /\ Parada(d)')
    /\ cb'[s] = "reprograma" => cb[s] = "reprograma" /\ snap'[s] = snap[s]

ShrinkRow(d) ==
    /\ dia' = dia /\ lote' \subseteq lote /\ debidos' \subseteq debidos
    /\ intentos'[d] = intentos[d] /\ cita'[d] = cita[d]
    /\ HasBeenContactedToday(d)' => HasBeenContactedToday(d)
    /\ estado'[d] = estado[d] \/ estado'[d] \in Estados \ (CALLABLE_ESTADOS \cup {"llamando", "agotado"})
    /\ viejo'[d] => viejo[d] \/ Parada(d)
    /\ plan'[d] \in {plan[d], Nunca}
    /\ rescate'[d] \in {rescate[d], -1}

LEMMA ShrinkKeeps ==
    ASSUME TypeOK, TypeOK', NEW d \in Debtors, FilaLimpia(d), ShrinkRow(d),
           \A s \in Attempts : de'[s] = d => de[s] = d /\ ShrinkAttempt(d, s)
    PROVE  FilaLimpia(d)'
<1>. USE DEF FilaLimpia
<1>1. /\ Vivos(d)' \subseteq Vivos(d)
      /\ Leidos(d)' \subseteq Leidos(d)
      /\ Parada(d) => Parada(d)'
      /\ PorContar(d)' \subseteq PorContar(d)
  <2>1. Vivos(d)' \subseteq Vivos(d)
    BY DEF Vivos, ShrinkAttempt
  <2>2. Leidos(d)' \subseteq Leidos(d)
    BY DEF Leidos, ShrinkAttempt, ShrinkRow
  <2>3. Parada(d) => Parada(d)'
    BY DEF Parada, ShrinkAttempt
  <2>4. PorContar(d)' \subseteq PorContar(d)
    BY DEF PorContar, ShrinkAttempt
  <2>. QED
    BY <2>1, <2>2, <2>3, <2>4
<1>2. /\ Quieta(d) => Quieta(d)'
      /\ Callable(d)' => Callable(d)
  BY <1>1 DEF Quieta, ShrinkRow, Callable
<1>3. EnSuelta(d)'
  BY DEF EnSuelta, ShrinkAttempt
<1>4. EnPlan(d)' /\ EnLote(d)'
  BY <1>2 DEF EnPlan, EnLote, ShrinkRow
<1>5. EnVivo(d)'
  <2>. SUFFICES ASSUME NEW s \in Vivos(d)'
                PROVE  /\ ~HasBeenContactedToday(d)'
                       /\ \/ ~Callable(d)' /\ cita'[d].dia <= dia'
                          \/ cita'[d].dia > dia' /\ Atendida(s)'
                       /\ \A c \in lote' : d \in debidos' => Cliente[c] # Cliente[d]
                       /\ Atendida(s)' => snap'[s] <= intentos'[d]
    BY DEF EnVivo
  <2>1. s \in Vivos(d) /\ s \in Attempts /\ de'[s] = d /\ Vivo(s)'
    BY <1>1 DEF Vivos
  <2>2. /\ Atendida(s) => Atendida(s)'
        /\ Atendida(s)' => snap'[s] = intentos[d] \/ (Atendida(s) /\ snap'[s] = snap[s])
    BY <2>1 DEF ShrinkAttempt
  <2>3. intentos[d] \in Nat /\ intentos'[d] = intentos[d]
    BY DEF TypeOK, RowsTypeOK, ShrinkRow
  <2>4. Atendida(s)' => snap'[s] <= intentos'[d]
    BY <2>1, <2>2, <2>3 DEF EnVivo
  <2>5. \A c \in lote' : d \in debidos' => Cliente[c] # Cliente[d]
    BY <2>1 DEF EnVivo, ShrinkRow
  <2>. QED
    BY <1>2, <2>1, <2>2, <2>4, <2>5 DEF EnVivo, ShrinkRow
<1>6. EnReporte(d)'
  <2>. SUFFICES ASSUME NEW s \in Attempts, de'[s] = d, Reportado(s)'
                PROVE  ~Callable(d)' /\ Parada(d)'
    BY DEF EnReporte
  <2>1. CASE Reportado(s)
    BY <1>1, <1>2, <2>1 DEF EnReporte
  <2>2. CASE Vivo(s) /\ ~Atendida(s) /\ Parada(d)'
    BY <1>2, <2>2 DEF EnVivo, Vivos
  <2>. QED
    BY <2>1, <2>2 DEF ShrinkAttempt
<1>7. EnCopia(d)'
  BY <1>1, <1>2 DEF EnCopia, ShrinkRow
<1>8. UnaCopia(d)'
  BY <1>1 DEF UnaCopia, ShrinkRow
<1>9. EnViejo(d)'
  BY <1>1 DEF EnViejo, ShrinkRow
<1>10. Agotada(d)'
  BY DEF Agotada, ShrinkRow, Nunca, Agota
<1>. QED
  BY <1>3, <1>4, <1>5, <1>6, <1>7, <1>8, <1>9, <1>10

\* A row that a step does not touch.
Elsewhere(e) ==
    /\ dia' = dia /\ lote' \subseteq lote /\ debidos' \subseteq debidos
    /\ intentos'[e] = intentos[e] /\ cita'[e] = cita[e] /\ ultimo'[e] = ultimo[e]
    /\ estado'[e] = estado[e] /\ vapi'[e] = vapi[e] /\ (viejo'[e] => viejo[e])
    /\ plan'[e] = plan[e] /\ rescate'[e] = rescate[e]
    /\ \A s \in Attempts :
          de'[s] = e => /\ de[s] = e
                        /\ tarea'[s] = tarea[s] /\ fase'[s] = fase[s] /\ cb'[s] = cb[s]
                        /\ snap'[s] = snap[s] /\ despacho'[s] = despacho[s]
                        /\ (suelta'[s] => suelta[s])

LEMMA ElsewhereKeeps ==
    ASSUME TypeOK, TypeOK', NEW e \in Debtors, FilaLimpia(e), Elsewhere(e)
    PROVE  FilaLimpia(e)'
<1>1. ShrinkRow(e)
  BY DEF ShrinkRow, Elsewhere, HasBeenContactedToday
<1>2. ASSUME NEW s \in Attempts, de'[s] = e PROVE de[s] = e /\ ShrinkAttempt(e, s)
  <2>1. /\ de[s] = e
        /\ tarea'[s] = tarea[s] /\ fase'[s] = fase[s] /\ cb'[s] = cb[s]
        /\ snap'[s] = snap[s] /\ despacho'[s] = despacho[s] /\ (suelta'[s] => suelta[s])
        /\ vapi'[e] = vapi[e]
    BY <1>2 DEF Elsewhere
  <2>. QED
    BY <1>2, <2>1 DEF ShrinkAttempt, Viva, Vivo, Saliente, Reportado, Atendida
<1>. QED
  BY <1>1, <1>2, ShrinkKeeps

StaysClean == \A e \in Debtors : FilaLimpia(e) /\ ~Estorbada(e)' => FilaLimpia(e)'

\* An estorbada row stays one.
HistoryKept ==
    /\ \A d \in Debtors : escaladas'[d] >= escaladas[d]
    /\ \A s \in Attempts :
          suelta[s] /\ creada[s] # -1 => suelta'[s] /\ creada'[s] # -1 /\ de'[s] = de[s]

LEMMA EstorbadaStays ==
    ASSUME TypeOK, TypeOK', HistoryKept, NEW d \in Debtors, Estorbada(d)
    PROVE  Estorbada(d)'
<1>1. CASE escaladas[d] > 0
  <2>1. escaladas[d] \in Nat /\ escaladas'[d] \in Nat /\ escaladas'[d] >= escaladas[d]
    BY DEF TypeOK, RowsTypeOK, HistoryKept
  <2>. QED
    BY <1>1, <2>1 DEF Estorbada
<1>2. CASE \E s \in Attempts : de[s] = d /\ suelta[s] /\ creada[s] # -1
  BY <1>2 DEF Estorbada, HistoryKept
<1>. QED
  BY <1>1, <1>2 DEF Estorbada

LEMMA RowStep ==
    ASSUME TypeOK, TypeOK', NEW d \in Debtors,
           \A e \in Debtors : e # d => Elsewhere(e),
           FilaLimpia(d) /\ ~Estorbada(d)' => FilaLimpia(d)'
    PROVE  StaysClean
  BY ElsewhereKeeps DEF StaysClean

\* A clean row has one attempt under way at most, and while it has one,
\* nobody else is about to write to it.
LEMMA OneAlive ==
    ASSUME CadenceInv, NEW d \in Debtors, FilaLimpia(d), ~Estorbada(d),
           NEW s \in Attempts, de[s] = d, Viva(s)
    PROVE  /\ Saliente(s)
           /\ \A t \in Attempts : de[t] = d => (Viva(t) => t = s) /\ ~Reportado(t)
           /\ Leidos(d) = {}
           /\ \A t \in Attempts : de[t] = d => cb[t] # "reprograma"
           /\ rescate[d] = -1
           /\ d \notin lote
           /\ Vivo(s) => plan[d] = Nunca /\ PorContar(d) # {}
<1>. USE DEF CadenceInv, OneCallInv, AccountedInv
<1>1. ASSUME NEW t \in Attempts, de[t] = d, Viva(t) PROVE Saliente(t) /\ Abierto(t)
  <2>1. Saliente(t)
    BY <1>1 DEF PlacedShape, CallShape, Viva, EnVuelo, Abierta
  <2>2. DeHoy(t)
    BY <1>1, <2>1 DEF DeHoy, Viva, PlacedShape, Abierta
  <2>3. ~suelta[t]
    <3>1. CASE tarea[t] \in EnVuelo
      BY <1>1, <3>1 DEF FilaLimpia, EnSuelta
    <3>2. CASE fase[t] \in Abierta
      BY <1>1, <2>1, <3>2 DEF PlacedShape, Estorbada, Abierta
    <3>. QED
      BY <1>1, <3>1, <3>2 DEF Viva
  <2>. QED
    BY <2>1, <2>2, <2>3 DEF Abierto
<1>2. Saliente(s) /\ Abierto(s)
  BY <1>1
<1>3. ~Parada(d)
  BY DEF Parada
<1>4. \A t \in Attempts : de[t] = d => (Viva(t) => t = s) /\ ~Reportado(t)
  BY <1>1, <1>2, <1>3 DEF OneOpenAttempt, FilaLimpia, EnReporte
<1>5. Leidos(d) = {}
  BY <1>3 DEF FilaLimpia, EnCopia
<1>6. /\ \A t \in Attempts : de[t] = d => cb[t] # "reprograma"
      /\ rescate[d] = -1
  BY <1>5 DEF Leidos
<1>7. d \notin lote
  BY <1>2 DEF QueuedRowsHaveNone
<1>8. Vivo(s) => plan[d] = Nunca /\ PorContar(d) # {}
  <2>1. Vivo(s) => s \in PorContar(d)
    BY DEF PorContar
  <2>. QED
    BY <2>1 DEF FilaLimpia, EnPlan, Quieta
<1>. QED
  BY <1>2, <1>4, <1>5, <1>6, <1>7, <1>8

-----------------------------------------------------------------------------
\* The steps that free or fill a row

\* A task hands its row back.  If a call of it may still post, the row was
\* due today and counts as estorbada from now on.
LEMMA HandBack ==
    ASSUME CadenceInv, TypeOK', NEW d \in Debtors, FilaLimpia(d), ~Estorbada(d), ~Estorbada(d)',
           NEW s \in Attempts, de[s] = d, tarea[s] \in EnVuelo,
           tarea' = [tarea EXCEPT ![s] = "fin"],
           PonEstado(d, "pendiente") \/ PonEstado(d, "sin_contacto"),
           SueltaFila(d, cita[d]) \/ (fase[s] = "libre" /\ fase' = fase /\ suelta' = suelta),
           fase' = fase \/ (fase[s] = "libre" /\ fase' = [fase EXCEPT ![s] = "timbrando"]),
           creada' = creada \/ creada' = [creada EXCEPT ![s] = dia],
           fase' # fase => creada'[s] = dia,
           UNCHANGED <<dia, intentos, cita, ultimo, vapi, plan, rescate, lote, debidos, de,
                       despacho, cb, snap>>
    PROVE  FilaLimpia(d)'
<1>. USE DEF CadenceInv, AccountedInv
<1>0. /\ Saliente(s)
      /\ \A t \in Attempts : de[t] = d => (Viva(t) => t = s) /\ ~Reportado(t)
      /\ Leidos(d) = {}
      /\ d \notin lote
      /\ Vivo(s) => plan[d] = Nunca
  BY OneAlive DEF Viva
<1>1. /\ \A t \in Attempts : t # s => tarea'[t] = tarea[t] /\ fase'[t] = fase[t]
      /\ tarea'[s] = "fin"
      /\ estado'[d] \in {"pendiente", "sin_contacto"} /\ viejo'[d] = FALSE
  BY DEF TypeOK, DialerTypeOK, RowsTypeOK, PonEstado
<1>2. ASSUME Vivo(s)' PROVE Vivo(s) /\ Atendida(s)' /\ Atendida(s) /\ cita[d].dia > dia
  <2>1. fase'[s] \in Abierta
    BY <1>1, <1>2 DEF Vivo, EnVuelo
  <2>2. Vivo(s)
    BY <1>0, <1>2, <2>1 DEF Vivo, Saliente
  <2>3. creada'[s] # -1
    <3>1. CASE fase'[s] # fase[s]
      BY <3>1 DEF TypeOK, RowsTypeOK
    <3>2. CASE fase'[s] = fase[s]
      <4>1. creada[s] # -1
        BY <1>0, <2>1, <3>2 DEF PlacedShape, Abierta
      <4>. QED
        BY <4>1 DEF TypeOK, RowsTypeOK, DialerTypeOK
    <3>. QED
      BY <3>1, <3>2
  <2>4. ~suelta'[s]
    BY <2>3 DEF Estorbada
  <2>5. SueltaFila(d, cita[d])
    BY <2>1 DEF Abierta
  <2>6. ~HasBeenContactedToday(d) /\ ~(cita[d].dia <= dia)
    BY <2>2, <2>4, <2>5 DEF SueltaFila, DeHoy, FilaLimpia, EnVivo, Vivos
  <2>7. Atendida(s) /\ cita[d].dia > dia
    BY <2>2, <2>6 DEF FilaLimpia, EnVivo, Vivos
  <2>8. Atendida(s)'
    BY <2>7 DEF Atendida
  <2>. QED
    BY <2>2, <2>7, <2>8
<1>3. \A t \in Attempts : de[t] = d => (Vivo(t)' => t = s /\ Vivo(s)') /\ ~Reportado(t)'
  <2>1. ASSUME NEW t \in Attempts, de[t] = d, t # s PROVE ~Vivo(t)' /\ ~Reportado(t)'
    BY <1>0, <1>1, <2>1 DEF Vivo, Viva, Reportado, Saliente, Abierta
  <2>2. ~Reportado(s)'
    BY <1>0 DEF Reportado, Saliente
  <2>. QED
    BY <2>1, <2>2
<1>4. Leidos(d)' = {}
  BY <1>0 DEF Leidos
<1>5. EnSuelta(d)'
  BY <1>0, <1>1 DEF EnSuelta, Viva, EnVuelo
<1>6. EnPlan(d)'
  <2>1. plan[d] # Nunca => PorContar(d)' = {}
    BY <1>0, <1>2, <1>3 DEF PorContar
  <2>. QED
    BY <1>0, <1>1, <1>4, <2>1 DEF EnPlan, FilaLimpia, Quieta
<1>7. EnLote(d)'
  BY <1>0 DEF EnLote
<1>8. EnVivo(d)'
  <2>. SUFFICES ASSUME NEW t \in Vivos(d)'
                PROVE  /\ ~HasBeenContactedToday(d)'
                       /\ cita'[d].dia > dia' /\ Atendida(t)'
                       /\ \A c \in lote' : d \in debidos' => Cliente[c] # Cliente[d]
                       /\ Atendida(t)' => snap'[t] <= intentos'[d]
    BY DEF EnVivo
  <2>1. t = s /\ Vivo(s)'
    BY <1>3 DEF Vivos
  <2>2. s \in Vivos(d) /\ Atendida(s) /\ Atendida(s)' /\ cita[d].dia > dia
    BY <1>2, <2>1 DEF Vivos
  <2>. QED
    BY <2>1, <2>2 DEF FilaLimpia, EnVivo, HasBeenContactedToday
<1>9. EnReporte(d)' /\ EnCopia(d)' /\ UnaCopia(d)'
  BY <1>3, <1>4 DEF EnReporte, EnCopia, UnaCopia
<1>10. EnViejo(d)' /\ Agotada(d)'
  BY <1>1 DEF EnViejo, Agotada, FilaLimpia
<1>. QED
  BY <1>5, <1>6, <1>7, <1>8, <1>9, <1>10 DEF FilaLimpia

\* A task goes on, or ends without a word to the row.
LEMMA TaskGoesOn ==
    ASSUME CadenceInv, TypeOK', NEW d \in Debtors, FilaLimpia(d), ~Estorbada(d),
           NEW s \in Attempts, de[s] = d, tarea[s] \in EnVuelo,
           NEW pc \in Tareas, tarea' = [tarea EXCEPT ![s] = pc],
           \/ fase' = fase
           \/ fase[s] = "libre" /\ pc = "mapear" /\ fase' = [fase EXCEPT ![s] = "timbrando"],
           \/ vapi' = vapi
           \/ vapi' = [vapi EXCEPT ![d] = s] /\ pc = "fin",
           viejo' = viejo \/ viejo' = [viejo EXCEPT ![d] = FALSE],
           UNCHANGED <<dia, estado, intentos, cita, ultimo, plan, rescate, lote, debidos, de,
                       despacho, cb, snap, suelta>>
    PROVE  FilaLimpia(d)'
<1>. USE DEF CadenceInv, AccountedInv
<1>0. /\ Saliente(s)
      /\ \A t \in Attempts : de[t] = d => (Viva(t) => t = s) /\ ~Reportado(t)
  BY OneAlive DEF Viva
<1>1. /\ \A t \in Attempts : t # s => tarea'[t] = tarea[t] /\ fase'[t] = fase[t]
      /\ tarea'[s] = pc
      /\ Viva(s)
  BY DEF TypeOK, DialerTypeOK, Viva
<1>2. ASSUME NEW t \in Attempts, de'[t] = d, t # s PROVE ShrinkAttempt(d, t)
  BY <1>0, <1>1, <1>2 DEF ShrinkAttempt, Viva, Vivo, Reportado, Saliente, Atendida, TypeOK,
                         RowsTypeOK
<1>3. ShrinkAttempt(d, s)
  <2>1. Vivo(s)' => Vivo(s) /\ (Atendida(s) => Atendida(s)') /\ (Atendida(s)' => Atendida(s))
    <3>1. fase'[s] = fase[s] \/ (fase[s] = "libre" /\ fase'[s] = "timbrando")
      BY DEF TypeOK, DialerTypeOK
    <3>2. CASE fase'[s] = fase[s]
      BY <1>0, <3>2 DEF Vivo, Saliente, Atendida
    <3>3. CASE fase[s] = "libre" /\ fase'[s] = "timbrando"
      BY <1>0, <3>3 DEF Vivo, Saliente, Atendida
    <3>. QED
      BY <3>1, <3>2, <3>3
  <2>2. ASSUME Reportado(s)' PROVE Vivo(s) /\ ~Atendida(s) /\ Parada(d)'
    <3>1. cb[s] = "no-answer" /\ vapi'[d] = s /\ fase[s] = "fin"
      BY <2>2 DEF Reportado, CallShape
    <3>2. vapi # vapi' /\ pc = "fin"
      BY <1>0, <3>1 DEF Reportado
    <3>3. Vivo(s) /\ ~Atendida(s)
      BY <1>0, <3>1 DEF Vivo, Atendida
    <3>4. ~Viva(s)'
      BY <1>1, <3>1, <3>2 DEF Viva, EnVuelo, Abierta
    <3>5. Parada(d)'
      BY <1>0, <1>1, <3>4 DEF Parada, Viva
    <3>. QED
      BY <3>3, <3>5
  <2>. QED
    BY <1>1, <2>1, <2>2 DEF ShrinkAttempt
<1>4. ShrinkRow(d)
  BY DEF ShrinkRow, HasBeenContactedToday, TypeOK, RowsTypeOK
<1>. QED
  BY <1>2, <1>3, <1>4, ShrinkKeeps

LEMMA TaskClean ==
    ASSUME CadenceInv, TypeOK', HistoryKept, NEW s \in Attempts, Tarea(s)
    PROVE  StaysClean
<1>. USE DEF CadenceInv, AccountedInv
<1>. PICK d \in Debtors : d = de[s]
  BY DEF TypeOK, DialerTypeOK
<1>1. ASSUME NEW e \in Debtors, e # d PROVE Elsewhere(e)
  <2>1. /\ UNCHANGED <<dia, lote, debidos, intentos, cita, ultimo, plan, rescate, de, cb, snap,
                       despacho>>
        /\ estado'[e] = estado[e] /\ viejo'[e] = viejo[e] /\ vapi'[e] = vapi[e]
    BY <1>1 DEF Tarea, TareaKillswitch, TareaJornada, TareaSaldo, Gate, Aborta, TareaMarca,
           TareaMapea, TareaVapi, TareaNumeroInvalido, TareaFallaCreate, TareaFallaMongo,
           PonEstado, callVars, clockVars, loopVars, rowVars, debtorVars, historyVars,
           TypeOK, RowsTypeOK
  <2>2. ASSUME NEW t \in Attempts, de[t] = e
        PROVE  tarea'[t] = tarea[t] /\ fase'[t] = fase[t] /\ (suelta'[t] => suelta[t])
    <3>1. t # s
      BY <1>1, <2>2
    <3>2. tarea'[t] = tarea[t] /\ fase'[t] = fase[t]
      BY <3>1 DEF Tarea, TareaKillswitch, TareaJornada, TareaSaldo, Gate, Aborta, TareaMarca,
             TareaMapea, TareaVapi, TareaNumeroInvalido, TareaFallaCreate, TareaFallaMongo,
             TypeOK, DialerTypeOK
    <3>3. suelta' = suelta \/ SueltaFila(d, cita[d])
      BY DEF Tarea, TareaKillswitch, TareaJornada, TareaSaldo, Gate, Aborta, TareaMarca,
             TareaMapea, TareaVapi, TareaNumeroInvalido, TareaFallaCreate, TareaFallaMongo,
             historyVars
    <3>4. suelta'[t] => suelta[t]
      BY <1>1, <2>2, <3>3 DEF SueltaFila
    <3>. QED
      BY <3>2, <3>4
  <2>. QED
    BY <2>1, <2>2 DEF Elsewhere
<1>2. ASSUME FilaLimpia(d), ~Estorbada(d)' PROVE FilaLimpia(d)'
  <2>0. ~Estorbada(d)
    BY <1>2, EstorbadaStays
  <2>1. tarea[s] \in EnVuelo
    BY DEF Tarea, TareaKillswitch, TareaJornada, TareaSaldo, Gate, TareaMarca, TareaMapea,
           TareaVapi, TareaNumeroInvalido, TareaFallaCreate, TareaFallaMongo, EnVuelo
  <2>2. UNCHANGED <<dia, intentos, cita, ultimo, plan, rescate, lote, debidos, de, despacho,
                    cb, snap>>
    BY DEF Tarea, TareaKillswitch, TareaJornada, TareaSaldo, Gate, TareaMarca, TareaMapea,
           TareaVapi, TareaNumeroInvalido, TareaFallaCreate, TareaFallaMongo, callVars,
           clockVars, loopVars, rowVars, debtorVars, historyVars
  <2>3. CASE TareaKillswitch(s) \/ TareaJornada(s) \/ TareaSaldo(s)
    <3>1. /\ UNCHANGED <<fase, vapi, creada>>
          /\ \/ Aborta(s)
             \/ /\ \E pc \in Tareas : tarea' = [tarea EXCEPT ![s] = pc]
                /\ UNCHANGED <<estado, viejo, suelta>>
      BY <2>3 DEF TareaKillswitch, TareaJornada, TareaSaldo, Gate, Tareas
    <3>2. CASE Aborta(s)
      BY <1>2, <2>0, <2>1, <2>2, <3>1, <3>2, HandBack DEF Aborta
    <3>3. CASE \E pc \in Tareas : tarea' = [tarea EXCEPT ![s] = pc] /\ UNCHANGED <<estado, viejo, suelta>>
      BY <1>2, <2>0, <2>1, <2>2, <3>1, <3>3, TaskGoesOn
    <3>. QED
      BY <3>1, <3>2, <3>3
  <2>4. CASE TareaMarca(s)
    <3>1. /\ tarea' = [tarea EXCEPT ![s] = "mapear"] /\ "mapear" \in Tareas
          /\ fase[s] = "libre" /\ fase' = [fase EXCEPT ![s] = "timbrando"]
          /\ UNCHANGED <<vapi, viejo, estado, suelta>>
      BY <2>4 DEF TareaMarca, CallShape, Tareas, rowVars, debtorVars
    <3>. QED
      BY <1>2, <2>0, <2>1, <2>2, <3>1, TaskGoesOn
  <2>5. CASE TareaMapea(s) \/ TareaVapi(s)
    <3>1. /\ \E pc \in Tareas :
               /\ tarea' = [tarea EXCEPT ![s] = pc]
               /\ vapi' = vapi \/ (vapi' = [vapi EXCEPT ![d] = s] /\ pc = "fin")
          /\ viejo' = viejo \/ viejo' = [viejo EXCEPT ![d] = FALSE]
          /\ UNCHANGED <<fase, estado, suelta>>
      BY <2>5 DEF TareaMapea, TareaVapi, Tareas, rowVars, debtorVars, historyVars
    <3>. QED
      BY <1>2, <2>0, <2>1, <2>2, <3>1, TaskGoesOn
  <2>6. CASE TareaNumeroInvalido(s)
    <3>1. /\ tarea' = [tarea EXCEPT ![s] = "fin"] /\ PonEstado(d, "sin_contacto")
          /\ fase[s] = "libre" /\ UNCHANGED <<fase, suelta, vapi, creada>>
      BY <2>6 DEF TareaNumeroInvalido, CallShape
    <3>. QED
      BY <1>2, <2>0, <2>1, <2>2, <3>1, HandBack
  <2>7. CASE TareaFallaCreate(s)
    <3>1. /\ tarea' = [tarea EXCEPT ![s] = "fin"] /\ PonEstado(d, "pendiente")
          /\ fase[s] = "libre" /\ SueltaFila(d, cita[d]) /\ vapi' = vapi
          /\ \/ UNCHANGED <<fase, creada>>
             \/ /\ fase' = [fase EXCEPT ![s] = "timbrando"]
                /\ creada' = [creada EXCEPT ![s] = dia] /\ creada'[s] = dia
      BY <2>7 DEF TareaFallaCreate, CallShape, TypeOK, DialerTypeOK
    <3>. QED
      BY <1>2, <2>0, <2>1, <2>2, <3>1, HandBack
  <2>8. CASE TareaFallaMongo(s)
    <3>1. /\ tarea' = [tarea EXCEPT ![s] = "fin"] /\ UNCHANGED <<fase, vapi, creada>>
          /\ \/ PonEstado(d, "pendiente") /\ SueltaFila(d, cita[d])
             \/ UNCHANGED <<estado, viejo, suelta>>
      BY <2>8 DEF TareaFallaMongo
    <3>2. CASE PonEstado(d, "pendiente") /\ SueltaFila(d, cita[d])
      BY <1>2, <2>0, <2>1, <2>2, <3>1, <3>2, HandBack
    <3>3. CASE UNCHANGED <<estado, viejo, suelta>>
      <4>1. "fin" \in Tareas
        BY DEF Tareas
      <4>. QED
        BY <1>2, <2>0, <2>1, <2>2, <3>1, <3>3, <4>1, TaskGoesOn
    <3>. QED
      BY <3>1, <3>2, <3>3
  <2>. QED
    BY <2>3, <2>4, <2>5, <2>6, <2>7, <2>8 DEF Tarea
<1>. QED
  BY <1>1, <1>2, RowStep

\* A step of one call that leaves the other attempts alone, and of the rows
\* writes the estado of its own at most.
CallStep(s) ==
    /\ UNCHANGED <<dia, lote, debidos, intentos, cita, ultimo, vapi, plan, rescate,
                   de, tarea, despacho, suelta>>
    /\ \A t \in Attempts :
          t # s => fase'[t] = fase[t] /\ cb'[t] = cb[t] /\ snap'[t] = snap[t]
    /\ \A e \in Debtors : viejo'[e] => viejo[e]
    /\ \A e \in Debtors :
          \/ estado'[e] = estado[e]
          \/ e = de[s] /\ estado'[e] \in Estados \ (CALLABLE_ESTADOS \cup {"llamando", "agotado"})

LEMMA CallShrinks ==
    ASSUME CadenceInv, TypeOK', HistoryKept, NEW s \in Attempts, CallStep(s),
           FilaLimpia(de[s]) /\ ~Estorbada(de[s]) => ShrinkAttempt(de[s], s)
    PROVE  StaysClean
<1>. USE DEF CadenceInv, AccountedInv
<1>. PICK d \in Debtors : d = de[s]
  BY DEF TypeOK, DialerTypeOK
<1>1. ASSUME NEW e \in Debtors, e # d PROVE Elsewhere(e)
  <2>1. \A t \in Attempts : de[t] = e => t # s
    BY <1>1
  <2>. QED
    BY <1>1, <2>1 DEF Elsewhere, CallStep
<1>2. ASSUME FilaLimpia(d), ~Estorbada(d)' PROVE FilaLimpia(d)'
  <2>1. ~Estorbada(d)
    BY <1>2, EstorbadaStays
  <2>2. ShrinkRow(d)
    BY DEF CallStep, ShrinkRow, HasBeenContactedToday
  <2>3. ASSUME NEW t \in Attempts, de'[t] = d PROVE de[t] = d /\ ShrinkAttempt(d, t)
    <3>1. CASE t = s
      BY <1>2, <2>1, <3>1
    <3>2. CASE t # s
      BY <2>3, <3>2 DEF CallStep, ShrinkAttempt, Viva, Vivo, Reportado, Saliente, Atendida
    <3>. QED
      BY <3>1, <3>2
  <2>. QED
    BY <1>2, <2>2, <2>3, ShrinkKeeps
<1>. QED
  BY <1>1, <1>2, RowStep

LEMMA TwilioClean ==
    ASSUME CadenceInv, TypeOK', HistoryKept, NEW s \in Attempts, Twilio(s)
    PROVE  StaysClean
<1>. USE DEF CadenceInv, AccountedInv
<1>. DEFINE d == de[s]
<1>0. d \in Debtors
  BY DEF TypeOK, DialerTypeOK
<1>1. /\ UNCHANGED <<dia, lote, debidos, intentos, cita, ultimo, vapi, plan, rescate, de,
                     tarea, despacho, suelta, estado, viejo>>
      /\ \A t \in Attempts :
            t # s => fase'[t] = fase[t] /\ cb'[t] = cb[t] /\ snap'[t] = snap[t]
  BY DEF Twilio, NoContesta, ContestaMaquina, ContestaPersona, PierdeAviso, clockVars, loopVars,
         rowVars, debtorVars, historyVars, dialerVars, attemptVars, TypeOK, DialerTypeOK, CallsTypeOK
<1>2. CallStep(s)
  BY <1>1 DEF CallStep
<1>3. ASSUME FilaLimpia(d), ~Estorbada(d) PROVE ShrinkAttempt(d, s)
  <2>1. CASE NoContesta(s)
    <3>1. /\ fase[s] = "timbrando" /\ fase'[s] = "fin" /\ cb'[s] = "no-answer"
          /\ Viva(s)
      BY <2>1 DEF NoContesta, TypeOK, DialerTypeOK, CallsTypeOK, Viva, Abierta
    <3>2. \A t \in Attempts : de[t] = d => (Viva(t) => t = s)
      BY <1>0, <1>3, <3>1, OneAlive
    <3>3. Vivo(s)' => Vivo(s)
      BY <1>1, <3>1 DEF Vivo, Saliente, Abierta
    <3>4. Reportado(s)' => Vivo(s) /\ Parada(d)'
      <4>1. SUFFICES ASSUME Reportado(s)' PROVE Vivo(s) /\ Parada(d)'
        OBVIOUS
      <4>2. Saliente(s) /\ vapi[d] = s
        BY <1>1, <4>1 DEF Reportado, Saliente
      <4>3. tarea[s] = "fin"
        BY <1>0, <4>2 DEF SidShape, TypeOK, DialerTypeOK, Attempts
      <4>4. ~Viva(s)'
        BY <1>1, <3>1, <4>3 DEF Viva, EnVuelo, Abierta
      <4>5. Vivo(s)
        BY <3>1, <4>2 DEF Vivo, Abierta
      <4>. QED
        BY <1>1, <3>2, <4>4, <4>5 DEF Parada, Viva
    <3>. QED
      BY <1>1, <3>1, <3>3, <3>4 DEF ShrinkAttempt, Viva, Atendida, Abierta
  <2>2. CASE ContestaMaquina(s)
    <3>1. fase[s] = "timbrando" /\ fase'[s] = "fin" /\ cb'[s] = "completed"
      BY <2>2 DEF ContestaMaquina, TypeOK, DialerTypeOK, CallsTypeOK
    <3>. QED
      BY <1>1, <3>1 DEF ShrinkAttempt, Viva, Vivo, Reportado, Saliente, Atendida, Abierta
  <2>3. CASE ContestaPersona(s)
    <3>1. /\ fase[s] = "timbrando" /\ cb[s] # "no-answer" /\ cb[s] # "reprograma"
          /\ \/ fase'[s] = "hablando" /\ snap'[s] = intentos[d] /\ cb'[s] = cb[s]
             \/ fase'[s] = "fin" /\ cb'[s] = "completed"
      BY <2>3 DEF ContestaPersona, TypeOK, DialerTypeOK, CallsTypeOK, CallShape
    <3>. QED
      BY <1>1, <3>1 DEF ShrinkAttempt, Viva, Vivo, Reportado, Saliente, Atendida, Abierta
  <2>4. CASE PierdeAviso(s)
    <3>1. cb'[s] = "no" /\ UNCHANGED <<fase, snap>>
      BY <2>4 DEF PierdeAviso, TypeOK, DialerTypeOK, CallsTypeOK, dialerVars, attemptVars
    <3>. QED
      BY <1>1, <3>1 DEF ShrinkAttempt, Viva, Vivo, Reportado, Saliente, Atendida, Abierta
  <2>. QED
    BY <2>1, <2>2, <2>3, <2>4 DEF Twilio
<1>. QED
  BY <1>2, <1>3, CallShrinks

\* What the bot and the callbacks do without counting an attempt.
LEMMA BotQuietClean ==
    ASSUME CadenceInv, TypeOK', HistoryKept, NEW s \in Attempts,
           ToolPromesa(s) \/ ToolOptOut(s) \/ Cuelga(s) \/ BotFalla(s) \/ PostLee(s)
           \/ AvisoCompleted(s)
           \/ (AvisoNoContesta(s) /\ ~(vapi[de[s]] = s /\ estado[de[s]] = "llamando"))
    PROVE  StaysClean
<1>. USE DEF CadenceInv, AccountedInv
<1>. DEFINE d == de[s]
<1>0. d \in Debtors
  BY DEF TypeOK, DialerTypeOK
<1>1. CASE ToolPromesa(s)
  <2>1. CallStep(s)
    BY <1>1 DEF ToolPromesa, PonEstado, CallStep, clockVars, dialerVars, loopVars, attemptVars,
           historyVars, callVars, TypeOK, RowsTypeOK, Estados, CALLABLE_ESTADOS
  <2>2. ShrinkAttempt(d, s)
    BY <1>1 DEF ToolPromesa, ShrinkAttempt, dialerVars, attemptVars, historyVars, callVars,
           Viva, Vivo, Reportado, Saliente, Atendida
  <2>. QED
    BY <2>1, <2>2, CallShrinks
<1>2. CASE ToolOptOut(s)
  <2>1. CallStep(s)
    BY <1>2 DEF ToolOptOut, CallStep, clockVars, dialerVars, loopVars, attemptVars,
           historyVars, callVars, TypeOK, RowsTypeOK
  <2>2. ShrinkAttempt(d, s)
    BY <1>2 DEF ToolOptOut, ShrinkAttempt, dialerVars, attemptVars, historyVars, callVars,
           Viva, Vivo, Reportado, Saliente, Atendida
  <2>. QED
    BY <2>1, <2>2, CallShrinks
<1>3. CASE Cuelga(s) \/ BotFalla(s) \/ PostLee(s)
  <2>1. CallStep(s) /\ UNCHANGED <<tarea, de, despacho, suelta, vapi>>
    BY <1>3 DEF Cuelga, BotFalla, PostLee, CallStep, clockVars, rowVars, debtorVars, loopVars,
           historyVars, TypeOK, DialerTypeOK, CallsTypeOK
  <2>. SUFFICES ShrinkAttempt(d, s)
    BY <2>1, CallShrinks
  <2>2. /\ fase[s] \in {"hablando", "post", "escribe"}
        /\ cb[s] # "no-answer" /\ cb[s] # "reprograma"
    BY <1>3 DEF Cuelga, BotFalla, PostLee, CallShape
  <2>3. CASE BotFalla(s)
    <3>1. fase'[s] = "fin" /\ cb'[s] \in {"completed", cb[s]}
      BY <2>3 DEF BotFalla, TypeOK, DialerTypeOK, CallsTypeOK
    <3>2. /\ cb'[s] # "no-answer" /\ cb'[s] # "reprograma" /\ fase'[s] \notin Abierta
          /\ fase'[s] # "libre"
      BY <2>2, <3>1 DEF Abierta
    <3>3. ~Vivo(s)' /\ ~Reportado(s)' /\ (Viva(s)' => Viva(s))
      BY <2>1, <3>2 DEF Vivo, Reportado, Viva
    <3>. QED
      BY <2>1, <3>2, <3>3 DEF ShrinkAttempt
  <2>4. CASE Cuelga(s) \/ PostLee(s)
    <3>1. fase'[s] \in {"post", "escribe"} /\ cb'[s] \in {"completed", cb[s]} /\ snap' = snap
      BY <2>4 DEF Cuelga, PostLee, TypeOK, DialerTypeOK, CallsTypeOK
    <3>2. cb'[s] # "no-answer" /\ cb'[s] # "reprograma"
      BY <2>2, <3>1
    <3>3. Viva(s) /\ Atendida(s) /\ Atendida(s)'
      BY <2>2, <3>1 DEF Viva, Atendida, Abierta
    <3>4. Vivo(s)' => Vivo(s)
      BY <2>1, <2>2 DEF Vivo, Saliente, Abierta
    <3>. QED
      BY <2>1, <3>1, <3>2, <3>3, <3>4 DEF ShrinkAttempt, Reportado
  <2>. QED
    BY <1>3, <2>3, <2>4
<1>4. CASE AvisoCompleted(s) \/ (AvisoNoContesta(s) /\ ~(vapi[d] = s /\ estado[d] = "llamando"))
  <2>1. CallStep(s) /\ UNCHANGED <<tarea, fase, de, despacho, suelta, vapi, snap>>
    BY <1>4 DEF AvisoCompleted, AvisoNoContesta, CallStep, clockVars, rowVars, debtorVars, loopVars,
           historyVars, TypeOK, DialerTypeOK, CallsTypeOK
  <2>2. cb'[s] = "no"
    BY <1>4 DEF AvisoCompleted, AvisoNoContesta, TypeOK, DialerTypeOK, CallsTypeOK
  <2>3. ShrinkAttempt(d, s)
    BY <2>1, <2>2 DEF ShrinkAttempt, Viva, Vivo, Reportado, Saliente, Atendida
  <2>. QED
    BY <2>1, <2>3, CallShrinks
<1>. QED
  BY <1>1, <1>2, <1>3, <1>4

\* Dashboard, switches and clock.
IdleStep == /\ UNCHANGED <<dia, lote, debidos, intentos, cita, ultimo, estado, vapi, viejo, plan,
                           rescate, de, tarea, fase, cb, snap, despacho, suelta>>

LEMMA IdleClean ==
    ASSUME CadenceInv, TypeOK', IdleStep
    PROVE  StaysClean
<1>1. ASSUME NEW e \in Debtors PROVE Elsewhere(e)
  BY DEF IdleStep, Elsewhere
<1>. QED
  BY <1>1, ElsewhereKeeps DEF StaysClean, CadenceInv, AccountedInv

LEMMA PlainRowClean ==
    ASSUME CadenceInv, TypeOK', HistoryKept, NEW d \in Debtors,
           (MarcarPagado(d) /\ DejaTodo) \/ (PatchNoLlamar(d) /\ DejaTodo) \/ PasaRato(d)
    PROVE  StaysClean
<1>. USE DEF CadenceInv, AccountedInv
<1>1. /\ UNCHANGED <<dia, lote, debidos, intentos, cita, ultimo, vapi, plan, rescate, de,
                     tarea, fase, cb, snap, despacho, suelta>>
      /\ \A e \in Debtors : e # d => estado'[e] = estado[e] /\ viejo'[e] = viejo[e]
      /\ estado'[d] \in {estado[d], "pagado"}
      /\ viejo'[d] => Parada(d)
  <2>1. CASE MarcarPagado(d) /\ DejaTodo
    BY <2>1 DEF MarcarPagado, DejaTodo, PonEstado, clockVars, dialerVars, loopVars, attemptVars,
           historyVars, callVars, TypeOK, RowsTypeOK
  <2>2. CASE PatchNoLlamar(d) /\ DejaTodo
    BY <2>2 DEF PatchNoLlamar, DejaTodo, clockVars, dialerVars, loopVars, attemptVars,
           historyVars, callVars, TypeOK, RowsTypeOK
  <2>3. CASE PasaRato(d)
    BY <2>3 DEF PasaRato, SinActividad, Parada, clockVars, dialerVars, loopVars, attemptVars,
           historyVars, callVars, TypeOK, RowsTypeOK
  <2>. QED
    BY <2>1, <2>2, <2>3
<1>2. ASSUME NEW e \in Debtors, e # d PROVE Elsewhere(e)
  BY <1>1, <1>2 DEF Elsewhere
<1>3. ShrinkRow(d)
  BY <1>1 DEF ShrinkRow, HasBeenContactedToday, Estados, CALLABLE_ESTADOS
<1>4. \A s \in Attempts : de'[s] = d => de[s] = d /\ ShrinkAttempt(d, s)
  BY <1>1 DEF ShrinkAttempt, Viva, Vivo, Reportado, Saliente, Atendida
<1>5. FilaLimpia(d) => FilaLimpia(d)'
  BY <1>3, <1>4, ShrinkKeeps
<1>. QED
  BY <1>2, <1>5, RowStep

LEMMA EscalateClean ==
    ASSUME CadenceInv, TypeOK', HistoryKept, NEW d \in Debtors, Escalate(d),
           UNCHANGED <<clockVars, dialerVars, callVars>>
    PROVE  StaysClean
<1>. USE DEF CadenceInv, AccountedInv
<1>1. ASSUME NEW e \in Debtors, e # d PROVE Elsewhere(e)
  BY <1>1 DEF Escalate, PonEstado, Elsewhere, clockVars, dialerVars, loopVars, attemptVars,
         historyVars, callVars, TypeOK, RowsTypeOK
<1>2. Estorbada(d)'
  BY DEF Escalate, Estorbada, TypeOK, RowsTypeOK
<1>. QED
  BY <1>1, <1>2, RowStep

\* The client asks for today, and the row counts as estorbada; or for another
\* day, and the post-call step still counts the attempt.
LEMMA ReagendarClean ==
    ASSUME CadenceInv, TypeOK', HistoryKept, NEW s \in Attempts, ToolReagendar(s)
    PROVE  StaysClean
<1>. USE DEF CadenceInv, AccountedInv
<1>. PICK d \in Debtors : d = de[s]
  BY DEF TypeOK, DialerTypeOK
<1>. PICK c \in CitasDeCliente : cita' = [cita EXCEPT ![d] = c] /\ SueltaFila(d, c)
  BY DEF ToolReagendar
<1>0. /\ fase[s] = "hablando" /\ PonEstado(d, "reagendado")
      /\ UNCHANGED <<dia, hora, lote, debidos, intentos, ultimo, vapi, plan, rescate, de, tarea,
                     fase, cb, snap, despacho, creada>>
  BY DEF ToolReagendar, clockVars, callVars, loopVars
<1>1. ASSUME NEW e \in Debtors, e # d PROVE Elsewhere(e)
  BY <1>0, <1>1 DEF PonEstado, Elsewhere, SueltaFila, TypeOK, RowsTypeOK
<1>2. ASSUME FilaLimpia(d), ~Estorbada(d)' PROVE FilaLimpia(d)'
  <2>1. ~Estorbada(d) /\ Viva(s) /\ Atendida(s)
    BY <1>0, <1>2, EstorbadaStays DEF Viva, Abierta, Atendida
  <2>2. /\ Saliente(s) /\ Leidos(d) = {} /\ d \notin lote
        /\ \A t \in Attempts : de[t] = d => (Viva(t) => t = s) /\ ~Reportado(t)
        /\ Vivo(s) => plan[d] = Nunca
    BY <1>2, <2>1, OneAlive
  <2>3. Vivo(s) /\ s \in Vivos(d)
    BY <1>0, <2>2 DEF Vivo, Vivos, Abierta
  <2>4. cita'[d].dia > dia
    <3>1. ~HasBeenContactedToday(d) /\ creada[s] # -1 /\ creada[s] = dia
      BY <1>0, <1>2, <2>1, <2>2, <2>3 DEF FilaLimpia, EnVivo, PlacedShape
    <3>2. ~suelta'[s]
      BY <1>0, <1>2, <3>1 DEF Estorbada
    <3>3. ~(c.dia <= dia)
      BY <3>1, <3>2 DEF SueltaFila, DeHoy
    <3>4. cita'[d] = c /\ c.dia \in Int /\ dia \in Int
      BY DEF TypeOK, RowsTypeOK, CitasDeCliente
    <3>. QED
      BY <3>3, <3>4
  <2>5. /\ estado'[d] = "reagendado" /\ ~viejo'[d] /\ Vivos(d)' = Vivos(d) /\ Leidos(d)' = {}
        /\ \A t \in Attempts : Vivo(t)' = Vivo(t) /\ Reportado(t)' = Reportado(t)
    BY <1>0, <2>2 DEF PonEstado, TypeOK, RowsTypeOK, Vivos, Leidos, Vivo, Saliente, Reportado
  <2>6. EnSuelta(d)'
    <3>1. ASSUME NEW t \in Attempts, de[t] = d, suelta'[t] PROVE tarea[t] \notin EnVuelo
      <4>1. CASE suelta[t]
        BY <1>2, <3>1, <4>1 DEF FilaLimpia, EnSuelta
      <4>2. CASE ~suelta[t]
        BY <2>4, <3>1, <4>2 DEF SueltaFila, TypeOK, RowsTypeOK, CitasDeCliente
      <4>. QED
        BY <4>1, <4>2
    <3>. QED
      BY <1>0, <3>1 DEF EnSuelta
  <2>7. EnVivo(d)'
    <3>1. ASSUME NEW t \in Vivos(d) PROVE t = s
      <4>1. t \in Attempts /\ de[t] = d /\ Vivo(t)
        BY DEF Vivos
      <4>2. Viva(t)
        BY <4>1 DEF Vivo, Viva
      <4>. QED
        BY <2>2, <4>1, <4>2
    <3>. QED
      BY <1>0, <1>2, <2>1, <2>3, <2>4, <2>5, <3>1
         DEF FilaLimpia, EnVivo, HasBeenContactedToday, Atendida
  <2>8. EnReporte(d)'
    BY <1>0, <2>2, <2>5 DEF EnReporte
  <2>. QED
    BY <1>0, <1>2, <2>2, <2>3, <2>5, <2>6, <2>7, <2>8
       DEF FilaLimpia, EnPlan, EnLote, EnCopia, UnaCopia, EnViejo, Agotada
<1>. QED
  BY <1>1, <1>2, RowStep

LEMMA RestartClean ==
    ASSUME CadenceInv, TypeOK', Reinicio
    PROVE  StaysClean
<1>. USE DEF CadenceInv, AccountedInv
<1>1. /\ UNCHANGED <<dia, hora, estado, intentos, cita, ultimo, vapi, viejo, de, despacho, suelta>>
      /\ lote' = {} /\ debidos' = {}
      /\ \A d \in Debtors : plan'[d] = Nunca /\ rescate'[d] = -1
      /\ \A s \in Attempts :
            /\ tarea'[s] \notin EnVuelo
            /\ fase'[s] = fase[s] \/ (fase'[s] = "fin" /\ Atendida(s))
            /\ ~Atendida(s)'
            /\ cb'[s] # "reprograma"
            /\ cb'[s] = "no-answer" => cb[s] = "no-answer"
  BY DEF Reinicio, clockVars, debtorVars, historyVars, EnVuelo, Atendida
<1>2. ASSUME NEW d \in Debtors PROVE ShrinkRow(d)
  BY <1>1 DEF ShrinkRow, HasBeenContactedToday
<1>3. ASSUME NEW d \in Debtors, NEW s \in Attempts, de'[s] = d PROVE de[s] = d /\ ShrinkAttempt(d, s)
  <2>1. Vivo(s)' => Vivo(s) /\ ~Atendida(s)
    BY <1>1 DEF Vivo, Saliente, Abierta, Atendida
  <2>2. Reportado(s)' => Reportado(s)
    BY <1>1 DEF Reportado, Saliente
  <2>3. Viva(s)' => Viva(s)
    BY <1>1 DEF Viva, Abierta
  <2>. QED
    BY <1>1, <1>3, <2>1, <2>2, <2>3 DEF ShrinkAttempt
<1>. QED
  BY <1>2, <1>3, ShrinkKeeps DEF StaysClean

\* The post-call step finds nobody else at work on the row, and leaves
\* nothing pending.
LEMMA PostAlone ==
    ASSUME CadenceInv, TypeOK', NEW s \in Attempts, PostEscribe(s), NEW d \in Debtors, d = de[s],
           FilaLimpia(d), ~Estorbada(d)
    PROVE  /\ Viva(s) /\ Atendida(s) /\ Saliente(s) /\ Vivo(s)
           /\ d \notin lote /\ plan[d] = Nunca
           /\ Vivos(d)' = {} /\ Leidos(d)' = {}
           /\ \A t \in Attempts : de[t] = d => ~Reportado(t)'
<1>. USE DEF CadenceInv, AccountedInv
<1>0. /\ fase[s] = "escribe" /\ fase' = [fase EXCEPT ![s] = "fin"] /\ vapi' = [vapi EXCEPT ![d] = 0]
      /\ UNCHANGED <<rescate, de, tarea, cb, despacho>>
  BY DEF PostEscribe, historyVars
<1>1. Viva(s) /\ Atendida(s)
  BY <1>0 DEF Viva, Abierta, Atendida
<1>2. /\ Saliente(s) /\ d \notin lote
      /\ \A t \in Attempts : de[t] = d => (Viva(t) => t = s) /\ cb[t] # "reprograma"
      /\ Vivo(s) => plan[d] = Nunca
      /\ rescate[d] = -1
  BY <1>1, OneAlive
<1>3. Vivo(s)
  BY <1>0, <1>2 DEF Vivo, Abierta
<1>4. ~Vivo(s)'
  BY <1>0, <1>2 DEF Vivo, Abierta, CallShape, TypeOK, DialerTypeOK
<1>5. ASSUME NEW t \in Attempts, de[t] = d, t # s PROVE ~Vivo(t)'
  BY <1>0, <1>2, <1>5 DEF Vivo, Viva, Saliente, TypeOK, DialerTypeOK
<1>6. \A t \in Attempts : de[t] = d => ~Reportado(t)'
  BY <1>0 DEF Reportado, Attempts, TypeOK, RowsTypeOK
<1>7. Vivos(d)' = {} /\ Leidos(d)' = {}
  BY <1>0, <1>2, <1>4, <1>5 DEF Vivos, Leidos
<1>. QED
  BY <1>1, <1>2, <1>3, <1>6, <1>7

LEMMA PostClean ==
    ASSUME CadenceInv, TypeOK', HistoryKept, NEW s \in Attempts, PostEscribe(s)
    PROVE  StaysClean
<1>. USE DEF CadenceInv, AccountedInv
<1>. PICK d \in Debtors : d = de[s]
  BY DEF TypeOK, DialerTypeOK
<1>. PICK contacto \in BOOLEAN : PonEstado(d, EstadoFinal(s, contacto))
  BY DEF PostEscribe
<1>0. /\ fase[s] = "escribe" /\ fase' = [fase EXCEPT ![s] = "fin"] /\ vapi' = [vapi EXCEPT ![d] = 0]
      /\ ultimo' = [ultimo EXCEPT ![d] = Ahora]
      /\ snap' = [snap EXCEPT ![s] = 0]
      /\ UNCHANGED <<dia, hora, lote, debidos, plan, rescate, de, tarea, cb, despacho, creada, suelta>>
      /\ IF Entrante(s) THEN UNCHANGED <<intentos, cita>>
         ELSE /\ intentos' = [intentos EXCEPT ![d] = @ + 1]
              /\ cita' = [cita EXCEPT ![d] = Nunca]
  BY DEF PostEscribe, clockVars, loopVars, historyVars
<1>1. ASSUME NEW e \in Debtors, e # d PROVE Elsewhere(e)
  <2>1. \A t \in Attempts : de[t] = e => t # s
    BY <1>1
  <2>. QED
    BY <1>0, <1>1, <2>1 DEF PonEstado, Elsewhere, TypeOK, RowsTypeOK, DialerTypeOK, CallsTypeOK
<1>2. ASSUME FilaLimpia(d), ~Estorbada(d)' PROVE FilaLimpia(d)'
  <2>1. ~Estorbada(d)
    BY <1>2, EstorbadaStays
  <2>2. /\ Viva(s) /\ Atendida(s) /\ Saliente(s) /\ Vivo(s)
        /\ d \notin lote /\ plan[d] = Nunca
        /\ Vivos(d)' = {} /\ Leidos(d)' = {}
        /\ \A t \in Attempts : de[t] = d => ~Reportado(t)'
    BY <1>2, <2>1, PostAlone
  <2>3. s \in Vivos(d)
    BY <2>2 DEF Vivos
  <2>4. snap[s] <= intentos[d] /\ intentos'[d] = intentos[d] + 1
    BY <1>0, <1>2, <2>2, <2>3 DEF FilaLimpia, EnVivo, Entrante, Saliente, TypeOK, RowsTypeOK
  <2>5. /\ estado'[d] = EstadoFinal(s, contacto) /\ ~viejo'[d]
    BY DEF PonEstado, TypeOK, RowsTypeOK
  <2>6. estado'[d] # "llamando" /\ (estado'[d] = "agotado" => snap[s] + 1 >= MaxIntentos)
    BY <2>5 DEF EstadoFinal, TERMINAL_ESTADOS
  <2>7. estado'[d] = "agotado" => intentos'[d] >= MaxIntentos
    BY <2>4, <2>6, DebtorsAssumption DEF TypeOK, RowsTypeOK, CallsTypeOK
  <2>. QED
    BY <1>0, <1>2, <2>2, <2>5, <2>7
       DEF FilaLimpia, EnSuelta, EnPlan, EnLote, EnVivo, EnReporte, EnCopia, UnaCopia, EnViejo, Agotada,
           Nunca, Agota
<1>. QED
  BY <1>1, <1>2, RowStep

\* A copy of intentos is read while the row is in llamando and no attempt of
\* it goes on.
LEMMA CopyClean ==
    ASSUME TypeOK, TypeOK', NEW d \in Debtors, FilaLimpia(d), Parada(d), estado[d] = "llamando",
           UNCHANGED <<dia, lote, estado, intentos, cita, viejo, vapi, plan, de, tarea, fase, despacho, suelta>>,
           Leidos(d)' \subseteq Leidos(d) \cup {intentos[d]},
           \A s \in Attempts : cb'[s] = "no-answer" => cb[s] = "no-answer"
    PROVE  FilaLimpia(d)'
<1>1. Parada(d)' /\ Vivos(d)' = {} /\ ~Callable(d)'
  BY DEF Parada, Viva, Vivos, Vivo, Callable, CALLABLE_ESTADOS
<1>2. \A n \in Leidos(d)' : n = intentos[d]
  BY DEF FilaLimpia, UnaCopia
<1>. QED
  BY <1>1, <1>2 DEF FilaLimpia, EnSuelta, EnPlan, EnLote, EnVivo, EnReporte, EnCopia, UnaCopia,
                    EnViejo, Agotada, Quieta

LEMMA ReadClean ==
    ASSUME CadenceInv, TypeOK', HistoryKept, NEW s \in Attempts, AvisoNoContesta(s),
           vapi[de[s]] = s, estado[de[s]] = "llamando"
    PROVE  StaysClean
<1>. USE DEF CadenceInv, AccountedInv
<1>. PICK d \in Debtors : d = de[s]
  BY DEF TypeOK, DialerTypeOK
<1>0. /\ cb[s] = "no-answer" /\ cb' = [cb EXCEPT ![s] = "reprograma"]
      /\ snap' = [snap EXCEPT ![s] = intentos[d]]
      /\ UNCHANGED <<dia, lote, debidos, estado, intentos, cita, ultimo, viejo, vapi, plan, rescate,
                     de, tarea, fase, despacho, suelta>>
  BY DEF AvisoNoContesta, clockVars, rowVars, debtorVars, loopVars, historyVars
<1>1. ASSUME NEW e \in Debtors, e # d PROVE Elsewhere(e)
  <2>1. \A t \in Attempts : de[t] = e => t # s
    BY <1>1
  <2>. QED
    BY <1>0, <1>1, <2>1 DEF Elsewhere, TypeOK, CallsTypeOK
<1>2. ASSUME FilaLimpia(d) PROVE FilaLimpia(d)'
  <2>1. Saliente(s)
    BY <1>0 DEF CallShape
  <2>2. Parada(d)
    BY <1>0, <1>2, <2>1 DEF FilaLimpia, EnReporte, Reportado
  <2>3. Leidos(d)' \subseteq Leidos(d) \cup {intentos[d]}
    BY <1>0 DEF Leidos, TypeOK, CallsTypeOK
  <2>4. \A t \in Attempts : cb'[t] = "no-answer" => cb[t] = "no-answer"
    BY <1>0 DEF TypeOK, CallsTypeOK
  <2>. QED
    BY <1>0, <1>2, <2>2, <2>3, <2>4, CopyClean
<1>. QED
  BY <1>1, <1>2, RowStep

LEMMA RescueReadClean ==
    ASSUME CadenceInv, TypeOK', RescateLee
    PROVE  StaysClean
<1>. USE DEF CadenceInv, AccountedInv
<1>0. /\ \A d \in Debtors : rescate'[d] = IF Atascado(d) THEN intentos[d] ELSE rescate[d]
      /\ UNCHANGED <<dia, lote, debidos, estado, intentos, cita, ultimo, viejo, vapi, plan,
                     de, tarea, fase, cb, snap, despacho, suelta>>
  BY DEF RescateLee, clockVars, rowVars, debtorVars, dialerVars, loopVars, attemptVars, historyVars
<1>1. ASSUME NEW e \in Debtors, ~Atascado(e) PROVE Elsewhere(e)
  BY <1>0, <1>1 DEF Elsewhere
<1>2. ASSUME NEW d \in Debtors, Atascado(d), FilaLimpia(d) PROVE FilaLimpia(d)'
  <2>1. Leidos(d)' \subseteq Leidos(d) \cup {intentos[d]}
    BY <1>0 DEF Leidos
  <2>2. Parada(d)
    BY <1>2 DEF Atascado, FilaLimpia, EnViejo
  <2>. QED
    BY <1>0, <1>2, <2>1, <2>2, CopyClean DEF Atascado
<1>. QED
  BY <1>1, <1>2, ElsewhereKeeps DEF StaysClean

\* A copy is written back.
LEMMA RescheduleFila ==
    ASSUME TypeOK, TypeOK', NEW d \in Debtors, FilaLimpia(d),
           NEW n \in Leidos(d), RescheduleIntentoFallido(d, n), Leidos(d)' \subseteq Leidos(d),
           UNCHANGED <<dia, hora, lote, plan, de, tarea, fase, despacho, suelta>>
    PROVE  FilaLimpia(d)' /\ intentos'[d] >= intentos[d]
<1>0. n \in Nat
  BY DEF Leidos, TypeOK, CallsTypeOK
<1>1. /\ Parada(d) /\ \A m \in Leidos(d) : m = n
      /\ intentos[d] = n \/ intentos[d] = n + 1
      /\ plan[d] = Nunca /\ d \notin lote
  BY DEF FilaLimpia, EnCopia, UnaCopia, EnPlan, EnLote, Quieta
<1>2. /\ intentos'[d] = n + 1 /\ vapi'[d] = 0 /\ viejo'[d] = FALSE
      /\ \/ n + 1 >= MaxIntentos /\ estado'[d] = "agotado"
         \/ estado'[d] = "sin_contacto" /\ cita'[d].dia = dia + 1
  BY DEF RescheduleIntentoFallido, PonEstado, TypeOK, RowsTypeOK
<1>3. Parada(d)' /\ Vivos(d)' = {} /\ \A s \in Attempts : de'[s] = d => ~Reportado(s)'
  BY <1>1, <1>2 DEF Parada, Viva, Vivos, Vivo, Reportado, Attempts
<1>4. ~Callable(d)' \/ cita'[d].dia > dia
  BY <1>2 DEF Callable, CALLABLE_ESTADOS, TypeOK, RowsTypeOK
<1>5. intentos'[d] >= intentos[d]
  BY <1>0, <1>1, <1>2
<1>6. UnaCopia(d)'
  BY <1>1, <1>2 DEF UnaCopia
<1>7. Agotada(d)'
  BY <1>1, <1>2 DEF Agotada, Nunca, Agota
<1>8. EnSuelta(d)'
  BY DEF FilaLimpia, EnSuelta
<1>. QED
  BY <1>1, <1>2, <1>3, <1>4, <1>5, <1>6, <1>7, <1>8
     DEF FilaLimpia, EnPlan, EnLote, EnVivo, EnReporte, EnCopia, EnViejo

\* What the rescue and the second half of the callback write back is a copy of
\* the row they have read.
LEMMA CopyOfRow ==
    ASSUME TypeOK, NEW d \in Debtors,
           \/ RescateEscribe(d)
           \/ \E s \in Attempts : de[s] = d /\ AvisoReprograma(s)
    PROVE  \E n \in Leidos(d) :
              /\ RescheduleIntentoFallido(d, n) /\ Leidos(d)' \subseteq Leidos(d)
              /\ \A e \in Debtors : e # d => rescate'[e] = rescate[e]
              /\ \A t \in Attempts : de[t] # d => cb'[t] = cb[t] /\ snap'[t] = snap[t]
              /\ UNCHANGED <<plan, escaladas, dialerVars, clockVars>>
<1>1. CASE RescateEscribe(d)
  <2>1. rescate[d] \in Leidos(d)
    BY <1>1 DEF RescateEscribe, Leidos
  <2>2. Leidos(d)' \subseteq Leidos(d)
    BY <1>1 DEF RescateEscribe, Leidos, TypeOK, CallsTypeOK, dialerVars, attemptVars
  <2>. QED
    BY <1>1, <2>1, <2>2 DEF RescateEscribe, TypeOK, CallsTypeOK
<1>2. CASE \E s \in Attempts : de[s] = d /\ AvisoReprograma(s)
  <2>1. PICK s \in Attempts : de[s] = d /\ AvisoReprograma(s)
    BY <1>2
  <2>2. snap[s] \in Leidos(d)
    BY <2>1 DEF AvisoReprograma, Leidos
  <2>3. Leidos(d)' \subseteq Leidos(d)
    BY <2>1 DEF AvisoReprograma, Leidos, TypeOK, CallsTypeOK, dialerVars, attemptVars
  <2>. QED
    BY <2>1, <2>2, <2>3 DEF AvisoReprograma, TypeOK, CallsTypeOK
<1>. QED
  BY <1>1, <1>2

LEMMA RescheduleClean ==
    ASSUME CadenceInv, TypeOK', HistoryKept, NEW d \in Debtors,
           \/ RescateEscribe(d)
           \/ \E s \in Attempts : de[s] = d /\ AvisoReprograma(s)
    PROVE  /\ StaysClean
           /\ FilaLimpia(d) => intentos'[d] >= intentos[d]
<1>. USE DEF CadenceInv, AccountedInv
<1>1. PICK n \in Leidos(d) : /\ RescheduleIntentoFallido(d, n) /\ Leidos(d)' \subseteq Leidos(d)
                             /\ \A e \in Debtors : e # d => rescate'[e] = rescate[e]
                             /\ \A t \in Attempts : de[t] # d => cb'[t] = cb[t] /\ snap'[t] = snap[t]
                             /\ UNCHANGED <<plan, escaladas, dialerVars, clockVars>>
  BY CopyOfRow
<1>2. UNCHANGED <<dia, hora, lote, debidos, plan, de, tarea, fase, despacho, suelta>>
  BY <1>1 DEF clockVars, dialerVars, loopVars, attemptVars, historyVars
<1>3. ASSUME NEW e \in Debtors, e # d PROVE Elsewhere(e)
  BY <1>1, <1>2, <1>3 DEF Elsewhere, RescheduleIntentoFallido, PonEstado, TypeOK, RowsTypeOK
<1>4. FilaLimpia(d) => FilaLimpia(d)' /\ intentos'[d] >= intentos[d]
  BY <1>1, <1>2, RescheduleFila
<1>. QED
  BY <1>3, <1>4, RowStep

\* A row that may be dialled today has nothing pending.
LEMMA DueIsQuiet ==
    ASSUME TypeOK, NEW d \in Debtors, FilaLimpia(d), Callable(d), cita[d].dia <= dia
    PROVE  Quieta(d)
<1>1. ~(cita[d].dia > dia)
  BY DEF TypeOK, RowsTypeOK, Instantes
<1>2. Vivos(d) = {}
  BY <1>1 DEF FilaLimpia, EnVivo
<1>3. \A s \in Attempts : de[s] = d => ~Reportado(s)
  BY DEF FilaLimpia, EnReporte
<1>4. Leidos(d) = {}
  BY <1>1 DEF FilaLimpia, EnCopia
<1>5. estado[d] # "llamando"
  BY DEF Callable, CALLABLE_ESTADOS
<1>. QED
  BY <1>2, <1>3, <1>4, <1>5 DEF Quieta, PorContar, Vivos

LEMMA PlanReadClean ==
    ASSUME CadenceInv, TypeOK', HistoryKept, NEW d \in Debtors, PlanLeeJob(d)
    PROVE  StaysClean
<1>. USE DEF CadenceInv, AccountedInv
<1>0. /\ Llamable(d) /\ cita[d] = Nunca
      /\ UNCHANGED <<dia, lote, debidos, estado, intentos, cita, ultimo, viejo, vapi, rescate,
                     de, tarea, fase, cb, snap, despacho, suelta>>
  BY DEF PlanLeeJob, PlanLee, DejaTodo, clockVars, debtorVars, dialerVars, loopVars, attemptVars,
         historyVars, callVars
<1>. PICK v \in ComputeProximoIntento(d) : plan' = [plan EXCEPT ![d] = v]
  BY DEF PlanLeeJob, PlanLee
<1>1. ASSUME NEW e \in Debtors, e # d PROVE Elsewhere(e)
  BY <1>0, <1>1 DEF Elsewhere, TypeOK, RowsTypeOK
<1>2. v = Agota => intentos[d] >= MaxIntentos
  <2>1. dia \in Nat /\ ultimo[d].dia \in Int
    BY DEF TypeOK, RowsTypeOK, Instantes
  <2>2. v \in CitasDeCliente => v.dia # -2
    BY <2>1 DEF CitasDeCliente
  <2>3. \A t \in dia..(MaxDia + 1) : DiaObjetivo(d, t) # -2
    BY <2>1, DebtorsAssumption DEF DiaObjetivo
  <2>. QED
    BY <2>2, <2>3 DEF ComputeProximoIntento, Agota
<1>3. ASSUME FilaLimpia(d) PROVE FilaLimpia(d)'
  <2>1. Quieta(d) /\ d \notin lote
    <3>1. Callable(d) /\ cita[d].dia <= dia
      BY <1>0 DEF Llamable, Callable, Nunca, TypeOK, RowsTypeOK
    <3>. QED
      BY <1>0, <1>3, <3>1, DueIsQuiet DEF FilaLimpia, EnLote
  <2>2. plan'[d] = v
    BY DEF TypeOK, RowsTypeOK
  <2>3. Quieta(d)' /\ Vivos(d)' = {} /\ Leidos(d)' = {}
    BY <1>0, <2>1 DEF Quieta, PorContar, Vivos, Vivo, Saliente, Reportado, Leidos
  <2>4. \A s \in Attempts : Reportado(s)' = Reportado(s)
    BY <1>0 DEF Reportado, Saliente
  <2>. QED
    BY <1>0, <1>2, <1>3, <2>1, <2>2, <2>3, <2>4
       DEF FilaLimpia, EnSuelta, EnPlan, EnLote, EnVivo, EnReporte, EnCopia, UnaCopia, EnViejo, Agotada,
           Callable, Parada, Viva
<1>. QED
  BY <1>1, <1>3, RowStep

LEMMA PlanWriteClean ==
    ASSUME CadenceInv, TypeOK', HistoryKept, NEW d \in Debtors, PlanEscribeJob(d)
    PROVE  StaysClean
<1>. USE DEF CadenceInv, AccountedInv
<1>0. /\ plan[d] # Nunca /\ plan' = [plan EXCEPT ![d] = Nunca]
      /\ UNCHANGED <<dia, lote, debidos, intentos, ultimo, vapi, rescate, de, tarea, fase, cb, snap,
                     despacho>>
      /\ cita[d] = Nunca => suelta' = suelta
      /\ \A e \in Debtors : e # d => estado'[e] = estado[e] /\ viejo'[e] = viejo[e] /\ cita'[e] = cita[e]
      /\ estado'[d] = IF plan[d] = Agota THEN "agotado" ELSE estado[d]
      /\ viejo'[d] = FALSE
      /\ \A s \in Attempts : de[s] # d => (suelta'[s] => suelta[s])
  <2>1. suelta' = suelta \/ SueltaFila(d, plan[d])
    BY DEF PlanEscribeJob, SueltaFila
  <2>2. \A s \in Attempts : de[s] # d => (suelta'[s] => suelta[s])
    BY <2>1 DEF SueltaFila
  <2>. QED
    BY <2>2 DEF PlanEscribeJob, PlanEscribe, PonEstado, DejaTodoMenosSuelta, clockVars, loopVars, callVars,
           TypeOK, RowsTypeOK
<1>1. ASSUME NEW e \in Debtors, e # d PROVE Elsewhere(e)
  BY <1>0, <1>1 DEF Elsewhere, TypeOK, RowsTypeOK
<1>2. ASSUME FilaLimpia(d) PROVE FilaLimpia(d)'
  <2>1. cita[d] = Nunca /\ d \notin lote /\ Quieta(d) /\ suelta' = suelta
    BY <1>0, <1>2 DEF FilaLimpia, EnPlan
  <2>2. plan'[d] = Nunca
    BY <1>0 DEF TypeOK, RowsTypeOK
  <2>3. /\ Vivos(d)' = {} /\ Leidos(d)' = {}
        /\ \A s \in Attempts : de[s] = d => ~Reportado(s)'
    BY <1>0, <2>1 DEF Quieta, PorContar, Vivos, Vivo, Saliente, Reportado, Leidos
  <2>. QED
    BY <1>0, <1>2, <2>1, <2>2, <2>3
       DEF FilaLimpia, EnSuelta, EnPlan, EnLote, EnVivo, EnReporte, EnCopia, UnaCopia, EnViejo, Agotada,
           Nunca, Agota
<1>. QED
  BY <1>1, <1>2, RowStep

LEMMA DispatchReadClean ==
    ASSUME CadenceInv, TypeOK', DespachoLee, UNCHANGED callVars
    PROVE  StaysClean
<1>. USE DEF CadenceInv, AccountedInv
<1>0. /\ debidos' = {d \in Debtors : EnHora(d)} /\ lote' \subseteq debidos'
      /\ UNCHANGED <<dia, hora, estado, intentos, cita, ultimo, viejo, vapi, plan, rescate,
                     de, tarea, fase, cb, snap, despacho, suelta>>
  BY DEF DespachoLee, clockVars, rowVars, debtorVars, attemptVars, historyVars, callVars
<1>. SUFFICES ASSUME NEW d \in Debtors, FilaLimpia(d) PROVE FilaLimpia(d)'
  BY DEF StaysClean
<1>1. EnHora(d) => /\ cita[d] # Nunca /\ cita[d].dia <= dia /\ ~HasBeenContactedToday(d)
                   /\ Callable(d) /\ Quieta(d)
  <2>1. EnHora(d) => /\ cita[d] # Nunca /\ cita[d].dia <= dia /\ ~HasBeenContactedToday(d)
                     /\ Callable(d)
    BY DEF EnHora, Llego, Llamable, Callable, TypeOK, RowsTypeOK, Instantes
  <2>. QED
    BY <2>1, DueIsQuiet
<1>2. /\ Vivos(d)' = Vivos(d) /\ Leidos(d)' = Leidos(d) /\ Quieta(d)' = Quieta(d)
      /\ \A s \in Attempts : Reportado(s)' = Reportado(s)
  BY <1>0 DEF Quieta, PorContar, Vivos, Vivo, Saliente, Reportado, Leidos
<1>3. d \in debidos' => Vivos(d) = {}
  BY <1>0, <1>1 DEF Quieta, PorContar, Vivos
<1>4. EnVivo(d)'
  BY <1>0, <1>2, <1>3 DEF FilaLimpia, EnVivo, HasBeenContactedToday, Callable, Atendida, Vivos
<1>5. EnPlan(d)' /\ EnLote(d)'
  BY <1>0, <1>1, <1>2 DEF FilaLimpia, EnPlan, EnLote, HasBeenContactedToday
<1>. QED
  BY <1>0, <1>2, <1>4, <1>5
     DEF FilaLimpia, EnSuelta, EnReporte, EnCopia, UnaCopia, EnViejo, Agotada, Callable, Parada, Viva

\* The leader is held by its new attempt, and the client's other rows, which
\* have no attempt under way, are stamped.
LEMMA MarkClean ==
    ASSUME CadenceInv, TypeOK', HistoryKept, NEW d \in Debtors, DespachoMarca(d), UNCHANGED callVars
    PROVE  StaysClean
<1>. USE DEF CadenceInv, AccountedInv
<1>. DEFINE s == nuevos + 1
<1>0. /\ s \in Attempts /\ d \in lote /\ lote' = lote \ {d} /\ debidos' \subseteq debidos
      /\ estado' = [estado EXCEPT ![d] = "llamando"]
      /\ ultimo' = [h \in Debtors |-> IF h \in Hermanas(d) THEN Ahora ELSE ultimo[h]]
      /\ viejo' = [h \in Debtors |-> viejo[h] /\ h # d /\ h \notin Hermanas(d)]
      /\ de' = [de EXCEPT ![s] = d] /\ tarea' = [tarea EXCEPT ![s] = "killswitch"]
      /\ despacho' = [despacho EXCEPT ![s] = dia]
      /\ UNCHANGED <<dia, hora, intentos, cita, vapi, plan, rescate, fase, cb, snap, suelta>>
  BY DEF DespachoMarca, clockVars, callVars
<1>1. fase[s] = "libre" /\ ~suelta[s] /\ cb[s] # "no-answer" /\ cb[s] # "reprograma"
  <2>1. s > nuevos
    BY DEF TypeOK, DialerTypeOK
  <2>2. ~Saliente(s) /\ fase[s] = "libre"
    BY <1>0, <2>1 DEF CallShape
  <2>. QED
    BY <1>0, <2>2 DEF CallShape, PlacedShape
<1>2. \A t \in Attempts : t # s => /\ de'[t] = de[t] /\ tarea'[t] = tarea[t]
                                   /\ despacho'[t] = despacho[t]
  BY <1>0 DEF TypeOK, DialerTypeOK
<1>3. de'[s] = d /\ tarea'[s] = "killswitch" /\ estado'[d] = "llamando"
  BY <1>0 DEF TypeOK, DialerTypeOK, RowsTypeOK
<1>4. ASSUME NEW e \in Debtors, e # d, e \notin Hermanas(d) PROVE Elsewhere(e)
  <2>1. \A t \in Attempts : de'[t] = e => t # s
    BY <1>3, <1>4
  <2>. QED
    BY <1>0, <1>2, <1>4, <2>1 DEF Elsewhere, TypeOK, RowsTypeOK
<1>5. ASSUME NEW e \in Hermanas(d), FilaLimpia(e) PROVE FilaLimpia(e)'
  <2>1. e \in Debtors /\ e \in debidos /\ Cliente[e] = Cliente[d] /\ e # d
    BY DEF Hermanas, TypeOK, DialerTypeOK
  <2>2. Vivos(e) = {} /\ e \notin lote
    BY <1>0, <1>5, <2>1 DEF FilaLimpia, EnVivo, BatchShape
  <2>3. \A t \in Attempts : de'[t] = e => t # s /\ de[t] = e
    BY <1>2, <1>3, <2>1
  <2>4. /\ Vivos(e)' = {} /\ Leidos(e)' \subseteq Leidos(e)
        /\ \A t \in Attempts : de'[t] = e => (Reportado(t)' => Reportado(t))
        /\ Parada(e) => Parada(e)'
    BY <1>0, <1>2, <2>2, <2>3 DEF Vivos, Vivo, Saliente, Reportado, Leidos, Parada, Viva
  <2>5. PorContar(e)' \subseteq PorContar(e)
    BY <2>3, <2>4 DEF PorContar, Vivos
  <2>6. estado'[e] = estado[e] /\ ~viejo'[e] /\ e \notin lote'
    BY <1>0, <2>1, <2>2 DEF TypeOK, RowsTypeOK
  <2>7. EnSuelta(e)'
    BY <1>0, <1>2, <1>5, <2>3 DEF FilaLimpia, EnSuelta
  <2>. QED
    BY <1>0, <1>5, <2>1, <2>3, <2>4, <2>5, <2>6, <2>7
       DEF FilaLimpia, EnPlan, EnLote, EnVivo, EnReporte, EnCopia, UnaCopia, EnViejo, Agotada,
           Quieta, Callable
<1>6. ASSUME FilaLimpia(d) PROVE FilaLimpia(d)'
  <2>1. /\ cita[d].dia <= dia /\ ~HasBeenContactedToday(d) /\ Quieta(d) /\ plan[d] = Nunca
    BY <1>0, <1>6 DEF FilaLimpia, EnLote, EnPlan
  <2>2. /\ \A t \in Attempts : de[t] = d => ~Vivo(t) /\ ~Reportado(t)
        /\ Leidos(d) = {}
    BY <2>1 DEF Quieta, PorContar
  <2>3. ASSUME NEW t \in Attempts, de'[t] = d
        PROVE  (Vivo(t)' => t = s) /\ ~Reportado(t)' /\ cb'[t] # "reprograma"
    <3>1. CASE t = s
      BY <1>0, <1>1, <3>1 DEF Reportado
    <3>2. CASE t # s
      <4>1. de[t] = d
        BY <1>2, <2>3, <3>2
      <4>2. cb[t] # "reprograma"
        BY <2>2, <4>1 DEF Leidos
      <4>. QED
        BY <1>0, <1>2, <2>2, <3>2, <4>1, <4>2 DEF Vivo, Reportado, Saliente
    <3>. QED
      BY <3>1, <3>2
  <2>4. Leidos(d)' = {} /\ rescate'[d] = -1
    BY <1>0, <2>2, <2>3 DEF Leidos
  <2>5. d \notin lote' /\ ~viejo'[d] /\ ~HasBeenContactedToday(d)' /\ ~Callable(d)'
    BY <1>0, <1>3, <2>1 DEF Hermanas, HasBeenContactedToday, Callable, CALLABLE_ESTADOS
  <2>6. \A c \in lote' : Cliente[c] # Cliente[d]
    BY <1>0 DEF BatchShape
  <2>7. EnVivo(d)'
    BY <1>0, <1>1, <2>1, <2>3, <2>5, <2>6 DEF EnVivo, Vivos, Atendida
  <2>8. EnSuelta(d)'
    <3>1. ASSUME NEW t \in Attempts, de'[t] = d, suelta[t] PROVE tarea'[t] \notin EnVuelo
      <4>1. t # s
        BY <1>1, <3>1
      <4>. QED
        BY <1>2, <1>6, <3>1, <4>1 DEF FilaLimpia, EnSuelta
    <3>. QED
      BY <1>0, <3>1 DEF EnSuelta
  <2>. QED
    BY <1>0, <1>3, <2>1, <2>3, <2>4, <2>5, <2>7, <2>8
       DEF FilaLimpia, EnPlan, EnLote, EnReporte, EnCopia, UnaCopia, EnViejo, Agotada, Nunca, Agota
<1>. QED
  BY <1>4, <1>5, <1>6, ElsewhereKeeps DEF StaysClean

LEMMA DayClean ==
    ASSUME CadenceInv, TypeOK', PasaDia
    PROVE  StaysClean
<1>. USE DEF CadenceInv, AccountedInv
<1>0. /\ lote' = {}
      /\ \A d \in Debtors : SinActividad(d) /\ plan[d] = Nunca /\ rescate[d] = -1
      /\ UNCHANGED <<estado, intentos, cita, ultimo, viejo, vapi, plan, rescate,
                     de, tarea, fase, cb, snap, despacho, suelta>>
  BY DEF PasaDia, rowVars, debtorVars, loopVars, attemptVars, historyVars, callVars
<1>. SUFFICES ASSUME NEW d \in Debtors, FilaLimpia(d) PROVE FilaLimpia(d)'
  BY DEF StaysClean
<1>1. Parada(d) /\ Parada(d)' /\ Leidos(d)' = {}
  BY <1>0 DEF SinActividad, Parada, Viva, Leidos
<1>2. Vivos(d)' = {}
  BY <1>1 DEF Parada, Viva, Vivos, Vivo
<1>3. \A s \in Attempts : Reportado(s)' = Reportado(s)
  BY <1>0 DEF Reportado, Saliente
<1>. QED
  BY <1>0, <1>1, <1>2, <1>3
     DEF FilaLimpia, EnSuelta, EnPlan, EnLote, EnVivo, EnReporte, EnCopia, UnaCopia, EnViejo, Agotada,
         Callable

-----------------------------------------------------------------------------
\* The shapes of history, attempts and batch are kept.
LEMMA HistoryStep ==
    ASSUME CadenceInv, TypeOK', [Next]_vars
    PROVE  HistoryKept
<1>. USE DEF CadenceInv, AccountedInv
<1>1. \A d \in Debtors : escaladas'[d] >= escaladas[d]
  <2>1. \/ escaladas' = escaladas
        \/ \E d \in Debtors : escaladas' = [escaladas EXCEPT ![d] = @ + 1]
    <3>1. \/ UNCHANGED vars
          \/ \E d \in Debtors : WaEscalate(d)
          \/ \E s \in Attempts : ToolEscalate(s)
          \/ escaladas' = escaladas
      BY DEF Next, Job, PlanLeeJob, PlanLee, PlanEscribeJob, PlanEscribe, DespachoLee, DespachoMarca,
             RescateLee, RescateEscribe, Tarea, TareaKillswitch, TareaJornada, TareaSaldo, Gate,
             TareaMarca, TareaNumeroInvalido, TareaFallaCreate, TareaMapea, TareaVapi, TareaFallaMongo,
             Twilio, NoContesta, ContestaMaquina, ContestaPersona, PierdeAviso, Bot, ToolReagendar,
             ToolPromesa, ToolOptOut, Cuelga, BotFalla, PostLee, PostEscribe, Aviso, AvisoCompleted,
             AvisoNoContesta, AvisoReprograma, Persona, SetAutocallEnabled, SetJornadaAuthorized,
             CambiaSaldo, MarcarPagado, PausarDebtor, Reactivar, ReactivarDebtor, PatchNoLlamar,
             LlamadaEntrante, Tiempo, PasaRato, ExpiraMapa, PasaHora, PasaDia, Reinicio, rowVars
    <3>2. ASSUME NEW s \in Attempts PROVE de[s] \in Debtors
      BY DEF TypeOK, DialerTypeOK
    <3>. QED
      BY <3>1, <3>2 DEF WaEscalate, ToolEscalate, Escalate, vars, rowVars
  <2>. QED
    BY <2>1 DEF TypeOK, RowsTypeOK
<1>2. \A s \in Attempts : suelta[s] => suelta'[s]
  <2>1. suelta' = suelta \/ \E d \in Debtors, c \in Instantes : SueltaFila(d, c)
    <3>1. ASSUME NEW s \in Attempts PROVE de[s] \in Debtors /\ cita[de[s]] \in Instantes
      BY DEF TypeOK, RowsTypeOK, DialerTypeOK
    <3>2. \A d \in Debtors : plan[d] \in Instantes /\ cita[d] \in Instantes
      BY DEF TypeOK, RowsTypeOK
    <3>3. CitasDeCliente \subseteq Instantes
      BY DebtorsAssumption DEF CitasDeCliente, Instantes, TypeOK, RowsTypeOK
    <3>4. CASE \E s \in Attempts : Tarea(s)
      BY <3>1, <3>4 DEF Tarea, TareaKillswitch, TareaJornada, TareaSaldo, Gate, Aborta, TareaMarca,
             TareaNumeroInvalido, TareaFallaCreate, TareaMapea, TareaVapi, TareaFallaMongo, historyVars
    <3>5. CASE \E s \in Attempts : Twilio(s) \/ Bot(s) \/ Aviso(s)
      BY <3>1, <3>3, <3>5 DEF Twilio, NoContesta, ContestaMaquina, ContestaPersona, PierdeAviso, Bot,
             ToolReagendar, ToolPromesa, ToolEscalate, ToolOptOut, Cuelga, BotFalla, PostLee, PostEscribe,
             Aviso, AvisoCompleted, AvisoNoContesta, AvisoReprograma, historyVars, dialerVars, attemptVars
    <3>6. CASE Job
      BY <3>2, <3>6 DEF Job, PlanLeeJob, DejaTodo, PlanEscribeJob, DespachoLee, DespachoMarca, RescateLee,
             RescateEscribe, historyVars, dialerVars, attemptVars
    <3>7. CASE Persona
      BY <3>2, <3>7 DEF Persona, SetAutocallEnabled, SetJornadaAuthorized, CambiaSaldo, DejaTodo, Reactivar,
             LlamadaEntrante, historyVars, dialerVars, attemptVars
    <3>8. CASE Tiempo \/ Reinicio \/ UNCHANGED vars
      BY <3>8 DEF Tiempo, PasaRato, ExpiraMapa, PasaHora, PasaDia, Reinicio, historyVars, dialerVars,
             attemptVars, vars
    <3>. QED
      BY <3>4, <3>5, <3>6, <3>7, <3>8 DEF Next
  <2>. QED
    BY <2>1 DEF SueltaFila
<1>3. \A s \in Attempts : creada[s] # -1 => creada'[s] # -1 /\ de'[s] = de[s]
  <2>1. dia # -1 /\ \A s \in Attempts : s > nuevos => creada[s] = -1
    BY DEF OneCallInv, AttemptsInOrder, TypeOK, RowsTypeOK
  <2>2. CASE \E s \in Attempts : Tarea(s)
    <3>1. /\ de' = de
          /\ creada' = creada \/ \E s \in Attempts : creada' = [creada EXCEPT ![s] = dia]
      BY <2>2 DEF Tarea, TareaKillswitch, TareaJornada, TareaSaldo, Gate, Aborta, TareaMarca,
             TareaNumeroInvalido, TareaFallaCreate, TareaMapea, TareaVapi, TareaFallaMongo, historyVars
    <3>. QED
      BY <2>1, <3>1 DEF TypeOK, DialerTypeOK
  <2>3. CASE \E s \in Attempts : Twilio(s) \/ Bot(s) \/ Aviso(s)
    BY <2>3 DEF Twilio, NoContesta, ContestaMaquina, ContestaPersona, PierdeAviso, Bot,
           ToolReagendar, ToolPromesa, ToolEscalate, ToolOptOut, Cuelga, BotFalla, PostLee, PostEscribe,
           Aviso, AvisoCompleted, AvisoNoContesta, AvisoReprograma, historyVars, dialerVars, attemptVars
  <2>4. CASE Job \/ Persona
    <3>1. /\ creada' = creada
          /\ de' = de \/ \E d \in Debtors : de' = [de EXCEPT ![nuevos + 1] = d]
      BY <2>4 DEF Job, PlanLeeJob, DejaTodo, PlanEscribeJob, DejaTodoMenosSuelta, DespachoLee, DespachoMarca,
             RescateLee, RescateEscribe, Persona, SetAutocallEnabled, SetJornadaAuthorized, CambiaSaldo,
             Reactivar, LlamadaEntrante, historyVars, dialerVars, attemptVars
    <3>. QED
      BY <2>1, <3>1 DEF TypeOK, DialerTypeOK
  <2>5. CASE Tiempo \/ Reinicio \/ UNCHANGED vars
    BY <2>5 DEF Tiempo, PasaRato, ExpiraMapa, PasaHora, PasaDia, Reinicio, historyVars, dialerVars,
           attemptVars, vars
  <2>. QED
    BY <2>2, <2>3, <2>4, <2>5 DEF Next
<1>. QED
  BY <1>1, <1>2, <1>3 DEF HistoryKept

LEMMA PlacedKeeps ==
    ASSUME CadenceInv, TypeOK', despacho' = despacho,
           \A s \in Attempts :
              /\ suelta'[s] => suelta[s] \/ DeHoy(s)
              /\ \/ Saliente(s) /\ creada'[s] = dia'
                 \/ /\ creada'[s] = creada[s]
                    /\ fase'[s] = "libre" <=> fase[s] = "libre"
                    /\ Viva(s)' => Viva(s) /\ dia' = dia
    PROVE  PlacedShape'
<1>. SUFFICES ASSUME NEW s \in Attempts
              PROVE  /\ ~Saliente(s)' => fase'[s] = "libre" /\ creada'[s] = -1 /\ ~suelta'[s]
                     /\ Saliente(s)' /\ fase'[s] # "libre"
                           => creada'[s] # -1 /\ (Viva(s)' => creada'[s] = dia')
  BY DEF PlacedShape
<1>. USE DEF CadenceInv, AccountedInv
<1>1. dia # -1 /\ dia' # -1
  BY DEF TypeOK, RowsTypeOK
<1>2. Saliente(s)' = Saliente(s)
  BY DEF Saliente
<1>3. DeHoy(s) => Saliente(s)
  BY <1>1 DEF DeHoy, CallShape, PlacedShape, EnVuelo
<1>. QED
  BY <1>1, <1>2, <1>3 DEF PlacedShape

LEMMA TaskPlaced ==
    ASSUME CadenceInv, TypeOK', NEW s \in Attempts, Tarea(s)
    PROVE  PlacedShape'
<1>. USE DEF CadenceInv, AccountedInv
<1>1. UNCHANGED <<dia, despacho>>
  BY DEF Tarea, TareaKillswitch, TareaJornada, TareaSaldo, Gate, TareaMarca, TareaNumeroInvalido,
         TareaFallaCreate, TareaMapea, TareaVapi, TareaFallaMongo, historyVars, clockVars
<1>2. tarea[s] \in EnVuelo /\ Saliente(s)
  BY DEF Tarea, TareaKillswitch, TareaJornada, TareaSaldo, Gate, TareaMarca, TareaNumeroInvalido,
         TareaFallaCreate, TareaMapea, TareaVapi, TareaFallaMongo, EnVuelo, CallShape
<1>3. \A t \in Attempts : suelta'[t] => suelta[t] \/ DeHoy(t)
  BY DEF Tarea, TareaKillswitch, TareaJornada, TareaSaldo, Gate, Aborta, SueltaFila, TareaMarca,
         TareaNumeroInvalido, TareaFallaCreate, TareaMapea, TareaVapi, TareaFallaMongo, historyVars
<1>4. /\ \A t \in Attempts : t # s => tarea'[t] = tarea[t] /\ fase'[t] = fase[t] /\ creada'[t] = creada[t]
      /\ creada'[s] = dia \/ UNCHANGED <<fase, creada>>
  <2>1. CASE TareaMarca(s) \/ TareaFallaCreate(s)
    BY <2>1 DEF TareaMarca, TareaFallaCreate, TypeOK, DialerTypeOK
  <2>2. CASE ~(TareaMarca(s) \/ TareaFallaCreate(s))
    BY <2>2 DEF Tarea, TareaKillswitch, TareaJornada, TareaSaldo, Gate, Aborta, TareaNumeroInvalido,
           TareaMapea, TareaVapi, TareaFallaMongo, historyVars, TypeOK, DialerTypeOK
  <2>. QED
    BY <2>1, <2>2
<1>5. Viva(s)
  BY <1>2 DEF Viva
<1>6. \A t \in Attempts :
         \/ Saliente(t) /\ creada'[t] = dia'
         \/ /\ creada'[t] = creada[t]
            /\ fase'[t] = "libre" <=> fase[t] = "libre"
            /\ Viva(t)' => Viva(t) /\ dia' = dia
  <2>1. ASSUME NEW t \in Attempts, t # s
        PROVE /\ creada'[t] = creada[t]
              /\ fase'[t] = "libre" <=> fase[t] = "libre"
              /\ Viva(t)' => Viva(t) /\ dia' = dia
    BY <1>1, <1>4, <2>1 DEF Viva
  <2>. QED
    BY <1>1, <1>2, <1>4, <1>5, <2>1
<1>. QED
  BY <1>1, <1>3, <1>6, PlacedKeeps

LEMMA CallPlaced ==
    ASSUME CadenceInv, TypeOK', NEW s \in Attempts, Twilio(s) \/ Bot(s) \/ Aviso(s)
    PROVE  PlacedShape'
<1>. USE DEF CadenceInv, AccountedInv
<1>1. UNCHANGED <<dia, despacho, creada, tarea>>
  BY DEF Twilio, NoContesta, ContestaMaquina, ContestaPersona, PierdeAviso, Bot,
         ToolReagendar, ToolPromesa, ToolEscalate, ToolOptOut, Cuelga, BotFalla, PostLee, PostEscribe,
         Aviso, AvisoCompleted, AvisoNoContesta, AvisoReprograma, historyVars, dialerVars, attemptVars,
         clockVars
<1>2. \A t \in Attempts : suelta'[t] => suelta[t] \/ DeHoy(t)
  BY DEF Twilio, NoContesta, ContestaMaquina, ContestaPersona, PierdeAviso, Bot,
         ToolReagendar, ToolPromesa, ToolEscalate, ToolOptOut, Cuelga, BotFalla, PostLee, PostEscribe,
         Aviso, AvisoCompleted, AvisoNoContesta, AvisoReprograma, historyVars, dialerVars, attemptVars,
         SueltaFila
<1>3. fase' = fase \/ (fase[s] \in Abierta /\ \E f \in Fases \ {"libre"} : fase' = [fase EXCEPT ![s] = f])
  BY DEF Twilio, NoContesta, ContestaMaquina, ContestaPersona, PierdeAviso, Bot,
         ToolReagendar, ToolPromesa, ToolEscalate, ToolOptOut, Cuelga, BotFalla, PostLee, PostEscribe,
         Aviso, AvisoCompleted, AvisoNoContesta, AvisoReprograma, dialerVars, attemptVars,
         Abierta, Fases
<1>4. \A t \in Attempts : /\ fase'[t] = "libre" <=> fase[t] = "libre"
                          /\ Viva(t)' => Viva(t)
  <2>1. CASE fase' = fase
    BY <1>1, <2>1 DEF Viva
  <2>2. CASE fase' # fase
    BY <1>1, <1>3, <2>2 DEF Viva, Abierta, TypeOK, DialerTypeOK
  <2>. QED
    BY <2>1, <2>2
<1>. QED
  BY <1>1, <1>2, <1>4, PlacedKeeps

LEMMA MarkPlaced ==
    ASSUME CadenceInv, TypeOK', NEW d \in Debtors, DespachoMarca(d)
    PROVE  PlacedShape'
<1>. USE DEF CadenceInv, AccountedInv
<1>. DEFINE s == nuevos + 1
<1>0. /\ s \in Attempts /\ despacho' = [despacho EXCEPT ![s] = dia]
      /\ tarea' = [tarea EXCEPT ![s] = "killswitch"]
      /\ UNCHANGED <<dia, fase, creada, suelta>>
  BY DEF DespachoMarca, clockVars
<1>1. fase[s] = "libre"
  BY <1>0 DEF CallShape, TypeOK, DialerTypeOK
<1>2. ASSUME NEW t \in Attempts, t # s
      PROVE  despacho'[t] = despacho[t] /\ tarea'[t] = tarea[t]
  BY <1>0, <1>2 DEF TypeOK, DialerTypeOK
<1>3. despacho'[s] = dia /\ dia # -1
  BY <1>0 DEF TypeOK, RowsTypeOK, DialerTypeOK
<1>4. ASSUME NEW t \in Attempts
      PROVE  /\ ~Saliente(t)' => fase'[t] = "libre" /\ creada'[t] = -1 /\ ~suelta'[t]
             /\ Saliente(t)' /\ fase'[t] # "libre"
                   => creada'[t] # -1 /\ (Viva(t)' => creada'[t] = dia')
  <2>1. CASE t = s
    BY <1>0, <1>1, <1>3, <2>1 DEF Saliente
  <2>2. CASE t # s
    BY <1>0, <1>2, <2>2 DEF PlacedShape, Saliente, Viva
  <2>. QED
    BY <2>1, <2>2
<1>. QED
  BY <1>4 DEF PlacedShape

LEMMA RestPlaced ==
    ASSUME CadenceInv, TypeOK', SoloCampania,
           (Job /\ ~\E d \in Debtors : DespachoMarca(d)) \/ Persona \/ Tiempo \/ Reinicio \/ UNCHANGED vars
    PROVE  PlacedShape'
<1>. USE DEF CadenceInv, AccountedInv
<1>1. UNCHANGED <<despacho, creada>>
  BY DEF Job, PlanLeeJob, DejaTodo, PlanEscribeJob, DejaTodoMenosSuelta, DespachoLee, DespachoMarca,
         RescateLee, RescateEscribe, Persona, SetAutocallEnabled, SetJornadaAuthorized, CambiaSaldo,
         Reactivar, LlamadaEntrante, Tiempo, PasaRato, ExpiraMapa, PasaHora, PasaDia, Reinicio,
         historyVars, dialerVars, attemptVars, vars
<1>2. \A t \in Attempts : suelta'[t] => suelta[t] \/ DeHoy(t)
  BY DEF Job, PlanLeeJob, DejaTodo, PlanEscribeJob, DejaTodoMenosSuelta, DespachoLee, DespachoMarca,
         RescateLee, RescateEscribe, Persona, SetAutocallEnabled, SetJornadaAuthorized, CambiaSaldo,
         Reactivar, LlamadaEntrante, Tiempo, PasaRato, ExpiraMapa, PasaHora, PasaDia, Reinicio,
         historyVars, dialerVars, attemptVars, vars, SueltaFila
<1>3. \A t \in Attempts : /\ fase'[t] = "libre" <=> fase[t] = "libre"
                          /\ Viva(t)' => Viva(t) /\ dia' = dia
  <2>1. CASE PasaDia
    <3>1. ASSUME NEW t \in Attempts PROVE ~Viva(t) /\ tarea'[t] = tarea[t] /\ fase'[t] = fase[t]
      <4>1. de[t] \in Debtors
        BY DEF TypeOK, DialerTypeOK
      <4>. QED
        BY <2>1, <4>1 DEF PasaDia, SinActividad, attemptVars
    <3>. QED
      BY <3>1 DEF Viva
  <2>2. CASE Reinicio
    BY <2>2 DEF Reinicio, Viva, Abierta, EnVuelo, clockVars
  <2>3. CASE ~PasaDia /\ ~Reinicio
    <3>1. UNCHANGED <<dia, tarea, fase>>
      BY <2>3 DEF Job, PlanLeeJob, PlanLee, DejaTodo, PlanEscribeJob, PlanEscribe, DejaTodoMenosSuelta,
             DespachoLee, RescateLee, RescateEscribe, Persona, SetAutocallEnabled, SetJornadaAuthorized,
             CambiaSaldo, MarcarPagado, PausarDebtor, Reactivar, ReactivarDebtor, PatchNoLlamar, WaEscalate,
             LlamadaEntrante, SoloCampania, Tiempo, PasaRato, ExpiraMapa, PasaHora, clockVars,
             historyVars, dialerVars, attemptVars, vars
    <3>. QED
      BY <3>1 DEF Viva
  <2>. QED
    BY <2>1, <2>2, <2>3
<1>. QED
  BY <1>1, <1>2, <1>3, PlacedKeeps

LEMMA BatchKept ==
    ASSUME CadenceInv, [Next]_vars
    PROVE  BatchShape'
<1>1. CASE DespachoLee
  BY <1>1 DEF DespachoLee, SonLideres, BatchShape
<1>2. CASE ~DespachoLee
  <2>1. lote' \subseteq lote
    BY <1>2 DEF Next, Job, PlanLeeJob, DejaTodo, PlanEscribeJob, DejaTodoMenosSuelta, DespachoMarca,
           RescateLee, RescateEscribe, Tarea, TareaKillswitch, TareaJornada, TareaSaldo, Gate,
           TareaMarca, TareaNumeroInvalido, TareaFallaCreate, TareaMapea, TareaVapi, TareaFallaMongo,
           Twilio, NoContesta, ContestaMaquina, ContestaPersona, PierdeAviso, Bot, ToolReagendar,
           ToolPromesa, ToolEscalate, ToolOptOut, Cuelga, BotFalla, PostLee, PostEscribe, Aviso,
           AvisoCompleted, AvisoNoContesta, AvisoReprograma, Persona, SetAutocallEnabled,
           SetJornadaAuthorized, CambiaSaldo, Reactivar, LlamadaEntrante, Tiempo, PasaRato, ExpiraMapa,
           PasaHora, PasaDia, Reinicio, loopVars, dialerVars, vars
  <2>. QED
    BY <2>1 DEF BatchShape, CadenceInv
<1>. QED
  BY <1>1, <1>2

LEMMA InitCadence == Init => CadenceInv
<1>. SUFFICES ASSUME Init PROVE CadenceInv
  OBVIOUS
<1>1. AccountedInv /\ OneCallInv
  BY InitAccounted, InitOneCall
<1>2. PlacedShape /\ BatchShape
  BY DEF Init, PlacedShape, BatchShape, Saliente, Viva
<1>3. ASSUME NEW d \in Debtors PROVE FilaLimpia(d)
  <2>1. Vivos(d) = {} /\ Leidos(d) = {}
    BY DEF Init, Vivos, Vivo, Saliente, Leidos
  <2>2. \A s \in Attempts : ~Reportado(s)
    BY DEF Init, Reportado, Saliente
  <2>. QED
    BY <2>1, <2>2 DEF Init, FilaLimpia, EnSuelta, EnPlan, EnLote, EnVivo, EnReporte, EnCopia, UnaCopia,
                      EnViejo, Agotada, Nunca, Agota
<1>. QED
  BY <1>1, <1>2, <1>3 DEF CadenceInv

LEMMA NextCadence ==
    ASSUME CadenceInv, SoloCampania, [Next]_vars
    PROVE  CadenceInv'
<1>. USE DEF CadenceInv, AccountedInv
<1>1. AccountedInv' /\ OneCallInv'
  BY NextAccounted, NextOneCall
<1>2. TypeOK' /\ HistoryKept
  BY <1>1, HistoryStep
<1>3. PlacedShape'
  BY <1>2, TaskPlaced, CallPlaced, MarkPlaced, RestPlaced DEF Next, Job
<1>4. BatchShape'
  BY BatchKept
<1>5. StaysClean
  <2>1. CASE Job
    BY <1>2, <2>1, PlanReadClean, PlanWriteClean, DispatchReadClean, MarkClean, RescueReadClean,
       RescheduleClean DEF Job
  <2>2. ASSUME NEW s \in Attempts, Tarea(s) \/ Twilio(s) \/ Bot(s) \/ Aviso(s) PROVE StaysClean
    <3>1. de[s] \in Debtors
      BY DEF TypeOK, DialerTypeOK
    <3>2. CASE ToolEscalate(s)
      BY <1>2, <3>1, <3>2, EscalateClean DEF ToolEscalate
    <3>3. CASE AvisoReprograma(s)
      BY <1>2, <3>1, <3>3, RescheduleClean
    <3>4. CASE AvisoNoContesta(s)
      BY <1>2, <3>4, BotQuietClean, ReadClean
    <3>. QED
      BY <1>2, <2>2, <3>2, <3>3, <3>4, TaskClean, TwilioClean, BotQuietClean, ReagendarClean, PostClean
         DEF Bot, Aviso
  <2>3. CASE Persona
    <3>1. CASE \E d \in Debtors : WaEscalate(d) /\ DejaTodo
      BY <1>2, <3>1, EscalateClean DEF WaEscalate, DejaTodo
    <3>2. CASE \E d \in Debtors : (MarcarPagado(d) /\ DejaTodo) \/ (PatchNoLlamar(d) /\ DejaTodo)
      BY <1>2, <3>2, PlainRowClean
    <3>3. CASE \/ \E v \in BOOLEAN : SetAutocallEnabled(v) /\ UNCHANGED callVars
               \/ \E v \in BOOLEAN : SetJornadaAuthorized(v) /\ UNCHANGED callVars
               \/ CambiaSaldo /\ UNCHANGED callVars
      <4>1. IdleStep
        BY <3>3 DEF SetAutocallEnabled, SetJornadaAuthorized, CambiaSaldo, IdleStep, clockVars, rowVars,
               debtorVars, loopVars, attemptVars, historyVars, callVars
      <4>. QED
        BY <1>2, <4>1, IdleClean
    <3>. QED
      BY <2>3, <3>1, <3>2, <3>3 DEF Persona, SoloCampania, PausarDebtor, Reactivar, ReactivarDebtor,
                                    LlamadaEntrante
  <2>4. CASE Tiempo
    <3>1. CASE \E s \in Attempts : ExpiraMapa(s)
      BY <1>2, <3>1, IdleClean DEF ExpiraMapa, IdleStep, clockVars, rowVars, debtorVars, loopVars,
                                   historyVars, callVars
    <3>2. CASE PasaHora
      BY <1>2, <3>2, IdleClean DEF PasaHora, IdleStep, rowVars, debtorVars, loopVars, attemptVars,
                                   historyVars, callVars
    <3>. QED
      BY <1>2, <2>4, <3>1, <3>2, PlainRowClean, DayClean DEF Tiempo
  <2>5. CASE UNCHANGED vars
    BY <1>2, <2>5, IdleClean DEF vars, IdleStep, clockVars, rowVars, debtorVars, dialerVars, loopVars,
                                 attemptVars, historyVars, callVars
  <2>. QED
    BY <1>2, <2>1, <2>2, <2>3, <2>4, <2>5, RestartClean DEF Next
<1>6. \A d \in Debtors : Estorbada(d)' \/ FilaLimpia(d)'
  BY <1>2, <1>5, EstorbadaStays DEF StaysClean
<1>. QED
  BY <1>1, <1>3, <1>4, <1>6

\* No step lowers the attempts of a clean row.
LEMMA IntentosGrow ==
    ASSUME CadenceInv, CadenceInv', [Next]_vars, NEW d \in Debtors
    PROVE  intentos'[d] >= intentos[d] \/ Estorbada(d)
<1>. USE DEF CadenceInv, AccountedInv
<1>0. TypeOK' /\ HistoryKept
  BY HistoryStep
<1>. SUFFICES ASSUME FilaLimpia(d), intentos' # intentos PROVE intentos'[d] >= intentos[d]
  BY DEF TypeOK, RowsTypeOK
<1>1. \/ \E e \in Debtors : intentos' = [intentos EXCEPT ![e] = @ + 1]
      \/ \E e \in Debtors : \/ RescateEscribe(e)
                            \/ \E s \in Attempts : de[s] = e /\ AvisoReprograma(s)
  <2>1. \A s \in Attempts : de[s] \in Debtors
    BY DEF TypeOK, DialerTypeOK
  <2>2. \/ \E s \in Attempts : ToolEscalate(s) \/ PostEscribe(s) \/ AvisoReprograma(s)
        \/ \E e \in Debtors : WaEscalate(e) \/ RescateEscribe(e)
    BY DEF Next, Job, PlanLeeJob, PlanLee, PlanEscribeJob, PlanEscribe, DespachoLee, DespachoMarca,
           RescateLee, Tarea, TareaKillswitch, TareaJornada, TareaSaldo, Gate,
           TareaMarca, TareaNumeroInvalido, TareaFallaCreate, TareaMapea, TareaVapi, TareaFallaMongo,
           Twilio, NoContesta, ContestaMaquina, ContestaPersona, PierdeAviso, Bot, ToolReagendar,
           ToolPromesa, ToolOptOut, Cuelga, BotFalla, PostLee, Aviso, AvisoCompleted,
           AvisoNoContesta, Persona, SetAutocallEnabled, SetJornadaAuthorized,
           CambiaSaldo, MarcarPagado, PausarDebtor, Reactivar, ReactivarDebtor, PatchNoLlamar,
           LlamadaEntrante, Tiempo, PasaRato, ExpiraMapa, PasaHora, PasaDia, Reinicio,
           debtorVars, rowVars, vars
  <2>. QED
    BY <2>1, <2>2 DEF ToolEscalate, WaEscalate, Escalate, PostEscribe
<1>2. CASE \E e \in Debtors : intentos' = [intentos EXCEPT ![e] = @ + 1]
  BY <1>2 DEF TypeOK, RowsTypeOK
<1>3. ASSUME NEW e \in Debtors, \/ RescateEscribe(e)
                                \/ \E s \in Attempts : de[s] = e /\ AvisoReprograma(s)
      PROVE  intentos'[d] >= intentos[d]
  <2>1. CASE e = d
    BY <1>0, <1>3, <2>1, RescheduleClean
  <2>2. CASE e # d
    BY <1>3, <2>2 DEF RescateEscribe, AvisoReprograma, RescheduleIntentoFallido, TypeOK, RowsTypeOK
  <2>. QED
    BY <2>1, <2>2
<1>. QED
  BY <1>1, <1>2, <1>3

\* While nobody pauses a row or calls in, no writer of intentos lowers it but
\* for a row that was escalated or handed back with a call placed: neither
\* the callback nor the rescue overwrites an attempt with the copy it has
\* read.
THEOREM NeverForgotten ==
    ASSUME SoloCampania
    PROVE  Spec => AttemptsNeverForgotten
<1>1. Init => CadenceInv
  BY InitCadence
<1>2. CadenceInv /\ [Next]_vars => CadenceInv'
  BY NextCadence
<1>3. CadenceInv /\ CadenceInv' /\ [Next]_vars
         => [\A d \in Debtors : intentos'[d] >= intentos[d] \/ Estorbada(d)]_vars
  BY IntentosGrow
<1>. QED
  BY <1>1, <1>2, <1>3, PTL DEF Spec, AttemptsNeverForgotten

\* Under the same conditions a row is agotado only after max_intentos
\* attempts, whoever decides it: planner, callback, rescue, or post-call
\* step, each on a copy of intentos read earlier.
THEOREM Exhausted ==
    ASSUME SoloCampania
    PROVE  Spec => []ExhaustedAfterMaxAttempts
<1>1. Init => CadenceInv
  BY InitCadence
<1>2. CadenceInv /\ [Next]_vars => CadenceInv'
  BY NextCadence
<1>3. CadenceInv => ExhaustedAfterMaxAttempts
  BY DEF CadenceInv, ExhaustedAfterMaxAttempts, FilaLimpia, Agotada
<1>. QED
  BY <1>1, <1>2, <1>3, PTL DEF Spec

-----------------------------------------------------------------------------
\* The register of attempts, and what a step of it does to one row.

Contable(d) == Cuenta(d) /\ ~Estorbada(d)

Deja(d) == /\ Hoy(d)' = Hoy(d)
           /\ Hechos(d)' = Hechos(d)
           /\ intentos'[d] = intentos[d]
           /\ Estorbada(d)' <=> Estorbada(d)
           /\ Contable(d)' <=> Contable(d)

SeAbre(d) == /\ Hoy(d) = "libre" /\ ~Contable(d)
             /\ Hoy(d)' = "abierta"
             /\ Hechos(d)' = Hechos(d) + 1
             /\ intentos'[d] = intentos[d]
             /\ Estorbada(d)' <=> Estorbada(d)
             /\ Contable(d)' <=> ~Estorbada(d)

SeLlama(d) == /\ Hoy(d) = "abierta" /\ Hoy(d)' = "llamada"
              /\ Hechos(d)' = Hechos(d) /\ intentos'[d] = intentos[d]
              /\ Estorbada(d)' <=> Estorbada(d)
              /\ Contable(d)' <=> Contable(d)

SeDevuelve(d) == /\ Hoy(d) # "libre" /\ Hoy(d)' = "libre"
                 /\ Hechos(d)' = Hechos(d) /\ intentos'[d] = intentos[d]
                 /\ \/ /\ Hoy(d) = "abierta" /\ (Estorbada(d)' <=> Estorbada(d))
                       /\ Contable(d)' => Contable(d)
                    \/ Estorbada(d)'

SeOlvida(d) == /\ Hoy(d)' = Hoy(d) /\ Hechos(d)' = Hechos(d) /\ intentos'[d] = intentos[d]
               /\ Estorbada(d)' <=> Estorbada(d)
               /\ ~Contable(d)'

SeCuenta(d) == /\ Contable(d) /\ Hoy(d) # "abierta"
               /\ Hoy(d)' = Hoy(d) /\ Hechos(d)' = Hechos(d)
               /\ intentos'[d] = intentos[d] + 1
               /\ Estorbada(d)' <=> Estorbada(d)
               /\ ~Contable(d)'

SeConfunde(d) == /\ Estorbada(d) /\ Estorbada(d)'
                 /\ Hoy(d)' = Hoy(d) /\ Hechos(d)' = Hechos(d)
                 /\ intentos'[d] \in 0..(IF Hoy(d) = "abierta" THEN Hechos(d) - 1 ELSE Hechos(d))

SeEscala(d) == /\ Estorbada(d)'
               /\ Hoy(d)' = Hoy(d) /\ Hechos(d)' = Hechos(d) + 1
               /\ intentos'[d] = intentos[d] + 1

Paso(d) == \/ Deja(d) \/ SeAbre(d) \/ SeLlama(d) \/ SeDevuelve(d)
           \/ SeOlvida(d) \/ SeCuenta(d) \/ SeConfunde(d) \/ SeEscala(d)

\* What happens to one row is a step of the register.
LEMMA OneEntry ==
    ASSUME NEW h, NEW d \in Debtors,
           \A e \in Debtors : Hoy(e)' = IF e = d THEN h ELSE Hoy(e)
    PROVE  [e \in Debtors |-> Hoy(e)]' = [[e \in Debtors |-> Hoy(e)] EXCEPT ![d] = h]
  OBVIOUS

LEMMA OneRow ==
    ASSUME TypeOK, TypeOK', NEW d \in Debtors, Paso(d), \A e \in Debtors : e # d => Deja(e)
    PROVE  [Registro!RegisterNext]_(Registro!register)
<1>. USE DEF Contable
<1>0. /\ intentos \in [Debtors -> Nat] /\ intentos' \in [Debtors -> Nat]
      /\ \A e \in Debtors : Estorbada(e)' \in BOOLEAN /\ Estorbada(e) \in BOOLEAN
  BY DEF TypeOK, RowsTypeOK, Estorbada
<1>1. CASE Deja(d)
  <2>1. UNCHANGED Registro!register
    BY <1>0, <1>1 DEF Deja, Registro!register
  <2>. QED
    BY <2>1
<1>2. CASE SeAbre(d)
  <2>1. \A e \in Debtors : Hoy(e)' = IF e = d THEN "abierta" ELSE Hoy(e)
    BY <1>2 DEF Deja, SeAbre
  <2>2. [e \in Debtors |-> Hoy(e)]' = [[e \in Debtors |-> Hoy(e)] EXCEPT ![d] = "abierta"]
    BY <2>1, OneEntry
  <2>3. [e \in Debtors |-> Hechos(e)]' = [[e \in Debtors |-> Hechos(e)] EXCEPT ![d] = @ + 1]
    <3>1. \A e \in Debtors : Hechos(e)' = IF e = d THEN Hechos(d) + 1 ELSE Hechos(e)
      BY <1>2 DEF Deja, SeAbre
    <3>. QED
      BY <3>1
  <2>4. intentos' = intentos
    BY <1>0, <1>2 DEF Deja, SeAbre
  <2>5. /\ {e \in Debtors : Contable(e)}'
              = {e \in Debtors : Contable(e)} \cup ({d} \ {e \in Debtors : Estorbada(e)})
        /\ {e \in Debtors : Estorbada(e)}' = {e \in Debtors : Estorbada(e)}
    BY <1>2 DEF Deja, SeAbre
  <2>6. Registro!Abre(d)
    BY <1>2, <2>2, <2>3, <2>4, <2>5 DEF SeAbre, Registro!Abre
  <2>. QED
    BY <2>6 DEF Registro!RegisterNext
<1>3. CASE SeLlama(d)
  <2>1. \A e \in Debtors : Hoy(e)' = IF e = d THEN "llamada" ELSE Hoy(e)
    BY <1>3 DEF Deja, SeLlama
  <2>2. [e \in Debtors |-> Hoy(e)]' = [[e \in Debtors |-> Hoy(e)] EXCEPT ![d] = "llamada"]
    BY <2>1, OneEntry
  <2>3. /\ [e \in Debtors |-> Hechos(e)]' = [e \in Debtors |-> Hechos(e)]
        /\ intentos' = intentos
    BY <1>0, <1>3 DEF Deja, SeLlama
  <2>4. /\ {e \in Debtors : Contable(e)}' = {e \in Debtors : Contable(e)}
        /\ {e \in Debtors : Estorbada(e)}' = {e \in Debtors : Estorbada(e)}
    BY <1>3 DEF Deja, SeLlama
  <2>5. Registro!Llama(d)
    BY <1>3, <2>2, <2>3, <2>4 DEF SeLlama, Registro!Llama
  <2>. QED
    BY <2>5 DEF Registro!RegisterNext
<1>4. CASE SeDevuelve(d)
  <2>1. \A e \in Debtors : Hoy(e)' = IF e = d THEN "libre" ELSE Hoy(e)
    BY <1>4 DEF Deja, SeDevuelve
  <2>2. [e \in Debtors |-> Hoy(e)]' = [[e \in Debtors |-> Hoy(e)] EXCEPT ![d] = "libre"]
    BY <2>1, OneEntry
  <2>3. /\ [e \in Debtors |-> Hechos(e)]' = [e \in Debtors |-> Hechos(e)]
        /\ intentos' = intentos
    BY <1>0, <1>4 DEF Deja, SeDevuelve
  <2>4. \/ /\ Hoy(d) = "abierta"
           /\ {e \in Debtors : Estorbada(e)}' = {e \in Debtors : Estorbada(e)}
           /\ {e \in Debtors : Contable(e)}'
                 \in {{e \in Debtors : Contable(e)}, {e \in Debtors : Contable(e)} \ {d}}
        \/ /\ {e \in Debtors : Estorbada(e)}' = {e \in Debtors : Estorbada(e)} \cup {d}
           /\ {e \in Debtors : Contable(e)}' = {e \in Debtors : Contable(e)} \ {d}
    <3>1. CASE Estorbada(d)'
      BY <1>4, <3>1 DEF Deja, SeDevuelve
    <3>2. CASE ~Estorbada(d)'
      BY <1>4, <3>2 DEF Deja, SeDevuelve
    <3>. QED
      BY <3>1, <3>2
  <2>5. Registro!Devuelve(d)
    BY <1>4, <2>2, <2>3, <2>4 DEF SeDevuelve, Registro!Devuelve
  <2>. QED
    BY <2>5 DEF Registro!RegisterNext
<1>5. CASE SeOlvida(d)
  <2>1. Registro!Olvida(d)
    BY <1>0, <1>5 DEF Deja, SeOlvida, Registro!Olvida
  <2>. QED
    BY <2>1 DEF Registro!RegisterNext
<1>6. CASE SeCuenta(d)
  <2>1. Registro!Cuenta(d)
    BY <1>0, <1>6 DEF Deja, SeCuenta, Registro!Cuenta
  <2>. QED
    BY <2>1 DEF Registro!RegisterNext
<1>7. CASE SeConfunde(d)
  <2>1. Registro!Confunde(d)
    BY <1>0, <1>7 DEF Deja, SeConfunde, Registro!Confunde
  <2>. QED
    BY <2>1 DEF Registro!RegisterNext
<1>8. CASE SeEscala(d)
  <2>1. Registro!Escala(d)
    BY <1>0, <1>8 DEF Deja, SeEscala, Registro!Escala
  <2>. QED
    BY <2>1 DEF Registro!RegisterNext
<1>. QED
  BY <1>1, <1>2, <1>3, <1>4, <1>5, <1>6, <1>7, <1>8 DEF Paso

\* A row whose document and attempts a step leaves alone.  A number that no
\* attempt has used yet may pass from one row to another.
Blanco(t) == ~Saliente(t) /\ ~Abierto(t) /\ cb[t] # "reprograma" /\ ~suelta[t]

Aparte(e) ==
    /\ dia' = dia
    /\ estado'[e] = estado[e] /\ vapi'[e] = vapi[e] /\ intentos'[e] = intentos[e]
    /\ escaladas'[e] = escaladas[e] /\ rescate'[e] = rescate[e]
    /\ \A t \in Attempts :
          \/ /\ de[t] = e /\ de'[t] = e
             /\ tarea'[t] = tarea[t] /\ fase'[t] = fase[t] /\ cb'[t] = cb[t] /\ snap'[t] = snap[t]
             /\ despacho'[t] = despacho[t] /\ creada'[t] = creada[t] /\ suelta'[t] = suelta[t]
          \/ (de[t] # e \/ Blanco(t)) /\ (de'[t] # e \/ Blanco(t)')

LEMMA AparteDeja ==
    ASSUME NEW e \in Debtors, Aparte(e)
    PROVE  Deja(e)
<1>1. ASSUME NEW t \in Attempts
      PROVE  /\ de'[t] = e /\ Abierto(t)' <=> de[t] = e /\ Abierto(t)
             /\ de'[t] = e /\ Abierto(t)' => creada'[t] = creada[t]
             /\ de'[t] = e /\ Saliente(t)' <=> de[t] = e /\ Saliente(t)
             /\ de'[t] = e /\ Vivo(t)' <=> de[t] = e /\ Vivo(t)
             /\ de'[t] = e /\ Reportado(t)' <=> de[t] = e /\ Reportado(t)
             /\ de'[t] = e /\ cb'[t] = "reprograma" <=> de[t] = e /\ cb[t] = "reprograma"
             /\ de'[t] = e /\ cb'[t] = "reprograma" => snap'[t] = snap[t]
             /\ de'[t] = e /\ suelta'[t] /\ creada'[t] # -1 <=> de[t] = e /\ suelta[t] /\ creada[t] # -1
  <2>1. CASE /\ de[t] = e /\ de'[t] = e
             /\ tarea'[t] = tarea[t] /\ fase'[t] = fase[t] /\ cb'[t] = cb[t] /\ snap'[t] = snap[t]
             /\ despacho'[t] = despacho[t] /\ creada'[t] = creada[t] /\ suelta'[t] = suelta[t]
    BY <2>1 DEF Aparte, Abierto, DeHoy, Saliente, Vivo, Reportado
  <2>2. CASE (de[t] # e \/ Blanco(t)) /\ (de'[t] # e \/ Blanco(t)')
    BY <2>2 DEF Blanco, Vivo, Reportado
  <2>. QED
    BY <2>1, <2>2 DEF Aparte
<1>2. Hoy(e)' = Hoy(e)
  BY <1>1 DEF Hoy, Aparte
<1>3. Hechos(e)' = Hechos(e)
  <2>1. Despachos(e)' = Despachos(e)
    BY <1>1 DEF Despachos
  <2>. QED
    BY <2>1 DEF Hechos, Aparte
<1>4. Estorbada(e)' <=> Estorbada(e)
  BY <1>1 DEF Estorbada, Aparte
<1>5. Cuenta(e)' <=> Cuenta(e)
  <2>1. PorContar(e)' = PorContar(e)
    BY <1>1 DEF PorContar
  <2>2. Leidos(e)' = Leidos(e)
    BY <1>1 DEF Leidos, Aparte
  <2>. QED
    BY <2>1, <2>2 DEF Cuenta, Aparte
<1>. QED
  BY <1>2, <1>3, <1>4, <1>5 DEF Deja, Contable, Aparte

\* A quiet step makes no attempt count that did not.
LEMMA QuietCuenta ==
    ASSUME AccountedInv, TypeOK', QuietStep, NEW d \in Debtors, intentos'[d] = intentos[d]
    PROVE  /\ Hechos(d)' = Hechos(d) /\ escaladas'[d] = escaladas[d]
           /\ Cuenta(d)' => Cuenta(d)
<1>1. /\ estado'[d] = "llamando" => estado[d] = "llamando"
      /\ escaladas'[d] = escaladas[d]
  BY DEF QuietStep, QuietRow, AccountedInv, TypeOK, RowsTypeOK
<1>2. Despachos(d)' = Despachos(d) /\ PorContar(d)' \subseteq PorContar(d)
  BY QuietAttempts DEF QuietStep, QuietSets
<1>3. Leidos(d)' \subseteq Leidos(d)
  <2>1. \A s \in Attempts : cb'[s] = "reprograma" => cb[s] = "reprograma" /\ snap'[s] = snap[s]
                                                    /\ de'[s] = de[s]
    BY DEF QuietStep, QuietAttempt, AccountedInv, CallShape
  <2>. QED
    BY <2>1 DEF Leidos, QuietStep
<1>. QED
  BY <1>1, <1>2, <1>3 DEF Hechos, Cuenta

\* The attempts of a row go on, its calls are placed, or it is handed back.
Avanza(d) ==
    /\ dia' = dia
    /\ \A t \in Attempts :
          /\ de'[t] = d <=> de[t] = d
          /\ de[t] = d => /\ \/ creada'[t] = creada[t]
                             \/ creada'[t] = dia /\ tarea[t] \in EnVuelo /\ Vivo(t)'
                          /\ tarea'[t] \in EnVuelo => tarea[t] \in EnVuelo
    /\ \/ \A t \in Attempts : de[t] = d => suelta'[t] = suelta[t]
       \/ \A t \in Attempts : de[t] = d => (suelta'[t] <=> suelta[t] \/ DeHoy(t))

LEMMA GoesOn ==
    ASSUME CadenceInv, TypeOK', HistoryKept, QuietStep, NEW d \in Debtors,
           intentos'[d] = intentos[d], Avanza(d)
    PROVE  Paso(d)
<1>. USE DEF CadenceInv, AccountedInv
<1>1. /\ Hechos(d)' = Hechos(d) /\ escaladas'[d] = escaladas[d]
      /\ Cuenta(d)' => Cuenta(d)
  BY QuietCuenta
<1>2. Estorbada(d) => Estorbada(d)'
  BY EstorbadaStays
<1>3. ASSUME NEW t \in Attempts, de[t] = d, Abierto(t)'
      PROVE  /\ Abierto(t) /\ de'[t] = d
             /\ creada[t] = dia => creada'[t] = dia
             /\ creada'[t] = dia /\ creada[t] # dia => Vivo(t)'
  <2>1. ~suelta[t] /\ DeHoy(t)
    BY <1>3 DEF Abierto, DeHoy, Avanza
  <2>. QED
    BY <1>3, <2>1 DEF Abierto, Avanza
<1>4. Hoy(d) = "libre" => Hoy(d)' = "libre"
  BY <1>3 DEF Hoy, Avanza
<1>5. Hoy(d) = "llamada" => Hoy(d)' = "llamada" \/ (Hoy(d)' = "libre" /\ Estorbada(d)')
  <2>. SUFFICES ASSUME Hoy(d) = "llamada"
                PROVE  Hoy(d)' = "llamada" \/ (Hoy(d)' = "libre" /\ Estorbada(d)')
    OBVIOUS
  <2>. PICK s \in Attempts : de[s] = d /\ Abierto(s) /\ creada[s] = dia
    BY DEF Hoy
  <2>1. creada'[s] = dia /\ dia' = dia /\ de'[s] = d /\ dia # -1
    BY DEF Avanza, TypeOK, RowsTypeOK
  <2>2. CASE ~suelta'[s]
    <3>1. Abierto(s)'
      BY <2>1, <2>2 DEF Abierto, DeHoy
    <3>. QED
      BY <2>1, <3>1 DEF Hoy
  <2>3. CASE suelta'[s]
    <3>1. \A t \in Attempts : de[t] = d => (suelta'[t] <=> suelta[t] \/ DeHoy(t))
      BY <2>3 DEF Avanza, Abierto
    <3>2. \A t \in Attempts : de'[t] = d => ~Abierto(t)'
      BY <1>3, <3>1 DEF Abierto, Avanza
    <3>. QED
      BY <2>1, <2>3, <3>2 DEF Hoy, Estorbada
  <2>. QED
    BY <2>2, <2>3
<1>6. Estorbada(d)' /\ ~Estorbada(d) => Hoy(d) # "libre" /\ Hoy(d)' = "libre"
  <2>. SUFFICES ASSUME Estorbada(d)', ~Estorbada(d) PROVE Hoy(d) # "libre" /\ Hoy(d)' = "libre"
    OBVIOUS
  <2>. PICK s \in Attempts : de'[s] = d /\ suelta'[s] /\ creada'[s] # -1
    BY <1>1 DEF Estorbada
  <2>1. de[s] = d /\ ~suelta[s]
    <3>1. FilaLimpia(d)
      OBVIOUS
    <3>. QED
      BY <3>1 DEF Avanza, Estorbada, FilaLimpia, EnSuelta
  <2>2. \A t \in Attempts : de[t] = d => (suelta'[t] <=> suelta[t] \/ DeHoy(t))
    BY <2>1 DEF Avanza, TypeOK, DialerTypeOK
  <2>3. Abierto(s)
    BY <2>1, <2>2 DEF Abierto
  <2>4. \A t \in Attempts : de'[t] = d => ~Abierto(t)'
    BY <1>3, <2>2 DEF Abierto, Avanza
  <2>. QED
    BY <2>1, <2>3, <2>4 DEF Hoy
<1>7. Hoy(d) = "abierta" /\ Hoy(d)' = "llamada" => Cuenta(d)'
  <2>. SUFFICES ASSUME Hoy(d) = "abierta", Hoy(d)' = "llamada" PROVE Cuenta(d)'
    OBVIOUS
  <2>. PICK s \in Attempts : de'[s] = d /\ Abierto(s)' /\ creada'[s] = dia
    BY DEF Hoy, Avanza
  <2>1. de[s] = d /\ Abierto(s)
    BY <1>3 DEF Avanza
  <2>2. creada[s] # dia
    BY <2>1 DEF Hoy
  <2>3. Vivo(s)'
    BY <1>3, <2>1, <2>2
  <2>. QED
    BY <2>3 DEF Cuenta, PorContar
<1>8. Hoy(d) \in {"libre", "abierta", "llamada"} /\ Hoy(d)' \in {"libre", "abierta", "llamada"}
  BY DEF Hoy
<1>9. CASE Hoy(d)' = Hoy(d)
  BY <1>1, <1>2, <1>6, <1>9 DEF Paso, Deja, SeOlvida, Contable
<1>10. CASE Hoy(d) = "abierta" /\ Hoy(d)' = "llamada"
  BY <1>1, <1>2, <1>6, <1>7, <1>10 DEF Paso, SeLlama, Contable
<1>11. CASE Hoy(d) # "libre" /\ Hoy(d)' = "libre"
  <2>1. Hoy(d) = "abierta" \/ Estorbada(d)'
    BY <1>5, <1>8, <1>11
  <2>. QED
    BY <1>1, <1>2, <1>11, <2>1 DEF Paso, SeDevuelve, Contable
<1>. QED
  BY <1>4, <1>5, <1>8, <1>9, <1>10, <1>11

LEMMA NoRow ==
    ASSUME TypeOK, TypeOK', \A e \in Debtors : Deja(e)
    PROVE  [Registro!RegisterNext]_(Registro!register)
<1>1. intentos \in [Debtors -> Nat] /\ intentos' \in [Debtors -> Nat]
  BY DEF TypeOK, RowsTypeOK
<1>2. UNCHANGED Registro!register
  BY <1>1 DEF Deja, Contable, Registro!register
<1>. QED
  BY <1>2

\* A quiet step of one row.
LEMMA QuietTurn ==
    ASSUME CadenceInv, TypeOK', HistoryKept, QuietStep, NEW d \in Debtors,
           UNCHANGED <<dia, de, despacho, intentos, rescate>>,
           \A e \in Debtors : e # d => estado'[e] = estado[e] /\ vapi'[e] = vapi[e],
           \A t \in Attempts :
              /\ de[t] # d => /\ tarea'[t] = tarea[t] /\ fase'[t] = fase[t] /\ cb'[t] = cb[t]
                              /\ snap'[t] = snap[t] /\ creada'[t] = creada[t]
              /\ \/ creada'[t] = creada[t]
                 \/ creada'[t] = dia /\ tarea[t] \in EnVuelo /\ Vivo(t)'
              /\ tarea'[t] \in EnVuelo => tarea[t] \in EnVuelo,
           suelta' = suelta \/ \E c : SueltaFila(d, c)
    PROVE  [Registro!RegisterNext]_(Registro!register)
<1>. USE DEF CadenceInv, AccountedInv
<1>1. /\ \A t \in Attempts : de[t] # d => suelta'[t] = suelta[t]
      /\ \/ \A t \in Attempts : de[t] = d => suelta'[t] = suelta[t]
         \/ \A t \in Attempts : de[t] = d => (suelta'[t] <=> suelta[t] \/ DeHoy(t))
  <2>1. CASE suelta' = suelta
    BY <2>1
  <2>2. ASSUME NEW c, SueltaFila(d, c)
        PROVE  /\ \A t \in Attempts : de[t] # d => suelta'[t] = suelta[t]
               /\ \/ \A t \in Attempts : de[t] = d => suelta'[t] = suelta[t]
                  \/ \A t \in Attempts : de[t] = d => (suelta'[t] <=> suelta[t] \/ DeHoy(t))
    <3>1. suelta \in [Attempts -> BOOLEAN]
      BY DEF TypeOK, DialerTypeOK
    <3>2. CASE ~HasBeenContactedToday(d) /\ c.dia <= dia
      BY <2>2, <3>1, <3>2 DEF SueltaFila
    <3>3. CASE ~(~HasBeenContactedToday(d) /\ c.dia <= dia)
      BY <2>2, <3>1, <3>3 DEF SueltaFila
    <3>. QED
      BY <3>2, <3>3
  <2>. QED
    BY <2>1, <2>2
<1>2. Avanza(d)
  BY <1>1 DEF Avanza
<1>3. Paso(d)
  BY <1>2, GoesOn
<1>4. ASSUME NEW e \in Debtors, e # d PROVE Deja(e)
  <2>1. escaladas'[e] = escaladas[e]
    BY QuietCuenta
  <2>2. Aparte(e)
    BY <1>1, <1>4, <2>1 DEF Aparte
  <2>. QED
    BY <2>2, AparteDeja
<1>. QED
  BY <1>3, <1>4, OneRow

LEMMA TaskRegisters ==
    ASSUME CadenceInv, TypeOK', HistoryKept, NEW s \in Attempts, Tarea(s)
    PROVE  [Registro!RegisterNext]_(Registro!register)
<1>. USE DEF CadenceInv, AccountedInv
<1>. PICK d \in Debtors : d = de[s]
  BY DEF TypeOK, DialerTypeOK
<1>1. QuietStep
  BY TaskQuiet
<1>2. /\ UNCHANGED <<dia, de, despacho, intentos, rescate, cb, snap>>
      /\ \A t \in Attempts : t # s => tarea'[t] = tarea[t] /\ fase'[t] = fase[t] /\ creada'[t] = creada[t]
      /\ tarea[s] \in EnVuelo
  BY DEF Tarea, TareaKillswitch, TareaJornada, TareaSaldo, Gate, Aborta, TareaMarca, TareaMapea,
         TareaVapi, TareaNumeroInvalido, TareaFallaCreate, TareaFallaMongo, callVars, clockVars,
         rowVars, debtorVars, historyVars, EnVuelo, TypeOK, DialerTypeOK
<1>3. \A e \in Debtors : e # d => estado'[e] = estado[e] /\ vapi'[e] = vapi[e]
  BY DEF Tarea, TareaKillswitch, TareaJornada, TareaSaldo, Gate, Aborta, TareaMarca, TareaMapea,
         TareaVapi, TareaNumeroInvalido, TareaFallaCreate, TareaFallaMongo, PonEstado, rowVars,
         debtorVars, TypeOK, RowsTypeOK
<1>4. suelta' = suelta \/ SueltaFila(d, cita[d])
  BY DEF Tarea, TareaKillswitch, TareaJornada, TareaSaldo, Gate, Aborta, TareaMarca, TareaMapea,
         TareaVapi, TareaNumeroInvalido, TareaFallaCreate, TareaFallaMongo, historyVars
<1>5. creada' = creada \/ (creada' = [creada EXCEPT ![s] = dia] /\ fase'[s] = "timbrando")
  BY DEF Tarea, TareaKillswitch, TareaJornada, TareaSaldo, Gate, Aborta, TareaMarca, TareaMapea,
         TareaVapi, TareaNumeroInvalido, TareaFallaCreate, TareaFallaMongo, historyVars, TypeOK, DialerTypeOK
<1>6. fase'[s] = "timbrando" => Vivo(s)'
  BY <1>2 DEF CallShape, EnVuelo, Vivo, Saliente, Abierta
<1>7. \A t \in Attempts : \/ creada'[t] = creada[t]
                          \/ creada'[t] = dia /\ tarea[t] \in EnVuelo /\ Vivo(t)'
  BY <1>2, <1>5, <1>6 DEF TypeOK, DialerTypeOK
<1>. QED
  BY <1>1, <1>2, <1>3, <1>4, <1>7, QuietTurn

\* The callback that does not find the row it reports.
LEMMA MissQuiet ==
    ASSUME AccountedInv, NEW s \in Attempts, AvisoNoContesta(s),
           ~(vapi[de[s]] = s /\ estado[de[s]] = "llamando")
    PROVE  QuietStep
<1>. USE DEF AccountedInv, TypeOK, DialerTypeOK, CallsTypeOK
<1>1. /\ UNCHANGED <<de, despacho, tarea, fase, vapi, estado, viejo, intentos, escaladas, rescate, snap>>
      /\ cb' = [cb EXCEPT ![s] = "no"]
  BY DEF AvisoNoContesta, rowVars, debtorVars, historyVars
<1>2. \A t \in Attempts : QuietAttempt(t)
  BY <1>1 DEF QuietAttempt, Vivo, Reportado, Saliente
<1>. QED
  BY <1>1, <1>2 DEF QuietStep, QuietRow

LEMMA CallRegisters ==
    ASSUME CadenceInv, TypeOK', HistoryKept, NEW s \in Attempts,
           \/ Twilio(s)
           \/ ToolReagendar(s) \/ ToolPromesa(s) \/ ToolOptOut(s)
           \/ Cuelga(s) \/ BotFalla(s) \/ PostLee(s) \/ AvisoCompleted(s)
           \/ AvisoNoContesta(s) /\ ~(vapi[de[s]] = s /\ estado[de[s]] = "llamando")
    PROVE  [Registro!RegisterNext]_(Registro!register)
<1>. USE DEF CadenceInv, AccountedInv
<1>. PICK d \in Debtors : d = de[s]
  BY DEF TypeOK, DialerTypeOK
<1>1. QuietStep
  BY TwilioQuiet, ToolQuiet, HangUpQuiet, MissQuiet
<1>2. /\ UNCHANGED <<dia, de, despacho, intentos, rescate, vapi, tarea, creada>>
      /\ suelta' = suelta \/ \E c : SueltaFila(d, c)
  BY DEF Twilio, NoContesta, ContestaMaquina, ContestaPersona, PierdeAviso, ToolReagendar, ToolPromesa,
         ToolOptOut, Cuelga, BotFalla, PostLee, AvisoCompleted, AvisoNoContesta, clockVars, rowVars,
         debtorVars, dialerVars, attemptVars, historyVars, callVars
<1>3. \A e \in Debtors : e # d => estado'[e] = estado[e]
  BY DEF Twilio, NoContesta, ContestaMaquina, ContestaPersona, PierdeAviso, ToolReagendar, ToolPromesa,
         ToolOptOut, Cuelga, BotFalla, PostLee, AvisoCompleted, AvisoNoContesta, PonEstado, rowVars,
         debtorVars, TypeOK, RowsTypeOK
<1>4. \A t \in Attempts : t # s => fase'[t] = fase[t] /\ cb'[t] = cb[t] /\ snap'[t] = snap[t]
  BY DEF Twilio, NoContesta, ContestaMaquina, ContestaPersona, PierdeAviso, ToolReagendar, ToolPromesa,
         ToolOptOut, Cuelga, BotFalla, PostLee, AvisoCompleted, AvisoNoContesta, dialerVars, attemptVars,
         callVars, TypeOK, DialerTypeOK, CallsTypeOK
<1>. QED
  BY <1>1, <1>2, <1>3, <1>4, QuietTurn

\* Planner and dashboard write one row.
LEMMA RowRegisters ==
    ASSUME CadenceInv, TypeOK', HistoryKept, NEW d \in Debtors,
           PlanEscribeJob(d) \/ (MarcarPagado(d) /\ DejaTodo)
    PROVE  [Registro!RegisterNext]_(Registro!register)
<1>. USE DEF CadenceInv, AccountedInv
<1>1. QuietStep
  BY PlanQuiet, DashboardQuiet
<1>2. /\ UNCHANGED <<dia, de, despacho, intentos, rescate, vapi, tarea, fase, cb, snap, creada>>
      /\ suelta' = suelta \/ \E c : SueltaFila(d, c)
  BY DEF PlanEscribeJob, PlanEscribe, DejaTodoMenosSuelta, MarcarPagado, DejaTodo, clockVars,
         dialerVars, attemptVars, historyVars, callVars
<1>3. \A e \in Debtors : e # d => estado'[e] = estado[e]
  BY DEF PlanEscribeJob, PlanEscribe, MarcarPagado, PonEstado, TypeOK, RowsTypeOK
<1>. QED
  BY <1>1, <1>2, <1>3, QuietTurn

\* Reads, switches and the clock within the day.
LEMMA IdleRegisters ==
    ASSUME CadenceInv, TypeOK',
           \/ \E d \in Debtors : \/ PlanLeeJob(d) \/ PasaRato(d)
                                 \/ PatchNoLlamar(d) /\ DejaTodo
           \/ DespachoLee /\ UNCHANGED callVars
           \/ \E v \in BOOLEAN : \/ SetAutocallEnabled(v) /\ UNCHANGED callVars
                                 \/ SetJornadaAuthorized(v) /\ UNCHANGED callVars
           \/ CambiaSaldo /\ UNCHANGED callVars
           \/ \E s \in Attempts : ExpiraMapa(s)
           \/ PasaHora
           \/ UNCHANGED vars
    PROVE  [Registro!RegisterNext]_(Registro!register)
<1>1. UNCHANGED <<dia, estado, vapi, intentos, escaladas, rescate, de, tarea, fase, cb, snap,
                  despacho, creada, suelta>>
  BY DEF PlanLeeJob, PlanLee, PasaRato, PatchNoLlamar, DejaTodo, DespachoLee, SetAutocallEnabled,
         SetJornadaAuthorized, CambiaSaldo, ExpiraMapa, PasaHora, clockVars, rowVars, debtorVars,
         dialerVars, attemptVars, historyVars, callVars, vars
<1>2. ASSUME NEW e \in Debtors PROVE Deja(e)
  <2>1. Aparte(e)
    BY <1>1 DEF Aparte
  <2>. QED
    BY <2>1, AparteDeja
<1>. QED
  BY <1>2, NoRow DEF CadenceInv, AccountedInv

\* The rescue and the callback read rows that are in llamando: their attempt
\* may count, before and after.
LEMMA CopyDeja ==
    ASSUME NEW d \in Debtors, estado[d] = "llamando",
           UNCHANGED <<dia, estado, intentos, escaladas, de, tarea, despacho, creada, suelta>>
    PROVE  Deja(d)
<1>1. /\ Hoy(d)' = Hoy(d) /\ Hechos(d)' = Hechos(d)
      /\ Estorbada(d)' <=> Estorbada(d)
  BY DEF Hoy, Abierto, DeHoy, Hechos, Despachos, Saliente, Estorbada
<1>2. Cuenta(d) /\ Cuenta(d)'
  BY DEF Cuenta
<1>. QED
  BY <1>1, <1>2 DEF Deja, Contable

LEMMA ReadRegisters ==
    ASSUME CadenceInv, TypeOK',
           \/ RescateLee
           \/ \E s \in Attempts : AvisoNoContesta(s) /\ vapi[de[s]] = s /\ estado[de[s]] = "llamando"
    PROVE  [Registro!RegisterNext]_(Registro!register)
<1>. USE DEF CadenceInv, AccountedInv
<1>1. UNCHANGED <<dia, estado, vapi, intentos, escaladas, de, tarea, fase, despacho, creada, suelta>>
  BY DEF RescateLee, AvisoNoContesta, clockVars, rowVars, debtorVars, dialerVars, attemptVars, historyVars
<1>2. ASSUME NEW e \in Debtors PROVE Deja(e)
  <2>1. CASE estado[e] = "llamando"
    BY <1>1, <2>1, CopyDeja
  <2>2. CASE estado[e] # "llamando"
    <3>1. rescate'[e] = rescate[e]
      BY <2>2 DEF RescateLee, Atascado, AvisoNoContesta
    <3>2. \A t \in Attempts : de[t] = e => cb'[t] = cb[t] /\ snap'[t] = snap[t]
      BY <2>2 DEF RescateLee, AvisoNoContesta, TypeOK, CallsTypeOK
    <3>3. Aparte(e)
      BY <1>1, <3>1, <3>2 DEF Aparte
    <3>. QED
      BY <3>3, AparteDeja
  <2>. QED
    BY <2>1, <2>2
<1>. QED
  BY <1>2, NoRow

LEMMA EscalateRegisters ==
    ASSUME CadenceInv, TypeOK', NEW d \in Debtors, Escalate(d),
           UNCHANGED <<clockVars, dialerVars, callVars>>
    PROVE  [Registro!RegisterNext]_(Registro!register)
<1>. USE DEF CadenceInv, AccountedInv
<1>1. /\ UNCHANGED <<dia, vapi, de, tarea, fase, cb, snap, rescate, despacho, creada, suelta>>
      /\ intentos' = [intentos EXCEPT ![d] = @ + 1]
      /\ escaladas' = [escaladas EXCEPT ![d] = @ + 1]
      /\ \A e \in Debtors : e # d => estado'[e] = estado[e]
  BY DEF Escalate, PonEstado, clockVars, dialerVars, attemptVars, historyVars, callVars, TypeOK, RowsTypeOK
<1>2. /\ intentos'[d] = intentos[d] + 1 /\ escaladas'[d] = escaladas[d] + 1
      /\ escaladas[d] \in Nat
      /\ \A e \in Debtors : e # d => intentos'[e] = intentos[e] /\ escaladas'[e] = escaladas[e]
  BY <1>1 DEF TypeOK, RowsTypeOK
<1>3. SeEscala(d)
  <2>1. Estorbada(d)'
    BY <1>2 DEF Estorbada
  <2>2. Hoy(d)' = Hoy(d)
    BY <1>1 DEF Hoy, Abierto, DeHoy
  <2>3. Hechos(d)' = Hechos(d) + 1
    <3>1. Despachos(d)' = Despachos(d)
      BY <1>1 DEF Despachos, Saliente
    <3>. QED
      BY <1>2, <3>1, AttemptSets DEF Hechos
  <2>. QED
    BY <1>2, <2>1, <2>2, <2>3 DEF SeEscala
<1>4. ASSUME NEW e \in Debtors, e # d PROVE Deja(e)
  <2>1. Aparte(e)
    BY <1>1, <1>2, <1>4 DEF Aparte
  <2>. QED
    BY <2>1, AparteDeja
<1>. QED
  BY <1>3, <1>4, OneRow DEF Paso

\* An attempt whose call does not exist is not counted, on any row.
LEMMA OpenNotCounted ==
    ASSUME CadenceInv', NEW d \in Debtors, Hoy(d)' = "abierta"
    PROVE  intentos'[d] + 1 <= Hechos(d)'
<1>. USE DEF CadenceInv, AccountedInv
<1>. PICK s \in Attempts : de'[s] = d /\ Abierto(s)' /\ creada'[s] # dia'
  BY DEF Hoy
<1>1. tarea'[s] \in EnVuelo
  BY DEF Abierto, DeHoy
<1>2. Saliente(s)'
  BY <1>1 DEF CallShape, EnVuelo
<1>3. fase'[s] = "libre"
  BY <1>1, <1>2 DEF PlacedShape, Viva
<1>4. s \in PorContar(d)'
  BY <1>1, <1>2, <1>3 DEF PorContar, Vivo
<1>5. Cardinality(PorContar(d)') >= 1
  <2>1. IsFiniteSet(PorContar(d)') /\ Cardinality(PorContar(d)') \in Nat
    BY AttemptSetsNext
  <2>2. Cardinality({}) <= Cardinality(PorContar(d)') - 1
    BY <1>4, <2>1, OneLess
  <2>. QED
    BY <2>1, <2>2, FS_EmptySet
<1>6. /\ intentos'[d] + Cardinality(PorContar(d)') <= Hechos(d)'
      /\ intentos'[d] \in Nat /\ Hechos(d)' \in Nat /\ Cardinality(PorContar(d)') \in Nat
  BY AttemptSetsNext DEF CountedRow, Hechos, TypeOK, RowsTypeOK
<1>. QED
  BY <1>5, <1>6

\* A row that stays estorbada may be counted wrong, but within this bound.
LEMMA Overwritten ==
    ASSUME CadenceInv', NEW d \in Debtors, Estorbada(d), Estorbada(d)',
           Hoy(d)' = Hoy(d), Hechos(d)' = Hechos(d)
    PROVE  Paso(d)
<1>1. intentos'[d] <= Hechos(d)' /\ intentos'[d] \in Nat /\ Hechos(d)' \in Nat
  BY AttemptSetsNext DEF CadenceInv, AccountedInv, CountedRow, Hechos, TypeOK, RowsTypeOK
<1>2. Hoy(d) = "abierta" => intentos'[d] <= Hechos(d) - 1
  BY <1>1, OpenNotCounted
<1>. QED
  BY <1>1, <1>2 DEF Paso, SeConfunde

\* A step that writes estado, intentos and SID of one row, of whose attempts
\* no call is placed and none is handed back.
LEMMA WrittenRow ==
    ASSUME NEW d \in Debtors,
           UNCHANGED <<dia, escaladas, de, tarea, despacho, creada, suelta>>,
           \A e \in Debtors : e # d => /\ estado'[e] = estado[e] /\ vapi'[e] = vapi[e]
                                       /\ intentos'[e] = intentos[e] /\ rescate'[e] = rescate[e],
           \A t \in Attempts : de[t] # d => fase'[t] = fase[t] /\ cb'[t] = cb[t] /\ snap'[t] = snap[t]
    PROVE  /\ Hoy(d)' = Hoy(d) /\ Hechos(d)' = Hechos(d)
           /\ Estorbada(d)' <=> Estorbada(d)
           /\ \A e \in Debtors : e # d => Deja(e)
<1>1. /\ Hoy(d)' = Hoy(d) /\ Hechos(d)' = Hechos(d)
      /\ Estorbada(d)' <=> Estorbada(d)
  BY DEF Hoy, Abierto, DeHoy, Hechos, Despachos, Saliente, Estorbada
<1>2. ASSUME NEW e \in Debtors, e # d PROVE Deja(e)
  <2>1. Aparte(e)
    BY <1>2 DEF Aparte
  <2>. QED
    BY <2>1, AparteDeja
<1>. QED
  BY <1>1, <1>2

LEMMA PostRegisters ==
    ASSUME CadenceInv, CadenceInv', NEW s \in Attempts, PostEscribe(s)
    PROVE  [Registro!RegisterNext]_(Registro!register)
<1>. USE DEF CadenceInv, AccountedInv
<1>. PICK d \in Debtors : d = de[s]
  BY DEF TypeOK, DialerTypeOK
<1>0. /\ fase[s] = "escribe" /\ fase' = [fase EXCEPT ![s] = "fin"]
      /\ snap' = [snap EXCEPT ![s] = 0] /\ vapi' = [vapi EXCEPT ![d] = 0]
      /\ UNCHANGED <<dia, escaladas, rescate, de, tarea, cb, despacho, creada, suelta>>
      /\ \E contacto \in BOOLEAN : PonEstado(d, EstadoFinal(s, contacto))
      /\ ~Entrante(s) => intentos' = [intentos EXCEPT ![d] = @ + 1]
  BY DEF PostEscribe, clockVars, historyVars
<1>1. Saliente(s) /\ Viva(s) /\ creada[s] = dia
  BY <1>0 DEF PlacedShape, Viva, Abierta
<1>2. /\ intentos'[d] = intentos[d] + 1
      /\ \A e \in Debtors : e # d => intentos'[e] = intentos[e]
  BY <1>0, <1>1 DEF Entrante, Saliente, TypeOK, RowsTypeOK
<1>3. /\ Hoy(d)' = Hoy(d) /\ Hechos(d)' = Hechos(d)
      /\ Estorbada(d)' <=> Estorbada(d)
      /\ \A e \in Debtors : e # d => Deja(e)
  <2>1. /\ \A e \in Debtors : e # d => estado'[e] = estado[e] /\ vapi'[e] = vapi[e]
        /\ \A t \in Attempts : de[t] # d => fase'[t] = fase[t] /\ cb'[t] = cb[t] /\ snap'[t] = snap[t]
    BY <1>0 DEF PonEstado, TypeOK, RowsTypeOK, DialerTypeOK, CallsTypeOK
  <2>. QED
    BY <1>0, <1>2, <2>1, WrittenRow
<1>4. CASE Estorbada(d)
  BY <1>3, <1>4, Overwritten, OneRow
<1>5. CASE ~Estorbada(d)
  <2>1. /\ Vivo(s) /\ Vivos(d)' = {} /\ Leidos(d)' = {}
        /\ \A t \in Attempts : de[t] = d => ~Reportado(t)'
    BY <1>5, PostAlone
  <2>2. Contable(d)
    BY <1>5, <2>1 DEF Contable, Cuenta, PorContar
  <2>3. Hoy(d) # "abierta"
    <3>1. creada[s] # -1 /\ ~suelta[s]
      BY <1>1, <1>5 DEF Estorbada, TypeOK, RowsTypeOK
    <3>2. Abierto(s)
      BY <1>1, <3>1 DEF Abierto, DeHoy
    <3>. QED
      BY <1>1, <3>2 DEF Hoy
  <2>4. ~Cuenta(d)'
    <3>1. estado'[d] # "llamando"
      BY <1>0 DEF PonEstado, EstadoFinal, TERMINAL_ESTADOS, TypeOK, RowsTypeOK
    <3>2. PorContar(d)' = {}
      BY <1>0, <2>1 DEF PorContar, Vivos
    <3>. QED
      BY <2>1, <3>1, <3>2 DEF Cuenta
  <2>5. SeCuenta(d)
    BY <1>2, <1>3, <2>2, <2>3, <2>4 DEF SeCuenta, Contable
  <2>. QED
    BY <1>3, <2>5, OneRow DEF Paso
<1>. QED
  BY <1>4, <1>5

LEMMA RescheduleRegisters ==
    ASSUME CadenceInv, CadenceInv', NEW d \in Debtors,
           \/ RescateEscribe(d)
           \/ \E s \in Attempts : de[s] = d /\ AvisoReprograma(s)
    PROVE  [Registro!RegisterNext]_(Registro!register)
<1>. USE DEF CadenceInv, AccountedInv
<1>1. PICK n \in Leidos(d) : /\ RescheduleIntentoFallido(d, n) /\ Leidos(d)' \subseteq Leidos(d)
                             /\ \A e \in Debtors : e # d => rescate'[e] = rescate[e]
                             /\ \A t \in Attempts : de[t] # d => cb'[t] = cb[t] /\ snap'[t] = snap[t]
                             /\ UNCHANGED <<plan, escaladas, dialerVars, clockVars>>
  BY CopyOfRow
<1>2. UNCHANGED <<dia, escaladas, de, tarea, fase, despacho, creada, suelta>>
  BY <1>1 DEF clockVars, dialerVars, attemptVars, historyVars
<1>3. /\ n \in Nat /\ intentos'[d] = n + 1 /\ vapi'[d] = 0
      /\ estado'[d] # "llamando"
      /\ \A e \in Debtors : e # d => /\ estado'[e] = estado[e] /\ vapi'[e] = vapi[e]
                                     /\ intentos'[e] = intentos[e]
  BY <1>1 DEF RescheduleIntentoFallido, PonEstado, Leidos, TypeOK, RowsTypeOK, CallsTypeOK
<1>4. /\ Hoy(d)' = Hoy(d) /\ Hechos(d)' = Hechos(d)
      /\ Estorbada(d)' <=> Estorbada(d)
      /\ \A e \in Debtors : e # d => Deja(e)
  BY <1>1, <1>2, <1>3, WrittenRow
<1>5. CASE Estorbada(d)
  BY <1>4, <1>5, Overwritten, OneRow
<1>6. CASE ~Estorbada(d)
  <2>1. /\ Parada(d) /\ \A m \in Leidos(d) : m = n
        /\ intentos[d] = n \/ intentos[d] = n + 1
    BY <1>6 DEF FilaLimpia, EnCopia, UnaCopia
  <2>2. Hoy(d) # "abierta"
    BY <2>1 DEF Parada, Viva, Hoy, Abierto, DeHoy
  <2>3. ~Cuenta(d)'
    <3>1. \A t \in Attempts : de'[t] = d => ~Vivo(t)' /\ ~Reportado(t)'
      BY <1>2, <1>3, <2>1 DEF Parada, Viva, Vivo, Reportado, Attempts
    <3>2. PorContar(d)' = {}
      BY <3>1 DEF PorContar
    <3>3. intentos'[d] \notin Leidos(d)'
      BY <1>1, <1>3, <2>1
    <3>. QED
      BY <1>3, <3>2, <3>3 DEF Cuenta
  <2>4. CASE intentos[d] = n
    <3>1. SeCuenta(d)
      BY <1>3, <1>4, <1>6, <2>2, <2>3, <2>4 DEF SeCuenta, Contable, Cuenta
    <3>. QED
      BY <1>4, <3>1, OneRow DEF Paso
  <2>5. CASE intentos[d] = n + 1
    <3>1. SeOlvida(d)
      BY <1>3, <1>4, <2>3, <2>5 DEF SeOlvida, Contable
    <3>. QED
      BY <1>4, <3>1, OneRow DEF Paso
  <2>. QED
    BY <2>1, <2>4, <2>5
<1>. QED
  BY <1>5, <1>6

\* The dispatcher opens a row that has nothing pending and no open attempt.
LEMMA MarkRegisters ==
    ASSUME CadenceInv, TypeOK', NEW d \in Debtors, DespachoMarca(d), UNCHANGED callVars
    PROVE  [Registro!RegisterNext]_(Registro!register)
<1>. USE DEF CadenceInv, AccountedInv
<1>a. PICK s \in Attempts : s = nuevos + 1
  BY DEF DespachoMarca, Attempts
<1>0. /\ s \in Attempts /\ s > nuevos /\ d \in lote
      /\ estado' = [estado EXCEPT ![d] = "llamando"]
      /\ de' = [de EXCEPT ![s] = d] /\ tarea' = [tarea EXCEPT ![s] = "killswitch"]
      /\ despacho' = [despacho EXCEPT ![s] = dia]
      /\ UNCHANGED <<dia, intentos, escaladas, vapi, rescate, fase, cb, snap, creada, suelta>>
  BY <1>a DEF DespachoMarca, clockVars, callVars, TypeOK, DialerTypeOK
<1>1. /\ ~Saliente(s) /\ tarea[s] = "no" /\ creada[s] = -1 /\ ~suelta[s] /\ cb[s] # "reprograma"
      /\ dia # -1
  BY <1>0 DEF CallShape, PlacedShape, TypeOK, RowsTypeOK
<1>2. /\ de'[s] = d /\ tarea'[s] \in EnVuelo /\ despacho'[s] = dia /\ estado'[d] = "llamando"
      /\ \A t \in Attempts : t # s => de'[t] = de[t] /\ tarea'[t] = tarea[t] /\ despacho'[t] = despacho[t]
  BY <1>0 DEF EnVuelo, TypeOK, RowsTypeOK, DialerTypeOK
<1>3. ~Abierto(s)
  BY <1>1 DEF Abierto, DeHoy, EnVuelo
<1>4. ASSUME NEW e \in Debtors, e # d PROVE Deja(e)
  <2>1. Blanco(s)
    BY <1>1, <1>3 DEF Blanco
  <2>2. estado'[e] = estado[e]
    BY <1>0, <1>4 DEF TypeOK, RowsTypeOK
  <2>3. ASSUME NEW t \in Attempts
        PROVE  \/ /\ de[t] = e /\ de'[t] = e
                  /\ tarea'[t] = tarea[t] /\ fase'[t] = fase[t] /\ cb'[t] = cb[t] /\ snap'[t] = snap[t]
                  /\ despacho'[t] = despacho[t] /\ creada'[t] = creada[t] /\ suelta'[t] = suelta[t]
               \/ (de[t] # e \/ Blanco(t)) /\ (de'[t] # e \/ Blanco(t)')
    <3>1. CASE t = s
      BY <1>2, <1>4, <2>1, <3>1
    <3>2. CASE t # s
      BY <1>0, <1>2, <3>2
    <3>. QED
      BY <3>1, <3>2
  <2>4. Aparte(e)
    BY <1>0, <2>2, <2>3 DEF Aparte
  <2>. QED
    BY <2>4, AparteDeja
<1>5. \A t \in Attempts : de[t] = d => ~Abierto(t)
  BY <1>0 DEF OneCallInv, QueuedRowsHaveNone
<1>6. Hoy(d) = "libre" /\ Hoy(d)' = "abierta"
  <2>1. Hoy(d) = "libre"
    BY <1>5 DEF Hoy
  <2>2. Abierto(s)' /\ creada'[s] # dia'
    BY <1>0, <1>1, <1>2 DEF Abierto, DeHoy
  <2>3. ASSUME NEW t \in Attempts, de'[t] = d, Abierto(t)' PROVE t = s
    BY <1>0, <1>2, <1>5, <2>3 DEF Abierto, DeHoy
  <2>. QED
    BY <1>0, <1>2, <2>1, <2>2, <2>3 DEF Hoy
<1>7. Hechos(d)' = Hechos(d) + 1
  <2>1. Despachos(d)' = Despachos(d) \cup {s} /\ s \notin Despachos(d)
    BY <1>0, <1>1, <1>2 DEF Despachos, Saliente
  <2>2. Cardinality(Despachos(d)') = Cardinality(Despachos(d)) + 1 /\ Cardinality(Despachos(d)) \in Nat
    BY <2>1, AttemptSets, FS_AddElement
  <2>3. escaladas[d] \in Nat
    BY DEF TypeOK, RowsTypeOK
  <2>. QED
    BY <1>0, <2>2, <2>3 DEF Hechos
<1>8. Estorbada(d)' <=> Estorbada(d)
  <2>1. ASSUME NEW t \in Attempts
        PROVE  de'[t] = d /\ suelta'[t] /\ creada'[t] # -1 <=> de[t] = d /\ suelta[t] /\ creada[t] # -1
    BY <1>0, <1>1, <1>2
  <2>. QED
    BY <1>0, <2>1 DEF Estorbada
<1>9. ~Contable(d)
  BY <1>0 DEF Contable, Cuenta, FilaLimpia, EnLote, Quieta
<1>10. Contable(d)' <=> ~Estorbada(d)
  BY <1>2, <1>8 DEF Contable, Cuenta
<1>11. SeAbre(d)
  BY <1>0, <1>6, <1>7, <1>8, <1>9, <1>10 DEF SeAbre
<1>. QED
  BY <1>4, <1>11, OneRow DEF Paso

\* A new day: no task is under way.
LEMMA DayRegisters ==
    ASSUME CadenceInv, TypeOK', PasaDia
    PROVE  [Registro!RegisterNext]_(Registro!register)
<1>. USE DEF CadenceInv, AccountedInv
<1>1. /\ UNCHANGED <<estado, vapi, intentos, escaladas, rescate, de, tarea, fase, cb, snap,
                     despacho, creada, suelta>>
      /\ dia' = dia + 1 /\ dia \in Nat
  BY DEF PasaDia, rowVars, debtorVars, attemptVars, historyVars, callVars, TypeOK, RowsTypeOK
<1>2. ASSUME NEW t \in Attempts PROVE tarea[t] \notin EnVuelo /\ creada[t] <= dia /\ creada[t] \in Int
  <2>1. de[t] \in Debtors
    BY DEF TypeOK, DialerTypeOK
  <2>. QED
    BY <2>1 DEF PasaDia, SinActividad, Viva, OneCallInv, AttemptsInOrder, TypeOK, DialerTypeOK
<1>3. \A d \in Debtors : Hoy(d) # "abierta"
  BY <1>2 DEF Hoy, Abierto, DeHoy
<1>4. \A d \in Debtors : Hoy(d)' = "libre"
  <2>1. ASSUME NEW t \in Attempts PROVE ~Abierto(t)'
    BY <1>1, <1>2 DEF Abierto, DeHoy
  <2>. QED
    BY <2>1 DEF Hoy
<1>5. ASSUME NEW d \in Debtors
      PROVE  /\ Hechos(d)' = Hechos(d) /\ (Estorbada(d)' <=> Estorbada(d))
             /\ Contable(d)' <=> Contable(d)
  BY <1>1 DEF Hechos, Despachos, Saliente, Estorbada, Contable, Cuenta, PorContar, Vivo, Reportado, Leidos
<1>6. /\ [e \in Debtors |-> Hoy(e)]' = [e \in Debtors |-> "libre"]
      /\ \A e \in Debtors : [c \in Debtors |-> Hoy(c)][e] # "abierta"
  BY <1>3, <1>4
<1>7. /\ [e \in Debtors |-> Hechos(e)]' = [e \in Debtors |-> Hechos(e)]
      /\ {e \in Debtors : Contable(e)}' = {e \in Debtors : Contable(e)}
      /\ {e \in Debtors : Estorbada(e)}' = {e \in Debtors : Estorbada(e)}
  BY <1>5
<1>8. Registro!NuevoDia
  BY <1>1, <1>6, <1>7 DEF Registro!NuevoDia, Contable
<1>. QED
  BY <1>8 DEF Registro!RegisterNext

\* A restart ends the attempts whose call does not exist, and leaves the
\* others to Twilio's callback and the rescue.
LEMMA RestartRegisters ==
    ASSUME CadenceInv, TypeOK', Reinicio
    PROVE  [Registro!RegisterNext]_(Registro!register)
<1>. USE DEF CadenceInv, AccountedInv
<1>1. /\ UNCHANGED <<dia, intentos, escaladas, de, despacho, creada, suelta>>
      /\ \A t \in Attempts : tarea'[t] \notin EnVuelo
  BY DEF Reinicio, clockVars, debtorVars, historyVars, EnVuelo
<1>2. QuietStep
  BY RestartQuiet
<1>3. ASSUME NEW d \in Debtors
      PROVE  /\ Hechos(d)' = Hechos(d) /\ (Estorbada(d)' <=> Estorbada(d))
             /\ Contable(d)' => Contable(d)
  <2>1. Hechos(d)' = Hechos(d) /\ (Cuenta(d)' => Cuenta(d))
    BY <1>1, <1>2, QuietCuenta
  <2>2. Estorbada(d)' <=> Estorbada(d)
    BY <1>1 DEF Estorbada
  <2>. QED
    BY <2>1, <2>2 DEF Contable
<1>4. ASSUME NEW d \in Debtors
      PROVE  Hoy(d)' = IF Hoy(d) = "abierta" THEN "libre" ELSE Hoy(d)
  <2>1. \A t \in Attempts : Abierto(t)' <=> Abierto(t) /\ creada[t] = dia
    BY <1>1 DEF Abierto, DeHoy
  <2>. QED
    BY <1>1, <2>1 DEF Hoy
<1>5. [e \in Debtors |-> Hoy(e)]'
        = [d \in Debtors |-> IF [e \in Debtors |-> Hoy(e)][d] = "abierta" THEN "libre"
                             ELSE [e \in Debtors |-> Hoy(e)][d]]
  BY <1>4
<1>6. /\ [e \in Debtors |-> Hechos(e)]' = [e \in Debtors |-> Hechos(e)]
      /\ {e \in Debtors : Contable(e)}' \subseteq {e \in Debtors : Contable(e)}
      /\ {e \in Debtors : Estorbada(e)}' = {e \in Debtors : Estorbada(e)}
  BY <1>3
<1>7. Registro!PierdeTareas
  BY <1>1, <1>5, <1>6 DEF Registro!PierdeTareas, Contable
<1>. QED
  BY <1>7 DEF Registro!RegisterNext

\* Every step of the campaign is a step of the register.
LEMMA StepOfRegister ==
    ASSUME CadenceInv, CadenceInv', SoloCampania, [Next]_vars
    PROVE  [Registro!RegisterNext]_(Registro!register)
<1>. USE DEF CadenceInv, AccountedInv
<1>1. TypeOK' /\ HistoryKept
  BY HistoryStep
<1>2. CASE Job
  BY <1>1, <1>2, RowRegisters, IdleRegisters, MarkRegisters, ReadRegisters, RescheduleRegisters DEF Job
<1>3. ASSUME NEW s \in Attempts, Tarea(s) \/ Twilio(s) \/ Bot(s) \/ Aviso(s)
      PROVE  [Registro!RegisterNext]_(Registro!register)
  <2>1. de[s] \in Debtors
    BY DEF TypeOK, DialerTypeOK
  <2>2. CASE ToolEscalate(s)
    BY <1>1, <2>1, <2>2, EscalateRegisters DEF ToolEscalate
  <2>3. CASE AvisoReprograma(s)
    BY <2>1, <2>3, RescheduleRegisters
  <2>4. CASE AvisoNoContesta(s) /\ vapi[de[s]] = s /\ estado[de[s]] = "llamando"
    BY <1>1, <2>4, ReadRegisters
  <2>5. CASE PostEscribe(s)
    BY <2>5, PostRegisters
  <2>. QED
    BY <1>1, <1>3, <2>2, <2>3, <2>4, <2>5, TaskRegisters, CallRegisters DEF Bot, Aviso
<1>4. CASE Persona
  <2>1. CASE \E d \in Debtors : WaEscalate(d) /\ DejaTodo
    BY <1>1, <2>1, EscalateRegisters DEF WaEscalate, DejaTodo
  <2>2. CASE \E d \in Debtors : MarcarPagado(d) /\ DejaTodo
    BY <1>1, <2>2, RowRegisters
  <2>. QED
    BY <1>1, <1>4, <2>1, <2>2, IdleRegisters
       DEF Persona, SoloCampania, PausarDebtor, Reactivar, ReactivarDebtor, LlamadaEntrante
<1>5. CASE Tiempo
  BY <1>1, <1>5, IdleRegisters, DayRegisters DEF Tiempo
<1>. QED
  BY <1>1, <1>2, <1>3, <1>4, <1>5, IdleRegisters, RestartRegisters DEF Next

\* No row has an attempt yet.
LEMMA InitRegister == Init => Registro!RegisterInit
<1>. SUFFICES ASSUME Init PROVE Registro!RegisterInit
  OBVIOUS
<1>1. ASSUME NEW d \in Debtors
      PROVE  Hoy(d) = "libre" /\ Hechos(d) = 0 /\ intentos[d] = 0 /\ ~Cuenta(d) /\ ~Estorbada(d)
  <2>1. /\ intentos[d] = 0 /\ escaladas[d] = 0 /\ estado[d] = "pendiente" /\ dia = 0 /\ rescate[d] = -1
        /\ \A s \in Attempts : /\ tarea[s] = "no" /\ fase[s] = "libre" /\ creada[s] = -1
                               /\ despacho[s] = -1 /\ ~suelta[s] /\ cb[s] = "no"
    BY DEF Init
  <2>2. \A s \in Attempts : ~Abierto(s) /\ ~Saliente(s)
    BY <2>1 DEF Abierto, EnVuelo, DeHoy, Saliente
  <2>3. Despachos(d) = {} /\ Cardinality({}) = 0
    BY <2>2, FS_EmptySet DEF Despachos
  <2>4. PorContar(d) = {} /\ Leidos(d) = {}
    BY <2>1, <2>2 DEF PorContar, Vivo, Reportado, Leidos
  <2>5. ~Cuenta(d)
    BY <2>1, <2>4 DEF Cuenta
  <2>6. Hoy(d) = "libre" /\ ~Estorbada(d)
    BY <2>1, <2>2 DEF Hoy, Estorbada
  <2>. QED
    BY <2>1, <2>3, <2>5, <2>6 DEF Hechos
<1>2. intentos = [d \in Debtors |-> 0]
  BY DEF Init
<1>. QED
  BY <1>1, <1>2 DEF Registro!RegisterInit

\* While nobody pauses a row or calls in, every step of the campaign is a
\* step of the register: one attempt of a row at a time and one call a day
\* unless it is handed back, and an attempt counts once, when its call exists,
\* or is given up; only a row of Estorbada has a count that is not exact.
THEOREM Registers ==
    ASSUME SoloCampania
    PROVE  Spec => KeepsRegister
<1>1. Init => CadenceInv /\ Registro!RegisterInit
  BY InitCadence, InitRegister
<1>2. CadenceInv /\ [Next]_vars => CadenceInv'
  BY NextCadence
<1>3. CadenceInv /\ CadenceInv' /\ [Next]_vars => [Registro!RegisterNext]_(Registro!register)
  BY StepOfRegister
<1>. QED
  BY <1>1, <1>2, <1>3, PTL DEF Spec, KeepsRegister, Registro!RegisterSpec

=============================================================================
