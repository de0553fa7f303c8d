------------------------- MODULE ProspectingProofs --------------------------
(***************************************************************************)
(* Theorems about the prospecting runs, for any number of requests, job    *)
(* slots, iterations, retries, parallel calls and failures.                *)
(***************************************************************************)
EXTENDS Prospecting, FiniteSetTheorems, TLAPS

\* The part of the type invariant that a turn may change.
NodoTipo ==
    /\ fase \in [Runs -> Fases]
    /\ iter \in [Runs -> Nat] /\ reintentos \in [Runs -> Nat]
    /\ vacios \in [Runs -> Nat] /\ racha \in [Runs -> Nat] /\ usadas \in [Runs -> Nat]
    /\ puesta \in [Runs -> BOOLEAN] /\ puestaTurno \in [Runs -> BOOLEAN]
    /\ escalo \in [Runs -> BOOLEAN] /\ limite \in [Runs -> BOOLEAN]
    /\ lote \in [Runs -> SUBSET (Nat \X Etapas)]

\* What the stage of a request and of a job says of the run document.
Expediente ==
    \A r \in Runs :
       /\ peticion[r] \in {"nada", "libre", "rechazada"} => status[r] = "nada" /\ trabajo[r] = "nada"
       /\ peticion[r] \in {"insertada", "sinCampana"} => status[r] = "queued" /\ trabajo[r] = "nada"
       /\ trabajo[r] = "cola" => status[r] = "queued"
       /\ trabajo[r] \in EnCurso => status[r] \in {"queued", "running"}

\* The director exists while its job runs it, and leads only once a job has started.  Nothing is
\* left behind in Motor's hands before the job is cut: then its director is at its end.
Director ==
    \A r \in Runs :
       /\ trabajo[r] # "director" => fase[r] = "fuera" /\ lote[r] = {} /\ sinRespuesta[r] = 0
       /\ trabajo[r] = "director" => fase[r] # "fuera"
       /\ fase[r] = "fin" => lote[r] = {}
       /\ trabajo[r] \in {"nada", "cola", "corre"} => guardadas[r] = 0
       /\ trabajo[r] \in {"nada", "cola", "corre", "radar"} => tardias[r] = 0
       /\ trabajo[r] = "director" /\ fase[r] # "fin" => tardias[r] = 0

\* No two launches look and insert around each other without being in juntas.
Carreras ==
    \A r, s \in Runs : r # s /\ peticion[r] = "libre" =>
       /\ peticion[s] = "libre" => {r, s} \in juntas
       /\ s \in Activos /\ peticion[s] \in Lanzamiento => {r, s} \in juntas

\* A search that has started was counted.
Contadas ==
    \A r \in Runs :
       terminada[r] \/ (\E c \in lote[r] : c[2] = "busca") => busquedas[r] > 0

\* The leads saved, left behind or about to be saved were counted before.
Cuentas ==
    \A r \in Runs :
       /\ IsFiniteSet(lote[r])
       /\ trabajo[r] = "director" =>
             guardadas[r] + tardias[r] + Cardinality(PorGuardar(r)) <= analizadas[r]

IInv == TypeOK /\ Expediente /\ Director /\ EveryCallAnswered /\ Carreras /\ OneActiveRun
        /\ Contadas /\ Cuentas

-----------------------------------------------------------------------------
\* What the end of a turn does to the node.
LEMMA FrameTyped ==
    ASSUME NodoTipo, NEW r \in Runs, NEW f \in Fases, NodoLimpio(r, f)
    PROVE  /\ NodoTipo'
           /\ fase' = [fase EXCEPT ![r] = f]
           /\ lote' = [lote EXCEPT ![r] = {}]
  BY DEF NodoTipo, NodoLimpio, TurnoNuevo

LEMMA IterationTyped ==
    ASSUME NodoTipo, NEW r \in Runs, NEW v \in Nat, NEW ra \in Nat, OtraIteracion(r, v, ra)
    PROVE  /\ NodoTipo'
           /\ \E f \in {"stream", "fin"} : fase' = [fase EXCEPT ![r] = f]
           /\ lote' = [lote EXCEPT ![r] = {}]
<1>1. CASE iter[r] + 1 = MaxIter
  BY <1>1, FrameTyped DEF OtraIteracion, Sale, Fases
<1>2. CASE iter[r] + 1 # MaxIter
  <2>1. /\ fase' = [fase EXCEPT ![r] = "stream"]
        /\ iter' = [iter EXCEPT ![r] = @ + 1] /\ reintentos' = [reintentos EXCEPT ![r] = 0]
        /\ vacios' = [vacios EXCEPT ![r] = v] /\ racha' = [racha EXCEPT ![r] = ra]
        /\ UNCHANGED puesta /\ TurnoNuevo(r)
    BY <1>2 DEF OtraIteracion
  <2>2. NodoTipo'
    BY <2>1 DEF NodoTipo, TurnoNuevo, Fases
  <2> QED
    BY <2>1, <2>2 DEF TurnoNuevo
<1> QED
  BY <1>1, <1>2

LEMMA StreakTyped ==
    ASSUME NodoTipo, NEW r \in Runs, NEW texto PROVE RachaCon(r, texto) \in Nat
  BY DEF NodoTipo, RachaCon

LEMMA TurnTyped ==
    ASSUME NodoTipo, NEW r \in Runs, NEW texto, NEW hay, lote[r] = {}, Turno(r, texto, hay)
    PROVE  /\ NodoTipo'
           /\ \E f \in {"stream", "espera", "fin"} : fase' = [fase EXCEPT ![r] = f]
           /\ lote' = lote
<1>1. lote = [lote EXCEPT ![r] = {}]
  BY DEF NodoTipo
<1>2. ASSUME Sale(r) PROVE NodoTipo' /\ fase' = [fase EXCEPT ![r] = "fin"] /\ lote' = lote
  BY <1>1, <1>2, FrameTyped DEF Sale, Fases
<1>3. CASE TurnoVacio(r)
  <2>1. vacios[r] + 1 \in Nat /\ racha[r] \in Nat
    BY DEF NodoTipo
  <2> QED
    BY <1>1, <1>2, <1>3, <2>1, IterationTyped DEF TurnoVacio
<1>4. CASE TurnoConAlgo(r, texto, hay)
  <2>1. CASE Sale(r)
    BY <1>2, <2>1
  <2>2. CASE /\ fase' = [fase EXCEPT ![r] = "espera"]
             /\ UNCHANGED <<iter, reintentos, vacios, racha, puesta, turnoVars>>
    BY <2>2 DEF NodoTipo, turnoVars, Fases
  <2>3. CASE OtraIteracion(r, 0, RachaCon(r, texto))
    BY <1>1, <2>3, StreakTyped, IterationTyped
  <2> QED
    BY <1>4, <2>1, <2>2, <2>3 DEF TurnoConAlgo
<1> QED
  BY <1>3, <1>4 DEF Turno

-----------------------------------------------------------------------------
\* Types, action by action.
LEMMA CallsCounted ==
    ASSUME NEW r \in Runs, NEW n \in Nat, NEW llamadas \in [1..n -> Llamadas]
    PROVE  /\ DOMAIN llamadas = 1..n
           /\ Cardinality(DOMAIN llamadas) \in Nat
           /\ Cardinality(Ejecutadas(r, llamadas)) \in Nat
           /\ IsFiniteSet(Ejecutadas(r, llamadas))
<1>1. DOMAIN llamadas = 1..n
  OBVIOUS
<1>2. IsFiniteSet(DOMAIN llamadas)
  BY <1>1, FS_Interval
<1>3. Ejecutadas(r, llamadas) \subseteq DOMAIN llamadas
  BY DEF Ejecutadas
<1>4. IsFiniteSet(Ejecutadas(r, llamadas))
  BY <1>2, <1>3, FS_Subset
<1> QED
  BY <1>1, <1>2, <1>4, FS_CardinalityType

LEMMA LaunchTyped ==
    ASSUME TypeOK, NEW r \in Runs, NEW n \in Nat, NEW llamadas \in [1..n -> Llamadas],
           Lanza(r, llamadas)
    PROVE  EventLoopTypeOK'
<1>1. EnVuelo(r, llamadas) \in SUBSET (Nat \X Etapas)
  BY DEF EnVuelo, Ejecutadas, Etapas
<1>2. /\ Cardinality(DOMAIN llamadas) \in Nat
      /\ Cardinality(Ejecutadas(r, llamadas)) \in Nat
  BY CallsCounted
<1> QED
  BY <1>1, <1>2 DEF TypeOK, EventLoopTypeOK, Lanza, RespondeLlamadas, Fases

LEMMA ToolTyped ==
    ASSUME TypeOK, NEW r \in Runs, NEW c \in lote[r], Herramienta(r, c)
    PROVE  EventLoopTypeOK' /\ HiveToolsTypeOK'
<1> USE DEF TypeOK, HiveToolsTypeOK
<1>1. c \in Nat \X Etapas
  BY DEF EventLoopTypeOK
<1>2. <<c[1], "busca">> \in Nat \X Etapas /\ <<c[1], "guarda">> \in Nat \X Etapas
  BY <1>1 DEF Etapas
<1>3. UNCHANGED nodoSalvoLote
  BY DEF Herramienta, Cuenta, Descubre, Descarta, Analiza, Guarda
<1>4. lote' \in [Runs -> SUBSET (Nat \X Etapas)]
  BY <1>2 DEF EventLoopTypeOK, Herramienta, Cuenta, Descubre, Descarta, Analiza, Guarda, Sigue, Termina
<1>5. HiveToolsTypeOK'
  <2>1. CASE Descarta(r, c)
    BY <2>1 DEF Descarta, toolVars, registroVars
  <2>2. CASE Cuenta(r, c)
    BY <2>2 DEF Cuenta
  <2>3. CASE Descubre(r, c)
    BY <2>3 DEF Descubre
  <2>4. CASE Analiza(r, c)
    BY <2>4 DEF Analiza
  <2>5. CASE Guarda(r, c)
    BY <2>5 DEF Guarda, Falla, registroVars
  <2> QED
    BY <2>1, <2>2, <2>3, <2>4, <2>5 DEF Herramienta
<1> QED
  BY <1>3, <1>4, <1>5 DEF EventLoopTypeOK, nodoSalvoLote

LEMMA StepTyped ==
    ASSUME TypeOK, Director, EveryCallAnswered, NEW r \in Runs, DirectorPaso(r)
    PROVE  TypeOK'
<1>0. NodoTipo /\ (sinRespuesta \in [Runs -> Nat])
  BY DEF TypeOK, EventLoopTypeOK, NodoTipo
<1>a. ASSUME UNCHANGED toolVars PROVE HiveToolsTypeOK'
  BY <1>a DEF TypeOK, HiveToolsTypeOK, toolVars, registroVars
<1>1. ASSUME NEW texto \in Textos, RespondeTexto(r, texto), UNCHANGED toolVars
      PROVE EventLoopTypeOK' /\ HiveToolsTypeOK'
  <2>1. fase[r] = "stream" /\ Turno(r, texto, FALSE) /\ UNCHANGED sinRespuesta
    BY <1>1 DEF RespondeTexto
  <2>2. lote[r] = {}
    BY <2>1 DEF EveryCallAnswered
  <2>3. NodoTipo'
    BY <1>0, <2>1, <2>2, TurnTyped
  <2> QED
    BY <1>0, <1>a, <1>1, <2>1, <2>3 DEF EventLoopTypeOK, NodoTipo
<1>2. ASSUME NEW texto \in Textos, CierraLote(r, texto), UNCHANGED toolVars
      PROVE EventLoopTypeOK' /\ HiveToolsTypeOK'
  <2>1. sinRespuesta' \in [Runs -> Nat]
    BY <1>0, <1>2 DEF CierraLote, Contesta
  <2>2. CASE Turno(r, texto, TRUE)
    <3>1. NodoTipo'
      BY <1>0, <1>2, <2>2, TurnTyped DEF CierraLote
    <3> QED
      BY <1>a, <1>2, <2>1, <3>1 DEF EventLoopTypeOK, NodoTipo
  <2>3. CASE /\ fase' = [fase EXCEPT ![r] = "stream"]
             /\ UNCHANGED <<iter, reintentos, vacios, racha, puesta, turnoVars>>
    BY <1>0, <1>a, <1>2, <2>1, <2>3 DEF EventLoopTypeOK, NodoTipo, turnoVars, Fases
  <2> QED
    BY <1>2, <2>2, <2>3 DEF CierraLote
<1>3. ASSUME NEW n \in 1..MaxLote, NEW llamadas \in [1..n -> Llamadas], Lanza(r, llamadas)
      PROVE EventLoopTypeOK' /\ HiveToolsTypeOK'
  <2>1. n \in Nat
    BY EventLoopAssumption
  <2> QED
    BY <1>3, <1>a, <2>1, LaunchTyped DEF Lanza
<1>4. ASSUME NEW t \in BOOLEAN, FallaStream(r, t), UNCHANGED toolVars
      PROVE EventLoopTypeOK' /\ HiveToolsTypeOK'
  <2>1. UNCHANGED sinRespuesta
    BY <1>4 DEF FallaStream
  <2>2. NodoTipo'
    <3>1. CASE Sale(r)
      BY <1>0, <3>1, FrameTyped DEF Sale, Fases
    <3>2. CASE /\ reintentos' = [reintentos EXCEPT ![r] = @ + 1]
               /\ TurnoNuevo(r)
               /\ UNCHANGED <<fase, iter, vacios, racha, puesta>>
      BY <1>0, <3>2 DEF NodoTipo, TurnoNuevo
    <3> QED
      BY <1>4, <3>1, <3>2 DEF FallaStream
  <2> QED
    BY <1>0, <1>a, <1>4, <2>1, <2>2 DEF EventLoopTypeOK, NodoTipo
<1>5. ASSUME NEW c \in lote[r], Herramienta(r, c) PROVE EventLoopTypeOK' /\ HiveToolsTypeOK'
  BY <1>5, ToolTyped
<1>6. EventLoopTypeOK' /\ HiveToolsTypeOK'
  BY <1>1, <1>2, <1>3, <1>4, <1>5 DEF DirectorPaso
<1> QED
  BY <1>6 DEF DirectorPaso, TypeOK, runVars, cicloVars

\* An action that touches neither the node nor the registry.
LEMMA OutsideTyped ==
    ASSUME TypeOK, UNCHANGED nodoVars PROVE EventLoopTypeOK'
  BY DEF TypeOK, EventLoopTypeOK, nodoVars, turnoVars

LEMMA RequestTyped ==
    ASSUME TypeOK, NEW r \in Runs, Peticion(r) \/ ApiMuere(r) PROVE TypeOK'
<1>1. UNCHANGED <<nodoVars, registroVars, guardadas, tardias>> /\ fallas' \in Nat
  BY DEF Peticion, Consulta, Inserta, Encola, ApiMuere, Falla, toolVars, TypeOK, HiveToolsTypeOK
<1>2. EventLoopTypeOK' /\ HiveToolsTypeOK'
  BY <1>1, OutsideTyped DEF TypeOK, HiveToolsTypeOK, registroVars
<1>3. juntas' \subseteq SUBSET Runs
  BY DEF TypeOK, Peticion, Consulta, Inserta, Encola, ApiMuere, Libres
<1>a. tardias' \in [Runs -> Nat]
  BY <1>1 DEF TypeOK
<1>4. status' \in [Runs -> {"nada", "queued", "running", "complete", "error"}]
  BY DEF TypeOK, Peticion, Consulta, Inserta, Encola, ApiMuere
<1>5. trabajo' \in [Runs -> EnCurso \cup {"nada", "cola", "invalido", "hecho", "cortado", "muerto"}]
  BY DEF TypeOK, Peticion, Consulta, Inserta, Encola, ApiMuere
<1>6. peticion' \in [Runs -> Lanzamiento \cup {"nada", "rechazada", "sinCampana", "enviada", "perdida"}]
  BY DEF TypeOK, Peticion, Consulta, Inserta, Encola, ApiMuere, Lanzamiento
<1> QED
  BY <1>2, <1>3, <1>4, <1>5, <1>6, <1>a DEF TypeOK

LEMMA ForgetTyped ==
    ASSUME TypeOK, NEW r \in Runs, Olvida(r), UNCHANGED guardadas, fallas' \in Nat
    PROVE  EventLoopTypeOK' /\ HiveToolsTypeOK'
<1>1. NodoTipo'
  BY FrameTyped DEF TypeOK, EventLoopTypeOK, NodoTipo, Olvida, Fases
<1>2. sinRespuesta' \in [Runs -> Nat]
  BY DEF TypeOK, EventLoopTypeOK, Olvida, Contesta
<1>3. HiveToolsTypeOK'
  BY DEF TypeOK, HiveToolsTypeOK, Olvida, RegistroNuevo
<1> QED
  BY <1>1, <1>2, <1>3 DEF EventLoopTypeOK, NodoTipo

\* What a job that is cut leaves behind is a number of inserts.
LEMMA InHand ==
    ASSUME Cuentas, NEW r \in Runs
    PROVE  /\ IsFiniteSet(PorGuardar(r)) /\ Cardinality(PorGuardar(r)) \in Nat
           /\ EnMano(r) \in Nat
<1>1. IsFiniteSet(PorGuardar(r))
  BY FS_Subset DEF Cuentas, PorGuardar
<1>2. Cardinality(PorGuardar(r)) \in Nat
  BY <1>1, FS_CardinalityType
<1> QED
  BY <1>1, <1>2 DEF EnMano

LEMMA JobTyped ==
    ASSUME TypeOK, Cuentas, NEW r \in Runs,
           \/ Toma(r) \/ ArrancaDirector(r) \/ ArrancaRadar(r) \/ GuardaRadar(r) \/ CierraRadar(r)
           \/ FallaTrabajo(r) \/ CierraDirector(r)
           \/ CancelaDirector(r) \/ CancelaTrabajo(r) \/ Muere(r) \/ Aterriza(r)
    PROVE  TypeOK'
<1> USE DEF EnCurso
<1>1. UNCHANGED <<peticion, juntas>>
  BY DEF Toma, ArrancaDirector, ArrancaRadar, GuardaRadar, CierraRadar, FallaTrabajo, CierraDirector,
         CancelaDirector, CancelaTrabajo, Muere, Aterriza, runVars, cicloVars
<1>2. trabajo' \in [Runs -> EnCurso \cup {"nada", "cola", "invalido", "hecho", "cortado", "muerto"}]
  BY DEF TypeOK, Toma, ArrancaDirector, ArrancaRadar, GuardaRadar, CierraRadar, FallaTrabajo,
         CierraDirector, CancelaDirector, CancelaTrabajo, Muere, Aterriza, runVars, cicloVars
<1>3. status' \in [Runs -> {"nada", "queued", "running", "complete", "error"}]
  BY DEF TypeOK, Toma, ArrancaDirector, ArrancaRadar, GuardaRadar, CierraRadar, FallaTrabajo,
         CierraDirector, CancelaDirector, CancelaTrabajo, Muere, Aterriza, runVars, cicloVars
<1>a. tardias' \in [Runs -> Nat]
  <2>1. tardias[r] \in Nat /\ EnMano(r) \in Nat
    BY InHand DEF TypeOK
  <2>2. \/ tardias' = tardias \/ Deja(r)
        \/ tardias[r] > 0 /\ tardias' = [tardias EXCEPT ![r] = @ - 1]
    BY DEF Toma, ArrancaDirector, ArrancaRadar, GuardaRadar, CierraRadar, FallaTrabajo, CierraDirector,
           CancelaDirector, CancelaTrabajo, Muere, Aterriza, runVars, cicloVars
  <2> QED
    BY <2>1, <2>2 DEF TypeOK, Deja
<1>4. CASE Toma(r) \/ ArrancaRadar(r) \/ CierraRadar(r) \/ FallaTrabajo(r)
  <2>1. UNCHANGED <<nodoVars, registroVars, guardadas>> /\ fallas' \in Nat
    BY <1>4 DEF Toma, ArrancaRadar, CierraRadar, FallaTrabajo, Falla, toolVars, TypeOK, HiveToolsTypeOK
  <2> QED
    BY <1>1, <1>2, <1>3, <1>a, <2>1, OutsideTyped DEF TypeOK, HiveToolsTypeOK, registroVars
<1>5. CASE GuardaRadar(r)
  <2>1. EventLoopTypeOK'
    BY <1>5, OutsideTyped DEF GuardaRadar
  <2>2. HiveToolsTypeOK'
    BY <1>5 DEF GuardaRadar, Falla, TypeOK, HiveToolsTypeOK, registroVars
  <2> QED
    BY <1>1, <1>2, <1>3, <1>a, <2>1, <2>2 DEF TypeOK
<1>6. CASE ArrancaDirector(r) \/ CancelaDirector(r)
  <2>1. /\ UNCHANGED <<toolVars, sinRespuesta>>
        /\ NodoLimpio(r, "stream") \/ NodoLimpio(r, "fin")
    BY <1>6 DEF ArrancaDirector, CancelaDirector, Sale
  <2>2. NodoTipo'
    BY <2>1, FrameTyped DEF TypeOK, EventLoopTypeOK, NodoTipo, Fases
  <2> QED
    BY <1>1, <1>2, <1>3, <1>a, <2>1, <2>2
       DEF TypeOK, EventLoopTypeOK, NodoTipo, HiveToolsTypeOK, toolVars, registroVars
<1>7. CASE CierraDirector(r) \/ CancelaTrabajo(r) \/ Muere(r)
  <2>1. Olvida(r) /\ UNCHANGED guardadas /\ fallas' \in Nat
    BY <1>7 DEF CierraDirector, CancelaTrabajo, Muere, Falla, TypeOK, HiveToolsTypeOK
  <2> QED
    BY <1>1, <1>2, <1>3, <1>a, <2>1, ForgetTyped DEF TypeOK
<1>8. CASE Aterriza(r)
  <2>1. UNCHANGED <<nodoVars, registroVars, fallas>> /\ guardadas' = [guardadas EXCEPT ![r] = @ + 1]
    BY <1>8 DEF Aterriza
  <2> QED
    BY <1>1, <1>2, <1>3, <1>a, <2>1, OutsideTyped DEF TypeOK, HiveToolsTypeOK, registroVars
<1> QED
  BY <1>4, <1>5, <1>6, <1>7, <1>8

LEMMA NextTyped == IInv /\ [Next]_vars => TypeOK'
<1> SUFFICES ASSUME IInv, [Next]_vars PROVE TypeOK'
  OBVIOUS
<1>1. TypeOK /\ Director /\ EveryCallAnswered /\ Cuentas
  BY DEF IInv
<1>2. ASSUME NEW r \in Runs, Peticion(r) \/ ApiMuere(r) PROVE TypeOK'
  BY <1>1, <1>2, RequestTyped
<1>3. ASSUME NEW r \in Runs,
             Trabajo(r) \/ CancelaDirector(r) \/ CancelaTrabajo(r) \/ Muere(r) \/ Aterriza(r)
      PROVE TypeOK'
  BY <1>1, <1>3, JobTyped, StepTyped DEF Trabajo
<1>4. CASE UNCHANGED vars
  BY <1>1, <1>4, OutsideTyped DEF vars, runVars, cicloVars, toolVars, registroVars, TypeOK, HiveToolsTypeOK
<1> QED
  BY <1>2, <1>3, <1>4 DEF Next

-----------------------------------------------------------------------------
\* What an action that leaves the directors alone preserves.
LEMMA DirectorsUntouched ==
    ASSUME IInv,
           UNCHANGED <<fase, lote, sinRespuesta, busquedas, analizadas, terminada, guardadas, tardias>>,
           \A s \in Runs : /\ trabajo'[s] = "director" <=> trabajo[s] = "director"
                           /\ trabajo'[s] \in {"nada", "cola", "corre"} =>
                                 trabajo[s] \in {"nada", "cola", "corre"}
                           /\ trabajo'[s] = "radar" => trabajo[s] \in {"corre", "radar"}
    PROVE  Director' /\ EveryCallAnswered' /\ Contadas' /\ Cuentas'
  BY DEF IInv, Director, EveryCallAnswered, Contadas, Cuentas, PorGuardar

\* What an action that makes no run active and answers no request preserves.
LEMMA RacesUntouched ==
    ASSUME IInv, UNCHANGED <<peticion, juntas>>, Activos' \subseteq Activos
    PROVE  Carreras' /\ OneActiveRun'
  BY DEF IInv, Carreras, OneActiveRun

LEMMA Covered ==
    ASSUME IInv, NEW r \in Runs, trabajo[r] = "director"
    PROVE  /\ guardadas[r] + tardias[r] + EnMano(r) <= analizadas[r]
           /\ guardadas[r] + tardias[r] <= analizadas[r]
           /\ guardadas[r] <= analizadas[r]
<1>1. EnMano(r) = Cardinality(PorGuardar(r))
  BY DEF EnMano
<1>2. EnMano(r) \in Nat
  BY InHand DEF IInv
<1>3. guardadas[r] + tardias[r] + EnMano(r) <= analizadas[r]
  BY <1>1 DEF IInv, Cuentas
<1>4. guardadas[r] \in Nat /\ tardias[r] \in Nat /\ analizadas[r] \in Nat
  BY DEF IInv, TypeOK, HiveToolsTypeOK
<1> QED
  BY <1>2, <1>3, <1>4

\* The batch of one director is emptied, with the node in phase f.
LEMMA Emptied ==
    ASSUME IInv, NEW r \in Runs, NEW f \in Fases,
           fase' = [fase EXCEPT ![r] = f],
           lote' = [lote EXCEPT ![r] = {}],
           f = "stream" => sinRespuesta'[r] = 0,
           \A s \in Runs \ {r} : sinRespuesta'[s] = sinRespuesta[s],
           UNCHANGED guardadas,
           UNCHANGED registroVars \/ RegistroNuevo(r),
           \A s \in Runs \ {r} : trabajo'[s] = trabajo[s] /\ tardias'[s] = tardias[s],
           tardias'[r] \in Nat,
           trabajo'[r] = "director" =>
              UNCHANGED registroVars /\ guardadas[r] + tardias'[r] <= analizadas[r]
    PROVE  EveryCallAnswered' /\ Contadas' /\ Cuentas'
<1> USE DEF IInv, TypeOK, EventLoopTypeOK, HiveToolsTypeOK
<1>1. EveryCallAnswered'
  BY DEF EveryCallAnswered
<1>2. \A s \in Runs \ {r} : /\ lote'[s] = lote[s] /\ busquedas'[s] = busquedas[s]
                            /\ terminada'[s] = terminada[s] /\ analizadas'[s] = analizadas[s]
  BY DEF RegistroNuevo, registroVars
<1>3. lote'[r] = {} /\ terminada'[r] => terminada[r] /\ busquedas'[r] = busquedas[r]
  BY DEF RegistroNuevo, registroVars
<1>4. lote'[r] = {}
  OBVIOUS
<1>5. Contadas'
  BY <1>2, <1>3, <1>4 DEF Contadas
<1>6. ASSUME NEW s \in Runs \ {r}
      PROVE  /\ IsFiniteSet(lote'[s])
             /\ trabajo'[s] = "director" =>
                   guardadas'[s] + tardias'[s] + Cardinality(PorGuardar(s)') <= analizadas'[s]
  <2>1. PorGuardar(s)' = PorGuardar(s)
    BY <1>2 DEF PorGuardar
  <2> QED
    BY <1>2, <2>1 DEF Cuentas
<1>7. /\ IsFiniteSet(lote'[r])
      /\ trabajo'[r] = "director" =>
            guardadas'[r] + tardias'[r] + Cardinality(PorGuardar(r)') <= analizadas'[r]
  <2>1. PorGuardar(r)' = {} /\ Cardinality({}) = 0 /\ IsFiniteSet(lote'[r])
    BY <1>4, FS_EmptySet DEF PorGuardar
  <2>2. trabajo'[r] = "director" => guardadas'[r] + tardias'[r] + 0 <= analizadas'[r]
    BY DEF registroVars
  <2> QED
    BY <2>1, <2>2
<1>8. Cuentas'
  BY <1>6, <1>7 DEF Cuentas
<1> QED
  BY <1>1, <1>5, <1>8

-----------------------------------------------------------------------------
\* The steps of a director, kind by kind.
LEMMA SearchLaunched ==
    ASSUME IInv, NEW r \in Runs, NEW n \in Nat, NEW llamadas \in [1..n -> Llamadas],
           trabajo[r] = "director", UNCHANGED runVars, Lanza(r, llamadas)
    PROVE  Director' /\ EveryCallAnswered' /\ Contadas' /\ Cuentas'
<1>0. guardadas[r] + tardias[r] <= analizadas[r]
  BY Covered
<1> USE DEF IInv, TypeOK, EventLoopTypeOK, HiveToolsTypeOK
<1>1. /\ UNCHANGED <<trabajo, busquedas, analizadas, terminada, guardadas, tardias>>
      /\ fase[r] = "stream"
      /\ fase' = [fase EXCEPT ![r] = "lote"]
      /\ lote' = [lote EXCEPT ![r] = EnVuelo(r, llamadas)]
      /\ \A s \in Runs \ {r} : sinRespuesta'[s] = sinRespuesta[s]
  BY DEF Lanza, RespondeLlamadas, toolVars, registroVars, runVars, cicloVars
<1>2. lote[r] = {}
  BY <1>1 DEF EveryCallAnswered
<1>3. /\ \A s \in Runs \ {r} : lote'[s] = lote[s] /\ fase'[s] = fase[s]
      /\ lote'[r] = EnVuelo(r, llamadas) /\ fase'[r] = "lote"
  BY <1>1
<1>4. \A c \in EnVuelo(r, llamadas) : c[2] = "voz" \/ c[2] = "analiza"
  BY DEF EnVuelo
<1>5. IsFiniteSet(EnVuelo(r, llamadas))
  <2>1. IsFiniteSet(Ejecutadas(r, llamadas))
    BY CallsCounted
  <2>2. IsFiniteSet({j \in Ejecutadas(r, llamadas) : llamadas[j] = "discover_companies" /\ PasaGuardia(r)})
    BY <2>1, FS_Subset
  <2>3. IsFiniteSet({j \in Ejecutadas(r, llamadas) : llamadas[j] = "analyze_company"})
    BY <2>1, FS_Subset
  <2> DEFINE Buscan == {j \in Ejecutadas(r, llamadas) : llamadas[j] = "discover_companies" /\ PasaGuardia(r)}
             Analizan == {j \in Ejecutadas(r, llamadas) : llamadas[j] = "analyze_company"}
  <2>4. IsFiniteSet({<<i, "voz">> : i \in Buscan})
    <3> DEFINE Voz(i) == <<i, "voz">>
               V == {Voz(i) : i \in Buscan}
               f == [i \in Buscan |-> Voz(i)]
    <3>1. f \in Surjection(Buscan, V)
      BY DEF Surjection
    <3> QED
      BY <2>2, <3>1, FS_Surjection
  <2>5. IsFiniteSet({<<i, "analiza">> : i \in Analizan})
    <3> DEFINE Ana(i) == <<i, "analiza">>
               V == {Ana(i) : i \in Analizan}
               f == [i \in Analizan |-> Ana(i)]
    <3>1. f \in Surjection(Analizan, V)
      BY DEF Surjection
    <3> QED
      BY <2>3, <3>1, FS_Surjection
  <2> QED
    BY <2>4, <2>5, FS_Union DEF EnVuelo
<1>6. Director'
  <2>1. tardias[r] = 0 /\ UNCHANGED <<trabajo, guardadas, tardias>>
    BY <1>1 DEF Director
  <2>2. ASSUME NEW s \in Runs \ {r}
        PROVE  UNCHANGED <<fase[s], lote[s], sinRespuesta[s], trabajo[s], guardadas[s], tardias[s]>>
    BY <1>1, <1>3
  <2> QED
    BY <1>3, <2>1, <2>2 DEF Director
<1>7. EveryCallAnswered'
  BY <1>1, <1>3 DEF EveryCallAnswered
<1>8. Contadas'
  BY <1>1, <1>3, <1>4 DEF Contadas
<1>9. ASSUME NEW s \in Runs \ {r}
      PROVE  /\ IsFiniteSet(lote'[s])
             /\ trabajo'[s] = "director" =>
                   guardadas'[s] + tardias'[s] + Cardinality(PorGuardar(s)') <= analizadas'[s]
  <2>1. PorGuardar(s)' = PorGuardar(s)
    BY <1>3 DEF PorGuardar
  <2> QED
    BY <1>1, <1>3, <2>1 DEF Cuentas
<1>10. guardadas'[r] + tardias'[r] + Cardinality(PorGuardar(r)') <= analizadas'[r]
  <2>1. PorGuardar(r)' = {} /\ Cardinality({}) = 0
    BY <1>3, <1>4, FS_EmptySet DEF PorGuardar
  <2>2. guardadas[r] \in Nat /\ tardias[r] \in Nat /\ analizadas[r] \in Nat
    OBVIOUS
  <2> QED
    BY <1>0, <1>1, <2>1, <2>2
<1>11. Cuentas'
  BY <1>3, <1>5, <1>9, <1>10 DEF Cuentas
<1> QED
  BY <1>6, <1>7, <1>8, <1>11

LEMMA Replaced ==
    ASSUME NEW S, IsFiniteSet(S), NEW c PROVE \A x : IsFiniteSet((S \ {c}) \cup {x})
<1>1. IsFiniteSet(S \ {c})
  BY FS_Subset
<1> QED
  BY <1>1, FS_AddElement

LEMMA ToolAdvanced ==
    ASSUME IInv, NEW r \in Runs, NEW c \in lote[r],
           trabajo[r] = "director", UNCHANGED runVars, Herramienta(r, c)
    PROVE  Director' /\ EveryCallAnswered' /\ Contadas' /\ Cuentas'
<1> USE DEF IInv, TypeOK, EventLoopTypeOK, HiveToolsTypeOK
<1>1. /\ UNCHANGED <<trabajo, fase, sinRespuesta, tardias>>
      /\ fase[r] = "lote"
      /\ \A s \in Runs \ {r} : /\ lote'[s] = lote[s] /\ busquedas'[s] = busquedas[s]
                               /\ terminada'[s] = terminada[s] /\ analizadas'[s] = analizadas[s]
                               /\ guardadas'[s] = guardadas[s]
  BY DEF Herramienta, Cuenta, Descubre, Descarta, Analiza, Guarda, EnLote, Sigue, Termina, nodoSalvoLote,
         toolVars, registroVars, runVars, cicloVars
<1>2. Director'
  BY <1>1 DEF Director
<1>3. EveryCallAnswered'
  BY <1>1 DEF EveryCallAnswered
<1>4. ASSUME terminada'[r] \/ (\E x \in lote'[r] : x[2] = "busca") PROVE busquedas'[r] > 0
  <2>1. CASE Cuenta(r, c)
    BY <2>1 DEF Cuenta
  <2>2. CASE Descubre(r, c)
    BY <2>2 DEF Descubre, Contadas
  <2>3. CASE Descarta(r, c)
    BY <1>4, <2>3 DEF Descarta, Contadas, Termina, toolVars, registroVars
  <2>4. CASE Analiza(r, c)
    BY <1>4, <2>4 DEF Analiza, Contadas, Sigue
  <2>5. CASE Guarda(r, c)
    BY <1>4, <2>5 DEF Guarda, Contadas, Termina, registroVars
  <2> QED
    BY <2>1, <2>2, <2>3, <2>4, <2>5 DEF Herramienta
<1>5. Contadas'
  BY <1>1, <1>4 DEF Contadas
<1>6. /\ IsFiniteSet(lote[r]) /\ IsFiniteSet(PorGuardar(r)) /\ Cardinality(PorGuardar(r)) \in Nat
      /\ guardadas[r] + tardias[r] + Cardinality(PorGuardar(r)) <= analizadas[r]
      /\ guardadas[r] \in Nat /\ tardias[r] \in Nat /\ analizadas[r] \in Nat
  BY InHand DEF Cuentas
<1>7. IsFiniteSet(lote'[r])
  <2>1. IsFiniteSet(lote[r] \ {c})
    BY <1>6, FS_Subset
  <2>2. \A x : IsFiniteSet((lote[r] \ {c}) \cup {x})
    BY <1>6, Replaced
  <2>3. CASE Cuenta(r, c) \/ Analiza(r, c)
    <3>1. \/ lote'[r] = (lote[r] \ {c}) \cup {<<c[1], "busca">>}
          \/ lote'[r] = (lote[r] \ {c}) \cup {<<c[1], "guarda">>}
      BY <2>3 DEF Cuenta, Analiza, Sigue
    <3> QED
      BY <2>2, <3>1
  <2>4. CASE Descubre(r, c) \/ Descarta(r, c) \/ Guarda(r, c)
    <3>1. lote'[r] = lote[r] \ {c}
      BY <2>4 DEF Descubre, Descarta, Guarda, Termina
    <3> QED
      BY <2>1, <3>1
  <2> QED
    BY <2>3, <2>4 DEF Herramienta
<1>8. guardadas'[r] + tardias'[r] + Cardinality(PorGuardar(r)') <= analizadas'[r]
  <2>1. CASE Cuenta(r, c) \/ Descubre(r, c) \/ Descarta(r, c)
    <3>1. PorGuardar(r)' = PorGuardar(r)
      BY <2>1 DEF Cuenta, Descubre, Descarta, PorGuardar, Sigue, Termina
    <3>2. UNCHANGED <<guardadas, analizadas>>
      BY <2>1 DEF Cuenta, Descubre, Descarta, toolVars, registroVars
    <3> QED
      BY <1>1, <1>6, <3>1, <3>2
  <2>2. CASE Analiza(r, c)
    <3>1. PorGuardar(r)' = PorGuardar(r) \cup {<<c[1], "guarda">>}
      BY <2>2 DEF Analiza, PorGuardar, Sigue
    <3>2. Cardinality(PorGuardar(r) \cup {<<c[1], "guarda">>})
            \in {Cardinality(PorGuardar(r)), Cardinality(PorGuardar(r)) + 1}
      BY <1>6, FS_AddElement
    <3>3. guardadas'[r] = guardadas[r] /\ analizadas'[r] = analizadas[r] + 1
      BY <2>2 DEF Analiza
    <3> QED
      BY <1>1, <1>6, <3>1, <3>2, <3>3
  <2>3. CASE Guarda(r, c)
    <3>1. PorGuardar(r)' = PorGuardar(r) \ {c} /\ c \in PorGuardar(r)
      BY <2>3 DEF Guarda, PorGuardar, Termina
    <3>2. Cardinality(PorGuardar(r) \ {c}) = Cardinality(PorGuardar(r)) - 1
      BY <1>6, <3>1, FS_RemoveElement
    <3>3. guardadas'[r] \in {guardadas[r], guardadas[r] + 1} /\ analizadas'[r] = analizadas[r]
      BY <2>3 DEF Guarda, registroVars
    <3> QED
      BY <1>1, <1>6, <3>1, <3>2, <3>3
  <2> QED
    BY <2>1, <2>2, <2>3 DEF Herramienta
<1>9. ASSUME NEW s \in Runs \ {r}
      PROVE  /\ IsFiniteSet(lote'[s])
             /\ trabajo'[s] = "director" =>
                   guardadas'[s] + tardias'[s] + Cardinality(PorGuardar(s)') <= analizadas'[s]
  <2>1. PorGuardar(s)' = PorGuardar(s)
    BY <1>1 DEF PorGuardar
  <2> QED
    BY <1>1, <2>1 DEF Cuentas
<1>10. Cuentas'
  BY <1>7, <1>8, <1>9 DEF Cuentas
<1> QED
  BY <1>2, <1>3, <1>5, <1>10

LEMMA StepKeeps ==
    ASSUME IInv, NEW r \in Runs, DirectorPaso(r)
    PROVE  Director' /\ EveryCallAnswered' /\ Contadas' /\ Cuentas'
<1> USE DEF IInv, TypeOK, EventLoopTypeOK, HiveToolsTypeOK
<1>0. NodoTipo
  BY DEF NodoTipo
<1>1. trabajo[r] = "director" /\ UNCHANGED runVars /\ UNCHANGED <<trabajo, tardias>>
  BY DEF DirectorPaso, runVars, cicloVars
<1>2. ASSUME NEW f \in Fases \ {"fuera"}, UNCHANGED toolVars,
             fase' = [fase EXCEPT ![r] = f], lote' = [lote EXCEPT ![r] = {}],
             f = "fin" \/ fase[r] # "fin",
             f = "stream" => sinRespuesta'[r] = 0,
             \A s \in Runs \ {r} : sinRespuesta'[s] = sinRespuesta[s]
      PROVE  Director' /\ EveryCallAnswered' /\ Contadas' /\ Cuentas'
  <2>1. UNCHANGED <<registroVars, guardadas>>
    BY <1>2 DEF toolVars
  <2>2. EveryCallAnswered' /\ Contadas' /\ Cuentas'
    BY <1>1, <1>2, <2>1, Covered, Emptied
  <2>3. Director'
    BY <1>1, <1>2, <2>1 DEF Director
  <2> QED
    BY <2>2, <2>3
<1>3. ASSUME NEW texto \in Textos, RespondeTexto(r, texto), UNCHANGED toolVars
      PROVE  Director' /\ EveryCallAnswered' /\ Contadas' /\ Cuentas'
  <2>1. /\ Turno(r, texto, FALSE) /\ UNCHANGED sinRespuesta /\ sinRespuesta[r] = 0 /\ lote[r] = {}
        /\ fase[r] = "stream"
    BY <1>3 DEF RespondeTexto, EveryCallAnswered
  <2>a. lote' = lote
    BY <1>0, <2>1, TurnTyped
  <2>2. lote' = [lote EXCEPT ![r] = {}]
    BY <2>1, <2>a
  <2>3. PICK f \in {"stream", "espera", "fin"} : fase' = [fase EXCEPT ![r] = f]
    BY <1>0, <2>1, TurnTyped
  <2> QED
    BY <1>2, <1>3, <2>1, <2>2, <2>3 DEF Fases
<1>4. ASSUME NEW texto \in Textos, CierraLote(r, texto), UNCHANGED toolVars
      PROVE  Director' /\ EveryCallAnswered' /\ Contadas' /\ Cuentas'
  <2>1. /\ lote[r] = {} /\ sinRespuesta'[r] = 0 /\ fase[r] = "lote"
        /\ \A s \in Runs \ {r} : sinRespuesta'[s] = sinRespuesta[s]
    BY <1>4 DEF CierraLote, Contesta
  <2>2. lote = [lote EXCEPT ![r] = {}]
    BY <2>1
  <2>3. CASE Turno(r, texto, TRUE)
    <3>1. lote' = lote /\ \E f \in {"stream", "espera", "fin"} : fase' = [fase EXCEPT ![r] = f]
      BY <1>0, <2>1, <2>3, TurnTyped
    <3>2. PICK f \in {"stream", "espera", "fin"} : fase' = [fase EXCEPT ![r] = f]
      BY <3>1
    <3> QED
      BY <1>2, <1>4, <2>1, <2>2, <3>1, <3>2 DEF Fases
  <2>4. CASE fase' = [fase EXCEPT ![r] = "stream"] /\ UNCHANGED turnoVars
    BY <1>2, <1>4, <2>1, <2>2, <2>4 DEF Fases, turnoVars
  <2> QED
    BY <1>4, <2>3, <2>4 DEF CierraLote
<1>5. ASSUME NEW t \in BOOLEAN, FallaStream(r, t), UNCHANGED toolVars
      PROVE  Director' /\ EveryCallAnswered' /\ Contadas' /\ Cuentas'
  <2>1. UNCHANGED sinRespuesta /\ sinRespuesta[r] = 0 /\ fase[r] = "stream"
    BY <1>5 DEF FallaStream, EveryCallAnswered
  <2>2. CASE Sale(r)
    <3>1. fase' = [fase EXCEPT ![r] = "fin"] /\ lote' = [lote EXCEPT ![r] = {}]
      BY <2>2 DEF Sale, NodoLimpio, TurnoNuevo
    <3> QED
      BY <1>2, <1>5, <2>1, <3>1 DEF Fases
  <2>3. CASE TurnoNuevo(r) /\ UNCHANGED fase
    <3>1. fase' = [fase EXCEPT ![r] = "stream"] /\ lote' = [lote EXCEPT ![r] = {}]
      BY <2>1, <2>3 DEF TurnoNuevo
    <3> QED
      BY <1>2, <1>5, <2>1, <3>1 DEF Fases
  <2> QED
    BY <1>5, <2>2, <2>3 DEF FallaStream
<1>6. ASSUME NEW n \in 1..MaxLote, NEW llamadas \in [1..n -> Llamadas], Lanza(r, llamadas)
      PROVE  Director' /\ EveryCallAnswered' /\ Contadas' /\ Cuentas'
  <2>1. n \in Nat
    BY EventLoopAssumption
  <2> QED
    BY <1>1, <1>6, <2>1, SearchLaunched
<1>7. ASSUME NEW c \in lote[r], Herramienta(r, c)
      PROVE  Director' /\ EveryCallAnswered' /\ Contadas' /\ Cuentas'
  BY <1>1, <1>7, ToolAdvanced
<1> QED
  BY <1>3, <1>4, <1>5, <1>6, <1>7 DEF DirectorPaso

-----------------------------------------------------------------------------
\* Requests: a launch that looks, one that inserts, a job enqueued, a request that dies.
LEMMA RequestKeeps ==
    ASSUME IInv, NEW r \in Runs, Peticion(r) \/ ApiMuere(r)
    PROVE  Expediente' /\ Carreras' /\ OneActiveRun'
<1> USE DEF IInv, TypeOK, Lanzamiento, EnCurso
<1>1. CASE Consulta(r)
  <2>1. /\ UNCHANGED <<status, trabajo>> /\ Activos' = Activos
        /\ \A s \in Runs \ {r} : peticion'[s] = peticion[s]
        /\ juntas \subseteq juntas'
    BY <1>1 DEF Consulta, Activos
  <2>2. status[r] = "nada" /\ trabajo[r] = "nada" /\ peticion'[r] \in {"libre", "rechazada"}
    BY <1>1 DEF Consulta, Expediente
  <2>3. peticion'[r] = "libre" => /\ Activos = {}
                                  /\ \A s \in Runs : peticion[s] = "libre" => {r, s} \in juntas'
    BY <1>1 DEF Consulta, Libres
  <2>4. Expediente'
    BY <2>1, <2>2 DEF Expediente
  <2>5. Carreras'
    BY <2>1, <2>2, <2>3 DEF Carreras
  <2>6. OneActiveRun'
    BY <2>1, <2>2 DEF OneActiveRun, Activos
  <2> QED
    BY <2>4, <2>5, <2>6
<1>2. CASE Inserta(r, "libre", "insertada")
  <2>1. /\ UNCHANGED <<trabajo, juntas>>
        /\ \A s \in Runs \ {r} : peticion'[s] = peticion[s] /\ status'[s] = status[s]
        /\ peticion[r] = "libre" /\ peticion'[r] = "insertada" /\ status'[r] = "queued"
    BY <1>2 DEF Inserta
  <2>2. \A s \in Runs \ {r} : s \in Activos' <=> s \in Activos
    BY <2>1 DEF Activos
  <2>3. Expediente'
    BY <2>1 DEF Expediente
  <2>4. \A s \in Runs \ {r} : {r, s} = {s, r}
    OBVIOUS
  <2>5. Carreras'
    BY <2>1, <2>2, <2>4 DEF Carreras
  <2>6. OneActiveRun'
    BY <2>1, <2>2, <2>4 DEF OneActiveRun, Carreras, Activos
  <2> QED
    BY <2>3, <2>5, <2>6
<1>3. CASE Inserta(r, "nada", "sinCampana")
  <2>1. /\ UNCHANGED <<trabajo, juntas>>
        /\ \A s \in Runs \ {r} : peticion'[s] = peticion[s] /\ status'[s] = status[s]
        /\ peticion[r] = "nada" /\ peticion'[r] = "sinCampana" /\ status'[r] = "queued"
    BY <1>3 DEF Inserta
  <2>2. \A s \in Runs \ {r} : s \in Activos' <=> s \in Activos
    BY <2>1 DEF Activos
  <2>3. Expediente'
    BY <2>1 DEF Expediente
  <2>4. Carreras'
    BY <2>1, <2>2 DEF Carreras
  <2>5. OneActiveRun'
    BY <2>1, <2>2 DEF OneActiveRun, Activos
  <2> QED
    BY <2>3, <2>4, <2>5
<1>4. CASE \/ Encola(r, "insertada", "encolada") \/ Encola(r, "sinCampana", "enviada") \/ ApiMuere(r)
  <2>1. /\ UNCHANGED <<status, juntas>> /\ Activos' = Activos
        /\ \A s \in Runs \ {r} : peticion'[s] = peticion[s] /\ trabajo'[s] = trabajo[s]
        /\ peticion[r] \in {"libre", "insertada", "sinCampana"}
        /\ peticion'[r] \in {"encolada", "muerta", "enviada", "perdida"}
    BY <1>4 DEF Encola, ApiMuere, Activos
  <2>2. /\ (peticion'[r] \in Lanzamiento) = (peticion[r] \in Lanzamiento)
        /\ trabajo'[r] # trabajo[r] => trabajo'[r] = "cola" /\ peticion[r] # "libre"
    <3>1. CASE Encola(r, "insertada", "encolada") \/ Encola(r, "sinCampana", "enviada")
      BY <3>1 DEF Encola
    <3>2. CASE ApiMuere(r)
      BY <3>2 DEF ApiMuere
    <3> QED
      BY <1>4, <3>1, <3>2
  <2>3. Expediente'
    BY <2>1, <2>2 DEF Expediente
  <2>4. Carreras'
    BY <2>1, <2>2 DEF Carreras
  <2>5. \A s \in Runs : peticion'[s] \in Lanzamiento => peticion[s] \in Lanzamiento
    BY <2>1, <2>2
  <2>6. OneActiveRun'
    BY <2>1, <2>5 DEF OneActiveRun, Activos
  <2> QED
    BY <2>3, <2>4, <2>6
<1> QED
  BY <1>1, <1>2, <1>3, <1>4 DEF Peticion

\* The worker makes no run active, and closes a run only with its job.
LEMMA WorkerKeeps ==
    ASSUME IInv, NEW r \in Runs,
           Trabajo(r) \/ CancelaDirector(r) \/ CancelaTrabajo(r) \/ Muere(r) \/ Aterriza(r)
    PROVE  Expediente' /\ Carreras' /\ OneActiveRun'
<1> USE DEF IInv, TypeOK, EnCurso
<1>1. CASE DirectorPaso(r) \/ CancelaDirector(r) \/ GuardaRadar(r) \/ Aterriza(r)
  <2>1. UNCHANGED <<status, peticion, trabajo, juntas>>
    BY <1>1 DEF DirectorPaso, CancelaDirector, GuardaRadar, Aterriza, runVars, cicloVars
  <2>2. Expediente'
    BY <2>1 DEF Expediente
  <2>3. Activos' = Activos
    BY <2>1 DEF Activos
  <2> QED
    BY <2>1, <2>2, <2>3, RacesUntouched
<1>2. CASE \/ Toma(r) \/ ArrancaDirector(r) \/ ArrancaRadar(r) \/ CierraRadar(r)
           \/ FallaTrabajo(r) \/ CierraDirector(r) \/ CancelaTrabajo(r) \/ Muere(r)
  <2>1. /\ UNCHANGED <<peticion, juntas>>
        /\ \A s \in Runs \ {r} : trabajo'[s] = trabajo[s] /\ status'[s] = status[s]
        /\ trabajo[r] \in EnCurso \cup {"cola"}
        /\ trabajo'[r] \notin {"nada", "cola"}
    BY <1>2 DEF Toma, ArrancaDirector, ArrancaRadar, CierraRadar, FallaTrabajo, CierraDirector,
                CancelaTrabajo, Muere
  <2>2. /\ status[r] \in {"queued", "running"}
        /\ peticion[r] \notin {"nada", "libre", "rechazada", "insertada", "sinCampana"}
    BY <2>1 DEF Expediente
  <2>3. \/ status'[r] = status[r] \/ status'[r] = "running"
        \/ trabajo'[r] \notin EnCurso
    BY <1>2 DEF Toma, ArrancaDirector, ArrancaRadar, CierraRadar, FallaTrabajo, CierraDirector,
                CancelaTrabajo, Muere
  <2>4. Expediente'
    BY <2>1, <2>2, <2>3 DEF Expediente
  <2>5. Activos' \subseteq Activos
    BY <2>1, <2>2 DEF Activos
  <2> QED
    BY <2>1, <2>4, <2>5, RacesUntouched
<1> QED
  BY <1>1, <1>2 DEF Trabajo

\* The worker and the directors.
LEMMA JobKeeps ==
    ASSUME IInv, NEW r \in Runs,
           Trabajo(r) \/ CancelaDirector(r) \/ CancelaTrabajo(r) \/ Muere(r) \/ Aterriza(r)
    PROVE  Director' /\ EveryCallAnswered' /\ Contadas' /\ Cuentas'
<1> USE DEF IInv, TypeOK, EventLoopTypeOK, HiveToolsTypeOK, EnCurso
<1>1. CASE DirectorPaso(r)
  BY <1>1, StepKeeps
<1>2. CASE Toma(r) \/ ArrancaRadar(r) \/ CierraRadar(r) \/ FallaTrabajo(r)
  <2>1. /\ UNCHANGED <<fase, lote, sinRespuesta, busquedas, analizadas, terminada, guardadas, tardias>>
        /\ trabajo[r] \in {"cola", "corre", "radar"}
        /\ \A s \in Runs \ {r} : trabajo'[s] = trabajo[s]
        /\ trabajo'[r] \in {"corre", "radar", "hecho", "invalido"}
        /\ trabajo'[r] = "corre" => trabajo[r] = "cola"
        /\ trabajo'[r] = "radar" => trabajo[r] = "corre"
    BY <1>2 DEF Toma, ArrancaRadar, CierraRadar, FallaTrabajo, nodoVars, turnoVars, registroVars, toolVars
  <2> QED
    BY <2>1, DirectorsUntouched
<1>3. CASE GuardaRadar(r)
  <2>1. /\ UNCHANGED <<fase, lote, sinRespuesta, busquedas, analizadas, terminada, trabajo, tardias>>
        /\ trabajo[r] = "radar" /\ \A s \in Runs \ {r} : guardadas'[s] = guardadas[s]
    BY <1>3 DEF GuardaRadar, runVars, cicloVars, nodoVars, turnoVars, registroVars
  <2>2. \A s \in Runs : PorGuardar(s)' = PorGuardar(s)
    BY <2>1 DEF PorGuardar
  <2>3. Director' /\ EveryCallAnswered' /\ Contadas'
    BY <2>1 DEF Director, EveryCallAnswered, Contadas
  <2>4. Cuentas'
    BY <2>1, <2>2 DEF Cuentas
  <2> QED
    BY <2>3, <2>4
<1>4. CASE ArrancaDirector(r)
  <2>1. /\ fase' = [fase EXCEPT ![r] = "stream"] /\ lote' = [lote EXCEPT ![r] = {}]
        /\ trabajo[r] = "corre" /\ trabajo' = [trabajo EXCEPT ![r] = "director"]
        /\ UNCHANGED <<registroVars, guardadas, sinRespuesta, tardias>>
    BY <1>4 DEF ArrancaDirector, NodoLimpio, TurnoNuevo, toolVars
  <2>2. sinRespuesta[r] = 0 /\ guardadas[r] = 0 /\ tardias[r] = 0 /\ analizadas[r] \in Nat
    BY <2>1 DEF Director
  <2>3. /\ "stream" \in Fases /\ sinRespuesta'[r] = 0
        /\ tardias'[r] \in Nat /\ guardadas[r] + tardias'[r] <= analizadas[r]
        /\ \A s \in Runs \ {r} : /\ sinRespuesta'[s] = sinRespuesta[s] /\ trabajo'[s] = trabajo[s]
                                 /\ tardias'[s] = tardias[s]
    BY <2>1, <2>2 DEF Fases
  <2>4. EveryCallAnswered' /\ Contadas' /\ Cuentas'
    BY <2>1, <2>3, Emptied
  <2>5. Director'
    BY <2>1 DEF Director
  <2> QED
    BY <2>4, <2>5
<1>5. CASE CancelaDirector(r)
  <2>1. /\ fase' = [fase EXCEPT ![r] = "fin"] /\ lote' = [lote EXCEPT ![r] = {}]
        /\ trabajo[r] = "director" /\ fase[r] # "fin" /\ Deja(r)
        /\ UNCHANGED <<trabajo, registroVars, guardadas, sinRespuesta>>
    BY <1>5 DEF CancelaDirector, Sale, NodoLimpio, TurnoNuevo, toolVars, cicloVars
  <2>2. /\ EnMano(r) \in Nat /\ tardias[r] \in Nat /\ guardadas[r] + tardias[r] + EnMano(r) <= analizadas[r]
        /\ tardias' = [tardias EXCEPT ![r] = @ + EnMano(r)]
    BY <2>1, InHand, Covered DEF Deja
  <2>3. /\ tardias'[r] \in Nat /\ guardadas[r] + tardias'[r] <= analizadas[r]
        /\ \A s \in Runs \ {r} : tardias'[s] = tardias[s]
    BY <2>2
  <2>4. EveryCallAnswered' /\ Contadas' /\ Cuentas'
    BY <2>1, <2>3, Emptied DEF Fases
  <2>5. Director'
    BY <2>1, <2>3 DEF Director
  <2> QED
    BY <2>4, <2>5
<1>6. CASE CierraDirector(r) \/ CancelaTrabajo(r) \/ Muere(r)
  <2>0. EnMano(r) \in Nat /\ tardias[r] \in Nat /\ (Deja(r) \/ UNCHANGED tardias)
    BY <1>6, InHand DEF CierraDirector, CancelaTrabajo, Muere
  <2>1. /\ Olvida(r) /\ UNCHANGED guardadas
        /\ \A s \in Runs \ {r} : trabajo'[s] = trabajo[s] /\ tardias'[s] = tardias[s]
        /\ tardias'[r] \in Nat
        /\ trabajo'[r] \in {"hecho", "cortado", "muerto"}
    BY <1>6, <2>0 DEF CierraDirector, CancelaTrabajo, Muere, Deja
  <2>2. /\ fase' = [fase EXCEPT ![r] = "fuera"] /\ lote' = [lote EXCEPT ![r] = {}]
        /\ RegistroNuevo(r) /\ sinRespuesta' = [sinRespuesta EXCEPT ![r] = 0]
    BY <2>1 DEF Olvida, NodoLimpio, TurnoNuevo, Contesta
  <2>3. EveryCallAnswered' /\ Contadas' /\ Cuentas'
    BY <2>1, <2>2, Emptied DEF Fases
  <2>4. Director'
    BY <2>1, <2>2 DEF Director
  <2> QED
    BY <2>3, <2>4
<1>7. CASE Aterriza(r)
  <2>1. /\ UNCHANGED <<fase, lote, sinRespuesta, busquedas, analizadas, terminada, trabajo>>
        /\ \A s \in Runs \ {r} : guardadas'[s] = guardadas[s] /\ tardias'[s] = tardias[s]
        /\ tardias[r] > 0 /\ tardias'[r] = tardias[r] - 1 /\ guardadas'[r] = guardadas[r] + 1
    BY <1>7 DEF Aterriza, cicloVars, nodoVars, turnoVars, registroVars
  <2>2. \A s \in Runs : PorGuardar(s)' = PorGuardar(s)
    BY <2>1 DEF PorGuardar
  <2>3. \A s \in Runs : guardadas'[s] + tardias'[s] = guardadas[s] + tardias[s]
    BY <2>1
  <2>4. Director' /\ EveryCallAnswered' /\ Contadas'
    BY <2>1 DEF Director, EveryCallAnswered, Contadas
  <2>5. Cuentas'
    BY <2>1, <2>2, <2>3 DEF Cuentas
  <2> QED
    BY <2>4, <2>5
<1> QED
  BY <1>1, <1>2, <1>3, <1>4, <1>5, <1>6, <1>7 DEF Trabajo

LEMMA Invariant == IInv /\ [Next]_vars => IInv'
<1> SUFFICES ASSUME IInv, [Next]_vars PROVE IInv'
  OBVIOUS
<1>0. TypeOK'
  BY NextTyped
<1>1. ASSUME NEW r \in Runs, Peticion(r) \/ ApiMuere(r) PROVE IInv'
  <2>1. /\ UNCHANGED <<fase, lote, sinRespuesta, busquedas, analizadas, terminada, guardadas, tardias>>
        /\ \A s \in Runs \ {r} : trabajo'[s] = trabajo[s]
        /\ trabajo'[r] = trabajo[r] \/ trabajo'[r] = "cola"
    BY <1>1 DEF Peticion, Consulta, Inserta, Encola, ApiMuere, nodoVars, turnoVars, registroVars, toolVars,
                IInv, TypeOK
  <2>2. trabajo'[r] = trabajo[r] \/ trabajo[r] = "nada"
    BY <1>1 DEF Peticion, Consulta, Inserta, Encola, ApiMuere, IInv, Expediente
  <2>3. Director' /\ EveryCallAnswered' /\ Contadas' /\ Cuentas'
    BY <2>1, <2>2, DirectorsUntouched
  <2> QED
    BY <1>0, <1>1, <2>3, RequestKeeps DEF IInv
<1>2. ASSUME NEW r \in Runs,
             Trabajo(r) \/ CancelaDirector(r) \/ CancelaTrabajo(r) \/ Muere(r) \/ Aterriza(r)
      PROVE IInv'
  BY <1>0, <1>2, WorkerKeeps, JobKeeps DEF IInv
<1>3. CASE UNCHANGED vars
  <2>1. UNCHANGED <<fase, lote, sinRespuesta, busquedas, analizadas, terminada, guardadas,
                    trabajo, status, peticion, juntas, tardias>>
    BY <1>3 DEF vars, runVars, cicloVars, nodoVars, turnoVars, registroVars, toolVars
  <2>2. Director' /\ EveryCallAnswered' /\ Contadas' /\ Cuentas'
    BY <2>1, DirectorsUntouched
  <2>3. Activos' = Activos
    BY <2>1 DEF Activos
  <2>4. Carreras' /\ OneActiveRun'
    BY <2>1, <2>3, RacesUntouched
  <2>5. Expediente'
    BY <2>1 DEF IInv, Expediente
  <2> QED
    BY <1>0, <2>2, <2>4, <2>5 DEF IInv
<1> QED
  BY <1>1, <1>2, <1>3 DEF Next

LEMMA Start == Init => IInv
<1> SUFFICES ASSUME Init PROVE IInv
  OBVIOUS
<1>1. TypeOK
  BY DEF Init, TypeOK, EventLoopInit, HiveToolsInit, EventLoopTypeOK, HiveToolsTypeOK, Fases
<1>2. Expediente /\ Director /\ EveryCallAnswered /\ Contadas
  BY DEF Init, EventLoopInit, HiveToolsInit, Expediente, Director, EveryCallAnswered, Contadas, EnCurso
<1>3. Carreras /\ OneActiveRun
  BY DEF Init, Carreras, OneActiveRun, Activos
<1>4. Cuentas
  BY FS_EmptySet DEF Init, EventLoopInit, Cuentas
<1> QED
  BY <1>1, <1>2, <1>3, <1>4 DEF IInv

\* The variables keep their types, with any number of iterations, retries and parallel calls.
THEOREM Typing == Spec => []TypeOK
<1>1. IInv => TypeOK
  BY DEF IInv
<1> QED
  BY <1>1, Start, Invariant, PTL DEF Spec

\* The LLM is asked only on a conversation in which every tool call has its result.
THEOREM Answers == Spec => []EveryCallAnswered
<1>1. IInv => EveryCallAnswered
  BY DEF IInv
<1> QED
  BY <1>1, Start, Invariant, PTL DEF Spec

\* The totals of the report cover every lead saved, whatever the interleaving of the analyses.
THEOREM Leads == Spec => []EveryLeadCounted
<1>1. IInv => EveryLeadCounted
  BY Covered DEF EveryLeadCounted
<1> QED
  BY <1>1, Start, Invariant, PTL DEF Spec

\* Two launched runs are active together only when their requests crossed, for any number of them.
THEOREM Launches == Spec => []OneActiveRun
<1>1. IInv => OneActiveRun
  BY DEF IInv
<1> QED
  BY <1>1, Start, Invariant, PTL DEF Spec

-----------------------------------------------------------------------------
\* Only a batch of calls puts a search to wait, and not after one has returned.
LEMMA SearchesOnce ==
    IInv /\ [Next]_vars => \A r \in Runs : terminada[r] => ~\E c \in lote'[r] \ lote[r] : c[2] = "voz"
<1> SUFFICES ASSUME IInv, [Next]_vars, NEW r \in Runs, terminada[r], NEW c \in lote'[r] \ lote[r]
             PROVE  c[2] # "voz"
  OBVIOUS
<1> USE DEF IInv, TypeOK, EventLoopTypeOK, HiveToolsTypeOK
<1>0. NodoTipo
  BY DEF NodoTipo
<1>1. ASSUME NEW s \in Runs, \/ lote' = lote \/ lote' = [lote EXCEPT ![s] = {}] PROVE FALSE
  BY <1>1
<1>2. ASSUME NEW s \in Runs, DirectorPaso(s) PROVE c[2] # "voz"
  <2>1. ASSUME NEW texto \in Textos, RespondeTexto(s, texto) \/ CierraLote(s, texto) PROVE FALSE
    <3>1. lote[s] = {}
      BY <2>1 DEF RespondeTexto, CierraLote, EveryCallAnswered
    <3>2. \/ Turno(s, texto, TRUE) \/ Turno(s, texto, FALSE) \/ UNCHANGED turnoVars
      BY <2>1 DEF RespondeTexto, CierraLote
    <3>3. lote' = lote
      BY <1>0, <3>1, <3>2, TurnTyped DEF turnoVars
    <3> QED
      BY <1>1, <3>3
  <2>2. ASSUME NEW t \in BOOLEAN, FallaStream(s, t) PROVE FALSE
    <3>1. lote' = [lote EXCEPT ![s] = {}]
      BY <2>2 DEF FallaStream, Sale, NodoLimpio, TurnoNuevo
    <3> QED
      BY <1>1, <3>1
  <2>3. ASSUME NEW x \in lote[s], Herramienta(s, x) PROVE c[2] # "voz"
    <3>1. \/ lote' = [lote EXCEPT ![s] = @ \ {x}]
          \/ lote' = [lote EXCEPT ![s] = (@ \ {x}) \cup {<<x[1], "busca">>}]
          \/ lote' = [lote EXCEPT ![s] = (@ \ {x}) \cup {<<x[1], "guarda">>}]
      BY <2>3 DEF Herramienta, Cuenta, Descubre, Descarta, Analiza, Guarda, Sigue, Termina
    <3> QED
      BY <3>1
  <2>4. ASSUME NEW n \in 1..MaxLote, NEW llamadas \in [1..n -> Llamadas], Lanza(s, llamadas)
        PROVE c[2] # "voz"
    <3>1. lote' = [lote EXCEPT ![s] = EnVuelo(s, llamadas)]
      BY <2>4 DEF Lanza, RespondeLlamadas
    <3>2. r = s /\ c \in EnVuelo(s, llamadas)
      BY <3>1
    <3>3. ~PasaGuardia(s)
      BY <3>2 DEF Contadas, PasaGuardia
    <3> QED
      BY <3>2, <3>3 DEF EnVuelo
  <2> QED
    BY <1>2, <2>1, <2>2, <2>3, <2>4 DEF DirectorPaso
<1>3. ASSUME NEW s \in Runs, Peticion(s) \/ ApiMuere(s) PROVE FALSE
  <2>1. lote' = lote
    BY <1>3 DEF Peticion, Consulta, Inserta, Encola, ApiMuere, nodoVars, turnoVars
  <2> QED
    BY <1>1, <1>3, <2>1
<1>4. ASSUME NEW s \in Runs,
             \/ Toma(s) \/ ArrancaDirector(s) \/ ArrancaRadar(s) \/ GuardaRadar(s) \/ CierraRadar(s)
             \/ FallaTrabajo(s) \/ CierraDirector(s)
             \/ CancelaDirector(s) \/ CancelaTrabajo(s) \/ Muere(s) \/ Aterriza(s)
      PROVE FALSE
  <2>1. lote' = lote \/ lote' = [lote EXCEPT ![s] = {}]
    BY <1>4 DEF Toma, ArrancaDirector, ArrancaRadar, GuardaRadar, CierraRadar, FallaTrabajo, CierraDirector,
                CancelaDirector, CancelaTrabajo, Muere, Aterriza, Olvida, Sale, NodoLimpio, TurnoNuevo, nodoVars, turnoVars
  <2> QED
    BY <1>1, <2>1
<1>5. ~UNCHANGED vars
  BY DEF vars, nodoVars, turnoVars
<1> QED
  BY <1>2, <1>3, <1>4, <1>5 DEF Next, Trabajo

\* A search that has returned is never started again in its job, whatever the LLM asks for.
THEOREM Searches == Spec => OneSearchBatch
<1>1. IInv /\ [Next]_vars => [\A r \in Runs : terminada[r] => ~\E c \in lote'[r] \ lote[r] : c[2] = "voz"]_vars
  BY SearchesOnce
<1> QED
  BY <1>1, Start, Invariant, PTL DEF Spec, OneSearchBatch

\* A step that the life of the runs does not see.
VidaIgual == UNCHANGED <<status, guardadas, tardias>>

\* Every step is a step of a run's life, or leaves its status and its leads as they were.
LEMMA StepsOfALife ==
    IInv /\ [Next]_vars => [Ciclo!LifecycleNext]_<<status, guardadas, tardias>>
<1> SUFFICES ASSUME IInv, [Next]_vars PROVE Ciclo!LifecycleNext \/ VidaIgual
  BY DEF VidaIgual
<1> USE DEF IInv, TypeOK, HiveToolsTypeOK, EnCurso, VidaIgual
<1>1. ASSUME NEW r \in Runs, Peticion(r) \/ ApiMuere(r) PROVE Ciclo!LifecycleNext \/ VidaIgual
  <2>1. CASE Inserta(r, "libre", "insertada") \/ Inserta(r, "nada", "sinCampana")
    <3>1. Ciclo!Crea(r)
      BY <2>1 DEF Inserta, Expediente, toolVars, Ciclo!Crea, Ciclo!Pasa
    <3> QED
      BY <3>1 DEF Ciclo!LifecycleNext
  <2> QED
    BY <1>1, <2>1 DEF Peticion, Consulta, Encola, ApiMuere, toolVars
<1>2. ASSUME NEW r \in Runs, Toma(r) PROVE Ciclo!LifecycleNext \/ VidaIgual
  <2>1. status[r] = "queued" /\ UNCHANGED <<guardadas, tardias>>
    BY <1>2 DEF Toma, Expediente
  <2>2. Ciclo!Empieza(r) \/ VidaIgual
    BY <1>2, <2>1 DEF Toma, Ciclo!Empieza, Ciclo!Pasa
  <2> QED
    BY <2>2 DEF Ciclo!LifecycleNext
<1>3. ASSUME NEW r \in Runs, CierraRadar(r) \/ FallaTrabajo(r) \/ CierraDirector(r)
      PROVE  Ciclo!LifecycleNext \/ VidaIgual
  <2>1. status[r] \in {"queued", "running"} /\ UNCHANGED <<guardadas, tardias>>
    BY <1>3 DEF CierraRadar, FallaTrabajo, CierraDirector, Expediente, toolVars
  <2>2. \/ VidaIgual
        \/ \E fin \in {"complete", "error"} : status' = [status EXCEPT ![r] = fin]
    BY <1>3, <2>1 DEF CierraRadar, FallaTrabajo, CierraDirector
  <2>3. Ciclo!Acaba(r) \/ VidaIgual
    BY <2>1, <2>2 DEF Ciclo!Acaba, Ciclo!Pasa, Ciclo!Abiertos, Ciclo!Terminales
  <2> QED
    BY <2>3 DEF Ciclo!LifecycleNext
<1>4. ASSUME NEW r \in Runs, trabajo[r] \in EnCurso, tardias[r] = 0, UNCHANGED <<status, tardias>>,
             guardadas' = [guardadas EXCEPT ![r] = @ + 1]
      PROVE  Ciclo!LifecycleNext
  <2>1. Ciclo!GuardaLead(r)
    BY <1>4 DEF Expediente, Ciclo!GuardaLead, Ciclo!Abiertos
  <2> QED
    BY <2>1 DEF Ciclo!LifecycleNext
<1>5. ASSUME NEW r \in Runs, GuardaRadar(r) PROVE Ciclo!LifecycleNext \/ VidaIgual
  <2>1. trabajo[r] \in EnCurso /\ tardias[r] = 0 /\ UNCHANGED <<status, tardias>>
    BY <1>5 DEF GuardaRadar, Director, runVars, cicloVars
  <2> QED
    BY <1>4, <1>5, <2>1 DEF GuardaRadar
<1>6. ASSUME NEW r \in Runs, DirectorPaso(r) PROVE Ciclo!LifecycleNext \/ VidaIgual
  <2>1. trabajo[r] \in EnCurso /\ UNCHANGED <<status, tardias>>
    BY <1>6 DEF DirectorPaso, runVars, cicloVars
  <2>2. CASE UNCHANGED guardadas
    BY <2>1, <2>2
  <2>3. ASSUME NEW c \in lote[r], Guarda(r, c) PROVE Ciclo!LifecycleNext \/ VidaIgual
    <3>1. tardias[r] = 0
      BY <1>6, <2>3 DEF DirectorPaso, Director, Guarda, EnLote
    <3>2. UNCHANGED guardadas \/ guardadas' = [guardadas EXCEPT ![r] = @ + 1]
      BY <2>3 DEF Guarda
    <3> QED
      BY <1>4, <2>1, <2>2, <3>1, <3>2
  <2> QED
    BY <1>6, <2>2, <2>3
       DEF DirectorPaso, Lanza, Herramienta, Cuenta, Descubre, Descarta, Analiza, toolVars
<1>7. ASSUME NEW r \in Runs, ArrancaDirector(r) \/ ArrancaRadar(r) PROVE VidaIgual
  BY <1>7 DEF ArrancaDirector, ArrancaRadar, toolVars
<1>8. ASSUME NEW r \in Runs, CancelaDirector(r) \/ CancelaTrabajo(r) \/ Muere(r)
      PROVE  Ciclo!LifecycleNext \/ VidaIgual
  <2>1. trabajo[r] \in EnCurso /\ Deja(r) /\ UNCHANGED <<status, guardadas>>
    BY <1>8 DEF CancelaDirector, CancelaTrabajo, Muere, cicloVars, toolVars
  <2>2. EnMano(r) \in Nat /\ tardias' = [tardias EXCEPT ![r] = @ + EnMano(r)] /\ tardias[r] \in Nat
    BY <2>1, InHand DEF Deja
  <2>3. CASE EnMano(r) = 0
    <3>1. tardias' = tardias
      BY <2>2, <2>3
    <3> QED
      BY <2>1, <3>1
  <2>4. CASE EnMano(r) > 0
    <3>1. tardias[r] = 0
      <4>1. CASE trabajo[r] = "director" /\ fase[r] = "fin"
        <5>1. PorGuardar(r) = {} /\ EnMano(r) = Cardinality(PorGuardar(r))
          BY <4>1 DEF Director, PorGuardar, EnMano
        <5>2. EnMano(r) = 0
          BY <5>1, FS_EmptySet
        <5> QED
          BY <2>4, <5>2
      <4> QED
        BY <2>1, <4>1 DEF Director
    <3>2. tardias'[r] > 0 /\ tardias' = [tardias EXCEPT ![r] = tardias'[r]]
      BY <2>2, <2>4, <3>1
    <3>3. Ciclo!Abandona(r)
      BY <2>1, <3>1, <3>2 DEF Expediente, Ciclo!Abandona, Ciclo!Abiertos
    <3> QED
      BY <3>3 DEF Ciclo!LifecycleNext
  <2> QED
    BY <2>2, <2>3, <2>4
<1>9. ASSUME NEW r \in Runs, Aterriza(r) PROVE Ciclo!LifecycleNext
  <2>1. Ciclo!LlegaTarde(r)
    BY <1>9 DEF Aterriza, cicloVars, Ciclo!LlegaTarde
  <2> QED
    BY <2>1 DEF Ciclo!LifecycleNext
<1>10. CASE UNCHANGED vars
  BY <1>10 DEF vars, runVars, cicloVars, toolVars
<1> QED
  BY <1>1, <1>2, <1>3, <1>5, <1>6, <1>7, <1>8, <1>9, <1>10 DEF Next, Trabajo

\* The prospecting side implements module RunLifecycle: a run ends once and for good, no save of
\* a lead starts after its run has ended, and what may still land then is what Motor had been
\* given when the job was cut, for any number of runs, slots and parallel tools.
THEOREM Lives == Spec => RunsFollowLifecycle
<1>1. Init => Ciclo!LifecycleInit
  BY DEF Init, HiveToolsInit, Ciclo!LifecycleInit
<1> QED
  BY <1>1, Start, Invariant, StepsOfALife, PTL DEF Spec, RunsFollowLifecycle, Ciclo!LifecycleSpec

=============================================================================
