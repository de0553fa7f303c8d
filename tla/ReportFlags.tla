---------------------------- MODULE ReportFlags -----------------------------
(***************************************************************************)
(* The mails of a jornada (report_scheduler.py): the report at its end,    *)
(* the notice when it starts, the reminders while nobody has authorised    *)
(* it.  Periodic jobs send them and note what they sent in a flag of       *)
(* cobranza_runtime, which is all that a restart leaves of them.           *)
(***************************************************************************)
EXTENDS Fallas

CONSTANTS
    Jobs,              \* the jobs that are registered
    MaxIntentos,       \* attempts at the report of a day (8 in the code)
    MaxRecordatorios,  \* reminders a day (3)
    Espera,            \* hours between two reminders (2)
    Apertura,          \* the hour the first franja opens
    Cierres,           \* hours the last one may close at; editable while it runs
    Horas, MaxDia      \* bounds: hours of a day, days

ASSUME ReportFlagsAssumption ==
    /\ {MaxIntentos, MaxRecordatorios, Espera, Apertura, Horas, MaxDia} \subseteq Nat
    /\ Cierres \subseteq Nat
    /\ MaxDia > 0
    /\ Jobs \subseteq {"finJornada", "notificaciones"}

Avisos == {"fin", "inicio", "recordatorio"}

\* Days count from 1, so 0 is a flag that was never written.
Dias == 1 .. MaxDia

VARIABLES
    dia, hora,
    cierre,
    actividad,   \* llamadas_iniciadas of today > 0
    autorizada,  \* is_jornada_authorized
    sello,       \* flag.fecha of "fin" and "inicio": the day they were last sealed
    cuentaDia, cuenta, ultima,  \* attempts of "fin", reminders: day, number, hour of the last
    job,         \* a run of a job: "no", "envia", "salio", "noSalio"
    aviso, delDia, iban,  \* ... the mail it sends, its `hoy`, the number it had read
    enviados     \* history: mails that left, by kind and day, but for those whose run was lost

relojVars == <<dia, hora, cierre, actividad, autorizada>>
flagVars  == <<sello, cuentaDia, cuenta, ultima>>
jobVars   == <<job, aviso, delDia, iban>>
histVars  == <<enviados, fallas>>
reportVars == <<relojVars, flagVars, jobVars, enviados>>

ReportTypeOK ==
    /\ dia \in Dias /\ hora \in Nat
    /\ cierre \in Cierres
    /\ actividad \in BOOLEAN /\ autorizada \in BOOLEAN
    /\ sello \in [Avisos -> {0} \cup Dias]
    /\ cuentaDia \in [Avisos -> {0} \cup Dias]
    /\ cuenta \in [Avisos -> Nat] /\ ultima \in [Avisos -> Nat]
    /\ job \in [Jobs -> {"no", "envia", "salio", "noSalio"}]
    /\ aviso \in [Jobs -> Avisos \cup {"nada"}]
    /\ delDia \in [Jobs -> Dias]
    /\ iban \in [Jobs -> Nat]
    /\ enviados \in [Avisos -> [Dias -> Nat]]
    /\ fallas \in Nat

ReportInit ==
    /\ dia = 1 /\ hora = 0
    /\ cierre \in Cierres
    /\ actividad = FALSE /\ autorizada = FALSE
    /\ sello = [k \in Avisos |-> 0] /\ cuentaDia = [k \in Avisos |-> 0]
    /\ cuenta = [k \in Avisos |-> 0] /\ ultima = [k \in Avisos |-> 0]
    /\ job = [j \in Jobs |-> "no"]
    /\ aviso = [j \in Jobs |-> "nada"]
    /\ delDia = [j \in Jobs |-> 1] /\ iban = [j \in Jobs |-> 0]
    /\ enviados = [k \in Avisos |-> [d \in Dias |-> 0]]
    /\ fallas = 0

-----------------------------------------------------------------------------
\* The day: hours pass, people authorise and withdraw, calls start, the last franja is moved.
Avanza ==
    /\ IF hora + 1 < Horas
       THEN hora' = hora + 1 /\ UNCHANGED <<dia, actividad, autorizada>>
       ELSE /\ dia < MaxDia /\ dia' = dia + 1 /\ hora' = 0
            /\ actividad' = FALSE /\ autorizada' = FALSE
    /\ UNCHANGED <<cierre, flagVars, jobVars, histVars>>

Autoriza == autorizada' = ~autorizada /\ UNCHANGED <<dia, hora, cierre, actividad>>

EmpiezaLlamadas ==
    /\ autorizada /\ Apertura <= hora /\ hora <= cierre
    /\ actividad' = TRUE
    /\ UNCHANGED <<dia, hora, cierre, autorizada>>

CambiaCierre == cierre' \in Cierres /\ UNCHANGED <<dia, hora, actividad, autorizada>>

Jornada ==
    /\ Autoriza \/ EmpiezaLlamadas \/ CambiaCierre
    /\ UNCHANGED <<flagVars, jobVars, histVars>>

-----------------------------------------------------------------------------
EnJornada == Apertura <= hora /\ hora <= cierre

Sellado(k) == sello[k] = dia

\* The number in the flag, if it is about today.
Cuenta(k) == IF cuentaDia[k] = dia THEN cuenta[k] ELSE 0

\* Mutant: the seal is not looked at.
TocaFinSiempre == hora > cierre /\ actividad /\ Cuenta("fin") < MaxIntentos

\* fin_jornada_check_job: closed, something was called, not sent and not given up.
TocaFin == hora > cierre /\ actividad /\ ~Sellado("fin") /\ Cuenta("fin") < MaxIntentos

\* jornada_notificaciones_job: authorised and calling, once a day ...
TocaInicio == EnJornada /\ autorizada /\ actividad /\ ~Sellado("inicio")

\* ... or not authorised, a few times with a pause.
TocaRecordatorio ==
    /\ EnJornada /\ ~autorizada
    /\ Cuenta("recordatorio") < MaxRecordatorios
    /\ Cuenta("recordatorio") > 0 => ultima["recordatorio"] + Espera <= hora

Toca(j, k) ==
    \/ j = "finJornada" /\ k = "fin" /\ TocaFin
    \/ j = "notificaciones" /\ k = "inicio" /\ TocaInicio
    \/ j = "notificaciones" /\ k = "recordatorio" /\ TocaRecordatorio

\* A run of a job reads the flags and finds a mail to send.  APScheduler does not run a job while
\* its previous run lasts.
Corre(j, k) ==
    /\ job[j] = "no"
    /\ Toca(j, k)
    /\ job' = [job EXCEPT ![j] = "envia"]
    /\ aviso' = [aviso EXCEPT ![j] = k]
    /\ delDia' = [delDia EXCEPT ![j] = dia]
    /\ iban' = [iban EXCEPT ![j] = Cuenta(k)]
    /\ UNCHANGED <<relojVars, flagVars, histVars>>

\* The mail leaves, or the SMTP server does not take it.
Envia(j, sale) ==
    /\ job[j] = "envia"
    /\ job' = [job EXCEPT ![j] = IF sale THEN "salio" ELSE "noSalio"]
    /\ enviados' = IF sale THEN [enviados EXCEPT ![aviso[j]][delDia[j]] = @ + 1] ELSE enviados
    /\ UNCHANGED <<relojVars, flagVars, aviso, delDia, iban, fallas>>

\* Runs that are over keep nothing.
Acaban(S) ==
    /\ job' = [j \in Jobs |-> IF j \in S THEN "no" ELSE job[j]]
    /\ aviso' = [j \in Jobs |-> IF j \in S THEN "nada" ELSE aviso[j]]
    /\ delDia' = [j \in Jobs |-> IF j \in S THEN 1 ELSE delDia[j]]
    /\ iban' = [j \in Jobs |-> IF j \in S THEN 0 ELSE iban[j]]

\* Mutants: the hour is stored for the day; the report is sealed although it did not leave; the
\* attempt is not counted.
SellaFinHora(j) ==
    sello' = [sello EXCEPT !["fin"] = hora] /\ UNCHANGED <<cuentaDia, cuenta, ultima>>
SellaFinSiempre(j) ==
    sello' = [sello EXCEPT !["fin"] = delDia[j]] /\ UNCHANGED <<cuentaDia, cuenta, ultima>>
SellaFinSinContar(j) ==
    /\ IF job[j] = "salio" THEN sello' = [sello EXCEPT !["fin"] = delDia[j]] ELSE UNCHANGED sello
    /\ UNCHANGED <<cuentaDia, cuenta, ultima>>

\* The flag is written: the report is sealed if it left, and the attempt counted if not ...
SellaFin(j) ==
    IF job[j] = "salio"
    THEN sello' = [sello EXCEPT !["fin"] = delDia[j]] /\ UNCHANGED <<cuentaDia, cuenta, ultima>>
    ELSE /\ cuentaDia' = [cuentaDia EXCEPT !["fin"] = delDia[j]]
         /\ cuenta' = [cuenta EXCEPT !["fin"] = iban[j] + 1]
         /\ UNCHANGED <<sello, ultima>>

\* ... while the notice is sealed, and the reminder counted, whether they left or not.
SellaInicio(j) ==
    sello' = [sello EXCEPT !["inicio"] = delDia[j]] /\ UNCHANGED <<cuentaDia, cuenta, ultima>>

SellaRecordatorio(j) ==
    /\ cuentaDia' = [cuentaDia EXCEPT !["recordatorio"] = delDia[j]]
    /\ cuenta' = [cuenta EXCEPT !["recordatorio"] = iban[j] + 1]
    /\ ultima' = [ultima EXCEPT !["recordatorio"] = hora]
    /\ UNCHANGED sello

Sella(j) ==
    /\ job[j] \in {"salio", "noSalio"}
    /\ Acaban({j})
    /\ \/ aviso[j] = "fin" /\ SellaFin(j)
       \/ aviso[j] = "inicio" /\ SellaInicio(j)
       \/ aviso[j] = "recordatorio" /\ SellaRecordatorio(j)
    /\ UNCHANGED <<relojVars, histVars>>

\* Mongo fails or the process restarts before the flag is written: the run is lost, and with it
\* what it knew of a mail that left.  Only one job's run is lost when Mongo fails.
Pierde(S) ==
    /\ S # {} /\ \A j \in S : job[j] # "no"
    /\ Falla
    /\ Acaban(S)
    /\ enviados' = [k \in Avisos |-> [d \in Dias |->
          IF \E j \in S : job[j] = "salio" /\ aviso[j] = k /\ delDia[j] = d
          THEN enviados[k][d] - 1 ELSE enviados[k][d]]]
    /\ UNCHANGED <<relojVars, flagVars>>

-----------------------------------------------------------------------------
Trabajo(j) ==
    \/ \E k \in Avisos : Corre(j, k)
    \/ \E sale \in BOOLEAN : Envia(j, sale)
    \/ Sella(j)

ReportNext ==
    \/ Avanza \/ Jornada
    \/ \E j \in Jobs : Trabajo(j)
    \/ \E S \in SUBSET Jobs : Pierde(S)

\* APScheduler runs the job again and again, the mail server answers, and so does Mongo.
ReportFairness == \A j \in Jobs : WF_reportVars(Trabajo(j))

ReportSpec == ReportInit /\ [][ReportNext]_<<reportVars, fallas>> /\ ReportFairness

-----------------------------------------------------------------------------
(* Properties *)

\* A day has one report, one notice and so many reminders, but for those whose flag was lost with
\* a restart or a failed write.
MailsBounded ==
    \A d \in Dias :
       /\ enviados["fin"][d] <= 1
       /\ enviados["inicio"][d] <= 1
       /\ enviados["recordatorio"][d] <= MaxRecordatorios

\* A day is sealed only if its report really left ("el flag solo se sella cuando REALMENTE salio").
ReportSealedIfSent ==
    \A d \in Dias : sello["fin"] = d => enviados["fin"][d] > 0

\* A jornada that closed after some calls gets its report, or its attempts are used up, unless the
\* day ends or its hours are extended first.
ReportedOrGivenUp ==
    hora > cierre /\ actividad
       ~> Sellado("fin") \/ Cuenta("fin") >= MaxIntentos \/ hora <= cierre

=============================================================================
