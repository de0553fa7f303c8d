\* The four services on the side, one at a time: the package of minutes, the actions of the leads,
\* the cache of the configuration, the mails of a jornada.
CONSTANTS
    l1 = l1
    l2 = l2
    a1 = a1
    a2 = a2
    r1 = r1
    r2 = r2
    w1 = w1
    w2 = w2
    c1 = c1
    in1 = in1
    Llamadas = {c1, in1}
    Entrantes = {in1}
    Minutos <- Costes
    Pct = 65
    Meses = {1, 2}
    Recarga = 3
    Entregas <- DosYUna
    Compras = {2}
    MaxSucesos = 1
    MaxFallas = 2
    Acciones = {a1, a2}
    Leads = {l1, l2}
    Lead <- UnaCadaUno
    TzAware = TRUE
    Plazos = {1, 2}
    MaxAhora = 3
    Lectores = {r1, r2}
    Escritores = {w1, w2}
    MaxEscrituras = 3
    Jobs = {"finJornada", "notificaciones"}
    MaxIntentos = 8
    MaxRecordatorios = 3
    Espera = 2
    Apertura = 1
    Cierres = {4, 5}
    Horas = 7
    MaxDia = 2
SPECIFICATION Spec
INVARIANTS
    PackageTypeOK
    RefundsAreDue
    LeadTypeOK
    DispatchedOnce
    PendingIsArmed
    CacheTypeOK
    StaleHasCause
    ReportTypeOK
    MailsBounded
    ReportSealedIfSent
PROPERTIES
    KeepsPromise
    PackageRecharged
    EventuallyFresh
    ReportSettled
CHECK_DEADLOCK FALSE
