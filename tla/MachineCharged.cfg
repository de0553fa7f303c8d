\* One outbound call that nobody answers in person.
SPECIFICATION PackageSpec
CONSTANTS
  c1 = c1
  in1 = in1
  Llamadas = {c1}
  Entrantes = {}
  Minutos <- Costes
  Pct = 65
  Meses = {1, 2}
  Recarga = 3
  Entregas <- Una
  Compras = {2}
  MaxSucesos = 0
INVARIANTS UncontactedCallsAreNotCharged
CHECK_DEADLOCK FALSE
