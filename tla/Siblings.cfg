\* Two rows of one client: the second is dialled on the same day.
SPECIFICATION Spec
CONSTANTS
  a = a
  b = b
  Debtors = {a, b}
  Cliente <- UnCliente
  Horas = 1
  Corte = 1
  Tarde = 0
  MaxIntentos = 2
  MaxDia = 0
  MaxEscaladas = 0
  Entorno = {}
  Cupo = 2
  PorHora = 2
  MaxConcurrent = 2
  MaxIntento = 2
  EnvAutocall = TRUE
  MaxReinicios = 0
INVARIANT OneCallPerClientAndDay
CHECK_DEADLOCK FALSE
