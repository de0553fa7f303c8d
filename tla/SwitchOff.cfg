\* The switch pauses the rescue as well: a row stays in llamando.
SPECIFICATION FairSpec
CONSTANTS
  a = a
  b = b
  Debtors = {a}
  Cliente <- UnCliente
  Horas = 1
  Corte = 1
  Tarde = 0
  MaxIntentos = 2
  MaxDia = 0
  MaxEscaladas = 0
  Entorno = {"kill"}
  Cupo = 2
  PorHora = 2
  MaxConcurrent = 2
  MaxIntento = 1
  EnvAutocall = TRUE
  MaxReinicios = 0
PROPERTY DialledRowsAreReleased
CHECK_DEADLOCK FALSE
