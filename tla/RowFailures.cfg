\* One row: calls whose creation is lost, Mongo failures, a restart.
SPECIFICATION Spec
CONSTANTS
  a = a
  b = b
  Debtors = {a}
  Cliente <- UnCliente
  Horas = 2
  Corte = 1
  Tarde = 1
  MaxIntentos = 2
  MaxDia = 1
  MaxEscaladas = 0
  Entorno = {"timeout", "mongo", "rechazo", "reinicio"}
  Cupo = 2
  PorHora = 2
  MaxConcurrent = 1
  MaxIntento = 2
  EnvAutocall = TRUE
  MaxReinicios = 1
INVARIANTS TypeOK OneCallPerRowAndDay ExhaustedAfterMaxAttempts
PROPERTY AttemptsNeverForgotten
CHECK_DEADLOCK FALSE
