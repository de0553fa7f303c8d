\* One row: a person pauses, reactivates and opts it out, withdraws the day, the client calls in.
SPECIFICATION Spec
CONSTANTS
  a = a
  b = b
  Debtors = {a}
  Cliente <- UnCliente
  Horas = 1
  Corte = 1
  Tarde = 0
  MaxIntentos = 2
  MaxDia = 1
  MaxEscaladas = 0
  Entorno = {"pausar", "entrante", "no_llamar", "desautorizar"}
  Cupo = 2
  PorHora = 2
  MaxConcurrent = 1
  MaxIntento = 2
  EnvAutocall = TRUE
  MaxReinicios = 1
INVARIANTS HeldWhileOpen AttemptsAccountedFor
CHECK_DEADLOCK FALSE
