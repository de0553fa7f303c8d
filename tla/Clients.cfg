\* Two rows of two clients: the quota, the gates and the switch.
SPECIFICATION Spec
CONSTANTS
  a = a
  b = b
  Debtors = {a, b}
  Cliente <- DosClientes
  Horas = 1
  Corte = 1
  Tarde = 0
  MaxIntentos = 2
  MaxDia = 0
  MaxEscaladas = 0
  Entorno = {"kill", "saldo", "invalido"}
  Cupo = 2
  PorHora = 2
  MaxConcurrent = 2
  MaxIntento = 3
  EnvAutocall = TRUE
  MaxReinicios = 1
INVARIANTS QuotaBalances QuotaRespected
CHECK_DEADLOCK FALSE
