\* The balance runs out between dispatch and dial: the quota stays used up.
SPECIFICATION Spec
CONSTANTS
  a = a
  b = b
  Debtors = {a}
  Cliente <- UnCliente
  Horas = 1
  Corte = 1
  Tarde = 0
  MaxIntentos = 2
  MaxDia = 0
  MaxEscaladas = 0
  Entorno = {"saldo"}
  Cupo = 2
  PorHora = 2
  MaxConcurrent = 2
  MaxIntento = 1
  EnvAutocall = TRUE
  MaxReinicios = 0
INVARIANT AbortsDoNotUseQuota
CHECK_DEADLOCK FALSE
