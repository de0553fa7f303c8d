\* One row under fairness: it does not stay in llamando, whatever is lost on the way.
\* Its attempts are kept as ContactRegister promises.
SPECIFICATION FairSpec
CONSTANTS
  a = a
  b = b
  Debtors = {a}
  Cliente <- UnCliente
  Horas = 1
  Corte = 1
  Tarde = 0
  MaxIntentos = 2
  MaxDia = 1
  MaxEscaladas = 1
  Entorno = {"wa", "pagar", "tool_escalate", "timeout", "bot_falla", "aviso_perdido", "reinicio"}
  Cupo = 2
  PorHora = 2
  MaxConcurrent = 1
  MaxIntento = 2
  EnvAutocall = TRUE
  MaxReinicios = 1
PROPERTIES DialledRowsAreReleased KeepsRegister
CHECK_DEADLOCK FALSE
