\* Two cuotas of two clients in pages of one; the cron sync and one from the panel, or a person's
\* decision; two changes at Softseguros, one failure or restart.
SPECIFICATION Spec
CONSTANTS
  k1 = k1
  k2 = k2
  Clientes = {k1, k2}
  Cuotas = {1, 2}
  Cliente <- UnoCadaUno
  Syncs = {"cron", "web"}
  Cron = "cron"
  Ventana = {1, 2}
  Estatales = {2}
  PageSize = 1
  MaxGestiones = 1
  MaxMovs = 2
  MaxFallas = 1
INVARIANTS TypeOK SweepsOnlyTheGone
PROPERTIES OnlyPeopleLift ManualOnlyInWindow PaidLeavesQueue UnpaidComesBack BlockReachesRows EventuallyClassified
