\* Two actions, dates as database.py:43 reads them, and one process that ends.
SPECIFICATION LeadSpec
CONSTANTS
  l1 = l1
  l2 = l2
  a1 = a1
  a2 = a2
  Acciones = {a1, a2}
  Leads = {l1, l2}
  Lead <- UnaCadaUno
  TzAware = FALSE
  Plazos = {1}
  MaxAhora = 2
  MaxFallas = 1
PROPERTY OverdueIsSettled
CHECK_DEADLOCK FALSE
