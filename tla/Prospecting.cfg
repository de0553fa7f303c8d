\* Two requests, each of either kind, and a worker of one slot; two iterations, one retry and two
\* parallel calls per stream, which is the hard limit of a turn; one failure.
SPECIFICATION Spec
CONSTANTS
  r1 = r1
  r2 = r2
  Runs = {r1, r2}
  MaxJobs = 1
  MaxIter = 2
  MaxReintentos = 1
  Umbral = 2
  LimiteDuro = 2
  MaxLote = 2
  MaxAnalisis = 1
  MaxFallas = 1
INVARIANTS TypeOK EveryCallAnswered EveryLeadCounted OneActiveRun
PROPERTIES OneSearchBatch RunsFollowLifecycle RunsEnd
CHECK_DEADLOCK FALSE
