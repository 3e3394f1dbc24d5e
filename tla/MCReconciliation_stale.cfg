SPECIFICATION Spec
CONSTANTS
  Worker = {w1, w2}
  e1 = e1
  e2 = e2
  srcA = srcA
  srcB = srcB
  a1 = a1
  a2 = a2
  a2bis = a2bis
  a3 = a3
  b3 = b3
  unzoned = unzoned
  other = other
  Entry = {e1, e2}
  Source = {srcA, srcB}
  Snapshot = {a1, a2, a3}
  Observed <- MCObserved
  Isolation = "REPEATABLE_READ"
  NoWorker = NoWorker
  NoSnapshot = NoSnapshot
  NoTimestamp = NoTimestamp
INVARIANT
  EffectiveNeverRegresses
