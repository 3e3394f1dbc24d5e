SPECIFICATION IngestSpec
CONSTANTS
  Worker = {w1, w2}
  e1 = e1
  e2 = e2
  srcA = srcA
  srcB = srcB
  a1 = a1
  a2 = a2
  a3 = a3
  b1 = b1
  c1 = c1
  misfiled = misfiled
  first = first
  second = second
  third = third
  garbled = garbled
  Entry = {e1, e2}
  Snapshot = {a1, a2, a3, b1, c1, misfiled}
  Receipt = {first, second, third, garbled}
  Misfiled = {misfiled}
  Observed <- MCObserved
  Payload <- MCPayload
  Isolation = "REPEATABLE_READ"
  Faults = {"error", "throw", "crash", "lost_ack"}
  NoWorker = NoWorker
  NoReceipt = NoReceipt
  NoTimestamp = NoTimestamp
INVARIANTS
  IngestTypeOK
  SuccessLosesNothing
  SuccessIsReconciled
PROPERTY
  BatchesAreAtomic
CHECK_DEADLOCK FALSE
