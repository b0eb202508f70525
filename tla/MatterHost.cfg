SPECIFICATION MCSpec
CONSTANTS
  a = a
  Ids = {a}
  SessionCredit = 2
  StreamCredit = 1
  MaxQueued = 1
  QueueLimit = 1
  MaxStreams = 2
  BufferLimit = 1
  MaxAttempts = 2
  MaxReports = 3
  MaxGen = 2
  WriterLimit = 2
INVARIANTS TablesAgree BarrierLast CancelAfterBarrier CreditBalance NoDanglingContext CancelNotLost EffectHonestInTime InteractionCustody
CHECK_DEADLOCK FALSE
