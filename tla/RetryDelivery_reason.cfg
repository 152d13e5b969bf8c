\* By hand: see README.md.
SPECIFICATION Spec
CONSTANTS
  q1 = q1
  q2 = q2
  t1 = t1
  ChannelClosed = ChannelClosed
  NoReason = NoReason
  m1 = m1
  e1 = e1
  e2 = e2
  Messages = {m1}
  Topics = {t1}
  Reasons = {e1, e2}
  Queues = {q1}
  TempQueues = {}
  Bind <- Single
  MaxRetries = 1
  TopicExchange = TRUE
  Prefetch = 1
  MaxLosses = 0
INVARIANTS
  DeadLettersSayWhy
