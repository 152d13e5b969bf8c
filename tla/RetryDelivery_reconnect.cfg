SPECIFICATION FairSpec
CONSTANTS
  q1 = q1
  q2 = q2
  t1 = t1
  ChannelClosed = ChannelClosed
  NoReason = NoReason
  m1 = m1
  e1 = e1
  Messages = {m1}
  Topics = {t1}
  Reasons = {e1}
  Queues = {q1}
  TempQueues = {}
  Bind <- Single
  MaxRetries = 1
  TopicExchange = TRUE
  Prefetch = 1
  MaxLosses = 1
PROPERTIES
  SubscribersAreServed
