SPECIFICATION EngineSpec
CONSTANTS
  upstox = upstox
  i1 = i1
  i2 = i2
  c1 = c1
  c2 = c2
  t1 = t1
  t2 = t2
  Feed = upstox
  Brokers <- OneBroker
  SessionBrokers <- OneBroker
  Insts <- OneInst
  Clients <- TwoClients
  Modes <- QuoteOnly
  Topics <- TwoTopics
  TopicInsts <- SameContract
  Resubscribe = FALSE
  Impatient = FALSE
  MaxRepeat = 1
  MaxCount = 0
  MaxCalls = 1
INVARIANT
  NoLeakedLease
PROPERTIES
  ImplementsLeases
CHECK_DEADLOCK FALSE
