SPECIFICATION EngineSpec
CONSTANTS
  upstox = upstox
  i1 = i1
  i2 = i2
  c1 = c1
  c2 = c2
  t1 = t1
  t2 = t2
  Feed = upstox
  Brokers <- OneBroker
  SessionBrokers <- OneBroker
  Insts <- TwoInsts
  Clients <- TwoClients
  Modes <- QuoteOnly
  Topics <- TwoTopics
  TopicInsts <- SharedUnderlying
  Resubscribe = FALSE
  Impatient = TRUE
  MaxRepeat = 1
  MaxCount = 2
  MaxCalls = 1
INVARIANTS
  HeldTopicsLive
  SharesCounted
SYMMETRY ClientSymmetry
CHECK_DEADLOCK FALSE
