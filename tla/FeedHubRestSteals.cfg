SPECIFICATION RestSpec
CONSTANTS
  upstox = upstox
  angel = angel
  i1 = i1
  i2 = i2
  c1 = c1
  c2 = c2
  Brokers <- OneBroker
  SessionBrokers <- OneBroker
  Insts <- OneInst
  Clients <- TwoClients
  Modes <- QuoteDepth
  Resubscribe = TRUE
  MaxRepeat = 2
  MaxCount = 3
PROPERTIES
  HeldStaysSubscribed
CHECK_DEADLOCK FALSE
