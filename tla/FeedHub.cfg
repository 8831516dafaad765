SPECIFICATION HubSpec
CONSTANTS
  upstox = upstox
  angel = angel
  i1 = i1
  i2 = i2
  c1 = c1
  c2 = c2
  Brokers <- TwoBrokers
  SessionBrokers <- OneBroker
  Insts <- OneInst
  Clients <- TwoClients
  Modes <- QuoteDepth
  Resubscribe = TRUE
  MaxRepeat = 2
  MaxCount = 3
INVARIANTS
  TypeOK
  SubscribedIsCounted
  HeldIsCounted
  CountedIsSubscribed
  ModeCoversHolders
PROPERTIES
  HeldStaysSubscribed
CHECK_DEADLOCK FALSE
