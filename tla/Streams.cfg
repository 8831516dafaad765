SPECIFICATION Spec
CONSTANTS
  i1 = i1
  i2 = i2
  k1 = k1
  k2 = k2
  Parts = {"link", "feed", "updates", "polls"}
  Kinds <- AllKinds
  Insts <- TwoInsts
  Keys <- TwoKeys
  KeyOf <- OwnKeys
  MaxScrips = 1
  MaxAttempts = 2
  MaxLogins = 2
  Tokens = {t1, t2, t3}
  Cap = 2
  Listeners = {l1, l2}
  Accounts = {a1}
  Viewers = {v1, v2}
  Sockets = {s1, s2, s3}
  MaxDials = 2
  MaxFails = 2
  MaxRetries = 1
  noOrders = noOrders
  placed = placed
  repriced = repriced
  h0 = h0
  h1 = h1
  Streams = {w1, w2}
  Pollers = {p1, p2}
  Books <- AllBooks
  NoOrders = noOrders
  HashOf <- Hash
  MaxChanges = 1
  MaxPollFails = 1
INVARIANTS
  StoppedStaysDown
  TicksReachSubscribers
  UpstreamIsUnion
  SlotIsAlive
PROPERTIES
  NeededStays
  Recovers
  ViewersCatchUp
CHECK_DEADLOCK FALSE
