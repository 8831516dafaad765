SPECIFICATION Spec
CONSTANTS
  u1 = u1
  u2 = u2
  a = a
  b = b
  None = None
  NoLeg = NoLeg
  NoAccount = NoAccount
  Parts = {"chain", "legs", "ticket", "live", "table"}
  Symbols <- TwoSymbols
  Expiries <- OwnExpiries
  FirstSymbol = "nifty"
  MaxLegs = 1
  MaxPresses = 2
  LegIds = {1}
  Ladder <- TwoLadders
  Window <- TwoWindows
  TypedStrikes = {3}
  StrikeStep = 2
  MaxEdits = 3
  OrderUsers <- TwoUsers
  OrderAccounts <- TwoAccounts
  AccountsOf <- OneConfigured
  FirstOf <- FirstConfigured
  BrokerOf <- SameBroker
  TicketLegs = {1, 2}
  MaxActs = 3
  indexChain = indexChain
  mcxChain = mcxChain
  Ladders <- TwoLadderChains
  NoLadder = NoLadder
  SegmentOf <- TwoSegments
  Conns = {n1, n2, n3}
  NoConn = NoConn
  MaxPicks = 3
  MaxDrops = 1
  Rows = 4
  Rest <- FourRows
  Traded <- FirstCall
  Premiums = {25}
  NoTick = NoTick
  Tol = 5
  Limits = {20}
  VirtualRows = 3
  Overscan = 1
  InView = 1
  MaxTableTicks = 1
INVARIANTS
  QuotesAreTheChains
  LegHoldsItsContract
  MarginIsTheBaskets
  OneFlightPerLeg
  TokensAreTheChains
  StreamFollows
  TableFollows
PROPERTIES
  ChainFollows
  WindowRecovers
CHECK_DEADLOCK FALSE
