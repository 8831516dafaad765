SPECIFICATION Spec
CONSTANTS
  u1 = u1
  u2 = u2
  a = a
  b = b
  None = None
  Parts = {"account", "positions", "orders", "books"}
  Users <- TwoUsers
  Accounts <- TwoAccounts
  ConfigsOf <- OneConfigured
  Kind <- KotakZerodha
  Panels = {"orders"}
  MaxVer = 1
  MaxLoads = 1
  Books <- TwoBooks
  FilterValues <- CallsOnly
  SortKeys = {"instrument", "pnl"}
  Lots <- OneHasLot
  NoExpiry = 9
  DayOf <- NoDay
  MaxTicked = 1
  OrderIds = {1, 2}
  Expiry <- OwnExpiry
  Value <- OneValue
  PriceQty <- Fills
  MaxReads = 1
  MaxPushes = 1
  Logins = {a, b}
  Nobody = Nobody
  ClientRows = 2
  MaxBookVer = 1
  MaxFetches = 2
  MaxMoves = 2
INVARIANTS
  CredsOfChosen
  RowsAreTheirOwn
  RowsAddUp
PROPERTIES
  BookCatchesUp
  LegacyBookCatchesUp
CHECK_DEADLOCK FALSE
