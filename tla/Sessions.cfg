SPECIFICATION Spec
CONSTANTS
  h1 = h1
  p1 = p1
  r1 = r1
  r2 = r2
  ann = ann
  bob = bob
  f1 = f1
  f2 = f2
  x1 = x1
  x2 = x2
  Parts = {"feed", "upstox", "basket", "totp", "nubra", "desk", "orders", "flights", "candles", "clients"}
  Tokens = {t1}
  Cap = 1
  Requests = {q0, q9}
  Viewers = {v1}
  Sockets = {s1, s2}
  Logins <- OneOfEach
  StateOf <- OwnState
  Headless <- TheHeadless
  EnvKeys = TRUE
  Saved = TRUE
  Flaky = TRUE
  Legs = 3
  Invalid = {2}
  MaxLegs = 4
  Jwts = {j0, j1, j2, j3}
  Stored = j0
  Expiries = 2
  Losses = 2
  LostAnswers = FALSE
  Window = 12
  Edge = 2
  Slack = 1
  MaxFlight = 6
  Askers = {q1, q2, q3}
  MaxSecrets = 3
  Stale = TRUE
  Rows <- TwoRows
  KiteUsers <- TwoKiteUsers
  Blank = Blank
  Named <- OneNamed
  Ticked <- RowOne
  Flows <- TwoFlows
  MaxMinted = 2
  Items = 2
  Unfit = {}
  Readers = {g1, g2}
  Ttl = 1
  MaxTick = 4
  Charts = {c1, c2}
  Ranges <- TwoRanges
  Days <- GappedDay
  Limit = 2
  Settle = 2
  Late = 1
  MaxWait = 1
  MaxTries = 2
  MaxCandles = 3
  Pool = 2
  MaxSecond = 4
  Codes <- TwoCodes
  Example = Example
  SharedTables <- EmptyOrBoth
  BrowserStores <- EmptyOrLast
  Runs = {run1, run2}
  MaxRows = 3
  MaxEdits = 2
  MaxSaves = 1
INVARIANTS
  OneSocketOneUnion
  BasketIsTrue
  RedirectsAreServed
  CodesInTime
  SavedWasEnabled
  OrdersGoHome
  FlightsAreShared
  HistoryIsWhole
  LogsInHandsFree
SYMMETRY HandlerSymmetry
CHECK_DEADLOCK FALSE
