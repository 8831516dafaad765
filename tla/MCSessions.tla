------------------------------ MODULE MCSessions ------------------------------
(* Requests that race for a session, a socket, a secret or an upstream read, for   *)
(* TLC: the Go feed, the logins and setups of the brokers and their baskets, and   *)
(* the caches of chains, quotes and candles, and the accounts of the older page,   *)
(* one of them in a behaviour.  The Zerodha desk is taken twice: two logins at     *)
(* once, and one login with a basket.                                              *)
EXTENDS TLC, GoFeed, UpstoxLogin, AngelBasket, TotpLogin, NubraSetup, ZerodhaDesk,
        SharedFlights, CandleHistory, ClientTable

CONSTANTS h1, p1, r1, r2, ann, bob, f1, f2, x1, x2, Parts
VARIABLE part

\* A headless and a popup login, each with a state of its own.
OneOfEach == {h1, p1}
TheHeadless == {h1}
OwnState == [l \in OneOfEach |-> l]

TwoRows == {r1, r2}
TwoKiteUsers == {ann, bob}
TwoFlows == {f1, f2}
\* One row names its account, the other leaves it blank.
OneNamed == [r \in TwoRows |-> IF r = r1 THEN ann ELSE Blank]
RowOne == {r1}

\* Two ranges that share an anchor, of a contract that does not trade once.
TwoRanges == {<<0, 2>>, <<1, 4>>}
GappedDay == {{0, 1, 2, 4}}

\* Accounts as the shared table and, with a session, the browser's store may hold them.
TwoCodes == {x1, x2}
EmptyOrBoth == {<<>>, <<<<x1, TRUE>>, <<x2, TRUE>>>>}
EmptyOrLast == {<<>>, <<<<x2, TRUE, TRUE>>>>}

\* The handlers of the Go feed are alike, so are its sockets, and so are the desk's logins.
HandlerSymmetry == Permutations(Requests) \cup Permutations(Sockets) \cup Permutations(Flows)

OnFeed == part = "feed" /\
  UNCHANGED <<part, upstoxVars, basketVars, totpVars, nubraVars, deskVars, flightVars,
              candleVars, clientTableVars>>
OnUpstox == part = "upstox" /\
  UNCHANGED <<part, feedVars, basketVars, totpVars, nubraVars, deskVars, flightVars,
              candleVars, clientTableVars>>
OnBasket == part = "basket" /\
  UNCHANGED <<part, feedVars, upstoxVars, totpVars, nubraVars, deskVars, flightVars,
              candleVars, clientTableVars>>
OnTotp == part = "totp" /\
  UNCHANGED <<part, feedVars, upstoxVars, basketVars, nubraVars, deskVars, flightVars,
              candleVars, clientTableVars>>
OnNubra == part = "nubra" /\
  UNCHANGED <<part, feedVars, upstoxVars, basketVars, totpVars, deskVars, flightVars,
              candleVars, clientTableVars>>
OnDesk == part \in {"desk", "orders"} /\
  UNCHANGED <<part, feedVars, upstoxVars, basketVars, totpVars, nubraVars, flightVars,
              candleVars, clientTableVars>>
OnFlights == part = "flights" /\
  UNCHANGED <<part, feedVars, upstoxVars, basketVars, totpVars, nubraVars, deskVars,
              candleVars, clientTableVars>>
OnCandles == part = "candles" /\
  UNCHANGED <<part, feedVars, upstoxVars, basketVars, totpVars, nubraVars, deskVars,
              flightVars, clientTableVars>>
OnClients == part = "clients" /\
  UNCHANGED <<part, feedVars, upstoxVars, basketVars, totpVars, nubraVars, deskVars,
              flightVars, candleVars>>

Next ==
  \/ \E r \in Requests, S \in SUBSET Tokens : OnFeed /\ Subscribe(r, S)
  \/ \E r \in Requests, S \in SUBSET Tokens, given \in BOOLEAN : OnFeed /\ SetBasketTokens(r, S, given)
  \/ \E r \in Requests : OnFeed /\ ReadsToRelease(r)
  \/ \E r \in Requests : OnFeed /\ Releases(r)
  \/ \E r \in Requests : OnFeed /\ Gathers(r)
  \/ \E r \in Requests : OnFeed /\ Starts(r)
  \/ \E r \in Requests : OnFeed /\ Sends(r)
  \/ \E r \in Requests, n \in Sockets : OnFeed /\ Dialed(r, n)
  \/ \E r \in Requests : OnFeed /\ DialFailed(r)
  \/ \E r \in Requests : OnFeed /\ Snaps(r)
  \/ \E v \in Viewers : OnFeed /\ AddClient(v)
  \/ \E v \in Viewers : OnFeed /\ RemoveClient(v)
  \/ \E v \in Viewers : OnFeed /\ CloseUpstream(v)
  \/ \E n \in Sockets : OnFeed /\ SocketDies(n)
  \/ \E n \in Sockets : OnFeed /\ ReadLoopEnds(n)
  \/ \E l \in Logins : OnUpstox /\ Begin(l)
  \/ \E l \in Logins : OnUpstox /\ Probed(l)
  \/ \E l \in Logins : OnUpstox /\ Authorizes(l)
  \/ \E l \in Logins : OnUpstox /\ ScriptReturns(l)
  \/ \E l \in Logins : OnUpstox /\ ScriptFails(l)
  \/ \E l \in Logins : OnUpstox /\ Exchange(l)
  \/ \E l \in Logins : OnUpstox /\ ProfileAnswers(l)
  \/ \E l \in Logins : OnUpstox /\ FundsAnswer(l)
  \/ \E l \in Logins : OnUpstox /\ Callback(l)
  \/ \E l \in Logins : OnUpstox /\ CallbackExchanges(l)
  \/ \E l \in Logins : OnUpstox /\ CallbackEnds(l)
  \/ \E t \in live : OnUpstox /\ Expire(t)
  \/ OnBasket /\ SessionOrLogin
  \/ OnBasket /\ Probes
  \/ OnBasket /\ at = "login" /\ PasswordLogin("rms", LoginFails)
  \/ OnBasket /\ at = "rms" /\ ProbesLogin("place", relogged, LoginFails)
  \/ OnBasket /\ at = "relogin" /\ PasswordLogin("rerms", Reported("error"))
  \/ OnBasket /\ at = "rerms" /\ ProbesLogin("retry", TRUE, Reported("error"))
  \/ OnBasket /\ PlaceOrder
  \/ OnBasket /\ PlaceAgain
  \/ OnBasket /\ SkipInvalid
  \/ OnBasket /\ Finishes
  \/ \E t \in Jwts : OnBasket /\ SessionEnds(t)
  \/ OnTotp /\ SendsCode
  \/ OnTotp /\ Sleeps
  \/ \E time \in 1 .. MaxFlight : OnTotp /\ Answered(time)
  \/ \E time \in 1 .. MaxFlight : OnTotp /\ Breaks(time)
  \/ \E time \in 1 .. MaxFlight : OnTotp /\ PinTaken(time)
  \/ OnNubra /\ Reset
  \/ \E q \in Askers : OnNubra /\ AutoLogin(q)
  \/ \E q \in Askers : OnNubra /\ LoginAnswers(q)
  \/ \E q \in Askers : OnNubra /\ Wipes(q)
  \/ \E q \in Askers : OnNubra /\ StartSetup(q)
  \/ \E q \in Askers : OnNubra /\ SendOtp(q)
  \/ \E q \in Askers : OnNubra /\ Generates(q)
  \/ \E q \in Askers : OnNubra /\ Enables(q)
  \/ \E q \in Askers : OnNubra /\ Saves(q)
  \/ \E q \in Askers : OnNubra /\ LastLogin(q)
  \/ \E q \in Askers : OnNubra /\ GivesUp(q)
  \/ \E f \in Flows, r \in Rows, page \in Pages : OnDesk /\ LogsIn(f, r, page)
       /\ (part = "desk" \/ \A g \in Flows : flow[g].at = "idle")
  \/ \E f \in Flows : OnDesk /\ AsksAgain(f)
  \/ \E f \in Flows : OnDesk /\ ProbeAnswers(f)
  \/ \E f \in Flows : OnDesk /\ ProbeFails(f)
  \/ \E f \in Flows : OnDesk /\ HeadlessLogin(f)
  \/ \E f \in Flows : OnDesk /\ StoresToken(f)
  \/ \E f \in Flows : OnDesk /\ OpensWindow(f)
  \/ \E f \in Flows : OnDesk /\ TimesOut(f)
  \/ \E f \in Flows : OnDesk /\ CallbackMints(f)
  \/ \E f \in Flows : OnDesk /\ CallbackStores(f)
  \/ \E f \in Flows : OnDesk /\ CallbackFails(f)
  \/ \E user \in KiteUsers : OnDesk /\ SignsIn(user)
  \/ \E r \in Rows : OnDesk /\ Reads(r)
  \/ \E t \in alive : OnDesk /\ Revokes(t)
  \/ \E r \in Rows : OnDesk /\ part = "orders" /\ AsksBasket(r)
  \/ \E found \in SUBSET (1 .. Items) : OnDesk /\ Resolves(found)
  \/ OnDesk /\ PlacesLeg
  \/ OnDesk /\ BasketAnswers
  \/ \E r \in Readers : OnFlights /\ AsksFor(r)
  \/ \E r \in Readers : OnFlights /\ BoardsAgain(r)
  \/ \E what \in {"good", "bad", "error"} : OnFlights /\ LandsFlight(what)
  \/ OnFlights /\ TickOn
  \/ \E c \in Charts, range \in Ranges :
       OnCandles /\ chart[c].at = "idle" /\ Asked(c, range)
  \/ \E c \in Charts, visible \in SUBSET traded : OnCandles /\ TakesPage(c, visible)
  \/ \E c \in Charts : OnCandles /\ HistoryAnswers(c)
  \/ \E c \in Charts : OnCandles /\ \E f \in FlyingOf(c) : PageComes(c, f)
  \/ \E c \in Charts : OnCandles /\ \E f \in FlyingOf(c) : PageFails(c, f)
  \/ \E c \in Charts, visible \in SUBSET traded :
       OnCandles /\ \E f \in FlyingOf(c) : PageRetries(c, f, visible)
  \/ OnCandles /\ SecondPasses
  \/ OnClients /\ MountAnswered
  \/ OnClients /\ MountFailed
  \/ OnClients /\ MountFromBrowser
  \/ \E r \in Runs : OnClients /\ PressAutoLogin(r)
  \/ \E r \in Runs : OnClients /\ Reloads(r)
  \/ \E r \in Runs : OnClients /\ ReloadFails(r)
  \/ \E r \in Runs, in \in BOOLEAN, setup \in BOOLEAN : OnClients /\ LoginEnds(r, in, setup)
  \/ OnClients /\ AddRow
  \/ OnClients /\ SaveToSupabase
  \/ \E i \in 1..MaxRows : OnClients /\ DeleteClient(i)
  \/ \E i \in 1..MaxRows : OnClients /\ ToggleTick(i)
  \/ \E i \in 1..MaxRows : OnClients /\ LogoutClient(i)
  \/ \E i \in 1..MaxRows : OnClients /\ LogoutEnds(i)
  \/ \E i \in 1..MaxRows, code \in Codes, on \in BOOLEAN : OnClients /\ EditClient(i, code, on)
  \/ \E s \in saves : OnClients /\ RowsDeleted(s)
  \/ \E s \in saves : OnClients /\ RowsInserted(s)
  \/ \E s \in saves : OnClients /\ SaveFails(s)

Init ==
  /\ part \in Parts
  /\ FeedInit /\ UpstoxInit /\ BasketInit /\ TotpInit /\ NubraInit /\ DeskInit
  /\ FlightsInit /\ CandleInit /\ ClientTableInit
  /\ part = "upstox" \/ (session = 0 /\ live = {})
  /\ part = "basket" \/ (jwt = NoJwt /\ valid = {})
  /\ part = "totp" \/ (adapter = "kotak" /\ good /\ clock = 0)
  /\ part = "nubra" \/ (stored = NoSecret /\ enabled = NoSecret)
  /\ part \in {"desk", "orders"} \/ (consented = {})
  /\ part = "flights" \/ cache = "go"
  /\ part = "clients" \/ (shared = <<>> /\ browserStore = <<>>)

Spec == Init /\ [][Next]_<<part, feedVars, upstoxVars, basketVars, totpVars, nubraVars,
                          deskVars, flightVars, candleVars, clientTableVars>>
=============================================================================
