# Alphahedge multitrade: TLA+ models, TLC runs and TLAPS proofs

This directory holds a formal model of the Alphahedge multi-broker trading
application: a browser front end, a Node backend that talks to five brokers
(Angel One, Upstox, Zerodha, Nubra, Kotak Neo), and a Go backend that is being
grown as a port of the Node one. The modules are translated from the source
under `src/`; `PROJECT.json` maps every definition to the lines it stands for.

Contents

1. Reading guide
2. The system: components, state, operations, interactions
3. The modules and how they correspond to the code
4. The runs: what each checks, its bounds and why they are enough
5. Fairness
6. What is proved
7. Disagreements between the code and what it says of itself
8. What is abstracted, and the limits of the statements
9. What is not modelled, and the plan

## 1. Reading guide

To check a component, in this directory:

    tlc -workers 2 -config FeedHub.cfg MCFeedHub
    tlapm FeedHubProofs.tla

The eight modules named `*Proofs` hold the theorems (section 6); each is checked by itself
with `tlapm`.

`X.tla` is a component; an `MC*` module instantiates one, or several that ask
the same kind of question, for TLC; the `.cfg` files give the constants. Where
two configurations use one MC module they ask different questions of it (section
4). Definitions marked `\* fault:` are variants of the definition below them
with a plausible bug; `PROJECT.json` ("mutants") says which property each of
them breaks. They are not part of any specification.

Conventions. Node handlers run to completion between two `await`s, so one turn
of the event loop is one action, with everything it calls. In the Go backend the
grain is a critical section of the mutex, or a call that blocks. Data that no
property tells apart (prices, wire formats, credentials, wording) is left out;
names of instruments, tokens and sessions are model values.

## 2. The system

### 2.1 Market data, Node backend

**Feed registry and feed manager** (`lib/feedRegistry.js`, `ws/feedManager.js`).
State: the feed account registered for each broker, the adapter running for it,
a count per `broker|EXCH|token`. Operations: `setFeedAccount` (a login registers
its account; the change hook starts the adapter), `startBroker`, `startAll`,
`stopBroker`, `clientSubscribe`, `clientUnsubscribe`. Interacts with the adapters
(calls), the login routes (the registry's callback), browsers and the OI engine
(both count through the same two functions). Hard: many callers share one count;
a re-login replaces an adapter under live subscriptions and may fail half-way.
Correct when: upstream subscriptions and counts agree, a release by one caller
never starves another, and a re-login loses nothing.

**`/ws/feed` endpoint** (`ws/wsServer.js`). State: the connected clients, for each
the keys it holds and its engine slots. Operations: connect, `subscribe`,
`unsubscribe`, `engine_subscribe`, `engine_unsubscribe`, close, and the fan-out of
ticks. Hard: `engine_subscribe` awaits while the client may unsubscribe or
disappear. Correct when: a closed client leaves nothing behind and an open one
keeps what it holds.

**Feed REST routes** (`routes/wsfeed.js`). No state; start, stop and count through
the manager. Hard: the counting routes have no client behind them.

**OI-decay engine** (`engine/oiDecayEngine.js`, `engine/ringBuffer.js`). State: the
topics that are live, those being built, a reference count and a lease per
topic, one timer. Operations: `ensureTopic`, `subscribe`, handle release, the
polled snapshot (a lease of 15 s), `tickAllTopics`, `destroyTopic`.
Interacts with the feed manager (subscribes the topic's contracts), the chain
cache (awaits a chain), `/ws/feed` and the snapshot route. Hard: construction is
asynchronous and shared; holders and leases come and go meanwhile. Correct when:
a topic lives exactly as long as somebody needs it and its share of the counts
goes with it.

**Broker feed adapters** (`ws/baseAdapter.js`, `ws/adapters/*.js`). State, per
adapter object: running, connected, reconnect timer, attempts, the subscribed
instruments, the socket, the map from broker keys to instruments. Operations:
start, stop, subscribe, unsubscribe, the socket's events, the reconnect timer,
for Upstox an authorization request before the dial, for Kotak an acknowledgement
after it. Hard: a stopped object still receives what is in flight; a
subscription may change while the link is down. Correct when: stopped stays
stopped, up means streaming exactly the subscriptions, running means trying.

**Chain cache** (`engine/chainCache.js`). State: what the last read of a key brought
and the read under way. Concurrent misses share a flight; a failure is not kept.
The quote caches of `angel/httpClient.js` and of the Go backend's `cache.go` have the
same shape. Hard: callers that arrive between the end of a flight and its removal,
and in Go between a look at the cache and a look at the flights. Correct when: one
read per key and window, and nobody is served an older answer or an error from
before it asked.

**OI and premium history** (`routes/oiPremiumDecay.js`). State: a page cache with a
counter of candles; per request a set of pages, a worker pool and retries. Hard: a
page is cached only when it can change no more, its anchors are computed before any
answer, and two requests fetch one page at once. Correct when: a history without
errors misses no candle, from wherever its pages came.

**Rolling straddle** (`routes/rollingStraddle.js`): a pure computation over fetched
candles.

### 2.2 Angel trade panel

**Trade feed, Node** (`angel/feed.js`, `angel/feedChain.js`). State: one socket, the
union of the tokens of the chain on screen and of the basket (at most 1000), the
two lists, event-stream listeners, an idle timer. Operations: subscribe a chain,
set the basket's tokens, listeners coming and going, idle close, socket events.
Correct when: the union is what the lists need, the upstream stream is the union,
and an unwatched feed closes.

**Trade feed, Go** (`internal/angel/feed.go`). The same promises under a mutex with
concurrent request handlers; the union changes in one critical section, frames
are written and sockets dialed in later ones. Hard: everything in between.

**Order-update feed, Go** (`internal/angel/orderfeed.go`). State: a slot per account
(free, reserved while dialing, a socket), viewers. Operations: `Watch`, dial,
read loop, one retry after a loss, viewers coming and going. Hard: dials and read
loops outlive the registry entry they were started for. Correct when: a slot that
turns a `Watch` away is served, and a lost socket comes back.

**Angel session and orders, Node** (`angel/auth.js`, `angel/httpClient.js`,
`angel/orders.js`). State: tokens that recently passed a probe, a rate limiter, a
quote cache; per request a session. Operations: `sessionOrLogin`, `autoLogin`,
`placeBasket` leg by leg with one second login. Hard: sessions die between two
calls, a call's answer may be lost after the broker has acted. Correct when: one
order per leg, and rows that tell the truth.

**Market data and masters** (`angel/market.js`, `angel/master.js`, `master/*`):
request and response, a daily instrument master with freshness, the resolution of
a basket's legs to instruments.

### 2.3 Logins and accounts

**Upstox login** (`brokers/upstox.js`, `routes/upstox.js`). State: a session per
user, credentials kept per OAuth state, the states claimed by headless logins.
Operations: restore and probe, headless login by a script, popup login, the
callback route. Hard: the redirect of a headless login reaches the callback route
while the script hands the same single-use code to its request. Correct when: a
redirect serves the login it is for.

**Zerodha** (`brokers/zerodha.js`, `routes/zerodha.js`, and the pages that log in:
`StartupGate.jsx`, `Feedmaster.jsx`, `BrokerConfigDialog.jsx`). State: the backend's
sessions by Kite user id, credentials per OAuth state, the account name of each row
in the table, the session each row has saved in the browser, the one popup window.
Operations: restore, probe, headless login, popup and callback, naming a row,
placing a basket. Hard: the popup signs in whoever its user is; answers, probes and
callbacks of two logins interleave. Correct when: an order goes to the user it is
meant for, once. The **order stream** shares a poller per account; pollers outlive
their viewers, polls fail, refreshes collide with polls.

**Kotak** (`brokers/kotak.js`, `routes/kotak.js`, `ws/kotakUserStream.js`): a two-step
login with a one-time code and a portfolio stream per viewer.

**Nubra** (`brokers/nubra.js`, `routes/nubra.js`, `loginAll.js`, `lib/totp.js`). State:
the TOTP secret at the broker, in the account's row and in browsers. Operations:
login with a code (a second one at a window's edge), wiping of a secret that looks
dead, self-setup with an SMS code. Hard: each of these writes may fail or overlap
with another request's. Correct when: what a row holds is or was enabled, and a good
secret is not thrown away (the code falls short of the second, section 7).

**Accounts and users** (`routes/accounts.js`, `routes/users.js`, `lib/supabase*.js`):
the account table, replaced by delete and insert.

**HTTP server** (`server.js`, `main.js`) and the **other Go packages**: routing, and
ports of the Node logins, market data and account store.

### 2.4 Front end

`index.html` and `admin.html` load `src/src/admin/admin-main.jsx`; `legacy.html`
loads the older `src/src/main.jsx`.

**Account panels** (`GetPositions.jsx`, `GetOrderBook.jsx`, `GetTradeBook.jsx`). State:
the chosen user and account, the client built from its credentials and saved session,
the rows, loads and timers under way. Interacts with the broker routes, Kotak's
portfolio stream and Zerodha's order stream. Hard: lists, credentials and loads of
several choices are answered in any order, pushes come in between. Correct when: what
is shown belongs to what is chosen, and a book that stays open catches up. The
**tables** derive sections, groups, totals and a selection from the rows.

**Enter Trade** (`EnterTrade.jsx`, `Basket.jsx`, `useAngelAccount.js`,
`useOrderAccount.js`). State: the chain on screen with its live ticks, the basket's
legs, their margin, the order account. Hard: a chain loads in two steps while the
selection moves on; a leg's contract is resolved while it changes again; margins and
placements outlive what they were asked for. Correct when: prices are the chain's, a
leg's token is its contract's, the margin is the basket's, a leg is in one placement
at a time.

**Streaming chain** (`OptionChain.jsx`, `useMiniChainFeed.js`, `chainLive.js`). State: a
chain, a token map per broker, one socket to `/ws/feed`, a tick store, a filter, a
viewport. Hard: sockets close and are replaced, adapters start and stop, tokens come
later than the chain. Correct when: the socket carries exactly the chain on screen and
rows are drawn by what they show.

**Legacy dashboard** (`main.jsx`). State: the rows of the account table, which load from
the shared table or the browser's stores, and whatever its tabs load for the row they
have chosen. Operations: the automatic login of all rows, edits by row number, saving by
replacing the shared table; the order books refresh by pushes and every 20 s. Hard: the
rows change under runs of logins that go by row number; refreshes keep the closures of
the render that started them. Correct when: opening the page logs in every enabled
account, and the book in front catches up.

**Charts, layout, theme**: drawing.

### 2.5 Which behaviours are hard

`PROJECT.json` ("hazards") lists the most important ones at their lines, with the
properties that would catch each one going wrong; section 7 has the others. They are
of five kinds: counts shared by parties that do not know of each other (hub, engine,
token union); objects that outlive their place in a map (adapters, sockets, pollers,
dials); single-use or single-place resources asked for twice (codes, orders, claims,
slots, flights); answers that come after the question has changed (panels, chains,
legs, margins, logins); and recovery that must not end silently (reconnects, polls,
reaping).

## 3. The modules

    FeedHub  <--EXTENDS--  EngineTopics  --implements-->  LeasedTopics
       ^
       +-- FeedHubProofs  <--EXTENDS--  EngineTopicsProofs  (all of them below)
    TokenUnion <--EXTENDS-- AngelFeed (Node)      MCStreams = BrokerLink, AngelFeed,
               <--EXTENDS-- GoFeed    (Go)                    GoOrderFeed, ZerodhaOrders
    MCSessions = GoFeed, UpstoxLogin, AngelBasket, TotpLogin, NubraSetup, ZerodhaDesk,
                 SharedFlights, CandleHistory, ClientTable
    MCPanels   = AccountPanel, PositionsTable, OrderTables, LegacyBooks
    MCEntry    = ChainPanel, BasketLegs, OrderTicket, LiveChain, ChainTable

The last four are bundles: a variable `part`, chosen at the start and never changed,
says which of the components moves, the others stay in one initial state. A bundle
therefore checks each component on its own, exactly as a run of its own would; it says
nothing about their interaction. Components that do interact are composed by EXTENDS
instead: the engine with the hub, each trade feed with the token union.

### FeedHub: counts and upstream subscriptions

| variable | code |
|---|---|
| `feed` | brokers with an account in the registry (`lib/feedRegistry.js`) |
| `session` | whether `createAdapter` finds the in-memory session Upstox needs |
| `adapter` | `adapters` map of `feedManager.js`; "stopped" is an adapter that stayed in the map after a failed re-login |
| `subs` | `adapter.subs` of `baseAdapter.js`: the mode, 0 for absent |
| `refCounts` | `refCounts` of `feedManager.js`, 0 for absent |
| `clients`, `keys` | the client set and `client.keys` of `wsServer.js` |
| `asked`, `severed` | history variables: the highest mode asked by a holder; the counted pairs whose subscription a stop or failed login took away |

`SetFeedAccount`, `RestStart`, `RestStartAll` and `RestStop` are the lifecycle, with
`StartBrokers` the body of `startBroker` for any number of brokers: read the old
subscriptions, stop (which clears them), create, subscribe again; a creation that
throws leaves the stopped adapter in the map. `Connect`, `WsSubscribe`,
`WsUnsubscribe` and `WsClose` are the socket's handlers, `RestSubscribe` and
`RestUnsubscribe` the counting routes. A message is a function from instruments to
how often it names them, because the code counts per entry of the array but
releases per key. `HubSpec` leaves the counting routes out, `RestSpec` has them.

### EngineTopics and LeasedTopics

EngineTopics extends FeedHub, so every hub step runs with the engine's. `live`,
`building`, `refCount`, `leased` are the maps and fields of `oiDecayEngine.js`; `slot`
is `client.engine`; `waiting` and `polled` are the calls suspended on a construction.
When it settles, all of them are resumed in the same turn; therefore `BuildOk`,
`BuildAbandoned` (all callers gone: the topic is created and destroyed again in that
turn) and `BuildFail` resume everybody. `EngineClose` is the whole close handler: keys,
then engine handles.

LeasedTopics is what it promises: a topic exists while a subscriber holds it or a lease
runs, and is collected otherwise (`Take`, `Drop`, `Lapse`, `Collect`, with weak fairness
of `Collect`). EngineTopics implements it with `holders` mapped to the clients that hold
a handle; counts, construction, feed and timer are invisible.

### BrokerLink: one broker's connection

The adapters ever made for one broker, numbered, each a record: `running`,
`connected`, `timer`, `attempts`, `subs`, what the broker has been told, the `route` of
ticks (`keyMap`) and `link`, what has become of its socket. `Login` is `startBroker`
(stop the old, start the new with its subscriptions); `Authorized`, `Unauthorized`,
`Opened`, `Acked`, `Rejected`, `Down`, `Timer`, `LateMessage` are the events of any
adapter ever made, replaced ones included. The kinds differ as the code does: Upstox
authorizes first; Kotak is acknowledged after opening and accepts a limited number of
instruments; Nubra can refuse at any time; which late events are dropped depends on
whether the handler asks which socket it came from.

### TokenUnion, AngelFeed, GoFeed: the trade panel's feeds

`TokenUnion` is the part both backends share: the lists, the union, the merge up to the
cap, and which tokens a change releases. `AngelFeed` adds the Node side, where each
method is one turn. `GoFeed` adds the Go side, where a request goes through `release`,
`drop`, `gather`, `start`, `send`, `dial`, `snap`, `initial`, each a critical section or
a write, interleaved with other requests, viewers, dying sockets and read loops. `told` is
what Angel streams on a socket. Two history variables name what concurrent requests can
bring about: `rivalled`, the sockets dialed while another request was dialing too, and
`crossed`, the tokens that a request or the last viewer changed while another request still
had frames to write about them.

### GoOrderFeed: order updates

`slot` is `f.conns`; `dialing`, `reads`, `retries`, `toClose` are the goroutines and timers
in flight. `DialOk` and `DialFail` overwrite or free the slot whatever it holds by then,
as the code does.

### AngelBasket: placing orders

One request, with a program counter (`at`) at each `await`, against a broker that ends
sessions, loses calls, and, if `LostAnswers`, loses answers after it has acted. `book` is
the broker's truth, `results` the rows the caller sees.

### UpstoxLogin: single-use codes

Requests (`login`) and redirects (`callback`) of several logins at once over one user's
session; `claimed` is `seleniumStates`, `pending` the credentials kept per state. A
login's code is identified with the login.

### TotpLogin: one-time codes

A clock in seconds, a broker that takes a code only in its window, and the four callers
(`adapter`): Kite's `submitTOTP`, Nubra's login and setup, which retry once after a
failure near the edge, and Kotak's login, which does not. `gen` is when the code was
generated, `Answered(time)` an answer after `time` seconds, `Sleeps` the wait for the
next window.

### NubraSetup: a secret in three places

`enabled` is the secret the broker honours, `stored` the row, `asks` the requests, each
with the secret it was given or has read and the place it has reached. `Stale` lets a
browser send an old copy. `Reset` is the account holder resetting the authenticator at
the broker. `LooksDead` is `isTOTPError`: any message with "totp" in it, a login answer
without a token included.

### ZerodhaDesk: rows, users and sessions

`rows` in the table name Kite users, or nobody; `saved` is what the browser keeps per row;
`sessions` is the backend's map by user id. A `flow` is a login from one of the three
kinds of page, with the probe, the headless login, the popup (one window, whose user
`SignsIn` chooses) and the second request after it; `callback` handling is separate, as it
is another request. `AsksBasket`, `Resolves`, `PlacesLeg`, `BasketAnswers` are a basket
that goes out with whatever the row has saved.

### ZerodhaOrders: a shared poller

Pollers are objects apart from the map entry `registered`, so that an old poller with a
request in flight coexists with its successor, and its end removes whatever entry there
is, as the code does. `HashOf` is `orderHash`, which tells some books apart and others
not.

### SharedFlights: three caches

`cache` chooses the chain cache, the Node quote cache or the Go one; `entry` is what is
kept, `flight` the read under way with the callers aboard. In Go, `BoardsAgain` is the
second look a preempted caller takes. What is kept differs: the chain cache keeps good
chains only, the quote caches whatever did not fail.

### CandleHistory: pages

`PageCursors` computes the anchors of a range, `TakesPage` is a worker taking the next
page from the cache or from upstream, `PageComes`, `PageRetries`, `PageFails` its end, and
`Put` what is kept and evicted. Upstream shows a candle up to `Late` seconds after it was
traded (`visible` is chosen when the page is read).

### AccountPanel, PositionsTable, OrderTables

AccountPanel is one of the three panels (`panel`) with its choices, the requests that
nothing has cancelled (`requests`), the client, the rows (as account and version of the
book) and the timers. An action is a handler or an answer together with the React effects
of the state it changes, run in their order of declaration and with the values of that
render. PositionsTable is what the Positions panel derives from its rows: ticks and lot
sizes joined on, filters, sorting, groups, and the selection that becomes a strategy's
legs. Groups and filters go by the `label` of an expiry as the symbol shows it, the sort by
`ExpirySortValue` of the label, which is the same for every label that is not a date
(`DayOf`). `checked`, a history variable, holds the positions whose box the user has ticked.
OrderTables has the two books: sections, counts, groups and turnover, under pushes
(`Merged`) and re-reads.

### ChainPanel, BasketLegs, OrderTicket

ChainPanel: the selection, `chainCall` (the load under way with its stage), `priceCalls`
and `subscribes` (the background requests), held and shown ticks with the scheduled
flush, and the legs its buttons add. BasketLegs: `resolves` under way with their sequence
numbers, the chain cache, and `marginJob`, the debounced margin request. A leg is an option or
a future and comes from the search (`AddFromSearch`), where it is named by its contract, or
from the chain on screen (`AddFromChain`), where it is named by the expiry that is selected and
holds the token of the row. `FromChain` is `lookupFromChain`, which takes every kind but a put
for a call, and sends a strike without a token on to the server; `LadderSteps` and `FixedSteps`
are the strikes a step may lead to, with and without the chain. OrderTicket: the
order account with its hydration, the preview, and `jobs`, the placements under way with
the client and handlers of the render that started them; `accepted` is the broker's count
per leg.

### LiveChain, ChainTable

LiveChain is the page or its window (`view`): loads under a sequence number, the token map
and greeks that follow, `wsRef` and the sockets ever made, what each is `served`, the
adapters that run and the status poll that reports them. A subscription names broker, chain
and segment; on the page the Angel one has the segment of the symbol picked last, and
`pickedSince`, a history variable, holds the symbols picked since the chain was asked for.
ChainTable: the ticks of two brokers, what the page has seen of them, the filter, and the
three panes: the `place` each is scrolled to, whether anybody listens to them (`listening`),
and the frames that a chain and a scroll queue. A filter that nothing passes unmounts the
panes (`Mounted`); `PanesFollow` is what a render does to them. `heard` is a history variable:
a scroll has been heard since the chain was shown or the panes were mounted.

### ClientTable, LegacyBooks

ClientTable is the older page's account table: `clients` are the rows, `loginRuns` the runs
of `runAutoLogin`, each with the rows it saw (`of`) and the row numbers to come (`todo`),
`shared` and `browserStore` what the two stores hold. `RowsBecome` is a change of the rows
with its two effects, persisting and the automatic login. `RowsDeleted` and `RowsInserted`
are the two requests of `replaceAccounts`. `owed` is a history variable. LegacyBooks has the
order and trade books: `Rendered` is a render with its effects, `watch` the refreshing effect
with the row and account of its render, `fetches` the reads under way.

### The modules of proofs

The theorems of section 6. A proof module extends the components it is about:

| module | extends |
|---|---|
| FeedHubProofs | FeedHub |
| EngineTopicsProofs | EngineTopics (with FeedHub and LeasedTopics), FeedHubProofs |
| TokenUnionProofs | TokenUnion |
| StreamProofs | BrokerLink, GoOrderFeed, AngelFeed, ZerodhaOrders, TokenUnionProofs |
| SessionProofs | GoFeed, UpstoxLogin, NubraSetup, SharedFlights, TotpLogin, CandleHistory, TokenUnionProofs |
| OrderProofs | AngelBasket, ZerodhaDesk, OrderTicket |
| EntryProofs | ChainPanel, LiveChain, BasketLegs, ChainTable |
| PanelProofs | AccountPanel, PositionsTable, OrderTables, ClientTable, LegacyBooks |

## 4. The runs

Distinct states are TLC's, for the configuration in this directory (in `sessions` up to symmetry).

| run | module, cfg | distinct states | question |
|---|---|---|---|
| `hub` | MCFeedHub, FeedHub.cfg | 70,972 | do counts and upstream subscriptions agree? |
| `hub_rest_steals` | MCFeedHub, FeedHubRestSteals.cfg | violation | may REST take a held key away? |
| `engine` | MCEngineTopics, EngineTopics.cfg | 179,774 | does the engine keep its share, with impatient clients? |
| `engine_leases` | MCEngineTopics, EngineLeases.cfg | 6,976 | does it implement LeasedTopics? |
| `streams` | MCStreams, Streams.cfg | 147,315 | do the four kinds of stream stop, stream and come back? |
| `sessions` | MCSessions, Sessions.cfg | 589,469 | do requests that race leave sockets, sessions, secrets and caches right? |
| `panels` | MCPanels, Panels.cfg | 264,171 | do panels, tables and the older page's books follow choice, book and tick? |
| `entry` | MCEntry, Entry.cfg | 176,864 | do chains, legs, margins, orders and sockets belong together? |
| `basket_timeout` | AngelBasket, BasketTimeout.cfg | violation | does a lost answer double an order? |
| `account_switch` | MCPanels, AccountSwitch.cfg | violation | may one account's rows be shown as another's? |
| `good_secrets` | NubraSetup, GoodSecrets.cfg | violation | is a secret wiped that the broker honours? |
| `row_account` | MCSessions, RowAccount.cfg | violation | does a popup rename a row? |

Deadlock is checked only in `basket_timeout`. Everywhere else the system may really
stop: all requests have ended, nobody asks for anything any more, or a bound on counts,
logins, edits or versions is reached. That nothing stops too early is what the liveness
properties are for.

**hub.** `SubscribedIsCounted` (no orphan subscription), `HeldIsCounted` (no release by
one client starves another), `CountedIsSubscribed` (a gap has a stop or a failed login
behind it), `ModeCoversHolders` (an upgraded mode survives), `HeldStaysSubscribed` (what a
client keeps holding it keeps receiving). Bounds: two brokers, of which Upstox needs a
session, so that starts of one leave the other alone and one of them can fail; one
instrument, because the code treats the entries of a message independently; two clients
that may name a key repeatedly (`MaxRepeat` 2), so that a count exceeds its holders; counts
up to 3, enough for a repeat by one client and a hold by the other; modes 2 and 3 for the
upgrade. The theorems of section 6 remove these bounds.

**hub_rest_steals.** The same hub with the counting routes: TLC finds a browser that holds
a key while a REST unsubscribe takes its upstream subscription away.

**engine.** `HeldTopicsLive`, `SharesCounted`. Two topics of one underlying share an
instrument with each other and with browsers' own subscriptions; two clients (symmetric)
may unsubscribe or close during a construction. One unfinished call per client and topic.

**engine_leases.** `NoLeakedLease`, `ImplementsLeases` (refinement, its fairness included).
Clients wait for `engine_subscribed` before they unsubscribe (`Impatient = FALSE`), since
the code leaks a handle otherwise (section 7). Browsers' own subscriptions are switched off
(`MaxCount = 0`): they do not touch topics, and `engine` covers the sharing.

**streams.** Four components, each by itself.

* BrokerLink (`StoppedStaysDown`, `TicksReachSubscribers`): all four kinds of adapter; two
  logins so that a stopped adapter and its successor coexist, two instruments with keys of
  their own, Kotak's limit at 1 so that it is reached, two reconnects so that giving up is
  reached.
* AngelFeed (`UpstreamIsUnion`, `NeededStays`): three tokens and a cap of two, so that merges
  are refused and choices exist; two listeners, so that one leaves while another stays.
* GoOrderFeed (`SlotIsAlive`, `Recovers`): one account (the slots of different accounts do
  not interact except through the last viewer), two viewers, three sockets so that one is
  dying, one is read and one is new; two dials in progress at once, which the code allows;
  failures limited to two.
* ZerodhaOrders (`ViewersCatchUp`): two viewers and two pollers, since the hazard is an old
  poller and a new one; three books of which two share a hash; one change and one failure
  at any moment.

**sessions.** Nine components, each by itself; safety only.

* GoFeed (`OneSocketOneUnion`): two request handlers at once, one viewer, and two sockets
  over the whole run, so that handlers dial over each other, a socket dies under a handler and
  a read loop is late for its successor; one token, because a token is told and released on
  its own but for the cap, which is the union's (`streams` and the theorems have it). The
  property excuses the sockets and tokens that concurrent handlers can lose (`rivalled`,
  `crossed`, section 7) and holds the feed to its word about all others.
* UpstoxLogin (`RedirectsAreServed`): a headless login and a popup at once, with saved
  sessions, environment keys and calls that fail at any point.
* AngelBasket (`BasketIsTrue`): three legs of which the second is invalid, so that the loop
  goes on after an error; four session tokens; two sessions die and two calls are lost,
  enough for the login, its probe and the second placement to fail.
* TotpLogin (`CodesInTime`): windows of 12 seconds with an edge of 2, requests that take up
  to 6, every place in the window to start from. The proportions matter, not the 30 s.
* NubraSetup (`SavedWasEnabled`): three requests, since a third party is what makes two
  setups differ (a login that wipes, a reset), three secrets and browsers with stale copies.
* ZerodhaDesk (`OrdersGoHome`): two rows, of which one names its account and the other is
  blank, two Kite users, two tokens minted. The component is taken twice: with two logins
  at once, and with one login and a basket of two legs; together they are beyond what can
  be enumerated, and a basket reads only what logins have left behind.
* SharedFlights (`FlightsAreShared`): two callers, a window of one tick, four ticks, so
  that an answer is served, outlives its window and is replaced. A third caller behaves as
  one of the two does.
* CandleHistory (`HistoryIsWhole`): two requests for overlapping ranges of five seconds,
  one page anchor in common, a contract that does not trade in one of the seconds; two
  workers, two attempts, a budget of one page and a half so that pages are evicted.
* The names of handlers, of sockets and of desk logins are symmetric (`HandlerSymmetry`): no
  action, property or constant tells one from another.
* ClientTable (`LogsInHandsFree`): a shared table of two accounts or none, a browser's store
  with the second one logged in or nothing, so that rows are replaced by others; two runs of
  logins at once, two things done by the user, one save.

**panels.** Four components, each by itself; the panel is the order book, which has all
that the other two have except the positions' push. A behaviour keeps its part, so that one
fairness condition of the bundle may name an action of two parts: it says what the two
specifications say of theirs.

* AccountPanel (`CredsOfChosen`, `BookCatchesUp`): one user with two accounts, one of Kotak
  (pushed) and one of Zerodha (streamed), and a user with none; one change of each book; one
  load by hand or by a timer at a time, beside the automatic ones, so that loads overlap.
* PositionsTable (`RowsAreTheirOwn`): two answers. One has two labels of one exchange that are
  no dates and so sort as one day, with rows that take turns by strike: their groups are
  headed twice. The other keeps a row, changes its id and adds a dated row of another exchange,
  whose groups must not be. One filter, two sort columns, one selected key.
* OrderTables (`RowsAddUp`): two orders of two expiries, one without a price, a read and a
  push that may overtake it.
* LegacyBooks (`LegacyBookCatchesUp`): two rows and two accounts, any of which may be logged in
  from the start, two reads at once so that one is overtaken, a change of each account's books,
  and two things done by the user (coming to the tab is one), who then looks on.

**account_switch.** The same panel with two Angel accounts: TLC finds the rows of one shown
with the other chosen.

**entry.** Five components, each by itself.

* ChainPanel (`QuotesAreTheChains`, `ChainFollows`): an underlying with two expiries and one
  with another, so that a choice of symbol passes through a chain that does not exist; one
  leg, two presses of LOAD.
* BasketLegs (`LegHoldsItsContract`, `MarginIsTheBaskets`): one leg, an option or a future
  (legs are resolved independently and the margin counts them all), two expiries whose ladders
  differ by side and whose cached windows show strikes that one side is not listed at, so that
  a strike is found in the cache, has no token there, is found on the server or nowhere; a
  strike typed between two listed ones; three edits, so that a resolve is overtaken.
* OrderTicket (`OneFlightPerLeg`): two legs, two users of which one has two accounts of one
  broker, three actions of the user during placements.
* LiveChain (`TokensAreTheChains`, `StreamFollows`, `WindowRecovers`): page and window, an
  index and a commodity chain (two brokers' feeds), three sockets, because the fault of
  section 7 needs a replaced one, its successor and a third.
* ChainTable (`TableFollows`): four rows with `VIRTUAL_ROWS` at 3 so that drawing is
  windowed, an overscan and a viewport of one row, premiums on either side of a limit and
  rows with none, so that a filter shortens the table or empties it, a tick that changes
  whether a row passes; chains hydrated and loaded at any time.

**basket_timeout, good_secrets, row_account.** Each checks the statement of the finding of
the same name (section 7) on the smallest instance that shows it.

## 5. Fairness

Only what the code or the platform brings about is fair. Weak fairness unless said
otherwise.

* *engine*: a construction settles (`Settle`), because the chain request has a 15 s timeout;
  `TickAllTopics` is an interval timer. Nothing forces clients, polls or leases to end.
* *BrokerLink*: Upstox's authorization request has a 10 s timeout (`Answered`); a dial ends in
  open or close, and a socket closed by the code gets its close event (`Dialed`); the
  reconnect timer fires. Nothing waits for Kotak's acknowledgement with a timeout, so it
  has no fairness.
* *GoOrderFeed*: goroutines and timers run, a dial succeeds or fails. `Recovers` allows for a
  failed dial, because the code retries a lost socket only once.
* *ZerodhaOrders*: the timer fires, a request is answered or fails within its 20 s.
* *AccountPanel*: the background timer fires while the page is visible (`BackgroundTick`), a
  request ends (`Answered`). Strong fairness of `Served` and `LoadLanded`: the broker reads
  the book for a load, and loads do not end in an error for ever. Without it nothing
  catches up, whatever the panel does; strong, because each load is a new request that
  another choice may cancel.
* *LegacyBooks*: the 20 s interval (`SafetyRefresh`). Strong fairness of `BookReads` and
  `BookLands`: reads do not fail for ever.
* *ChainPanel*: `LoadAnswered` and `MasterRefreshed` (requests end). Strong fairness of
  `LoggedIn` and `SkeletonLoaded`: a chain that exists is served sooner or later although
  the panel retries a failed load at once.
* *LiveChain*: the 5 s status poll (`PollsAgain`), a dialed socket opens or closes, a closing
  one gets its close event. Adapters start and stop as they like; `WindowRecovers` is about
  runs in which one stays up.
* BasketLegs, OrderTicket, OrderTables, ChainTable, ClientTable and AngelFeed state the fairness of their
  code in their specifications, but no liveness property is checked of them.

The hub and the sessions state safety only and assume no fairness.

## 6. What is proved

The theorems are checked by TLAPS. They hold for every value of the constants that the
named assumptions of the modules admit. All 31 invariants that TLC checks are proved, the
two action properties that are safety (`HeldStaysSubscribed`, `NeededStays`), and
the refinement of LeasedTopics but for its fairness. Of five of the six liveness properties the
safety half is proved: that the system, where it stands still, is where it was to come, and
that nothing it waits for is lost (`SlotsAreAlive`, `ViewersStayInStep`,
`RestingChainIsSelected`, `PanelsAreNeverStuck`, `RefreshesGoOn`).

Each proof has an inductive invariant: the property does not follow from itself, because an
answer that is still to come must find the state it will be taken for. What the invariant
adds is said below, component by component.

### The feed hub (FeedHubProofs)

For every set of brokers, instruments and modes within `1..3`, every finite set of clients
and every value of the bounds; finiteness is needed because the invariants speak of a
cardinality.

| theorem | of | says |
|---|---|---|
| `Typed` | `RestSpec` | `[]TypeOK` |
| `NoOrphans` | `RestSpec` | `[]SubscribedIsCounted` |
| `GapsAreSevered` | `RestSpec` | `[]CountedIsSubscribed` |
| `HeldCounted` | `HubSpec` | `[]HeldIsCounted` |
| `HeldStays` | `HubSpec` | `HeldStaysSubscribed`, an action property |
| `ModesCovered` | `HubSpec` | `[]ModeCoversHolders` |

The argument goes in three layers, each inductive with the one below it.

1. `Ledger == TypeOK /\ IdleIsEmpty /\ SubscribedIsCounted /\ CountedIsSubscribed`.
   None of the last two is inductive alone: a start carries over what the old
   adapter had, and only `IdleIsEmpty` (no adapter, no subscriptions) tells that a
   first start carries nothing; a release must find the count and the subscription
   together. Four lemmas do the work, one per routine (`SubscribeLedger`,
   `UnsubscribeLedger`, `StartLedger`, `StopLedger`); `LedgerStep` sends every
   handler to its routine. It holds with the REST routes too, because both routes
   keep counts and subscriptions in step.
2. `Held == Ledger /\ HeldIsCounted`. This layer fails for the REST counting routes
   and is proved of `HubSpec`. The key lemma is `ClientLetsGo`: a client lets go of
   each pair it holds once, so the holders and the count both fall by one, and an
   instrument is released upstream only when no holder is left. `HeldStays` follows
   from the same lemma and from layer 1 for re-logins.
3. `ModeInv == Held /\ AskedIsHeld /\ ModeCoversHolders`. `AskedIsHeld` (nothing is
   remembered of pairs not held) is what makes the first subscription of a client
   start from nothing.

### The OI-decay engine (EngineTopicsProofs)

For any finite set of topics over any instruments, on top of the hub's lemmas.

| theorem | says |
|---|---|
| `HeldTopicsExist` | `[]HeldTopicsLive` |
| `EngineTypes` | `[](EngineTypeOK /\ NothingHalfBuilt /\ GoneHoldNothing)` |
| `SharesAreCounted` | `[]SharesCounted` |
| `NoLeasesLeak` | `~Impatient => []NoLeakedLease` |
| `EngineImplementsLeases` | `~Impatient =>` the engine's steps are steps of LeasedTopics, or stutter |

`EngineCore` adds to the types and `HeldTopicsLive` that no topic under construction is in
the map and that a socket that is gone holds nothing; it holds for clients that may
unsubscribe while a subscribe is under way. `Exact` needs clients that wait (`~Impatient`,
as in the run `engine_leases`): then a client has one call at most per topic, with its slot
reserved, so each construction that ends gives one handle. The refinement mapping is the
one TLC checks: `live` and `leased` as they are, `heldBy` the clients with a handle;
`ReleaseIsDrop` shows that what a release destroys is what nobody else holds. Of
`ImplementsLeases` only the abstract fairness (`Collect`) stays with TLC.

### The trade panel's feeds (TokenUnionProofs, StreamProofs, SessionProofs)

`UnionSpec` is what both feeds promise of their union: it starts empty and changes only by a
new chain, a new basket, or by being forgotten. The Node feed and the Go feed are shown to
implement it, so what is proved of it holds of both.

| theorem | module | says |
|---|---|---|
| `UnionWithinCap` | TokenUnionProofs | `UnionSpec => []UnionTypeOK`; the union never exceeds the cap |
| `UnionKeepsNeeded` | TokenUnionProofs | `UnionSpec => NeededStays`, an action property |
| `NodeFeedKeepsUnion` | StreamProofs | AngelFeed's `FeedSpec => UnionSpec` |
| `NeededTokensStay`, `FeedTypes` | StreamProofs | `NeededStays` and `[]FeedTypeOK` of the Node feed |
| `UpstreamFollowsUnion` | StreamProofs | `[]UpstreamIsUnion` |
| `GoFeedKeepsUnion` | SessionProofs | GoFeed's `FeedSpec => UnionSpec`, for any number of handlers at once |
| `GoNeededTokensStay`, `GoFeedTypes` | SessionProofs | `NeededStays` and `[]FeedTypeOK` of the Go feed, for any number of handlers |

`MergedWithin` says once what `merge` returns; every operation is a release followed by a
merge (`Change`, `ChangeWithin`). In Go a handler's change of the union is one critical
section and the frames about it are others, so handlers interleave; the refinement shows that
the union does not suffer from it, only the sockets do (`SocketsFollowTheUnion` below says
how far). `GoTyped` adds to the types that a handler that has dialed has a socket.

### Upstream connections (StreamProofs)

| theorem | says |
|---|---|
| `StoppedAdaptersStayDown` | `[]StoppedStaysDown` |
| `TicksReachTheirSubscribers` | `OwnKeys => []TicksReachSubscribers` |
| `SlotsAreAlive` | `[]SlotIsAlive` |
| `ViewersStayInStep` | `[](OrdersTypeOK /\ PollersGoOn /\ ViewersInStep)`, of ZerodhaOrders |
| `LinkTypes`, `OrderFeedTypes` | `[]LinkTypeOK`, `[]OrderTypeOK` |

An adapter is inductive by itself: `Sound` (one that was stopped has no timer and dials no
more; one that runs and has not given up has a reconnect left) and `Routed` (what an open
connection was told are the keys of the subscriptions, each with its route). `LinkCore` adds
that only the adapter in the map runs. `OwnKeys` says that no two instruments share a key of
the broker. That is so of the tokens of an exchange; Upstox's `instrumentKey` passes a token
with a `|` in it through, so an instrument asked for under two names would share one, and
the release of one name would stop the other. In the Go order feed `SlotsRead` says whose
socket a read loop reads.

`PollersGoOn`: a Zerodha poller with viewers has its timer set or a poll under way.
`ViewersInStep`: each viewer was sent what its poller holds, as far as `orderHash` tells
orders apart. They hold although an old poller's end removes its successor from the map
(section 7): viewers stay with the poller that took them on. `OrdersCore` adds that a viewer
has one poller, that the registered poller has viewers, and that the hash an answer is
compared with is that of the orders held. Without the last, an answer equal to the last hash
could leave a viewer behind.

### Requests that race (SessionProofs)

| theorem | says | invariant |
|---|---|---|
| `RedirectsServed`, `UpstoxTypes` | `[]RedirectsAreServed`, `[]UpstoxTypeOK` | `LoginsKept`: until the script has returned its code, the state of a headless login is claimed and no callback of it is past the claim test |
| `SavedSecretsWereEnabled` | `[]SavedWasEnabled` | `NubraCore`: a secret about to be saved was enabled, and so was every one the row has held |
| `FlightsShared` | `[]FlightsAreShared` | `FlightsCore`: nothing is from the future, and what is stored was worth keeping |
| `CodesStayInTime` | `[]CodesInTime` | `TotpCore`: after the sleep the clock is in a later window than the refused code's, with room for the second |
| `HistoriesAreWhole` | `[]HistoryIsWhole` | `CandleCore`: what a request still misses is in a page to be read, and a page has what had appeared when it was asked for; `CacheCore`: no page is kept twice and what is kept weighs no more than what is counted |
| `SocketsFollowTheUnion` | `[]OneSocketOneUnion`, for any number of handlers | `GoCore`: of each token not crossed, one handler at most has frames to write, and they make what is streamed the union (`Orderly`, from who `Brings` and who `Sheds` it); a socket in nobody's map is a rival (`Rivals`) |

`CodesStayInTime` needs no more of the times than `TotpAssumption`: the edge, the slack and
one call fit into a window. `HistoriesAreWhole` rests on `Late + MaxWait <= Settle`.
`NoSecondIsLeftOut` shows that the anchors of `PageCursors` leave no second of a range
uncovered, for every page size; the lemmas from `InStock` to `WeighsReplaced` are about the
weight of a list of pages. `SocketsFollowTheUnion` bounds the damage that concurrent requests
do: without `rivalled` and `crossed` the statement is false of two handlers (section 7,
`feed.go:356` and `:180`); with them it holds for any number, over any tokens and any cap, so
one handler at a time loses nothing. `GoStays` has one case per action, split by what the
handler has left to write.

### Orders (OrderProofs)

| theorem | says | invariant |
|---|---|---|
| `BasketsAreTrue` | `~LostAnswers => []BasketIsTrue` | `BasketCore`: each row is what the broker did with its leg, and sessions that have ended are counted: one for a second login, two for a valid leg that failed |
| `OrdersAreHome` | `[]OrdersGoHome` | `DeskCore`: every token that a row, the store, a login or a callback holds was issued, to its owner; orders are those of legs before the one being placed |
| `LegsFlyOnce` | `[]OneFlightPerLeg` | `TicketCore`: one placement at most is the basket's on screen; the legs of any other are no longer in the ticket |

With lost answers `BasketIsTrue` is false: the run `basket_timeout`.

### Trade entry and chains (EntryProofs)

| theorem | says | invariant |
|---|---|---|
| `QuotesStayTheChains` | `[]QuotesAreTheChains` | `ChainCore`: held ticks and prices under way are of the chain their handler was made for |
| `TokensStayTheChains`, `StreamsFollow` | `[]TokensAreTheChains`, `[]StreamFollows` | `LiveCore`: loads are told apart by their number; the current one finds an empty screen or its own chain; what is subscribed is the chain on screen, broker by broker, and an open socket is served it (`StreamKept`) |
| `RestingChainIsSelected` | `[]RestingChain`: with a session, a selection and nothing loading, the chain on screen is the selected one | `SelectionCore`: what `autoLoadRef` remembers is being loaded or on screen |
| `LegsHoldTheirContracts`, `MarginsAreTheBaskets` | `[]LegHoldsItsContract`, `[]MarginIsTheBaskets` | `LegsCore`: a number is given to a leg's resolves once, and the last one's leg shows what it asks for; margins asked for are of the basket as it is |
| `TableStaysInView` | `[]TableFollows` | `TableCore`: panes that have been heard are side by side, and with no frame queued the range is that of their place, or of the top (`HeardTogether`, `RangeKept`) |

`NearestExists` is the one lemma about numbers: of the strikes of a window one is nearest.
`AutoLoadKeeps` is the auto-load effect, with which every commit of the panel ends.

### Panels and account tables (PanelProofs)

| theorem | says | invariant |
|---|---|---|
| `ClientsAreTheChosens` | `[]CredsOfChosen` | `PanelCore`: a request for credentials that nothing has cancelled is for the chosen account |
| `PanelsAreNeverStuck` | `[]NeverStuck`: Loading is up exactly while a load that shows it is under way, and a ready account has been loaded on its own | itself |
| `OrderRowsAddUp` | `[]RowsAddUp` | `OrdersCore`: the table and the reads under way have one row for each order |
| `PositionRowsAreTheirOwn` | `[]RowsAreTheirOwn` | `TableCore`: a ticked key names a position whose box was ticked; no two rows agree in what keys are made of |
| `LoginsAreHandsFree` | `[]LogsInHandsFree` | `HandsFree`: a login that is owed is among those that one run has still to make, once the table is loaded |
| `RefreshesGoOn` | `[]RefreshGoesOn`: the refreshing effect is the one of the row and book in front, and its flag is up exactly while its refresh is under way | `RefreshCore`: reads are typed |

The tables add up sums over finite sets of rows, with the community modules' `SumFunction`.
Its fold is a recursive function, which is a CHOOSE that has to be shown to exist: `SumsExist`
builds it on the subsets of size `n` for one `n` after the other, `SumsTakeOut` shows that it
does not matter which row is taken out first, and `GroupsAddUp` that the sums of groups make up
the sum of all. The induction in them is `AllNaturals`, stated about a set of numbers and proved
from a least element (`WFMin`), since the library's induction theorems take an operator.
`SortedRows` says what the table's sort returns, for any rows and either direction:
`RowsAreOrdered` makes the comparisons a total order, `PlacesInOrder` counts the rows before
each. From it `GroupsTogether` has the rows of a group next to one another unless another label
of its exchange sorts as the same day (`Mingles`); so no other group is headed twice, and one
header of each group adds up to all rows.

### Assumptions

The named assumptions type the constants and bounds, and keep special values
(`NoLeg`, `NoLadder`, `None`, ...) apart from real ones. Beyond that:

* sets that are counted are finite: clients, topics, tokens, instruments, orders;
* the OAuth states of Upstox logins differ (`UpstoxAssumption`);
* there is a chain to open with (`Ladders # {}`), and an expiry's window has a strike;
* the ranges of charts and the trading days consist of seconds from 0 on, and
  `Late + MaxWait <= Settle` (`CandleAssumption`);
* stored tables are sequences of rows (`ClientAssumption`);
* no two rows of an answer agree in instrument, exchange, product and quantity, which the
  panel's keys are made of (`NettedAssumption`): brokers net positions per product, and
  `GetPositions.jsx:351-357` finds the row of a push by instrument, exchange and product;
* `None` is no symbol, expiry, selection or call (`NoneAssumption` of ChainPanel).

Four theorems have a hypothesis of their own, named above: `~Impatient` (twice),
`~LostAnswers`, `OwnKeys`.

### Only model-checked

* Liveness: `Recovers`, `ViewersCatchUp`, `BookCatchesUp`, `LegacyBookCatchesUp`,
  `ChainFollows`, `WindowRecovers`, and the fairness part of `ImplementsLeases`. They rest on
  ENABLED, which TLAPS cannot expand here. The safety halves named at the head of this section
  are proved of all but `WindowRecovers`, whose safety is `StreamsFollow`.
* What `BasketIsTrue` and `NoLeakedLease` become without `~LostAnswers` and `~Impatient`: they
  are then false of the code.


## 7. Disagreements between the code and what it says of itself

Five are kept as runs that TLC must find violated:

* `routes/wsfeed.js:62-65` lowers counts that nobody behind the request has raised;
  `ws/feedManager.js:141` says that the upstream subscription is released only when the
  last client lets go (`hub_rest_steals`).
* `angel/orders.js:292` logs in and places a leg again after any error, a timeout after the
  order was accepted included, so a leg may become two orders (`basket_timeout`).
* `GetPositions.jsx:283` puts the rows and the session of a late answer into whichever
  account is chosen by then; the head of the file promises the selected account's positions.
  The order and trade books do the same (`account_switch`).
* `brokers/nubra.js:176` throws a message with "totp" in it for an answer without a token,
  which `isTOTPError` takes for a dead secret: a secret the broker honours is wiped
  (`good_secrets`).
* `brokers/zerodha.js:212` writes the id of whoever signed in at the popup into the row the
  popup was opened for, before the dialog's guard against another account sees the answer
  (`row_account`).

The others were met while modelling. Where one would falsify a property, the property or
the configuration says what it leaves out.

Node backend:

| where | what happens |
|---|---|
| `ws/feedManager.js:156` | a client that names a key twice raises its count twice and releases it once; the subscription outlives it (comment at :141) |
| `ws/feedManager.js:49-59` | a re-login whose adapter cannot be created has already stopped the old one; subscriptions are lost (`severed`) |
| `ws/wsServer.js:184` | `engine_unsubscribe` during construction, then `engine_subscribe`: two handles, one of them lost (comment at :139) |
| `engine/oiDecayEngine.js:321` | after a feed stop and start a poll finds the topic but does not subscribe it again (comment at :310) |
| `ws/baseAdapter.js:62` | a tick decoded after a release puts the instrument back into `lastTicks`; a later snapshot starts with it |
| `ws/adapters/upstox.js:95` | the failed authorization of a replaced adapter tells browsers that the broker is down |
| `ws/adapters/kotak.js:346`, `:360` | nothing waits for the acknowledgement with a timeout; a late one marks a stopped adapter connected |
| `engine/chainCache.js:111` | clearing the cache forgets flights under way, which then store an old chain (only tests clear it) |
| `angel/feed.js:132` | a token refused at the cap is not added when room is made (comment at :106) |
| `angel/httpClient.js:51-54` | sleepers of the rate limiter wake together and share one token |
| `angel/httpClient.js:104` | an answer of status 200 that reports a failure is kept like any other for the window |
| `angel/master.js:87` | a forced refresh runs beside a load under way |
| `angel/orders.js:267`, `brokers/zerodha.js:706`, `brokers/kotak.js:361` | the legs after the fiftieth are dropped without a row |
| `angel/auth.js:156` | a stored session is used unprobed when the login fails |
| `brokers/upstox.js:264` | a failing funds call, or a late probe of an old token, deletes a good session |
| `routes/upstox.js:20` | a session saved in a browser replaces a newer live one |
| `brokers/zerodha.js:500` | the failed probe of an old session deletes a newer one of the same user |
| `brokers/zerodha.js:130` | without a saved session the API key is taken for an access token and probed |
| `brokers/zerodha.js:35` | credentials of popups that are never finished stay in the map |
| `routes/zerodha.js:93` | an old poller's end deletes its successor's entry; a third viewer gets a second poller |
| `routes/zerodha.js:23-33` | the hash of the orders leaves the price out, so a repricing is not sent |
| `brokers/kotak.js:81` | the login has no second code after one that failed at a window's edge, unlike Nubra's and Zerodha's |
| `routes/nubra.js:94-95` | a browser's stale copy of the secret is refused and the stored, newer one is wiped |
| `loginAll.js:121-123` | a secret is enabled at the broker before it is saved; a failed save loses it, and two setups at once may leave one stored and the other enabled |
| `routes/accounts.js:81-102` | delete and insert are not atomic, and rows get new ids; a secret saved under an old id matches no row |
| `routes/oiPremiumDecay.js:147` | two fetches of one page both add its length to the cache's counter: it keeps less than its budget |

Go backend:

| where | what happens |
|---|---|
| `feed.go:356-373` | two handlers that find no socket dial two; one is orphaned and nobody closes it (comments at :61, :63). `OneSocketOneUnion` excuses such sockets (`rivalled`) |
| `feed.go:180-181` | with two handlers a subscribe frame may follow the release of its tokens, and a release their subscription (comment at :158). `OneSocketOneUnion` excuses such tokens (`crossed`) |
| `feed.go:116` | the last viewer closes the upstream in a second critical section; a viewer that arrives in between loses its stream |
| `feed.go:475` | pings are written without the mutex that guards the other writers |
| `orderfeed.go:147-148` | a dial that outlives its reservation leaves two sockets for an account, or one with no viewer |
| `cache.go:93` | a shared flight runs under its first caller's context: when that request is cancelled, all aboard fail |

Front end:

| where | what happens |
|---|---|
| `GetPositions.jsx:211` | from a user to another and back to the same first account before its credentials come: the client stays empty until another choice |
| `GetPositions.jsx:426` | a row that was ticked off may come back ticked after an answer that renames its key |
| `GetPositions.jsx:885-896`, `:1547-1555` | rows are grouped by the text of the expiry but sorted by a number that is the same for every text that is not a date (`SENSEX25709100000CE` and the like): the groups of one exchange take turns, are headed twice, and each header has the sum of all its rows (comment at :97). `RowsAreTheirOwn` excuses such groups (`Mingles`) |
| `EnterTrade.jsx:70-94`, `angel/market.js:392-395` | whatever is not a put is looked up as a call: a future (`Basket.jsx:63-84`) whose expiry is changed in its row gets a call's token, without an error |
| `EnterTrade.jsx:681-695` | a failed load of a chain is tried again at once, without end |
| `EnterTrade.jsx:674` | a change of symbol first loads the new symbol with the old expiry, a chain that does not exist |
| `EnterTrade.jsx:696` | a leg clicked while another selection loads is named after the selection and holds the token of the chain on screen |
| `EnterTrade.jsx:127-160` | a resolve that fails leaves the changed expiry or strike with the old token; the basket may be placed all the same |
| `EnterTrade.jsx:795` | ticks reach only legs of the chain on screen; `Basket.jsx:291-293` says that every leg ticks |
| `Basket.jsx:46-58`, `angel/orders.js:258-321`, `brokers/zerodha.js:703` | after a partial failure CONFIRM is enabled again and re-sends the accepted legs too |
| `useOrderAccount.js:64-81` | a login that lands after the account has changed puts its session into the other account's client |
| `feedMasterStore.js:77` | the saved session of a row that has none is made of the API key |
| `feedMasterStore.js:113-116`, `Feedmaster.jsx:127-131` | the popup's message is not tied to the login that opened it, and the page attaches whoever signed in |
| `BrokerConfigDialog.jsx:80` | a late list of the previous user replaces that of the new one |
| `useMiniChainFeed.js:57`, `OptionChain.jsx` | the close event of a replaced socket clears the reference to its successor |
| `OptionChain.jsx:471-474` | the chain on screen is asked of Angel under the exchange of the symbol picked last: with a symbol of another exchange picked but not loaded, a start or stop of an adapter subscribes its tokens where they are others' or nobody's, and it has no Angel ticks. `StreamFollows` excuses a segment picked since |
| `OptionChain.jsx:619-639`, `:1031` | a filter that nothing passes unmounts the panes; cleared, they are back at the top with the range of the place they had, and without scroll listeners until the next chain: the rows in view may be blank, and strikes stay behind their calls and puts |
| `OptionChain.jsx:641-663` | greeks that come for a scrolled chain (`hydrateChain`, :369) take the strikes and the range to the top and leave calls and puts where they are |
| `OptionChain.jsx:479` | a chain answer that comes after unmounting opens a socket that nobody closes |
| `main.jsx:149`, `:211` | a run of logins patches rows by number: after a row is deleted, the session lands in the row that has moved up |
| `main.jsx:248` | a secret set up during a run saves the rows the run began with and undoes later edits in the shared table |
| `main.jsx:315` | saving before the first load, or after one that failed, replaces the shared table by the seed rows |
| `main.jsx:3333` | a failed read of the browser's store is taken for an empty one |
| `main.jsx:1179-1182` | a late answer of another row or account shows its book, and its session goes to the row number it was asked for |
| `useMiniChainFeed.js` | the window subscribes again and forgets its ticks at every status poll |

## 8. Abstractions and limits

* **Bundles** check components one at a time (section 3).
* **FeedHub** takes an adapter to accept every instrument. Kotak's limit of 200 is in
  BrokerLink, where it is checked that what was accepted is streamed; an instrument refused
  by Kotak is counted by the hub although it is not subscribed.
* **EngineTopics** has no clock: a lease is a set, its lapse an action.
* **BrokerLink** leaves out pings, the binary wire formats and the cached last ticks. Each
  instrument has a key of its own in the checked instance.
* **GoFeed**: a frame is written in one go, and Angel acts on the frames of a socket in the
  order they are written in. Its run has one token; `SocketsFollowTheUnion` is about any number.
* **GoOrderFeed** has one account and bounds the sockets alive at once; names of sockets
  that are gone are used again.
* **AngelBasket**: `BasketIsTrue` takes it that Angel answers a dead token with an error, as
  the code's second login does, and that no answer is lost; the limit of 50 legs is a
  constant, and a row per leg is asked for only below it.
* **UpstoxLogin**: one user; each login has an OAuth state of its own, an assumption of the
  module (the pages make it of the account and the millisecond of the click).
* **TotpLogin**: the clocks of the broker and of the machine agree, and a code is valid in
  its window only.
* **NubraSetup**: one account.
* **ZerodhaDesk**: one popup window; a flow knows the row's name as it was when it began; the
  keys of the environment are absent.
* **ZerodhaOrders**: one account; viewers are compared with the book as far as the hash tells
  books apart.
* **SharedFlights**: one key (keys do not interact), time in ticks of a window. The `force`
  of `getChain` has no caller and is left out.
* **CandleHistory**: whole seconds, and the assumption `Late + MaxWait <= Settle`: upstream
  shows a candle within 40 s, since a page settles after 60 s and an attempt is given up
  after 20 s. Each chart asks once.
* **AccountPanel**: a book is a version number. A filled order is pushed, a change that is not
  a fill is not, as Kotak's stream has it for positions.
* **PositionsTable, OrderTables**: the columns that no operation tells apart are left out;
  times and sums are small numbers.
* **ChainPanel, LiveChain**: prices are named after the chain they belong to. **BasketLegs**:
  a token is named after its contract, and a leg is changed as long as it is in the basket,
  one that is being resolved included: only the button of its menu is disabled.
* **ChainTable**: a place is a number of rows. The scroll events that a browser sends back for
  positions the page has set itself are left out: they repeat what the page has just done.
* **ClientTable**: demo mode is left out, a row is its account, whether it is enabled and whether
  it is logged in; ticked rows are logged in in the order of the table. **LegacyBooks**: a book
  is a version number; the session of an answer is of the account that was asked for.
* `src/src/Basket.jsx` is the same file as `src/src/admin/tradepanel/Basket.jsx`, which is the
  one that is modelled.

## 9. What is not modelled, and the plan

`PROJECT.json` ("components") gives the reason for each part that is left out. Not modelled:
the HTTP server and the login scripts (pure I/O); the rolling straddle (a computation over
fetched candles, without state); charts, layout and theme (drawing). Left out of components that are modelled
in part: the rate limiter, which the code overshoots; the routes that create and edit
users; the positions, option chain and basket of the older page, ancestors of the modelled
panels; the download of instrument masters; Kotak's orders and
the socket of its portfolio stream; the Go ports of logins, market data and account store,
which repeat the Node ones; the downloads of the Node market-data routes.

### What is left to prove

Of what the runs check nothing but liveness. Worth stating besides:

* the liveness properties under fairness, once ENABLED can be expanded; with the safety halves
  proved, each is a chain of a few leads-to steps (a timer that fires, a request that ends);
* the types of the newer modules (`LiveTyped`, `LegsTyped`, `TicketTyped`, `PanelTypes`, ...),
  which are parts of the inductive invariants of section 6, not theorems of their own.
