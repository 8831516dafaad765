------------------------------- MODULE FeedHub -------------------------------
(***************************************************************************)
(* The market-data hub of the Node backend: the feed registry              *)
(* (lib/feedRegistry.js), the feed manager (ws/feedManager.js), the        *)
(* subscription bookkeeping every broker adapter inherits                  *)
(* (ws/baseAdapter.js) and the /ws/feed endpoint that browsers subscribe   *)
(* through (ws/wsServer.js), with the REST routes that drive the same      *)
(* manager (routes/wsfeed.js).                                             *)
(*                                                                         *)
(* Every handler below runs to completion inside one turn of the event     *)
(* loop, so each is one action.  What interleaves is the handlers of       *)
(* different sockets, of the REST callers and of the broker logins.        *)
(*                                                                         *)
(* An instrument stands for one "EXCH|token" string; a broker and an       *)
(* instrument together are the "broker|EXCH|token" key of refCounts and of *)
(* a client's keys.                                                        *)
(***************************************************************************)
EXTENDS Integers, FiniteSets

CONSTANTS
  Brokers,         \* broker names with an adapter
  SessionBrokers,  \* those whose adapter needs a session held in memory (Upstox)
  Insts,           \* instruments
  Clients,         \* /ws/feed sockets
  Modes,           \* the modes clients ask for (1 LTP, 2 quote, 3 depth)
  Resubscribe,     \* may a client name an instrument it already holds?
  MaxRepeat,       \* bound: how often one message names one instrument
  MaxCount         \* bound: the largest reference count explored

ASSUME HubAssumption ==
  /\ SessionBrokers \subseteq Brokers
  /\ IsFiniteSet(Clients)
  /\ Modes \subseteq 1..3
  /\ Resubscribe \in BOOLEAN
  /\ MaxRepeat \in Nat \ {0}
  /\ MaxCount \in Nat

VARIABLES
  feed,       \* brokers with an account in the feed registry
  session,    \* brokers of SessionBrokers whose feed account has a session
  adapter,    \* broker -> "none" (not in adapters), "running" or "stopped"
  subs,       \* broker -> instrument -> the mode in adapter.subs, 0 if absent
  refCounts,  \* broker -> instrument -> the reference count, 0 if absent
  clients,    \* the connected clients
  keys,       \* client -> the pairs in client.keys
  asked,      \* history: client -> pair -> highest mode asked since it holds the pair
  severed     \* history: pairs whose upstream subscription a stop took away
              \* while somebody was still counted

hubVars == <<feed, session, adapter, subs, refCounts, clients, keys, asked, severed>>

Pairs == Brokers \X Insts

\* The instruments array of a message: how often it names each instrument.
\* The order does not matter to anything below.
Requests == [Insts -> 0..MaxRepeat] \ {[i \in Insts |-> 0]}
Nothing == [i \in Insts |-> 0]
Once(S) == [i \in Insts |-> IF i \in S THEN 1 ELSE 0]
Named(req) == {i \in Insts : req[i] > 0}

Higher(m, n) == IF m > n THEN m ELSE n

TypeOK ==
  /\ feed \subseteq Brokers
  /\ session \subseteq SessionBrokers
  /\ adapter \in [Brokers -> {"none", "running", "stopped"}]
  /\ subs \in [Brokers -> [Insts -> 0..3]]
  /\ refCounts \in [Brokers -> [Insts -> Nat]]
  /\ clients \subseteq Clients
  /\ keys \in [Clients -> SUBSET Pairs]
  /\ asked \in [Clients -> [Pairs -> 0..3]]
  /\ severed \subseteq Pairs

HubInit ==
  /\ feed = {}
  /\ session = {}
  /\ adapter = [b \in Brokers |-> "none"]
  /\ subs = [b \in Brokers |-> Nothing]
  /\ refCounts = [b \in Brokers |-> Nothing]
  /\ clients = {}
  /\ keys = [c \in Clients |-> {}]
  /\ asked = [c \in Clients |-> [p \in Pairs |-> 0]]
  /\ severed = {}

-----------------------------------------------------------------------------
(* Reference counting: clientSubscribe and clientUnsubscribe. *)

TrackSubsLatest(known, S, mode) ==   \* fault: the last subscriber's mode wins
  [i \in Insts |-> IF i \in S THEN mode ELSE known[i]]

TrackSubsFlags(known, S, mode) ==    \* fault: modes are added up like flags
  [i \in Insts |-> IF i \in S THEN known[i] + mode ELSE known[i]]

\* trackSubs: a new key is recorded with the mode asked, a known one only upgraded.
TrackSubs(known, S, mode) ==
  [i \in Insts |-> IF i \in S THEN Higher(known[i], mode) ELSE known[i]]

DropSubs(known, S) == [i \in Insts |-> IF i \in S THEN 0 ELSE known[i]]

\* Throws before it counts anything when the broker has no adapter.
ClientSubscribe(b, req, mode) ==
  /\ adapter[b] # "none"
  /\ refCounts' = [refCounts EXCEPT ![b] = [i \in Insts |-> @[i] + req[i]]]
  /\ subs' = [subs EXCEPT ![b] = TrackSubs(@, Named(req), mode)]
  /\ UNCHANGED <<adapter, severed>>

ReleasedLate(rel, b) ==              \* fault: < for <=
  {i \in Named(rel[b]) : refCounts[b][i] < rel[b][i]}

ReleasedEarly(rel, b) ==             \* fault: releases with one holder left
  {i \in Named(rel[b]) : refCounts[b][i] <= rel[b][i] + 1}

\* rel says, per broker, how often each instrument is let go of.
Released(rel, b) == {i \in Named(rel[b]) : refCounts[b][i] <= rel[b][i]}

ClientUnsubscribe(rel) ==
  /\ refCounts' = [b \in Brokers |-> [i \in Insts |->
       IF i \in Released(rel, b) THEN 0 ELSE refCounts[b][i] - rel[b][i]]]
  /\ subs' = [b \in Brokers |->
       IF adapter[b] = "none" THEN subs[b] ELSE DropSubs(subs[b], Released(rel, b))]
  /\ severed' = {p \in severed : p[2] \notin Released(rel, p[1])}
  /\ UNCHANGED adapter

From(b, req) == [x \in Brokers |-> IF x = b THEN req ELSE Nothing]

-----------------------------------------------------------------------------
(* Adapter lifecycle: startBroker, stopBroker, startAll. *)

Creatable(b) == b \notin SessionBrokers \/ b \in session

CountedOf(B) == {p \in Pairs : p[1] \in B /\ refCounts[p[1]][p[2]] > 0}

CarriedNothing(b) == Nothing         \* fault: oldSubs read after old.stop()

\* oldSubs, read before the old adapter is stopped.
Carried(b) == subs[b]

\* startBroker for every broker of B.  The old adapter is stopped, which clears
\* its subs, before the new one is created; when creating it throws, the stopped
\* adapter is what the map keeps.  A new adapter gets back what the old one had.
StartBrokers(B) ==
  LET failed == {b \in B : ~Creatable(b)} IN
  /\ adapter' = [b \in Brokers |->
       CASE b \notin B -> adapter[b]
         [] b \in B \ failed -> "running"
         [] b \in failed -> IF adapter[b] = "none" THEN "none" ELSE "stopped"]
  /\ subs' = [b \in Brokers |->
       CASE b \notin B -> subs[b]
         [] b \in B \ failed -> Carried(b)
         [] b \in failed -> Nothing]
  /\ severed' = severed \cup CountedOf(failed)
  /\ UNCHANGED <<refCounts, clients, keys, asked>>

\* A login route registers the account; the registry's change hook starts the
\* adapter and swallows its error.
SetFeedAccount(b) ==
  /\ feed' = feed \cup {b}
  /\ StartBrokers({b})
  /\ UNCHANGED session

RestStart(b) ==
  /\ b \in feed
  /\ StartBrokers({b})
  /\ UNCHANGED <<feed, session>>

RestStartAll ==
  /\ StartBrokers(feed)
  /\ UNCHANGED <<feed, session>>

RestStop(b) ==
  /\ adapter[b] # "none"
  /\ adapter' = [adapter EXCEPT ![b] = "none"]
  /\ subs' = [subs EXCEPT ![b] = Nothing]
  /\ severed' = severed \cup CountedOf({b})
  /\ UNCHANGED <<feed, session, refCounts, clients, keys, asked>>

\* The Upstox login keeps one session per user: stored by a code exchange or a
\* restore, deleted when probing it fails at the start of the next login.
StoreSession(b) ==
  /\ b \in SessionBrokers \ session
  /\ session' = session \cup {b}
  /\ UNCHANGED <<feed, adapter, subs, refCounts, clients, keys, asked, severed>>

DeleteSession(b) ==
  /\ b \in session
  /\ session' = session \ {b}
  /\ UNCHANGED <<feed, adapter, subs, refCounts, clients, keys, asked, severed>>

-----------------------------------------------------------------------------
(* The /ws/feed endpoint. *)

Connect(c) ==
  /\ c \notin clients
  /\ clients' = clients \cup {c}
  /\ keys' = [keys EXCEPT ![c] = {}]
  /\ UNCHANGED <<feed, session, adapter, subs, refCounts, asked, severed>>

WsSubscribe(c, b, req, mode) ==
  LET pairs == {b} \X Named(req) IN
  /\ c \in clients
  /\ Resubscribe \/ pairs \cap keys[c] = {}
  /\ ClientSubscribe(b, req, mode)
  /\ \A i \in Insts : refCounts'[b][i] <= MaxCount
  /\ keys' = [keys EXCEPT ![c] = @ \cup pairs]
  /\ asked' = [asked EXCEPT ![c] =
       [p \in Pairs |-> IF p \in pairs THEN Higher(@[p], mode) ELSE @[p]]]
  /\ UNCHANGED <<feed, session, clients>>

DroppedUnchecked(c, b, S) == {b} \X S   \* fault: client.keys is not consulted

\* Only pairs the client holds are let go of, each once.
Dropped(c, b, S) == ({b} \X S) \cap keys[c]

WsUnsubscribe(c, b, S) ==
  LET drop == Dropped(c, b, S) IN
  /\ c \in clients
  /\ drop # {}
  /\ ClientUnsubscribe(From(b, Once({p[2] : p \in drop})))
  /\ keys' = [keys EXCEPT ![c] = @ \ drop]
  /\ asked' = [asked EXCEPT ![c] = [p \in Pairs |-> IF p \in drop THEN 0 ELSE @[p]]]
  /\ UNCHANGED <<feed, session, clients>>

HeldBy(c, b) == {i \in Insts : <<b, i>> \in keys[c]}

\* The close handler lets go of everything; the client object, and its keys
\* with it, is never looked at again.
WsClose(c) ==
  /\ c \in clients
  /\ clients' = clients \ {c}
  /\ ClientUnsubscribe([b \in Brokers |-> Once(HeldBy(c, b))])
  /\ keys' = [keys EXCEPT ![c] = {}]
  /\ asked' = [asked EXCEPT ![c] = [p \in Pairs |-> 0]]
  /\ UNCHANGED <<feed, session>>

(* The REST doors to the same counts: no client stands behind them. *)

RestSubscribe(b, req, mode) ==
  /\ ClientSubscribe(b, req, mode)
  /\ \A i \in Insts : refCounts'[b][i] <= MaxCount
  /\ UNCHANGED <<feed, session, clients, keys, asked>>

RestUnsubscribe(b, req) ==
  /\ ClientUnsubscribe(From(b, req))
  /\ UNCHANGED <<feed, session, clients, keys, asked>>

-----------------------------------------------------------------------------
ClientStep ==
  \/ \E c \in Clients : Connect(c) \/ WsClose(c)
  \/ \E c \in Clients, b \in Brokers, req \in Requests, mode \in Modes :
       WsSubscribe(c, b, req, mode)
  \/ \E c \in Clients, b \in Brokers, S \in SUBSET Insts : WsUnsubscribe(c, b, S)

LoginStep ==
  \/ \E b \in Brokers : SetFeedAccount(b) \/ RestStart(b)
  \/ RestStartAll
  \/ \E b \in SessionBrokers : StoreSession(b) \/ DeleteSession(b)

RestCountStep ==
  \E b \in Brokers, req \in Requests :
    \/ \E mode \in Modes : RestSubscribe(b, req, mode)
    \/ RestUnsubscribe(b, req)

HubNext == ClientStep \/ LoginStep \/ \E b \in Brokers : RestStop(b)

\* The browsers, the logins and the start/stop routes.
HubSpec == HubInit /\ [][HubNext]_hubVars

\* The same with the REST subscribe and unsubscribe routes in use.
RestSpec == HubInit /\ [][HubNext \/ RestCountStep]_hubVars

-----------------------------------------------------------------------------
Holders(b, i) == {c \in Clients : <<b, i>> \in keys[c]}

\* Every upstream subscription is counted: no interleaving of subscribes,
\* closes, logins and stops (feedManager's subscribe, release and carry-over)
\* leaves an adapter subscribed to an instrument whose count has gone.
SubscribedIsCounted ==
  \A b \in Brokers, i \in Insts : subs[b][i] > 0 => refCounts[b][i] > 0

\* The count of an instrument is never below the number of clients holding it,
\* so a release by one client cannot starve another (clientUnsubscribe releases
\* upstream when the count reaches zero).
HeldIsCounted ==
  \A b \in Brokers, i \in Insts : Cardinality(Holders(b, i)) <= refCounts[b][i]

\* A counted instrument is subscribed on the broker's adapter, unless a stop or a
\* failed login has taken the subscription away since it was first counted.
CountedIsSubscribed ==
  \A b \in Brokers, i \in Insts :
    refCounts[b][i] > 0 /\ <<b, i>> \notin severed
      => adapter[b] # "none" /\ subs[b][i] > 0

\* The upstream mode covers the highest mode any present holder has asked for,
\* through later lower-mode subscribers, unsubscribes and carried re-logins
\* (trackSubs upgrades and never downgrades).
ModeCoversHolders ==
  \A c \in Clients : \A p \in keys[c] :
    p \notin severed => subs[p[1]][p[2]] >= asked[c][p]

\* "The upstream broker subscription is released only when the LAST client lets
\* go" (feedManager.js): a pair a client keeps holding does not lose its upstream
\* subscription while the broker's adapter stays up.
HeldStaysSubscribed ==
  [][\A c \in Clients : \A p \in keys[c] \cap keys'[c] :
       subs[p[1]][p[2]] > 0 /\ adapter'[p[1]] = "running"
         => subs'[p[1]][p[2]] > 0]_hubVars
=============================================================================
