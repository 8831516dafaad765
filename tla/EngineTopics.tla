---------------------------- MODULE EngineTopics -----------------------------
(***************************************************************************)
(* The OI-decay engine (engine/oiDecayEngine.js) on top of the feed hub,   *)
(* with the two doors to it: engine_subscribe and engine_unsubscribe on    *)
(* /ws/feed (ws/wsServer.js) and the polled snapshot of                    *)
(* routes/oiPremiumDecay.js.                                               *)
(*                                                                         *)
(* Building a topic awaits an option chain.  Everybody who asks for the    *)
(* topic meanwhile waits for that one construction; when it settles, all   *)
(* of them are resumed in the same turn of the event loop, so BuildOk and  *)
(* BuildFail resume them together.  Time is left out: a poll starts a      *)
(* lease, LapseLease is the passing of LEASE_MS without another poll.      *)
(***************************************************************************)
EXTENDS FeedHub

CONSTANTS
  Feed,        \* the broker whose feed the engine uses (BROKER, "upstox")
  Topics,      \* topic ids
  TopicInsts,  \* topic -> the instruments of its contracts and its underlying
  Impatient,   \* may a client send engine_unsubscribe before engine_subscribed?
  MaxCalls     \* bound: unfinished engine_subscribe calls per client and topic

ASSUME EngineAssumption ==
  /\ Feed \in SessionBrokers
  /\ IsFiniteSet(Topics)
  /\ TopicInsts \in [Topics -> SUBSET Insts]
  /\ Impatient \in BOOLEAN
  /\ MaxCalls \in Nat \ {0}
  /\ 2 \in Modes

VARIABLES
  live,      \* topics in the topics map
  building,  \* topics in the creating map
  refCount,  \* topic -> topic.refCount
  leased,    \* topics with leaseUntil in the future
  waiting,   \* topic -> handleEngineSubscribe calls awaiting it, as <<client, n>>
  polled,    \* topics a poll is waiting for
  slot,      \* client -> topic -> client.engine: "free", "reserved" or "held"
  timer      \* is the compute timer set?

engineVars == <<live, building, refCount, leased, waiting, polled, slot, timer>>
allVars == <<hubVars, engineVars>>

EngineTypeOK ==
  /\ TypeOK
  /\ live \subseteq Topics
  /\ building \subseteq Topics
  /\ refCount \in [Topics -> Nat]
  /\ leased \subseteq Topics
  /\ waiting \in [Topics -> SUBSET (Clients \X (1..MaxCalls))]
  /\ polled \subseteq Topics
  /\ slot \in [Clients -> [Topics -> {"free", "reserved", "held"}]]
  /\ timer \in BOOLEAN

EngineInit ==
  /\ HubInit
  /\ live = {}
  /\ building = {}
  /\ refCount = [t \in Topics |-> 0]
  /\ leased = {}
  /\ waiting = [t \in Topics |-> {}]
  /\ polled = {}
  /\ slot = [c \in Clients |-> [t \in Topics |-> "free"]]
  /\ timer = FALSE

SessionUp == Feed \in feed /\ Feed \in session

-----------------------------------------------------------------------------
(* Letting go: handle.unsubscribe, destroyTopic, stopIfIdle, the reaper. *)

TopicLetGoTwice(D) ==                \* fault: destroying is not idempotent
  [b \in Brokers |->
    [i \in Insts |-> IF b = Feed THEN 2 * Cardinality({t \in D : i \in TopicInsts[t]}) ELSE 0]]

\* How often destroying the topics of D lets go of each instrument.
TopicLetGo(D) ==
  [b \in Brokers |->
    [i \in Insts |-> IF b = Feed THEN Cardinality({t \in D : i \in TopicInsts[t]}) ELSE 0]]

Plus(r1, r2) == [b \in Brokers |-> [i \in Insts |-> r1[b][i] + r2[b][i]]]

NoneLetGo == [b \in Brokers |-> Nothing]

\* stopIfIdle, called by every destroyTopic.
StopIfIdle(D) == IF D # {} /\ live \ D = {} THEN FALSE ELSE timer

\* destroyTopic for every topic of D, in a handler that also lets go of rel.
Destroy(D, rel) ==
  /\ live' = live \ D
  /\ ClientUnsubscribe(Plus(rel, TopicLetGo(D)))
  /\ timer' = StopIfIdle(D)

DyingEarly(R) == {t \in R : refCount[t] - 1 <= 1 /\ t \notin leased}   \* fault: <= 1

DyingUnleased(R) == {t \in R : refCount[t] - 1 <= 0}   \* fault: leases are ignored

\* Of the topics of R, each losing one handle, those that are then destroyed.
Dying(R) == {t \in R : refCount[t] - 1 <= 0 /\ t \notin leased}

ReleaseHandles(R, rel) ==
  /\ refCount' = [t \in Topics |-> IF t \in R THEN refCount[t] - 1 ELSE refCount[t]]
  /\ Destroy(Dying(R), rel)

-----------------------------------------------------------------------------
(* engine_subscribe and engine_unsubscribe. *)

\* ensureTopic: an existing topic is used, a construction under way is joined,
\* otherwise one is begun.
Ensure(t) == IF t \in live THEN building ELSE building \cup {t}

CallsOf(c, t) == {w \in waiting[t] : w[1] = c}

\* A client that has a slot for the topic is told so and nothing else happens;
\* without an Upstox session the slot is reserved and given up in one turn.
\* An existing topic is joined at once, otherwise the call waits for it to be
\* built, by this call if it is the first.
EngineSubscribe(c, t) ==
  /\ c \in clients
  /\ slot[c][t] = "free"
  /\ SessionUp
  /\ \/ /\ t \in live
        /\ refCount' = [refCount EXCEPT ![t] = @ + 1]
        /\ slot' = [slot EXCEPT ![c][t] = "held"]
        /\ UNCHANGED waiting
     \/ /\ t \notin live
        /\ Cardinality(CallsOf(c, t)) < MaxCalls
        /\ slot' = [slot EXCEPT ![c][t] = "reserved"]
        /\ waiting' = [waiting EXCEPT ![t] = @ \cup {<<c, Cardinality(CallsOf(c, t)) + 1>>}]
        /\ UNCHANGED refCount
  /\ building' = Ensure(t)
  /\ UNCHANGED <<hubVars, live, leased, polled, timer>>

\* Whatever the slot holds is released: a handle, or the reservation's no-op.
EngineUnsubscribe(c, t) ==
  /\ c \in clients
  /\ slot[c][t] = "held" \/ (Impatient /\ slot[c][t] = "reserved")
  /\ slot' = [slot EXCEPT ![c][t] = "free"]
  /\ IF slot[c][t] = "held"
       THEN ReleaseHandles({t}, NoneLetGo)
       ELSE UNCHANGED <<live, refCount, timer, adapter, subs, refCounts, severed>>
  /\ UNCHANGED <<feed, session, clients, keys, asked, building, leased, waiting,
                 polled>>

\* The snapshot route: creates the topic or extends its lease.
Poll(t) ==
  /\ SessionUp
  /\ IF t \in live
       THEN leased' = leased \cup {t} /\ UNCHANGED polled
       ELSE polled' = polled \cup {t} /\ UNCHANGED leased
  /\ building' = Ensure(t)
  /\ UNCHANGED <<hubVars, live, refCount, waiting, slot, timer>>

LapseLease(t) ==
  /\ t \in leased
  /\ leased' = leased \ {t}
  /\ UNCHANGED <<hubVars, live, building, refCount, waiting, polled, slot, timer>>

\* Calls whose client is gone give their handle back at once.
ServedAll(t) == waiting[t]                          \* fault: clients.has not asked

Served(t) == {w \in waiting[t] : w[1] \in clients}

\* createTopic succeeds: it subscribes the instruments in quote mode, enters the
\* topic and starts the timer, and every waiting call and poll is resumed.
BuildOk(t) ==
  /\ t \in building
  /\ Served(t) # {} \/ t \in polled
  /\ ClientSubscribe(Feed, Once(TopicInsts[t]), 2)
  /\ live' = live \cup {t}
  /\ refCount' = [refCount EXCEPT ![t] = Cardinality(Served(t))]
  /\ leased' = IF t \in polled THEN leased \cup {t} ELSE leased
  /\ slot' = [c \in Clients |->
       IF \E w \in Served(t) : w[1] = c THEN [slot[c] EXCEPT ![t] = "held"] ELSE slot[c]]
  /\ timer' = TRUE
  /\ building' = building \ {t}
  /\ waiting' = [waiting EXCEPT ![t] = {}]
  /\ polled' = polled \ {t}
  /\ UNCHANGED <<feed, session, clients, keys, asked>>

\* It succeeds for clients that are all gone: the last handle given back
\* destroys the topic again, which undoes the subscription of the instruments
\* nobody else is counted for.
BuildAbandoned(t) ==
  /\ t \in building
  /\ Served(t) = {} /\ t \notin polled
  /\ adapter[Feed] # "none"
  /\ subs' = [subs EXCEPT ![Feed] =
       DropSubs(TrackSubs(@, TopicInsts[t], 2),
                {i \in TopicInsts[t] : refCounts[Feed][i] = 0})]
  /\ building' = building \ {t}
  /\ waiting' = [waiting EXCEPT ![t] = {}]
  /\ UNCHANGED <<feed, session, adapter, refCounts, clients, keys, asked, severed,
                 live, refCount, leased, polled, slot, timer>>

\* The chain is unavailable, has no contracts, or the feed is down: every waiting
\* call deletes its client's slot and throws.
BuildFail(t) ==
  /\ t \in building
  /\ slot' = [c \in Clients |->
       IF \E w \in waiting[t] : w[1] = c THEN [slot[c] EXCEPT ![t] = "free"] ELSE slot[c]]
  /\ building' = building \ {t}
  /\ waiting' = [waiting EXCEPT ![t] = {}]
  /\ polled' = polled \ {t}
  /\ UNCHANGED <<hubVars, live, refCount, leased, timer>>

\* One turn of the compute timer, as far as it changes which topics exist.
Reapable == {t \in live : refCount[t] <= 0 /\ t \notin leased}

TickAllTopics ==
  /\ timer
  /\ Reapable # {}
  /\ Destroy(Reapable, NoneLetGo)
  /\ UNCHANGED <<feed, session, clients, keys, asked,
                 building, refCount, leased, waiting, polled, slot>>

-----------------------------------------------------------------------------
(* The hub's own steps, where they meet the engine. *)

\* Close gives back the client's keys and then its engine handles.
EngineClose(c) ==
  LET R == {t \in Topics : slot[c][t] = "held"} IN
  /\ c \in clients
  /\ clients' = clients \ {c}
  /\ ReleaseHandles(R, [b \in Brokers |-> Once(HeldBy(c, b))])
  /\ keys' = [keys EXCEPT ![c] = {}]
  /\ asked' = [asked EXCEPT ![c] = [p \in Pairs |-> 0]]
  /\ slot' = [slot EXCEPT ![c] = [t \in Topics |-> "free"]]
  /\ UNCHANGED <<feed, session, building, leased, waiting, polled>>

\* A socket's name is used again only after its unfinished calls are done: the
\* code tells sockets apart by identity.
EngineConnect(c) ==
  /\ \A t \in Topics : CallsOf(c, t) = {}
  /\ Connect(c)
  /\ UNCHANGED engineVars

HubStep ==
  /\ \/ \E c \in Clients, b \in Brokers, req \in Requests, mode \in Modes :
          WsSubscribe(c, b, req, mode)
     \/ \E c \in Clients, b \in Brokers, S \in SUBSET Insts : WsUnsubscribe(c, b, S)
     \/ LoginStep
  /\ UNCHANGED engineVars

FeedStop == \E b \in Brokers : RestStop(b) /\ UNCHANGED engineVars

\* The chain request ends within 15 s, with a chain or without.
Settle(t) == BuildOk(t) \/ BuildAbandoned(t) \/ BuildFail(t)

EngineStep ==
  \/ \E c \in Clients : EngineConnect(c) \/ EngineClose(c)
  \/ \E c \in Clients, t \in Topics : EngineSubscribe(c, t) \/ EngineUnsubscribe(c, t)
  \/ \E t \in Topics : Poll(t) \/ LapseLease(t) \/ Settle(t)
  \/ TickAllTopics

EngineNext == EngineStep \/ HubStep \/ FeedStop

\* The chain request has a 15 s timeout, so a construction settles; the compute
\* timer is an interval.  Nothing forces clients, polls or leases.
EngineFairness ==
  /\ \A t \in Topics : WF_allVars(Settle(t))
  /\ WF_allVars(TickAllTopics)

EngineSpec == EngineInit /\ [][EngineNext]_allVars /\ EngineFairness

-----------------------------------------------------------------------------
HandleHolders(t) == {c \in clients : slot[c][t] = "held"}

\* A client that holds a handle holds it on a topic that exists: no release,
\* lapse or reaping (oiDecayEngine's unsubscribe, tickAllTopics) destroys a topic
\* under a subscriber, in whatever order calls settle and sockets close.
HeldTopicsLive ==
  \A t \in Topics :
    /\ Cardinality(HandleHolders(t)) <= refCount[t]
    /\ HandleHolders(t) # {} => t \in live

\* Browsers and topics share one count per instrument and neither can use up the
\* other's share (clientSubscribe and clientUnsubscribe called by both).
SharesCounted ==
  \A i \in Insts :
    Cardinality(Holders(Feed, i)) + Cardinality({t \in live : i \in TopicInsts[t]})
      <= refCounts[Feed][i]

\* "Reserve the slot before awaiting so two rapid subscribes for the same topic
\* can't both get through and leak one of the leases" (wsServer.js): a topic is
\* held exactly as often as clients have a handle for it.
NoLeakedLease ==
  \A t \in live : refCount[t] = Cardinality(HandleHolders(t))

\* The engine is a set of leased topics.
Lease == INSTANCE LeasedTopics WITH
  Subscribers <- Clients,
  holders <- [t \in Topics |-> HandleHolders(t)]

\* With clients that wait for the answer, the engine implements LeasedTopics: the
\* counts, the construction and the timer are invisible.
ImplementsLeases == Lease!LeaseSpec
=============================================================================
