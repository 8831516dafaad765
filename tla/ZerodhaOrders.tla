----------------------------- MODULE ZerodhaOrders -----------------------------
(***************************************************************************)
(* The Zerodha order stream (routes/zerodha.js) of one account: viewers    *)
(* that share a poller, the request it makes every three seconds, the      *)
(* refresh a placed basket asks for, and the end of polling when the last  *)
(* viewer leaves.  A poller whose viewers have gone may have a request     *)
(* under way while a new viewer has a new poller made.                     *)
(***************************************************************************)
EXTENDS Integers

CONSTANTS
  Streams,     \* event-stream clients
  Pollers,     \* bound: the pollers alive at once
  Books,       \* the account's order books
  NoOrders,    \* the empty one
  HashOf,      \* book -> what orderHash leaves of it
  MaxChanges,  \* bound: how often the orders change
  MaxPollFails     \* bound: the requests that fail

None == "none"

ASSUME OrdersAssumption ==
  /\ NoOrders \in Books
  /\ DOMAIN HashOf = Books
  /\ \A b \in Books : HashOf[b] = HashOf[NoOrders] => b = NoOrders
  /\ None \notin Pollers \cup Books \cup {HashOf[b] : b \in Books}
  /\ MaxChanges \in Nat /\ MaxPollFails \in Nat

VARIABLES
  book,        \* the account's orders at the broker
  registered,  \* the account's entry in orderPollers, or None
  clients,     \* poller -> its viewers
  running,     \* poller -> is a poll under way?
  forced,      \* poller -> was that poll forced?
  answer,      \* poller -> the orders the broker has answered it, or None
  timer,       \* poller -> is its timer set?
  lastHash,    \* poller -> the hash of the last orders, None before the first
  lastOrders,  \* poller -> the last orders
  sent,       \* viewer -> the orders its stream has sent it
  changes,     \* how often the orders have changed
  pollFailures     \* how many requests have failed

pollVars == <<running, forced, answer>>
lastVars == <<lastHash, lastOrders>>
bookVars == <<book, changes>>
ordersVars == <<bookVars, registered, clients, pollVars, timer, lastVars, sent, pollFailures>>

OrdersTypeOK ==
  /\ book \in Books
  /\ registered \in Pollers \cup {None}
  /\ clients \in [Pollers -> SUBSET Streams]
  /\ running \in [Pollers -> BOOLEAN] /\ forced \in [Pollers -> BOOLEAN]
  /\ answer \in [Pollers -> Books \cup {None}]
  /\ timer \in [Pollers -> BOOLEAN]
  /\ lastHash \in [Pollers -> {HashOf[b] : b \in Books} \cup {None}]
  /\ lastOrders \in [Pollers -> Books]
  /\ sent \in [Streams -> Books]
  /\ changes \in 0 .. MaxChanges /\ pollFailures \in 0 .. MaxPollFails

OrdersInit ==
  /\ book \in Books /\ changes = 0 /\ pollFailures = 0
  /\ registered = None
  /\ clients = [p \in Pollers |-> {}]
  /\ running = [p \in Pollers |-> FALSE] /\ forced = [p \in Pollers |-> FALSE]
  /\ answer = [p \in Pollers |-> None]
  /\ timer = [p \in Pollers |-> FALSE]
  /\ lastHash = [p \in Pollers |-> None] /\ lastOrders = [p \in Pollers |-> NoOrders]
  /\ sent = [v \in Streams |-> NoOrders]

Watching == {v \in Streams : \E p \in Pollers : v \in clients[p]}

\* A poller nothing refers to any more; its name is used for the next one made.
Spare(p) == p # registered /\ clients[p] = {} /\ ~running[p]

-----------------------------------------------------------------------------
\* poll: nothing happens while one is under way.
Poll(p, force) ==
  IF running[p]
    THEN UNCHANGED pollVars
    ELSE /\ running' = [running EXCEPT ![p] = TRUE]
         /\ forced' = [forced EXCEPT ![p] = force]
         /\ UNCHANGED answer

\* schedule, once p's viewers are left: without any the account's entry goes,
\* whichever poller it names by then.
Schedule(p, left) ==
  /\ timer' = [timer EXCEPT ![p] = left # {}]
  /\ registered' = IF left = {} THEN None ELSE registered

CachedNothing(p) == NoOrders         \* fault: the last orders are not sent

\* What a new viewer of p is sent at once.
Cached(p) == lastOrders[p]

\* A stream is opened: the account's poller, or a new one, takes the viewer on.
Open(v, p) ==
  /\ v \notin Watching
  /\ IF registered # None THEN p = registered ELSE Spare(p)
  /\ registered' = p
  /\ clients' = [clients EXCEPT ![p] = @ \cup {v}]
  /\ IF registered = None
       THEN /\ sent' = [sent EXCEPT ![v] = NoOrders]
            /\ lastHash' = [lastHash EXCEPT ![p] = None]
            /\ lastOrders' = [lastOrders EXCEPT ![p] = NoOrders]
            /\ Poll(p, TRUE)
       ELSE /\ sent' = [sent EXCEPT ![v] = Cached(p)]
            /\ UNCHANGED lastVars
            /\ Poll(p, lastHash[p] = None)
  /\ UNCHANGED <<bookVars, timer, pollFailures>>

Leave(v, p) ==
  /\ v \in clients[p]
  /\ clients' = [clients EXCEPT ![p] = @ \ {v}]
  /\ IF clients'[p] = {} THEN Schedule(p, {}) ELSE UNCHANGED <<timer, registered>>
  /\ UNCHANGED <<bookVars, pollVars, lastVars, sent, pollFailures>>

Fires(p) ==
  /\ timer[p]
  /\ timer' = [timer EXCEPT ![p] = FALSE]
  /\ Poll(p, FALSE)
  /\ UNCHANGED <<bookVars, registered, clients, lastVars, sent, pollFailures>>

\* A placed basket has the registered poller poll at once.
Refresh ==
  /\ registered # None
  /\ Poll(registered, TRUE)
  /\ UNCHANGED <<bookVars, registered, clients, timer, lastVars, sent, pollFailures>>

\* The broker reads its book for the answer.
Reads(p) ==
  /\ running[p] /\ answer[p] = None
  /\ answer' = [answer EXCEPT ![p] = book]
  /\ UNCHANGED <<bookVars, registered, clients, running, forced, timer,
                 lastVars, sent, pollFailures>>

Ends(p) ==
  /\ running' = [running EXCEPT ![p] = FALSE]
  /\ forced' = [forced EXCEPT ![p] = FALSE]
  /\ answer' = [answer EXCEPT ![p] = None]

\* Does the answer differ from what viewers were sent last?
Changed(p) == forced[p] \/ HashOf[answer[p]] # lastHash[p]

Kept(p) == answer[p]

\* The answer arrives and, if it has changed, goes to every viewer.
PollAnswered(p) ==
  /\ running[p] /\ answer[p] # None
  /\ lastHash' = [lastHash EXCEPT ![p] = HashOf[answer[p]]]
  /\ lastOrders' = [lastOrders EXCEPT ![p] = Kept(p)]
  /\ sent' = [v \in Streams |->
       IF Changed(p) /\ v \in clients[p] THEN answer[p] ELSE sent[v]]
  /\ Ends(p)
  /\ Schedule(p, clients[p])
  /\ UNCHANGED <<bookVars, clients, pollFailures>>

\* The request fails, or the session is gone: reported, and polled again later.
Fails(p) ==
  /\ running[p] /\ pollFailures < MaxPollFails
  /\ pollFailures' = pollFailures + 1
  /\ Ends(p)
  /\ Schedule(p, clients[p])
  /\ UNCHANGED <<bookVars, clients, lastVars, sent>>

\* Orders are placed, filled or changed; a day's orders do not disappear.
BookChanges ==
  /\ changes < MaxChanges
  /\ changes' = changes + 1
  /\ book' \in Books \ {book, NoOrders}
  /\ UNCHANGED <<registered, clients, pollVars, timer, lastVars, sent, pollFailures>>

OrdersNext ==
  \/ \E v \in Streams, p \in Pollers : Open(v, p) \/ Leave(v, p)
  \/ \E p \in Pollers : Fires(p) \/ Reads(p) \/ PollAnswered(p) \/ Fails(p)
  \/ Refresh
  \/ BookChanges

\* Timers fire, and a request ends within its 20 s, answered or not.
PollEnds(p) == PollAnswered(p) \/ Fails(p)
OrdersFairness ==
  \A p \in Pollers :
    /\ WF_ordersVars(Fires(p))
    /\ WF_ordersVars(Reads(p))
    /\ WF_ordersVars(PollEnds(p))

OrdersSpec == OrdersInit /\ [][OrdersNext]_ordersVars /\ OrdersFairness

-----------------------------------------------------------------------------
\* A viewer is sent the account's orders, as far as their hash tells them apart,
\* although it joins a poll under way or a poller that reports changes only, and
\* a refresh asked for during a poll is lost.
ViewersCatchUp ==
  \A v \in Streams :
    v \in Watching ~> (v \notin Watching \/ HashOf[sent[v]] = HashOf[book])
=============================================================================
