------------------------------ MODULE BrokerLink ------------------------------
(***************************************************************************)
(* The upstream connection of one broker: the lifecycle every adapter      *)
(* inherits from ws/baseAdapter.js, with the connection steps of the four  *)
(* adapters in ws/adapters/, and its replacement by startBroker when the   *)
(* broker is logged in again (ws/feedManager.js).                          *)
(*                                                                         *)
(* Every login makes a new adapter object; the one it replaces is stopped, *)
(* but what it still has in flight (an authorization request, a message on *)
(* a socket that is closing) completes all the same.  Adapters are         *)
(* numbered in the order they are made.                                    *)
(***************************************************************************)
EXTENDS Integers, FiniteSets

CONSTANTS
  Kinds,        \* the brokers looked at: of "angel", "nubra", "kotak", "upstox"
  Insts,        \* instruments
  Keys,         \* what the broker calls them
  KeyOf,        \* instrument -> key
  MaxScrips,    \* how many instruments Kotak's adapter accepts (200)
  MaxAttempts,  \* reconnects before it gives up (50)
  MaxLogins     \* bound: adapters made

ASSUME LinkAssumption ==
  /\ Kinds \subseteq {"angel", "nubra", "kotak", "upstox"}
  /\ IsFiniteSet(Insts)
  /\ KeyOf \in [Insts -> Keys]
  /\ MaxScrips \in Nat
  /\ MaxAttempts \in Nat
  /\ MaxLogins \in Nat \ {0}

VARIABLES
  kind,     \* the broker; it never changes
  made,     \* how many adapters have been made
  cur,      \* the one in the adapters map, 0 for none
  adapter,  \* adapter number -> its fields
  shown     \* the connection status browsers were last sent

linkVars == <<kind, made, cur, adapter, shown>>

Gens == 1..MaxLogins

\* link is what has become of this.conn and of the attempt to have one:
\* "none", "authorizing" (Upstox asks for an address first), "dialing",
\* "greeting" (Kotak, before the ack), "up", "leaving" (closed by us, waiting
\* for the close event).  late is what a socket closed by stop may still deliver.
Adapter ==
  [running: BOOLEAN, connected: BOOLEAN, timer: BOOLEAN, attempts: 0..(MaxAttempts + 1),
   creds: BOOLEAN, subs: SUBSET Insts, told: SUBSET Keys,
   route: [Keys -> SUBSET Insts],
   link: {"none", "authorizing", "dialing", "greeting", "up", "leaving"},
   late: {"nothing", "ack", "refusal"}]

Fresh ==
  [running |-> FALSE, connected |-> FALSE, timer |-> FALSE, attempts |-> 0,
   creds |-> TRUE, subs |-> {}, told |-> {}, route |-> [k \in Keys |-> {}],
   link |-> "none", late |-> "nothing"]

LinkTypeOK ==
  /\ kind \in Kinds
  /\ made \in 0..MaxLogins
  /\ cur \in 0..made
  /\ adapter \in [Gens -> Adapter]
  /\ shown \in BOOLEAN

LinkInit ==
  /\ kind \in Kinds
  /\ made = 0
  /\ cur = 0
  /\ adapter = [g \in Gens |-> Fresh]
  /\ shown = FALSE

-----------------------------------------------------------------------------
(* What an adapter does to itself. *)

\* _connect: without credentials it reports and stays as it is.
Connecting(a) ==
  IF a.creds
    THEN [a EXCEPT !.link = IF kind = "upstox" THEN "authorizing" ELSE "dialing"]
    ELSE [a EXCEPT !.connected = FALSE]

\* stop: the socket is closed but may deliver what is on its way; a pending
\* authorization is not cancelled.
Stopped(a) ==
  [a EXCEPT !.running = FALSE, !.timer = FALSE, !.connected = FALSE,
     !.subs = {}, !.told = {},
     !.link = IF a.link = "authorizing" THEN "authorizing" ELSE "none",
     !.late = CASE kind = "kotak" /\ a.link = "greeting" -> "ack"
                [] kind = "nubra" /\ a.link = "up" -> "refusal"
                [] OTHER -> a.late]

RetryAnyway(a) ==                    \* fault: running is not asked
  IF a.timer THEN a ELSE [a EXCEPT !.attempts = 1, !.timer = TRUE]

\* scheduleReconnect.
Retry(a) ==
  IF ~a.running \/ a.timer
    THEN a
    ELSE [a EXCEPT !.attempts = @ + 1, !.timer = a.attempts + 1 <= MaxAttempts]

\* The ways a keyMap built by sending the instruments of S may end up: the last
\* instrument sent with a key owns the key.
Routes(old, S) ==
  {r \in [Keys -> SUBSET Insts] :
     \A k \in Keys : LET own == {i \in S : KeyOf[i] = k} IN
       IF own = {} THEN r[k] = old[k] ELSE \E i \in own : r[k] = {i}}

KeysOf(S) == {KeyOf[i] : i \in S}

ResentNothing(a) == {}               \* fault: the open handler does not re-subscribe

\* allSubs, sent by the open handler.
Resent(a) == a.subs

\* The connection is up: everything in subs is sent.
Greeted(a, r) ==
  [a EXCEPT !.link = "up", !.attempts = 0, !.connected = TRUE,
     !.told = KeysOf(Resent(a)), !.route = r]

\* The broker refuses the session: the socket is closed, its close event follows.
Refused(a) == [a EXCEPT !.link = "leaving", !.connected = FALSE, !.told = {}]

Status(s) == shown' = s
Update(g, a) == adapter' = [adapter EXCEPT ![g] = a]

-----------------------------------------------------------------------------
(* The manager: startBroker, stopBroker, subscribe, unsubscribe. *)

\* A new adapter takes the place of the old one and its subscriptions.
Login(creds) ==
  LET old == IF cur = 0 THEN Fresh ELSE adapter[cur] IN
  /\ made < MaxLogins
  /\ made' = made + 1
  /\ cur' = made + 1
  /\ adapter' = [g \in Gens |->
       CASE g = made + 1 -> Connecting([Fresh EXCEPT !.running = TRUE, !.creds = creds,
                                                     !.subs = old.subs])
         [] g = cur -> Stopped(adapter[g])
         [] OTHER -> adapter[g]]
  /\ shown' = IF cur = 0 /\ creds THEN shown ELSE FALSE
  /\ UNCHANGED kind

\* Creating the new adapter throws: the old one has been stopped and stays.
LoginFails ==
  /\ kind = "upstox"
  /\ cur # 0
  /\ Update(cur, Stopped(adapter[cur]))
  /\ Status(FALSE)
  /\ UNCHANGED <<kind, made, cur>>

StopFeed ==
  /\ cur # 0
  /\ Update(cur, Stopped(adapter[cur]))
  /\ cur' = 0
  /\ Status(FALSE)
  /\ UNCHANGED <<kind, made>>

\* What of S an adapter takes: all it has room for.
Accepted(a, S) ==
  LET room == MaxScrips - Cardinality(a.subs)
      new == S \ a.subs
  IN IF kind # "kotak" \/ room >= Cardinality(new)
       THEN {new}
       ELSE {T \in SUBSET new : Cardinality(T) = room}

Subscribe(S) ==
  /\ cur # 0
  /\ \E T \in Accepted(adapter[cur], S) :
       LET a == [adapter[cur] EXCEPT !.subs = @ \cup T] IN
       IF a.link = "up"
         THEN \E r \in Routes(a.route, T) :
                Update(cur, [a EXCEPT !.told = @ \cup KeysOf(T), !.route = r])
         ELSE Update(cur, a)
  /\ UNCHANGED <<kind, made, cur, shown>>

Unsubscribe(S) ==
  LET a == adapter[cur]
      gone == S \cap a.subs
      left == [a EXCEPT !.subs = @ \ gone]
  IN /\ cur # 0
     /\ gone # {}
     /\ IF a.link = "up"
          THEN Update(cur, [left EXCEPT !.told = @ \ KeysOf(gone),
                 !.route = [k \in Keys |-> IF k \in KeysOf(gone) THEN {} ELSE @[k]]])
          ELSE Update(cur, left)
     /\ UNCHANGED <<kind, made, cur, shown>>

-----------------------------------------------------------------------------
(* The network and the clock, for any adapter ever made. *)

\* Upstox's authorize request answers with an address.
Authorized(g) ==
  LET a == adapter[g] IN
  /\ a.link = "authorizing"
  /\ Update(g, [a EXCEPT !.link = IF a.running THEN "dialing" ELSE "none"])
  /\ UNCHANGED <<kind, made, cur, shown>>

\* It fails or times out: reported and retried, the report without asking
\* whether the adapter still runs.
Unauthorized(g) ==
  LET a == adapter[g] IN
  /\ a.link = "authorizing"
  /\ Update(g, Retry([a EXCEPT !.link = "none", !.connected = FALSE]))
  /\ Status(FALSE)
  /\ UNCHANGED <<kind, made, cur>>

Opened(g) ==
  LET a == adapter[g] IN
  /\ a.link = "dialing"
  /\ IF kind = "kotak"
       THEN Update(g, [a EXCEPT !.link = "greeting"]) /\ UNCHANGED shown
       ELSE (\E r \in Routes(a.route, a.subs) : Update(g, Greeted(a, r))) /\ Status(TRUE)
  /\ UNCHANGED <<kind, made, cur>>

Acked(g) ==
  LET a == adapter[g] IN
  /\ a.link = "greeting"
  /\ \E r \in Routes(a.route, a.subs) : Update(g, Greeted(a, r))
  /\ Status(TRUE)
  /\ UNCHANGED <<kind, made, cur>>

\* Kotak refuses the session instead of acknowledging it, Nubra at any time: the
\* adapter reports it and closes the socket.
Rejected(g) ==
  LET a == adapter[g] IN
  /\ \/ a.link = "greeting"
     \/ kind = "nubra" /\ a.link = "up"
  /\ Update(g, Refused(a))
  /\ Status(FALSE)
  /\ UNCHANGED <<kind, made, cur>>

\* close or error on the socket that is this.conn.
Down(g) ==
  LET a == adapter[g] IN
  /\ a.link \in {"dialing", "greeting", "up", "leaving"}
  /\ Update(g, Retry([a EXCEPT !.link = "none", !.connected = FALSE, !.told = {}]))
  /\ Status(FALSE)
  /\ UNCHANGED <<kind, made, cur>>

\* A message arrives on a socket that stop has closed; the handlers do not ask
\* which socket it came from.
LateMessage(g) ==
  LET a == adapter[g] IN
  /\ a.late # "nothing"
  /\ Update(g, [a EXCEPT !.late = "nothing", !.connected = a.late = "ack"])
  /\ Status(a.late = "ack")
  /\ UNCHANGED <<kind, made, cur>>

\* The reconnect timer.
Timer(g) ==
  LET a == [adapter[g] EXCEPT !.timer = FALSE] IN
  /\ adapter[g].timer
  /\ Update(g, IF a.running THEN Connecting(a) ELSE a)
  /\ shown' = IF a.running /\ ~a.creds THEN FALSE ELSE shown
  /\ UNCHANGED <<kind, made, cur>>

NetworkStep(g) ==
  \/ Authorized(g) \/ Unauthorized(g)
  \/ Opened(g) \/ Acked(g) \/ Rejected(g) \/ Down(g)
  \/ LateMessage(g)
  \/ Timer(g)

LinkNext ==
  \/ \E creds \in BOOLEAN : Login(creds)
  \/ LoginFails
  \/ StopFeed
  \/ \E S \in SUBSET Insts : Subscribe(S) \/ Unsubscribe(S)
  \/ \E g \in 1..made : NetworkStep(g)

\* The authorize request has a 10 s timeout, dialing ends with the operating
\* system's, a closed socket with the library's; the reconnect timer fires.
\* Nothing forces the acknowledgement of Kotak's greeting.
Answered(g) == Authorized(g) \/ Unauthorized(g)
Dialed(g) == adapter[g].link \in {"dialing", "leaving"} /\ (Opened(g) \/ Down(g))

LinkFairness ==
  \A g \in Gens : WF_linkVars(Answered(g)) /\ WF_linkVars(Dialed(g)) /\ WF_linkVars(Timer(g))

LinkSpec == LinkInit /\ [][LinkNext]_linkVars /\ LinkFairness

-----------------------------------------------------------------------------
\* Whatever stop has been called on stays down: it never dials again, and only
\* the adapter in the map runs ("stop() cancels it", baseAdapter.js), although
\* authorizations complete and sockets close later.
StoppedStaysDown ==
  \A g \in Gens :
    /\ adapter[g].running => g = cur
    /\ ~adapter[g].running =>
         /\ ~adapter[g].timer
         /\ adapter[g].link \in {"none", "authorizing"}

\* While the connection is up the broker streams exactly what is subscribed, and
\* every tick finds its way back to the instrument that was asked for, through
\* subscribes and unsubscribes while it was down and through re-logins (the open
\* handlers, _sendSub and keyMap).
TicksReachSubscribers ==
  \A g \in Gens :
    adapter[g].link = "up" =>
      /\ adapter[g].told = KeysOf(adapter[g].subs)
      /\ \A i \in adapter[g].subs : adapter[g].route[KeyOf[i]] = {i}
=============================================================================
