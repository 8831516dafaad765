------------------------------ MODULE StreamProofs ------------------------------
(***************************************************************************)
(* Proofs about the upstream connections: an adapter that was stopped      *)
(* stays down and ticks reach their subscribers (BrokerLink), a slot of    *)
(* the Go order feed that refuses a watch is alive (GoOrderFeed), the      *)
(* trade panel's feed streams exactly its union (AngelFeed), and the       *)
(* viewers of an order stream are shown what its poller has                *)
(* (ZerodhaOrders), for any number of logins, instruments, accounts,       *)
(* sockets, tokens, pollers and viewers.                                   *)
(*                                                                         *)
(* An adapter is inductive by itself (Sound, Routed); LinkCore adds that   *)
(* only the one in the map runs.  The order feed needs to know whose       *)
(* socket a read loop reads (SlotsRead).  Of the trade panel's union only  *)
(* that it implements UnionSpec is shown here; the rest is                 *)
(* TokenUnionProofs.  That a viewer stays in step with its poller rests on *)
(* no viewer having two of them (OrdersCore).                              *)
(***************************************************************************)
EXTENDS BrokerLink, GoOrderFeed, AngelFeed, ZerodhaOrders, TokenUnionProofs

-----------------------------------------------------------------------------
(* An adapter by itself (BrokerLink) *)

\* A stopped adapter dials no more; one that runs and has not given up has a reconnect left.
Sound(a) ==
  /\ a \in Adapter
  /\ ~a.running => ~a.timer /\ a.link \in {"none", "authorizing"}
  /\ a.running /\ (a.timer \/ a.link # "none") => a.attempts <= MaxAttempts

\* An adapter that was made and not started does not run.
LEMMA FreshIsSound == Sound(Fresh) /\ ~Fresh.running
<1>1. /\ 0 \in 0 .. (MaxAttempts + 1) /\ [k \in Keys |-> {}] \in [Keys -> SUBSET Insts]
      /\ {} \in SUBSET Insts /\ {} \in SUBSET Keys
  BY LinkAssumption
<1> DEFINE noRoute == [k \in Keys |-> {}]
<1> HIDE DEF noRoute
<1>2. noRoute \in [Keys -> SUBSET Insts]
  BY <1>1 DEF noRoute
<1>3. Fresh = [running |-> FALSE, connected |-> FALSE, timer |-> FALSE, attempts |-> 0,
               creds |-> TRUE, subs |-> {}, told |-> {}, route |-> noRoute,
               link |-> "none", late |-> "nothing"]
  BY DEF Fresh, noRoute
<1> QED  BY <1>1, <1>2, <1>3 DEF Sound, Adapter

\* An adapter that dials runs and has no timer.
LEMMA ConnectingIsSound ==
  ASSUME NEW a \in Adapter, a.running, ~a.timer, a.attempts <= MaxAttempts
  PROVE  Sound(Connecting(a)) /\ Connecting(a).running
BY DEF Sound, Connecting, Adapter

\* A stopped adapter has no timer and at most an authorization under way.
LEMMA StoppedIsSound ==
  ASSUME NEW a \in Adapter
  PROVE  Sound(Stopped(a)) /\ ~Stopped(a).running
BY DEF Sound, Stopped, Adapter

\* A reconnect is scheduled for an adapter that runs and has no connection.
LEMMA RetryIsSound ==
  ASSUME NEW a \in Adapter, a.link = "none", a.running => a.attempts <= MaxAttempts,
         ~a.running => ~a.timer
  PROVE  Sound(Retry(a)) /\ Retry(a).running = a.running
<1>1. a.attempts \in 0 .. (MaxAttempts + 1) /\ MaxAttempts \in Nat
  BY LinkAssumption DEF Adapter
<1>2. CASE ~a.running \/ a.timer
  BY <1>2 DEF Retry, Sound
<1>3. CASE a.running /\ ~a.timer
  <2> DEFINE n == a.attempts + 1
             more == n <= MaxAttempts
  <2>1. n \in 0 .. (MaxAttempts + 1) /\ more \in BOOLEAN
    BY <1>1, <1>3
  <2>2. Retry(a) = [a EXCEPT !.attempts = n, !.timer = more]
    BY <1>3 DEF Retry
  <2> QED  BY <1>1, <1>3, <2>1, <2>2 DEF Sound, Adapter
<1> QED  BY <1>2, <1>3

\* An adapter stays sound when the broker accepts it and it subscribes again.
LEMMA GreetedIsSound ==
  ASSUME NEW a, Sound(a), a.running, NEW r \in [Keys -> SUBSET Insts]
  PROVE  Sound(Greeted(a, r)) /\ Greeted(a, r).running
<1>1. KeysOf(Resent(a)) \subseteq Keys /\ 0 \in 0 .. (MaxAttempts + 1) /\ 0 <= MaxAttempts
  BY LinkAssumption DEF KeysOf, Resent, Sound, Adapter
<1> QED  BY <1>1 DEF Sound, Greeted, Adapter

-----------------------------------------------------------------------------
(* The adapters of a broker *)

LinkCore ==
  /\ LinkTypeOK
  /\ \A g \in Gens : Sound(adapter[g]) /\ (adapter[g].running => g = cur)

\* What has been sent on an open connection and where its ticks go.
Streaming(a, keys, r) == [a EXCEPT !.told = keys, !.route = r]

\* An adapter that changes and runs only if it ran before keeps the rest as it is.
LEMMA UpdateKeeps ==
  ASSUME LinkCore, NEW g \in Gens, NEW a, Sound(a), a.running => adapter[g].running,
         Update(g, a), shown' \in BOOLEAN, UNCHANGED <<kind, made, cur>>
  PROVE  LinkCore'
BY DEF LinkCore, LinkTypeOK, Update, Sound

\* Every step of every adapter keeps LinkCore.
LEMMA LinkStays == LinkCore /\ [LinkNext]_linkVars => LinkCore'
<1> SUFFICES ASSUME LinkCore, [LinkNext]_linkVars PROVE LinkCore'
  OBVIOUS
<1> USE DEF Status
<1>0. /\ \A g \in Gens : Sound(adapter[g]) /\ adapter[g] \in Adapter
      /\ made \in 0 .. MaxLogins /\ cur \in 0 .. made /\ 1 .. made \subseteq Gens
      /\ cur # 0 => cur \in Gens
      /\ shown \in BOOLEAN
  BY LinkAssumption DEF LinkCore, LinkTypeOK, Gens
<1>1. ASSUME NEW given \in BOOLEAN, Login(given) PROVE LinkCore'
  <2> DEFINE old == IF cur = 0 THEN Fresh ELSE adapter[cur]
             new == [Fresh EXCEPT !.running = TRUE, !.creds = given, !.subs = old.subs]
  <2>1. new \in Adapter /\ new.running /\ ~new.timer /\ new.attempts <= MaxAttempts
    <3>1. Fresh \in Adapter /\ Fresh.attempts = 0 /\ ~Fresh.timer /\ old \in Adapter
      BY <1>0, FreshIsSound DEF Sound, Fresh
    <3>2. old.subs \in SUBSET Insts /\ 0 <= MaxAttempts
      BY <3>1, LinkAssumption DEF Adapter
    <3> HIDE DEF old
    <3> QED  BY <3>1, <3>2 DEF Adapter
  <2>2. /\ made' = made + 1 /\ cur' = made + 1 /\ made < MaxLogins /\ UNCHANGED kind
        /\ adapter' = [g \in Gens |-> CASE g = made + 1 -> Connecting(new)
                                        [] g = cur -> Stopped(adapter[g])
                                        [] OTHER -> adapter[g]]
        /\ shown' \in BOOLEAN
    BY <1>0, <1>1 DEF Login
  <2> HIDE DEF old, new
  <2>3. Sound(Connecting(new))
    BY <2>1, ConnectingIsSound
  <2>4. made' \in 0 .. MaxLogins /\ cur' \in 0 .. made' /\ cur # made + 1 /\ made + 1 \in Gens
    BY <1>0, <2>2, LinkAssumption DEF Gens
  <2>5. ASSUME NEW g \in Gens
        PROVE  Sound(adapter'[g]) /\ (adapter'[g].running => g = made + 1)
    <3>1. CASE g = made + 1
      <4>1. adapter'[g] = Connecting(new)
        BY <2>2, <2>4, <3>1
      <4> QED  BY <2>3, <3>1, <4>1
    <3>2. CASE g = cur /\ g # made + 1
      <4>1. adapter'[g] = Stopped(adapter[g]) /\ adapter[g] \in Adapter
        BY <1>0, <2>2, <3>2
      <4> QED  BY <4>1, StoppedIsSound
    <3>3. CASE g # cur /\ g # made + 1
      BY <1>0, <2>2, <3>3 DEF LinkCore
    <3> QED  BY <3>1, <3>2, <3>3
  <2>6. adapter' \in [Gens -> Adapter]
    BY <2>2, <2>5 DEF Sound
  <2> QED  BY <2>2, <2>4, <2>5, <2>6 DEF LinkCore, LinkTypeOK
<1>2. CASE LoginFails
  BY <1>0, <1>2, StoppedIsSound, UpdateKeeps DEF LoginFails
<1>3. CASE StopFeed
  <2>1. cur \in Gens /\ Sound(Stopped(adapter[cur])) /\ ~Stopped(adapter[cur]).running
    BY <1>0, <1>3, StoppedIsSound DEF StopFeed
  <2>2. \A g \in Gens : adapter'[g] = IF g = cur THEN Stopped(adapter[cur]) ELSE adapter[g]
    BY <1>3, <2>1 DEF StopFeed, Update, LinkCore, LinkTypeOK
  <2>3. \A g \in Gens : Sound(adapter'[g]) /\ ~adapter'[g].running
    BY <1>0, <2>1, <2>2 DEF LinkCore
  <2>4. adapter' \in [Gens -> Adapter] /\ cur' = 0 /\ UNCHANGED <<kind, made>> /\ shown' = FALSE
    BY <1>3, <2>1 DEF StopFeed, Update, LinkCore, LinkTypeOK, Sound
  <2>5. 0 \in 0 .. made
    BY <1>0
  <2> QED  BY <2>3, <2>4, <2>5 DEF LinkCore, LinkTypeOK
\* What an adapter is subscribed to has no part in its being sound.
<1>4. ASSUME NEW a, Sound(a), NEW keys \in SUBSET Keys, NEW r \in [Keys -> SUBSET Insts]
      PROVE  /\ Sound(Streaming(a, keys, r))
             /\ Streaming(a, keys, r).running = a.running
  BY <1>4 DEF Sound, Adapter, Streaming
<1>5. ASSUME NEW a, Sound(a), NEW subs \in SUBSET Insts
      PROVE  Sound([a EXCEPT !.subs = subs]) /\ [a EXCEPT !.subs = subs].running = a.running
  BY <1>5 DEF Sound, Adapter
<1>6. ASSUME NEW S \in SUBSET Insts, Subscribe(S) PROVE LinkCore'
  <2>1. cur \in Gens /\ Sound(adapter[cur]) /\ adapter[cur] \in Adapter /\ UNCHANGED <<kind, made, cur, shown>>
    BY <1>0, <1>6 DEF Subscribe
  <2>2. PICK T \in Accepted(adapter[cur], S) :
          LET a == [adapter[cur] EXCEPT !.subs = @ \cup T] IN
          IF a.link = "up"
            THEN \E r \in Routes(a.route, T) :
                   Update(cur, [a EXCEPT !.told = @ \cup KeysOf(T), !.route = r])
            ELSE Update(cur, a)
    BY <1>6 DEF Subscribe
  <2> DEFINE subs == adapter[cur].subs \cup T
             keys == adapter[cur].told \cup KeysOf(T)
             a == [adapter[cur] EXCEPT !.subs = subs]
  <2>3. T \subseteq Insts /\ subs \subseteq Insts
    BY <2>1 DEF Accepted, Adapter
  <2>4. keys \subseteq Keys
    BY <2>1, <2>3, LinkAssumption DEF KeysOf, Adapter
  <2>5. a.told = adapter[cur].told /\ Sound(a) /\ a.running = adapter[cur].running
    BY <1>5, <2>1, <2>3, <2>4 DEF Adapter
  <2>6. \/ Update(cur, a)
        \/ \E r \in [Keys -> SUBSET Insts] : Update(cur, Streaming(a, keys, r))
    BY <2>2, <2>5 DEF Routes, Streaming
  <2>7. ASSUME NEW r \in [Keys -> SUBSET Insts], Update(cur, Streaming(a, keys, r))
        PROVE  LinkCore'
    <3> HIDE DEF a, keys
    <3>1. Sound(Streaming(a, keys, r))
          /\ Streaming(a, keys, r).running = adapter[cur].running
      BY <1>4, <2>3, <2>4, <2>5
    <3> QED  BY <1>0, <2>1, <2>7, <3>1, UpdateKeeps
  <2>8. CASE Update(cur, a)
    <3> HIDE DEF a
    <3> QED  BY <1>0, <2>1, <2>5, <2>8, UpdateKeeps
  <2> QED  BY <2>6, <2>7, <2>8
<1>7. ASSUME NEW S \in SUBSET Insts, Unsubscribe(S) PROVE LinkCore'
  <2>1. cur \in Gens /\ Sound(adapter[cur]) /\ adapter[cur] \in Adapter /\ UNCHANGED <<kind, made, cur, shown>>
    BY <1>0, <1>7 DEF Unsubscribe
  <2> DEFINE gone == S \cap adapter[cur].subs
             subs == adapter[cur].subs \ gone
             keys == adapter[cur].told \ KeysOf(gone)
             r == [k \in Keys |-> IF k \in KeysOf(gone) THEN {} ELSE adapter[cur].route[k]]
             a == [adapter[cur] EXCEPT !.subs = subs]
  <2>2. subs \in SUBSET Insts /\ keys \in SUBSET Keys /\ r \in [Keys -> SUBSET Insts]
    BY <2>1 DEF Adapter
  <2>3. a.told = adapter[cur].told /\ a.route = adapter[cur].route
        /\ adapter[cur].route = [k \in Keys |-> adapter[cur].route[k]]
    BY <2>1 DEF Adapter
  <2>4. Update(cur, a) \/ Update(cur, Streaming(a, keys, r))
    BY <1>7, <2>1, <2>3 DEF Unsubscribe, Adapter, Streaming
  <2>5. Sound(a) /\ a.running = adapter[cur].running
    BY <1>5, <2>1, <2>2
  <2> HIDE DEF a, subs, keys, r
  <2>6. /\ Sound(Streaming(a, keys, r))
        /\ Streaming(a, keys, r).running = adapter[cur].running
    BY <1>4, <2>2, <2>5
  <2> QED  BY <1>0, <2>1, <2>4, <2>5, <2>6, UpdateKeeps
<1>8. ASSUME NEW g \in 1 .. made, NetworkStep(g) PROVE LinkCore'
  <2> DEFINE a == adapter[g]
  <2>1. g \in Gens /\ a \in Adapter /\ Sound(a) /\ (a.link \notin {"none", "authorizing"} => a.running)
    BY <1>0 DEF Sound
  <2>2. CASE Authorized(g)
    <3>1. Sound([a EXCEPT !.link = IF a.running THEN "dialing" ELSE "none"])
          /\ [a EXCEPT !.link = IF a.running THEN "dialing" ELSE "none"].running = a.running
      BY <2>1, <2>2 DEF Authorized, Sound, Adapter
    <3> QED  BY <1>0, <2>1, <2>2, <3>1, UpdateKeeps DEF Authorized
  <2>3. CASE Unauthorized(g)
    <3> DEFINE b == [a EXCEPT !.link = "none", !.connected = FALSE]
    <3>1. b \in Adapter /\ b.link = "none" /\ (b.running => b.attempts <= MaxAttempts)
          /\ (~b.running => ~b.timer) /\ b.running = a.running
      BY <2>1, <2>3 DEF Unauthorized, Sound, Adapter
    <3>2. Update(g, Retry(b)) /\ shown' = FALSE /\ UNCHANGED <<kind, made, cur>>
      BY <2>3 DEF Unauthorized
    <3> HIDE DEF b
    <3>3. Sound(Retry(b)) /\ Retry(b).running = a.running
      BY <3>1, RetryIsSound
    <3> QED  BY <2>1, <3>2, <3>3, UpdateKeeps
  <2>4. CASE Opened(g)
    <3>1. a.running /\ a.link = "dialing" /\ UNCHANGED <<kind, made, cur>> /\ shown' \in BOOLEAN
      BY <1>0, <2>1, <2>4 DEF Opened
    <3>2. CASE Update(g, [a EXCEPT !.link = "greeting"])
      <4>1. Sound([a EXCEPT !.link = "greeting"]) /\ [a EXCEPT !.link = "greeting"].running = a.running
        BY <2>1, <3>1 DEF Sound, Adapter
      <4> QED  BY <2>1, <3>1, <3>2, <4>1, UpdateKeeps
    <3>3. ASSUME NEW r \in [Keys -> SUBSET Insts], Update(g, Greeted(a, r)) PROVE LinkCore'
      BY <2>1, <3>1, <3>3, GreetedIsSound, UpdateKeeps
    <3> QED  BY <2>4, <3>2, <3>3 DEF Opened, Routes
  <2>5. CASE Acked(g)
    <3>1. a.running /\ UNCHANGED <<kind, made, cur>> /\ shown' \in BOOLEAN
      BY <1>0, <2>1, <2>5 DEF Acked
    <3>2. ASSUME NEW r \in [Keys -> SUBSET Insts], Update(g, Greeted(a, r)) PROVE LinkCore'
      BY <2>1, <3>1, <3>2, GreetedIsSound, UpdateKeeps
    <3> QED  BY <2>5, <3>2 DEF Acked, Routes
  <2>6. CASE Rejected(g)
    <3>1. Sound(Refused(a)) /\ Refused(a).running = a.running
      BY <2>1, <2>6 DEF Rejected, Refused, Sound, Adapter
    <3> QED  BY <1>0, <2>1, <2>6, <3>1, UpdateKeeps DEF Rejected
  <2>7. CASE Down(g)
    <3> DEFINE b == [a EXCEPT !.link = "none", !.connected = FALSE, !.told = {}]
    <3>1. b \in Adapter /\ b.link = "none" /\ (b.running => b.attempts <= MaxAttempts)
          /\ (~b.running => ~b.timer) /\ b.running = a.running
      BY <2>1, <2>7 DEF Down, Sound, Adapter
    <3>2. Update(g, Retry(b)) /\ shown' = FALSE /\ UNCHANGED <<kind, made, cur>>
      BY <2>7 DEF Down
    <3> HIDE DEF b
    <3>3. Sound(Retry(b)) /\ Retry(b).running = a.running
      BY <3>1, RetryIsSound
    <3> QED  BY <2>1, <3>2, <3>3, UpdateKeeps
  <2>8. CASE LateMessage(g)
    <3> DEFINE ack == a.late = "ack"
               b == [a EXCEPT !.late = "nothing", !.connected = ack]
    <3>1. Sound(b) /\ b.running = a.running
      BY <2>1 DEF Sound, Adapter
    <3>2. Update(g, b) /\ shown' = ack /\ ack \in BOOLEAN /\ UNCHANGED <<kind, made, cur>>
      BY <2>8 DEF LateMessage
    <3> HIDE DEF b, ack
    <3> QED  BY <2>1, <3>1, <3>2, UpdateKeeps
  <2>9. CASE Timer(g)
    <3> DEFINE b == [a EXCEPT !.timer = FALSE]
    <3>1. b \in Adapter /\ ~b.timer /\ b.running = a.running /\ a.running /\ b.attempts <= MaxAttempts
      BY <2>1, <2>9 DEF Timer, Sound, Adapter
    <3>2. Update(g, Connecting(b)) /\ shown' \in BOOLEAN /\ UNCHANGED <<kind, made, cur>>
      BY <1>0, <2>9, <3>1 DEF Timer
    <3> HIDE DEF b
    <3> QED  BY <2>1, <3>1, <3>2, ConnectingIsSound, UpdateKeeps
  <2> QED  BY <1>8, <2>2, <2>3, <2>4, <2>5, <2>6, <2>7, <2>8, <2>9 DEF NetworkStep
<1>9. CASE UNCHANGED linkVars
  BY <1>9 DEF linkVars, LinkCore, LinkTypeOK
<1> QED  BY <1>1, <1>2, <1>3, <1>6, <1>7, <1>8, <1>9 DEF LinkNext

\* No adapter runs at first.
LEMMA LinkBegins == LinkInit => LinkCore
<1> SUFFICES ASSUME LinkInit PROVE LinkCore
  OBVIOUS
<1>1. 0 \in 0 .. MaxLogins /\ 0 \in 0 .. 0
  BY LinkAssumption
<1> QED  BY <1>1, FreshIsSound DEF LinkInit, LinkCore, LinkTypeOK, Sound

\* An adapter that was stopped never dials again and only the one in the map runs, however
\* many logins there are and whatever authorizations, timers and closes come late.
THEOREM StoppedAdaptersStayDown == LinkSpec => []StoppedStaysDown
<1>1. LinkCore => StoppedStaysDown
  BY DEF LinkCore, Sound, StoppedStaysDown
<1> QED  BY <1>1, LinkBegins, LinkStays, PTL DEF LinkSpec

\* The adapters of a broker keep their types: a reconnect counter passes
\* MAX_RECONNECT_ATTEMPTS by one at most.
THEOREM LinkTypes == LinkSpec => []LinkTypeOK
<1>1. LinkCore => LinkTypeOK
  BY DEF LinkCore
<1> QED  BY <1>1, LinkBegins, LinkStays, PTL DEF LinkSpec

-----------------------------------------------------------------------------
(* Where the ticks of a connection go *)

\* No two instruments have one key, as holds of the tokens of an exchange.
OwnKeys == \A i, j \in Insts : KeyOf[i] = KeyOf[j] => i = j

Routed(a) ==
  a.link = "up" =>
    /\ a.told = KeysOf(a.subs)
    /\ \A i \in a.subs : a.route[KeyOf[i]] = {i}
AllRouted == \A g \in Gens : Routed(adapter[g])

\* Sending the instruments of S routes each of them to itself and leaves the others alone.
LEMMA RoutesFollow ==
  ASSUME OwnKeys, NEW old \in [Keys -> SUBSET Insts], NEW S \in SUBSET Insts, NEW r \in Routes(old, S),
         NEW i \in Insts
  PROVE  r[KeyOf[i]] = IF i \in S THEN {i} ELSE old[KeyOf[i]]
<1> DEFINE own == {j \in S : KeyOf[j] = KeyOf[i]}
<1>1. KeyOf[i] \in Keys
  BY LinkAssumption
<1>2. own = IF i \in S THEN {i} ELSE {}
  BY DEF OwnKeys
<1>3. IF own = {} THEN r[KeyOf[i]] = old[KeyOf[i]] ELSE \E j \in own : r[KeyOf[i]] = {j}
  BY <1>1 DEF Routes
<1> QED  BY <1>2, <1>3

\* After a greeting the connection has all subscriptions, each with its route.
LEMMA GreetedIsRouted ==
  ASSUME OwnKeys, NEW a \in Adapter, NEW r \in Routes(a.route, a.subs)
  PROVE  Routed(Greeted(a, r))
<1>1. a.subs \in SUBSET Insts /\ a.route \in [Keys -> SUBSET Insts]
  BY DEF Adapter
<1>2. /\ Greeted(a, r).told = KeysOf(a.subs) /\ Greeted(a, r).subs = a.subs
      /\ Greeted(a, r).route = r
  BY DEF Greeted, Resent, Adapter
<1>3. ASSUME NEW i \in a.subs PROVE r[KeyOf[i]] = {i}
  <2> DEFINE own == {j \in a.subs : KeyOf[j] = KeyOf[i]}
  <2>1. i \in Insts /\ KeyOf[i] \in Keys
    BY <1>1, LinkAssumption
  <2>2. own = {i}
    BY <1>1, <2>1 DEF OwnKeys
  <2>3. IF own = {} THEN r[KeyOf[i]] = a.route[KeyOf[i]] ELSE \E j \in own : r[KeyOf[i]] = {j}
    BY <2>1 DEF Routes
  <2> QED  BY <2>2, <2>3
<1> QED  BY <1>2, <1>3 DEF Routed

\* Every step of every adapter keeps the routes.
LEMMA RoutesStay ==
  ASSUME OwnKeys, LinkCore, AllRouted, [LinkNext]_linkVars
  PROVE  AllRouted'
<1>0. \A g \in Gens : adapter[g] \in Adapter /\ Routed(adapter[g])
  BY DEF LinkCore, LinkTypeOK, AllRouted
<1>1. ASSUME NEW g \in Gens, NEW a, Update(g, a), Routed(a) PROVE AllRouted'
  BY <1>0, <1>1 DEF Update, AllRouted, LinkCore, LinkTypeOK
\* A connection that is not up has nothing to route.
<1>2. \A a \in Adapter : Routed(Stopped(a))
  BY DEF Stopped, Routed, Adapter
<1>3. \A a \in Adapter : a.link # "up" => Routed(Retry(a)) /\ Routed(a)
  BY DEF Retry, Routed, Adapter
<1>4. \A a \in Adapter : Routed(a) => Routed(Connecting(a))
  BY DEF Connecting, Routed, Adapter
<1>5. made \in Nat /\ cur \in Nat /\ (cur # 0 => cur \in Gens) /\ 1 .. made \subseteq Gens
      /\ cur # made + 1
  BY LinkAssumption DEF LinkCore, LinkTypeOK, Gens
<1>6. ASSUME NEW given \in BOOLEAN, Login(given) PROVE AllRouted'
  <2> DEFINE old == IF cur = 0 THEN Fresh ELSE adapter[cur]
             new == [Fresh EXCEPT !.running = TRUE, !.creds = given, !.subs = old.subs]
  <2>1. Routed(Connecting(new))
    BY DEF Fresh, Connecting, Routed
  <2>2. adapter' = [g \in Gens |-> CASE g = made + 1 -> Connecting(new)
                                     [] g = cur -> Stopped(adapter[g])
                                     [] OTHER -> adapter[g]]
    BY <1>6 DEF Login
  <2> HIDE DEF old, new
  <2>3. ASSUME NEW g \in Gens PROVE Routed(adapter'[g])
    <3>1. CASE g = made + 1
      <4>1. adapter'[g] = Connecting(new)
        BY <1>5, <2>2, <3>1
      <4> QED  BY <2>1, <4>1
    <3>2. CASE g = cur /\ g # made + 1
      <4>1. adapter'[g] = Stopped(adapter[g])
        BY <2>2, <3>2
      <4> QED  BY <1>0, <1>2, <4>1
    <3>3. CASE g # cur /\ g # made + 1
      BY <1>0, <2>2, <3>3
    <3> QED  BY <3>1, <3>2, <3>3
  <2> QED  BY <2>3 DEF AllRouted
<1>7. CASE LoginFails \/ StopFeed
  <2>1. cur \in Gens /\ Update(cur, Stopped(adapter[cur]))
    BY <1>5, <1>7 DEF LoginFails, StopFeed
  <2> QED  BY <1>0, <1>1, <1>2, <2>1
<1>8. ASSUME NEW S \in SUBSET Insts, Subscribe(S) PROVE AllRouted'
  <2>1. cur \in Gens /\ adapter[cur] \in Adapter /\ Routed(adapter[cur])
    BY <1>0, <1>5, <1>8 DEF Subscribe
  <2>2. PICK T \in Accepted(adapter[cur], S) :
          LET a == [adapter[cur] EXCEPT !.subs = @ \cup T] IN
          IF a.link = "up"
            THEN \E r \in Routes(a.route, T) :
                   Update(cur, [a EXCEPT !.told = @ \cup KeysOf(T), !.route = r])
            ELSE Update(cur, a)
    BY <1>8 DEF Subscribe
  <2> DEFINE subs == adapter[cur].subs \cup T
             keys == adapter[cur].told \cup KeysOf(T)
             route == adapter[cur].route
             a == [adapter[cur] EXCEPT !.subs = subs]
  <2>3. T \subseteq Insts /\ subs \subseteq Insts /\ route \in [Keys -> SUBSET Insts]
    BY <2>1 DEF Accepted, Adapter
  <2>4. a \in Adapter /\ a.link = adapter[cur].link /\ a.told = adapter[cur].told
        /\ a.subs = subs /\ a.route = route
    BY <2>1, <2>3 DEF Adapter
  <2>5. CASE a.link # "up"
    <3>1. Update(cur, a)
      BY <2>2, <2>5
    <3> HIDE DEF a
    <3> QED  BY <1>1, <1>3, <2>1, <2>4, <2>5, <3>1
  <2>6. CASE a.link = "up"
    <3>1. PICK r \in Routes(route, T) : Update(cur, Streaming(a, keys, r))
      BY <2>2, <2>4, <2>6 DEF Streaming
    <3> HIDE DEF a
    <3>2. /\ Streaming(a, keys, r).told = keys /\ Streaming(a, keys, r).subs = subs
          /\ Streaming(a, keys, r).route = r
      BY <2>4 DEF Streaming, Adapter
    <3>3. keys = KeysOf(subs)
      BY <2>1, <2>4, <2>6 DEF Routed, KeysOf
    <3>4. ASSUME NEW i \in subs PROVE r[KeyOf[i]] = {i}
      <4>1. i \in Insts /\ r[KeyOf[i]] = IF i \in T THEN {i} ELSE route[KeyOf[i]]
        BY <2>3, RoutesFollow
      <4>2. i \notin T => route[KeyOf[i]] = {i}
        BY <2>1, <2>4, <2>6 DEF Routed
      <4> QED  BY <4>1, <4>2
    <3>5. Routed(Streaming(a, keys, r))
      BY <3>2, <3>3, <3>4 DEF Routed
    <3> QED  BY <1>1, <2>1, <3>1, <3>5
  <2> QED  BY <2>5, <2>6
<1>9. ASSUME NEW S \in SUBSET Insts, Unsubscribe(S) PROVE AllRouted'
  <2>1. cur \in Gens /\ adapter[cur] \in Adapter /\ Routed(adapter[cur])
    BY <1>0, <1>5, <1>9 DEF Unsubscribe
  <2> DEFINE gone == S \cap adapter[cur].subs
             subs == adapter[cur].subs \ gone
             keys == adapter[cur].told \ KeysOf(gone)
             route == adapter[cur].route
             r == [k \in Keys |-> IF k \in KeysOf(gone) THEN {} ELSE route[k]]
             a == [adapter[cur] EXCEPT !.subs = subs]
  <2>2. a \in Adapter /\ a.link = adapter[cur].link /\ a.told = adapter[cur].told
        /\ a.subs = subs /\ a.route = route /\ route \in [Keys -> SUBSET Insts]
        /\ adapter[cur].subs \subseteq Insts
    BY <2>1 DEF Adapter
  <2>3. IF a.link = "up" THEN Update(cur, Streaming(a, keys, r)) ELSE Update(cur, a)
    BY <1>9, <2>2 DEF Unsubscribe, Streaming
  <2> HIDE DEF a
  <2>4. /\ Streaming(a, keys, r).told = keys /\ Streaming(a, keys, r).subs = subs
        /\ Streaming(a, keys, r).route = r
    BY <2>2 DEF Streaming, Adapter
  <2>5. CASE a.link # "up"
    BY <1>1, <1>3, <2>1, <2>2, <2>3, <2>5
  <2>6. CASE a.link = "up"
    <3>1. keys = KeysOf(subs)
      BY <2>1, <2>2, <2>6 DEF Routed, KeysOf, OwnKeys
    <3>2. ASSUME NEW i \in subs PROVE r[KeyOf[i]] = {i}
      <4>1. KeyOf[i] \in Keys /\ KeyOf[i] \notin KeysOf(gone)
        BY <2>2, LinkAssumption DEF OwnKeys, KeysOf
      <4> QED  BY <2>1, <2>2, <2>6, <4>1 DEF Routed
    <3>3. Routed(Streaming(a, keys, r))
      BY <2>4, <3>1, <3>2 DEF Routed
    <3> QED  BY <1>1, <2>1, <2>3, <2>6, <3>3
  <2> QED  BY <2>5, <2>6
<1>10. ASSUME NEW g \in 1 .. made, NetworkStep(g) PROVE AllRouted'
  <2> DEFINE a == adapter[g]
  <2>1. g \in Gens /\ a \in Adapter /\ Routed(a)
    BY <1>0, <1>5
  <2>2. CASE Authorized(g)
    <3> DEFINE b == [a EXCEPT !.link = IF a.running THEN "dialing" ELSE "none"]
    <3>1. Update(g, b) /\ Routed(b)
      BY <2>1, <2>2 DEF Authorized, Routed, Adapter
    <3> QED  BY <1>1, <2>1, <3>1
  <2>3. ASSUME NEW b \in Adapter, b.link = "none", Update(g, Retry(b)) PROVE AllRouted'
    BY <1>1, <1>3, <2>1, <2>3
  <2>4. CASE Unauthorized(g)
    <3> DEFINE b == [a EXCEPT !.link = "none", !.connected = FALSE]
    <3>1. b \in Adapter /\ b.link = "none" /\ Update(g, Retry(b))
      BY <2>1, <2>4 DEF Unauthorized, Adapter
    <3> QED  BY <2>3, <3>1
  <2>5. CASE Opened(g) \/ Acked(g)
    <3>1. CASE Update(g, [a EXCEPT !.link = "greeting"])
      <4>1. Routed([a EXCEPT !.link = "greeting"])
        BY <2>1 DEF Routed, Adapter
      <4> QED  BY <1>1, <2>1, <3>1, <4>1
    <3>2. ASSUME NEW r \in Routes(a.route, a.subs), Update(g, Greeted(a, r)) PROVE AllRouted'
      BY <1>1, <2>1, <3>2, GreetedIsRouted
    <3> QED  BY <2>5, <3>1, <3>2 DEF Opened, Acked
  <2>6. CASE Rejected(g)
    <3>1. Routed(Refused(a)) /\ Update(g, Refused(a))
      BY <2>1, <2>6 DEF Rejected, Refused, Routed, Adapter
    <3> QED  BY <1>1, <2>1, <3>1
  <2>7. CASE Down(g)
    <3> DEFINE b == [a EXCEPT !.link = "none", !.connected = FALSE, !.told = {}]
    <3>1. b \in Adapter /\ b.link = "none" /\ Update(g, Retry(b))
      BY <2>1, <2>7 DEF Down, Adapter
    <3> QED  BY <2>3, <3>1
  <2>8. CASE LateMessage(g)
    <3> DEFINE b == [a EXCEPT !.late = "nothing", !.connected = a.late = "ack"]
    <3>1. Update(g, b) /\ Routed(b)
      BY <2>1, <2>8 DEF LateMessage, Routed, Adapter
    <3> QED  BY <1>1, <2>1, <3>1
  <2>9. CASE Timer(g)
    <3> DEFINE b == [a EXCEPT !.timer = FALSE]
    <3>1. b \in Adapter /\ Routed(b) /\ (Update(g, Connecting(b)) \/ Update(g, b))
      BY <2>1, <2>9 DEF Timer, Routed, Adapter
    <3> HIDE DEF b
    <3> QED  BY <1>1, <1>4, <2>1, <3>1
  <2> QED  BY <1>10, <2>2, <2>4, <2>5, <2>6, <2>7, <2>8, <2>9 DEF NetworkStep
<1>11. CASE UNCHANGED linkVars
  BY <1>11 DEF linkVars, AllRouted
<1> QED  BY <1>6, <1>7, <1>8, <1>9, <1>10, <1>11 DEF LinkNext

\* Of instruments with keys of their own: while a connection is up the broker streams exactly
\* what is subscribed and every tick finds its instrument, through any subscribes and
\* unsubscribes while it was down, refusals, reconnects and re-logins.
THEOREM TicksReachTheirSubscribers == OwnKeys => (LinkSpec => []TicksReachSubscribers)
<1>1. LinkInit => AllRouted
  BY DEF LinkInit, AllRouted, Routed, Fresh
<1>2. AllRouted => TicksReachSubscribers
  BY DEF AllRouted, Routed, TicksReachSubscribers
<1>3. CASE OwnKeys
  <2>1. LinkCore /\ AllRouted /\ [LinkNext]_linkVars => AllRouted'
    BY <1>3, RoutesStay
  <2> QED  BY <1>1, <1>2, <2>1, LinkBegins, LinkStays, PTL DEF LinkSpec
<1>4. CASE ~OwnKeys
  BY <1>4
<1> QED  BY <1>3, <1>4

-----------------------------------------------------------------------------
(* The order feed of the Go backend (GoOrderFeed) *)

\* A reservation is being dialed; the socket in a slot is read for the account of the slot
\* until the read loop frees it.
SlotsRead ==
  \A a \in Accounts :
    /\ slot[a] = Reserved => dialing[a] > 0
    /\ slot[a] \in Sockets => reads[slot[a]] = a

OrderCore == OrderTypeOK /\ SlotsRead

\* A watch that finds the slot free reserves it and dials.
LEMMA WatchesKeep ==
  ASSUME OrderCore, NEW a \in Accounts, Watches(a), UNCHANGED <<reads>>
  PROVE  /\ slot' \in [Accounts -> Sockets \cup {Free, Reserved}]
         /\ dialing' \in [Accounts -> 0 .. MaxDials]
         /\ SlotsRead'
<1>1. CASE slot[a] = Free
  <2>1. dialing[a] + 1 \in 0 .. MaxDials /\ dialing[a] + 1 > 0
    BY <1>1, OrderAssumption DEF Watches, OrderCore, OrderTypeOK
  <2>2. Reserved \notin Sockets
    BY OrderAssumption
  <2> QED  BY <1>1, <2>1, <2>2 DEF Watches, OrderCore, OrderTypeOK, SlotsRead
<1>2. CASE slot[a] # Free
  BY <1>2 DEF Watches, OrderCore, OrderTypeOK, SlotsRead
<1> QED  BY <1>1, <1>2

\* Every step of the order feed keeps OrderCore.
LEMMA OrderStays == OrderCore /\ [OrderNext]_orderVars => OrderCore'
<1> SUFFICES ASSUME OrderCore, [OrderNext]_orderVars PROVE OrderCore'
  OBVIOUS
<1>0. OrderTypeOK /\ SlotsRead /\ Free \notin Sockets /\ Reserved \notin Sockets /\ Free # Reserved
      /\ Free \notin Accounts /\ MaxDials \in Nat /\ MaxFails \in Nat /\ MaxRetries \in Nat
  BY OrderAssumption DEF OrderCore, Free, Reserved
<1>1. ASSUME NEW a \in Accounts, Watch(a) PROVE OrderCore'
  BY <1>0, <1>1, WatchesKeep DEF Watch, OrderCore, OrderTypeOK
<1>2. ASSUME NEW a \in Accounts, DialFail(a) PROVE OrderCore'
  <2>1. dialing[a] - 1 \in 0 .. MaxDials /\ failures + 1 \in 0 .. MaxFails
    BY <1>0, <1>2 DEF DialFail, OrderTypeOK
  <2> QED  BY <1>0, <1>2, <2>1 DEF DialFail, Freed, OrderCore, OrderTypeOK, SlotsRead
<1>3. ASSUME NEW a \in Accounts, RetryFires(a) PROVE OrderCore'
  <2>1. retries[a] - 1 \in 0 .. MaxRetries
    BY <1>0, <1>3 DEF RetryFires, OrderTypeOK
  <2>2. retries' \in [Accounts -> 0 .. MaxRetries]
    BY <1>0, <1>3, <2>1 DEF RetryFires, OrderTypeOK
  <2>3. /\ slot' \in [Accounts -> Sockets \cup {Free, Reserved}]
        /\ dialing' \in [Accounts -> 0 .. MaxDials]
        /\ SlotsRead'
    BY <1>0, <1>3, WatchesKeep DEF RetryFires, OrderTypeOK, SlotsRead
  <2> QED  BY <1>0, <1>3, <2>2, <2>3 DEF RetryFires, OrderCore, OrderTypeOK
<1>4. ASSUME NEW a \in Accounts, NEW n \in Sockets, DialOk(a, n) PROVE OrderCore'
  <2>1. dialing[a] - 1 \in 0 .. MaxDials
    BY <1>0, <1>4 DEF DialOk, OrderTypeOK
  <2>2. OrderTypeOK'
    BY <1>0, <1>4, <2>1 DEF DialOk, ReadFor, OrderTypeOK
  <2>3. \A b \in Accounts : slot[b] # n
    BY <1>4 DEF DialOk, Unused, Holds
  <2>4. ASSUME NEW b \in Accounts
        PROVE  /\ slot'[b] = Reserved => dialing'[b] > 0
               /\ slot'[b] \in Sockets => reads'[slot'[b]] = b
    <3>1. CASE b = a
      BY <1>0, <1>4, <3>1 DEF DialOk, ReadFor, OrderTypeOK
    <3>2. CASE b # a
      BY <1>0, <1>4, <2>3, <3>2 DEF DialOk, ReadFor, OrderTypeOK, SlotsRead
    <3> QED  BY <3>1, <3>2
  <2> QED  BY <2>2, <2>4 DEF OrderCore, SlotsRead
<1>5. ASSUME NEW n \in Sockets, SocketDies(n) PROVE OrderCore'
  BY <1>0, <1>5 DEF SocketDies, OrderCore, OrderTypeOK, SlotsRead
<1>6. ASSUME NEW n \in Sockets, ReadLoopEnds(n) PROVE OrderCore'
  <2> DEFINE a == reads[n]
  <2>1. a \in Accounts /\ n \notin open /\ a # Free
    BY <1>0, <1>6 DEF ReadLoopEnds, OrderTypeOK
  <2>2. Retries(n) => retries[a] + 1 \in 0 .. MaxRetries
    BY <1>0, <1>6, <2>1 DEF ReadLoopEnds, OrderTypeOK
  <2>3. retries' \in [Accounts -> 0 .. MaxRetries]
    BY <1>0, <1>6, <2>2 DEF ReadLoopEnds, OrderTypeOK
  <2>4. OrderTypeOK'
    BY <1>0, <1>6, <2>1, <2>3 DEF ReadLoopEnds, OrderTypeOK
  <2>5. SlotsRead'
    BY <1>0, <1>6, <2>1 DEF ReadLoopEnds, OrderTypeOK, SlotsRead
  <2> QED  BY <2>4, <2>5 DEF OrderCore
<1>7. ASSUME NEW n \in Sockets, Close(n) PROVE OrderCore'
  BY <1>0, <1>7 DEF Close, OrderCore, OrderTypeOK, SlotsRead
<1>8. ASSUME NEW v \in Viewers, AddSseClient(v) \/ RemoveSseClient(v) PROVE OrderCore'
  BY <1>0, <1>8 DEF AddSseClient, RemoveSseClient, Holds, OrderCore, OrderTypeOK, SlotsRead
<1>9. CASE UNCHANGED orderVars
  BY <1>0, <1>9 DEF orderVars, OrderCore, OrderTypeOK, SlotsRead
<1> QED  BY <1>1, <1>2, <1>3, <1>4, <1>5, <1>6, <1>7, <1>8, <1>9 DEF OrderNext

\* No account is watched at first.
LEMMA OrderBegins == OrderInit => OrderCore
<1> SUFFICES ASSUME OrderInit PROVE OrderCore
  OBVIOUS
<1>1. 0 \in 0 .. MaxDials /\ 0 \in 0 .. MaxRetries /\ 0 \in 0 .. MaxFails /\ Free \notin Sockets
      /\ Free # Reserved
  BY OrderAssumption DEF Free, Reserved
<1> QED  BY <1>1 DEF OrderInit, OrderCore, OrderTypeOK, SlotsRead

\* A slot that refuses to be watched is being dialed, or its socket lives, or the read loop
\* that frees it runs: no account is locked out, for any accounts, viewers and sockets and
\* any number of dials at once.
THEOREM SlotsAreAlive == OrderSpec => []SlotIsAlive
<1>1. OrderCore => SlotIsAlive
  BY OrderAssumption DEF OrderCore, SlotsRead, SlotIsAlive
<1> QED  BY <1>1, OrderBegins, OrderStays, PTL DEF OrderSpec

\* The order feed keeps its types: a socket that is open has a read loop of its own.
THEOREM OrderFeedTypes == OrderSpec => []OrderTypeOK
<1>1. OrderCore => OrderTypeOK
  BY DEF OrderCore
<1> QED  BY <1>1, OrderBegins, OrderStays, PTL DEF OrderSpec

-----------------------------------------------------------------------------
(* The trade panel's feed (AngelFeed) *)

\* What a step of the feed does to the union: one of the union's own operations,
\* or nothing.
LEMMA FeedStepsUnion == [FeedNext]_feedVars => [UnionNext]_unionVars
<1> SUFFICES ASSUME [FeedNext]_feedVars PROVE [UnionNext]_unionVars
  OBVIOUS
<1>1. ASSUME NEW S \in SUBSET Tokens, SubscribeItems(S) PROVE UnionNext
  BY <1>1 DEF SubscribeItems, UnionNext
<1>2. ASSUME NEW S \in SUBSET Tokens, NEW given \in BOOLEAN, SetBasketTokensItems(S, given)
      PROVE  UnionNext
  BY <1>2 DEF SetBasketTokensItems, UnionNext
<1>3. ASSUME NEW c \in Listeners, AddClient(c) \/ RemoveClient(c) PROVE UNCHANGED unionVars
  BY <1>3 DEF AddClient, RemoveClient
<1>4. CASE IdleClose
  BY <1>4 DEF IdleClose, UnionNext
<1>5. CASE FeedOpened \/ PeerCloses \/ FeedDown
  BY <1>5 DEF FeedOpened, PeerCloses, FeedDown
<1>6. CASE UNCHANGED feedVars
  BY <1>6 DEF feedVars
<1> QED  BY <1>1, <1>2, <1>3, <1>4, <1>5, <1>6 DEF FeedNext

\* The Node feed's union is changed by the union's operations and nothing else.
THEOREM NodeFeedKeepsUnion == FeedSpec => UnionSpec
<1>1. FeedInit => UnionInit
  BY DEF FeedInit
<1> QED  BY <1>1, FeedStepsUnion, PTL DEF FeedSpec, UnionSpec

\* The sockets, timers and listeners keep their types too.
LEMMA FeedTyped == FeedTypeOK /\ [FeedNext]_feedVars => FeedTypeOK'
<1> SUFFICES ASSUME FeedTypeOK, [FeedNext]_feedVars PROVE FeedTypeOK'
  OBVIOUS
<1>1. UnionTypeOK /\ UnionTypeOK'
  BY UnionTyped, FeedStepsUnion DEF FeedTypeOK, UnionNext
<1>2. ASSUME NEW removed \in SUBSET Tokens, NEW added \in SUBSET Tokens, Push(removed, added)
      PROVE  /\ told' \subseteq Tokens
             /\ conn' \in {"none", "dialing", "open", "closing"}
  BY <1>2 DEF Push, Sent, FeedTypeOK
<1>3. ASSUME NEW S \in SUBSET Tokens, SubscribeItems(S) PROVE FeedTypeOK'
  <2>1. ChainLeaves(S) \in SUBSET Tokens /\ tokens' \in SUBSET Tokens
    BY <1>1 DEF ChainLeaves, UnionTypeOK
  <2>2. told' \subseteq Tokens /\ conn' \in {"none", "dialing", "open", "closing"}
    BY <1>2, <1>3, <2>1 DEF SubscribeItems
  <2> QED  BY <1>1, <1>3, <2>2 DEF SubscribeItems, FeedTypeOK
<1>4. ASSUME NEW S \in SUBSET Tokens, NEW given \in BOOLEAN, SetBasketTokensItems(S, given)
      PROVE  FeedTypeOK'
  <2>1. BasketLeaves(S) \in SUBSET Tokens /\ tokens' \in SUBSET Tokens
    BY <1>1 DEF BasketLeaves, UnionTypeOK
  <2>2. told' \subseteq Tokens /\ conn' \in {"none", "dialing", "open", "closing"}
    BY <1>2, <1>4, <2>1 DEF SetBasketTokensItems
  <2> QED  BY <1>1, <1>4, <2>2 DEF SetBasketTokensItems, FeedTypeOK
<1>5. ASSUME NEW c \in Listeners, AddClient(c) \/ RemoveClient(c) PROVE FeedTypeOK'
  <2>1. IdleAfter(listeners') \in BOOLEAN
    BY DEF IdleAfter
  <2> QED  BY <1>1, <1>5, <2>1 DEF AddClient, RemoveClient, FeedTypeOK
<1>6. CASE IdleClose
  BY <1>1, <1>6 DEF IdleClose, FeedTypeOK
<1>7. CASE FeedOpened \/ PeerCloses \/ FeedDown
  BY <1>1, <1>7 DEF FeedOpened, PeerCloses, FeedDown, Snapshot, FeedTypeOK, UnionTypeOK
<1>8. CASE UNCHANGED feedVars
  BY <1>1, <1>8 DEF feedVars, socketVars, FeedTypeOK
<1> QED  BY <1>3, <1>4, <1>5, <1>6, <1>7, <1>8 DEF FeedNext

\* The feed's state has its type; the union in it never exceeds MAX_FEED_TOKENS.
THEOREM FeedTypes == FeedSpec => []FeedTypeOK
<1>1. Cardinality({}) = 0 /\ 0 <= Cap
  BY FS_EmptySet, UnionAssumption
<1>2. FeedInit => FeedTypeOK
  BY <1>1 DEF FeedInit, UnionInit, FeedTypeOK, UnionTypeOK
<1> QED  BY <1>2, FeedTyped, PTL DEF FeedSpec

\* A chain or a basket change drops no streamed token that is needed before and
\* after it (subscribeItems, setBasketTokensItems).
THEOREM NeededTokensStay == FeedSpec => NeededStays
BY NodeFeedKeepsUnion, UnionKeepsNeeded, PTL

\* The frames a change sends to an open socket turn the old union into the new one.
LEMMA FramesFollow ==
  ASSUME UnionTypeOK, UpstreamIsUnion, NEW L, NEW S \in SUBSET Tokens, Change(L, S),
         Push(L, tokens' \ (tokens \ L))
  PROVE  UpstreamIsUnion'
<1>1. tokens \ L \subseteq tokens'
  BY ChangeWithin
<1>2. CASE conn = "open"
  <2>1. told = tokens /\ told' = (told \ L) \cup (tokens' \ (tokens \ L))
    BY <1>2 DEF Push, Sent, UpstreamIsUnion
  <2> QED  BY <1>1, <2>1 DEF UpstreamIsUnion
<1>3. CASE conn # "open"
  BY <1>3 DEF Push, UpstreamIsUnion
<1> QED  BY <1>2, <1>3

\* An open socket streams exactly the union, whatever was changed while it was
\* being opened, and after a socket has been lost and dialed again.
THEOREM UpstreamFollowsUnion == FeedSpec => []UpstreamIsUnion
<1>1. FeedInit => UpstreamIsUnion
  BY DEF FeedInit, UpstreamIsUnion
<1>2. FeedTypeOK /\ UpstreamIsUnion /\ [FeedNext]_feedVars => UpstreamIsUnion'
  <2> SUFFICES ASSUME FeedTypeOK, UpstreamIsUnion, [FeedNext]_feedVars PROVE UpstreamIsUnion'
    OBVIOUS
  <2>1. ASSUME NEW S \in SUBSET Tokens, SubscribeItems(S) PROVE UpstreamIsUnion'
    BY <2>1, FramesFollow DEF SubscribeItems, ChainSync, Change, FeedTypeOK
  <2>2. ASSUME NEW S \in SUBSET Tokens, NEW given \in BOOLEAN, SetBasketTokensItems(S, given)
        PROVE  UpstreamIsUnion'
    BY <2>2, FramesFollow DEF SetBasketTokensItems, BasketSync, Change, FeedTypeOK
  <2>3. ASSUME NEW c \in Listeners, AddClient(c) \/ RemoveClient(c) PROVE UpstreamIsUnion'
    BY <2>3 DEF AddClient, RemoveClient, UpstreamIsUnion, unionVars
  <2>4. CASE IdleClose
    BY <2>4 DEF IdleClose, UpstreamIsUnion, unionVars
  <2>5. CASE FeedOpened
    BY <2>5 DEF FeedOpened, Snapshot, UpstreamIsUnion, unionVars
  <2>6. CASE PeerCloses \/ FeedDown
    BY <2>6 DEF PeerCloses, FeedDown, UpstreamIsUnion
  <2>7. CASE UNCHANGED feedVars
    BY <2>7 DEF feedVars, socketVars, unionVars, UpstreamIsUnion
  <2> QED  BY <2>1, <2>2, <2>3, <2>4, <2>5, <2>6, <2>7 DEF FeedNext
<1> QED  BY <1>1, <1>2, FeedTypes, PTL DEF FeedSpec
-----------------------------------------------------------------------------
(* The viewers of an order stream (ZerodhaOrders) *)

\* A poller with viewers has its timer set or a poll under way: it never stops for good.
PollersGoOn == \A p \in Pollers : clients[p] # {} => timer[p] \/ running[p]

\* A viewer was sent what its poller holds, as far as orderHash tells orders apart.
ViewersInStep ==
  \A p \in Pollers : \A v \in clients[p] : HashOf[sent[v]] = HashOf[lastOrders[p]]

\* A viewer has one poller, the registered poller has viewers, and the hash that
\* answers are compared with is that of the orders held.
OrdersCore ==
  /\ OrdersTypeOK
  /\ \A p, q \in Pollers : \A v \in clients[p] : v \in clients[q] => p = q
  /\ registered # None => clients[registered] # {}
  /\ \A p \in Pollers : lastHash[p] # None => lastHash[p] = HashOf[lastOrders[p]]
  /\ PollersGoOn
  /\ ViewersInStep

\* Polling keeps the types and leaves the poller with a poll under way.
LEMMA PollRuns ==
  ASSUME OrdersTypeOK, NEW p \in Pollers, NEW force \in BOOLEAN, Poll(p, force)
  PROVE  /\ running' \in [Pollers -> BOOLEAN] /\ forced' \in [Pollers -> BOOLEAN]
         /\ answer' = answer /\ running'[p]
         /\ \A q \in Pollers : q # p => running'[q] = running[q]
<1>1. CASE running[p]
  BY <1>1 DEF Poll, pollVars, OrdersTypeOK
<1>2. CASE ~running[p]
  BY <1>2 DEF Poll, pollVars, OrdersTypeOK
<1> QED  BY <1>1, <1>2

\* A request that ends, answered or not, leaves the types as they are.
LEMMA EndsTyped ==
  ASSUME OrdersTypeOK, NEW p \in Pollers, Ends(p), Schedule(p, clients[p])
  PROVE  /\ running' \in [Pollers -> BOOLEAN] /\ forced' \in [Pollers -> BOOLEAN]
         /\ answer' \in [Pollers -> Books \cup {None}]
         /\ timer' \in [Pollers -> BOOLEAN] /\ registered' \in Pollers \cup {None}
         /\ timer'[p] = (clients[p] # {})
         /\ \A q \in Pollers : q # p => running'[q] = running[q] /\ timer'[q] = timer[q]
         /\ registered' \in {registered, None}
BY DEF Ends, Schedule, OrdersTypeOK

LEMMA OrdersCoreStays == OrdersCore /\ [OrdersNext]_ordersVars => OrdersCore'
<1> SUFFICES ASSUME OrdersCore, [OrdersNext]_ordersVars
             PROVE  OrdersCore'
  OBVIOUS
<1> USE OrdersAssumption
<1>1. ASSUME NEW v \in Streams, NEW p \in Pollers, Open(v, p)
      PROVE  OrdersCore'
  <2>1. /\ \A q \in Pollers : v \notin clients[q]
        /\ clients' = [clients EXCEPT ![p] = @ \cup {v}]
        /\ registered' = p /\ p # None
        /\ UNCHANGED <<bookVars, timer, pollFailures>>
    BY <1>1 DEF Open, Watching
  <2>2. PICK force \in BOOLEAN : Poll(p, force)
    BY <1>1 DEF Open
  <2>3. CASE registered = None
    <3>1. /\ clients[p] = {}
          /\ sent' = [sent EXCEPT ![v] = NoOrders]
          /\ lastHash' = [lastHash EXCEPT ![p] = None]
          /\ lastOrders' = [lastOrders EXCEPT ![p] = NoOrders]
      BY <1>1, <2>3 DEF Open, Spare
    <3>2. OrdersTypeOK'
      BY <2>1, <2>2, <3>1, PollRuns DEF OrdersCore, OrdersTypeOK, bookVars
    <3>3. PollersGoOn'
      BY <2>1, <2>2, PollRuns DEF OrdersCore, OrdersTypeOK, PollersGoOn
    <3>4. ViewersInStep'
      BY <2>1, <3>1 DEF OrdersCore, OrdersTypeOK, ViewersInStep
    <3> QED  BY <2>1, <3>1, <3>2, <3>3, <3>4 DEF OrdersCore, OrdersTypeOK
  <2>4. CASE registered # None
    <3>1. sent' = [sent EXCEPT ![v] = lastOrders[p]] /\ UNCHANGED lastVars
      BY <1>1, <2>4 DEF Open, Cached
    <3>2. OrdersTypeOK'
      BY <2>1, <2>2, <3>1, PollRuns DEF OrdersCore, OrdersTypeOK, bookVars, lastVars
    <3>3. PollersGoOn'
      BY <2>1, <2>2, PollRuns DEF OrdersCore, OrdersTypeOK, PollersGoOn
    <3>4. ViewersInStep'
      BY <2>1, <3>1 DEF OrdersCore, OrdersTypeOK, ViewersInStep, lastVars
    <3> QED  BY <2>1, <3>1, <3>2, <3>3, <3>4 DEF OrdersCore, OrdersTypeOK, lastVars
  <2> QED  BY <2>3, <2>4
<1>2. ASSUME NEW v \in Streams, NEW p \in Pollers, Leave(v, p)
      PROVE  OrdersCore'
  <2>1. /\ clients' = [clients EXCEPT ![p] = @ \ {v}]
        /\ UNCHANGED <<bookVars, pollVars, lastVars, sent, pollFailures>>
    BY <1>2 DEF Leave
  <2>2. /\ timer' \in [Pollers -> BOOLEAN]
        /\ clients'[p] = {} => registered' = None
        /\ clients'[p] # {} => registered' = registered
        /\ \A q \in Pollers : timer'[q] = timer[q] \/ clients'[q] = {}
    <3>1. CASE clients'[p] = {}
      <4>1. timer' = [timer EXCEPT ![p] = FALSE] /\ registered' = None
        BY <1>2, <3>1, Zenon DEF Leave, Schedule
      <4> QED  BY <3>1, <4>1 DEF OrdersCore, OrdersTypeOK
    <3>2. CASE clients'[p] # {}
      <4>1. UNCHANGED <<timer, registered>>
        BY <1>2, <3>2, Zenon DEF Leave
      <4> QED  BY <3>2, <4>1 DEF OrdersCore, OrdersTypeOK
    <3> QED  BY <3>1, <3>2
  <2>3. OrdersTypeOK'
    BY <2>1, <2>2 DEF OrdersCore, OrdersTypeOK, bookVars, pollVars, lastVars
  <2>4. PollersGoOn'
    BY <2>1, <2>2 DEF OrdersCore, OrdersTypeOK, PollersGoOn, pollVars
  <2>5. ViewersInStep'
    BY <2>1 DEF OrdersCore, OrdersTypeOK, ViewersInStep, lastVars
  <2> QED  BY <2>1, <2>2, <2>3, <2>4, <2>5 DEF OrdersCore, OrdersTypeOK, lastVars
<1>3. ASSUME NEW p \in Pollers, Fires(p)
      PROVE  OrdersCore'
  <2>1. /\ timer' = [timer EXCEPT ![p] = FALSE] /\ Poll(p, FALSE)
        /\ UNCHANGED <<bookVars, registered, clients, lastVars, sent, pollFailures>>
    BY <1>3 DEF Fires
  <2>2. OrdersTypeOK'
    BY <2>1, PollRuns DEF OrdersCore, OrdersTypeOK, bookVars, lastVars
  <2>3. PollersGoOn'
    BY <2>1, PollRuns DEF OrdersCore, OrdersTypeOK, PollersGoOn
  <2>4. ViewersInStep'
    BY <2>1 DEF OrdersCore, ViewersInStep, lastVars
  <2> QED  BY <2>1, <2>2, <2>3, <2>4 DEF OrdersCore, lastVars
<1>4. ASSUME NEW p \in Pollers, Reads(p)
      PROVE  OrdersCore'
  BY <1>4 DEF Reads, OrdersCore, OrdersTypeOK, PollersGoOn, ViewersInStep, bookVars, lastVars
<1>5. ASSUME NEW p \in Pollers, PollAnswered(p)
      PROVE  OrdersCore'
  <2>1. /\ answer[p] \in Books
        /\ lastHash' = [lastHash EXCEPT ![p] = HashOf[answer[p]]]
        /\ lastOrders' = [lastOrders EXCEPT ![p] = answer[p]]
        /\ sent' = [v \in Streams |->
             IF Changed(p) /\ v \in clients[p] THEN answer[p] ELSE sent[v]]
        /\ Ends(p) /\ Schedule(p, clients[p])
        /\ UNCHANGED <<bookVars, clients, pollFailures>>
    BY <1>5 DEF PollAnswered, Kept, OrdersCore, OrdersTypeOK
  <2>2. OrdersTypeOK'
    BY <2>1, EndsTyped DEF OrdersCore, OrdersTypeOK, bookVars
  <2>3. PollersGoOn'
    BY <2>1, EndsTyped DEF OrdersCore, OrdersTypeOK, PollersGoOn
  <2>4. ~Changed(p) => HashOf[answer[p]] = HashOf[lastOrders[p]]
    BY <2>1 DEF Changed, OrdersCore
  <2>5. ASSUME NEW q \in Pollers, NEW v \in clients[q]
        PROVE  HashOf[sent'[v]] = HashOf[lastOrders'[q]]
    <3>1. v \in Streams /\ (v \in clients[p] <=> q = p)
          /\ HashOf[sent[v]] = HashOf[lastOrders[q]]
      BY <2>5 DEF OrdersCore, OrdersTypeOK, ViewersInStep
    <3>2. CASE q = p
      BY <2>1, <2>4, <3>1, <3>2 DEF OrdersCore, OrdersTypeOK
    <3>3. CASE q # p
      BY <2>1, <3>1, <3>3 DEF OrdersCore, OrdersTypeOK
    <3> QED  BY <3>2, <3>3
  <2>6. ViewersInStep'
    BY <2>1, <2>5 DEF ViewersInStep
  <2>7. \A q \in Pollers : lastHash'[q] # None => lastHash'[q] = HashOf[lastOrders'[q]]
    BY <2>1 DEF OrdersCore, OrdersTypeOK
  <2>8. registered' # None => clients'[registered'] # {}
    BY <2>1, EndsTyped DEF OrdersCore
  <2> QED  BY <2>1, <2>2, <2>3, <2>6, <2>7, <2>8 DEF OrdersCore
<1>6. ASSUME NEW p \in Pollers, Fails(p)
      PROVE  OrdersCore'
  <2>1. /\ pollFailures < MaxPollFails /\ pollFailures' = pollFailures + 1
        /\ Ends(p) /\ Schedule(p, clients[p])
        /\ UNCHANGED <<bookVars, clients, lastVars, sent>>
    BY <1>6 DEF Fails
  <2>2. OrdersTypeOK'
    BY <2>1, EndsTyped DEF OrdersCore, OrdersTypeOK, bookVars, lastVars
  <2>3. PollersGoOn'
    BY <2>1, EndsTyped DEF OrdersCore, PollersGoOn
  <2>4. ViewersInStep'
    BY <2>1 DEF OrdersCore, ViewersInStep, lastVars
  <2>5. registered' # None => clients'[registered'] # {}
    BY <2>1, EndsTyped DEF OrdersCore
  <2> QED  BY <2>1, <2>2, <2>3, <2>4, <2>5 DEF OrdersCore, lastVars
<1>7. ASSUME Refresh
      PROVE  OrdersCore'
  <2>1. /\ registered \in Pollers /\ Poll(registered, TRUE)
        /\ UNCHANGED <<bookVars, registered, clients, timer, lastVars, sent, pollFailures>>
    BY <1>7 DEF Refresh, OrdersCore, OrdersTypeOK
  <2>2. OrdersTypeOK'
    BY <2>1, PollRuns DEF OrdersCore, OrdersTypeOK, bookVars, lastVars
  <2>3. PollersGoOn'
    BY <2>1, PollRuns DEF OrdersCore, PollersGoOn
  <2>4. ViewersInStep'
    BY <2>1 DEF OrdersCore, ViewersInStep, lastVars
  <2> QED  BY <2>1, <2>2, <2>3, <2>4 DEF OrdersCore, lastVars
<1>8. ASSUME BookChanges
      PROVE  OrdersCore'
  BY <1>8 DEF BookChanges, OrdersCore, OrdersTypeOK, PollersGoOn, ViewersInStep,
              pollVars, lastVars
<1>9. ASSUME UNCHANGED ordersVars
      PROVE  OrdersCore'
  BY <1>9 DEF ordersVars, pollVars, lastVars, bookVars, OrdersCore, OrdersTypeOK,
              PollersGoOn, ViewersInStep
<1> QED  BY <1>1, <1>2, <1>3, <1>4, <1>5, <1>6, <1>7, <1>8, <1>9 DEF OrdersNext

\* The account's poller never stops while someone watches, and each viewer's stream
\* has told it what the poller holds: when it joined a poll under way or a poller that
\* reports changes only, and when another poller was registered in place of its own.
\* With the timers' fairness that makes ViewersCatchUp, which the runs check.
THEOREM ViewersStayInStep == OrdersSpec => [](OrdersTypeOK /\ PollersGoOn /\ ViewersInStep)
<1>1. OrdersInit => OrdersCore
  BY OrdersAssumption
     DEF OrdersInit, OrdersCore, OrdersTypeOK, PollersGoOn, ViewersInStep
<1>2. OrdersCore => OrdersTypeOK /\ PollersGoOn /\ ViewersInStep
  BY DEF OrdersCore
<1> QED  BY <1>1, <1>2, OrdersCoreStays, PTL DEF OrdersSpec
=============================================================================
