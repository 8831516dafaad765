---------------------------- MODULE FeedHubProofs ----------------------------
(***************************************************************************)
(* Proofs about FeedHub, for any brokers, instruments, modes and bounds,   *)
(* and any finite set of clients.                                          *)
(*                                                                         *)
(* TypeOK and Ledger (the agreement of counts and upstream subscriptions)  *)
(* survive every step, those of the REST counting routes included.  That a *)
(* held instrument is counted (HeldIsCounted) survives every step but the  *)
(* REST ones; ModeCoversHolders and HeldStaysSubscribed rest on it.        *)
(***************************************************************************)
EXTENDS FeedHub, FiniteSetTheorems, TLAPS

AnyStep == HubNext \/ RestCountStep

\* A stopped broker (no adapter in the map) has no subscriptions.
IdleIsEmpty == \A b \in Brokers, i \in Insts : adapter[b] = "none" => subs[b][i] = 0

Ledger == TypeOK /\ IdleIsEmpty /\ SubscribedIsCounted /\ CountedIsSubscribed

-----------------------------------------------------------------------------
(* What the handlers write, as far as the invariants need to know. *)

\* Let-go counts as the handlers pass them to clientUnsubscribe.
LetGo == [Brokers -> [Insts -> Nat]]

\* The let-go tables of all callers have the right type (clientUnsubscribe).
LEMMA LetGoTyped ==
  /\ \A b \in Brokers, req \in Requests : From(b, req) \in LetGo
  /\ \A b \in Brokers, S \in SUBSET Insts : From(b, Once(S)) \in LetGo
  /\ \A c \in Clients : [b \in Brokers |-> Once(HeldBy(c, b))] \in LetGo
<1> USE HubAssumption
<1>1. \A b \in Brokers, req \in [Insts -> Nat] : From(b, req) \in LetGo
  BY DEF From, LetGo, Nothing
<1>2. Requests \subseteq [Insts -> Nat]
  BY DEF Requests
<1>3. \A S : Once(S) \in [Insts -> Nat]
  BY DEF Once
<1> QED  BY <1>1, <1>2, <1>3 DEF LetGo

\* clientSubscribe keeps the types of the counts and of the modes.
LEMMA SubscribeTyped ==
  ASSUME TypeOK, NEW b \in Brokers, NEW req \in Requests, NEW mode \in Modes,
         ClientSubscribe(b, req, mode)
  PROVE  /\ refCounts' \in [Brokers -> [Insts -> Nat]]
         /\ subs' \in [Brokers -> [Insts -> 0..3]]
         /\ adapter' = adapter
         /\ severed' = severed
<1> USE HubAssumption
<1>1. \A i \in Insts : req[i] \in Nat
  BY DEF Requests
<1>2. [i \in Insts |-> refCounts[b][i] + req[i]] \in [Insts -> Nat]
  BY <1>1 DEF TypeOK
<1>3. TrackSubs(subs[b], Named(req), mode) \in [Insts -> 0..3]
  BY DEF TrackSubs, Higher, TypeOK
<1> QED  BY <1>2, <1>3 DEF ClientSubscribe, TypeOK

\* clientUnsubscribe keeps them too: what is not released stays positive.
LEMMA UnsubscribeTyped ==
  ASSUME TypeOK, NEW rel \in LetGo, ClientUnsubscribe(rel)
  PROVE  /\ refCounts' \in [Brokers -> [Insts -> Nat]]
         /\ subs' \in [Brokers -> [Insts -> 0..3]]
         /\ adapter' = adapter
         /\ severed' \subseteq severed
<1>1. \A b \in Brokers, i \in Insts :
        i \notin Released(rel, b) => refCounts[b][i] - rel[b][i] \in Nat
  <2> SUFFICES ASSUME NEW b \in Brokers, NEW i \in Insts, i \notin Released(rel, b)
               PROVE  refCounts[b][i] - rel[b][i] \in Nat
    OBVIOUS
  <2>1. rel[b][i] \in Nat /\ refCounts[b][i] \in Nat
    BY DEF LetGo, TypeOK
  <2> QED  BY <2>1 DEF Released, Named
<1>2. refCounts' \in [Brokers -> [Insts -> Nat]]
  BY <1>1 DEF ClientUnsubscribe
<1>3. \A b \in Brokers : \A S : DropSubs(subs[b], S) \in [Insts -> 0..3]
  BY DEF DropSubs, TypeOK
<1>4. subs' \in [Brokers -> [Insts -> 0..3]]
  BY <1>3 DEF ClientUnsubscribe, TypeOK
<1> QED  BY <1>2, <1>4 DEF ClientUnsubscribe

\* Starting any brokers keeps the types and changes no count.
LEMMA StartTyped ==
  ASSUME TypeOK, NEW B \in SUBSET Brokers, StartBrokers(B)
  PROVE  /\ adapter' \in [Brokers -> {"none", "running", "stopped"}]
         /\ subs' \in [Brokers -> [Insts -> 0..3]]
         /\ severed' \subseteq Pairs
<1>1. Nothing \in [Insts -> 0..3]
  BY DEF Nothing
<1>2. \A b \in B : Creatable(b) \in BOOLEAN
  BY DEF Creatable
<1> QED  BY <1>1, <1>2 DEF StartBrokers, Carried, CountedOf, Pairs, TypeOK

\* Every step of the hub, with or without the REST counting routes, keeps the
\* state well typed.
LEMMA TypeStep == TypeOK /\ [AnyStep]_hubVars => TypeOK'
<1> SUFFICES ASSUME TypeOK, [AnyStep]_hubVars PROVE TypeOK'
  OBVIOUS
<1> USE HubAssumption
<1>1. ASSUME NEW c \in Clients, Connect(c) PROVE TypeOK'
  BY <1>1 DEF Connect, TypeOK
<1>2. ASSUME NEW c \in Clients, WsClose(c) PROVE TypeOK'
  BY <1>2, LetGoTyped, UnsubscribeTyped DEF WsClose, TypeOK
<1>3. ASSUME NEW c \in Clients, NEW b \in Brokers, NEW req \in Requests,
             NEW mode \in Modes, WsSubscribe(c, b, req, mode)
      PROVE  TypeOK'
  <2>1. {b} \X Named(req) \subseteq Pairs
    BY DEF Named, Pairs
  <2>2. \A n \in 0..3 : Higher(n, mode) \in 0..3
    BY DEF Higher
  <2>3. keys' \in [Clients -> SUBSET Pairs]
    BY <1>3, <2>1 DEF WsSubscribe, TypeOK
  <2>4. asked' \in [Clients -> [Pairs -> 0..3]]
    BY <1>3, <2>2 DEF WsSubscribe, TypeOK
  <2> QED  BY <1>3, <2>3, <2>4, SubscribeTyped DEF WsSubscribe, TypeOK
<1>4. ASSUME NEW c \in Clients, NEW b \in Brokers, NEW S \in SUBSET Insts,
             WsUnsubscribe(c, b, S)
      PROVE  TypeOK'
  <2>1. {p[2] : p \in Dropped(c, b, S)} \in SUBSET Insts
    BY DEF Dropped, TypeOK, Pairs
  <2>2. ClientUnsubscribe(From(b, Once({p[2] : p \in Dropped(c, b, S)})))
    BY <1>4 DEF WsUnsubscribe
  <2>3. asked' \in [Clients -> [Pairs -> 0..3]]
    BY <1>4 DEF WsUnsubscribe, TypeOK
  <2>4. keys' \in [Clients -> SUBSET Pairs]
    BY <1>4 DEF WsUnsubscribe, TypeOK
  <2> QED  BY <1>4, <2>1, <2>2, <2>3, <2>4, LetGoTyped, UnsubscribeTyped
           DEF WsUnsubscribe, TypeOK
<1>5. ASSUME NEW b \in Brokers, SetFeedAccount(b) \/ RestStart(b) PROVE TypeOK'
  <2>1. StartBrokers({b}) /\ feed' \subseteq Brokers /\ session' = session
    BY <1>5 DEF SetFeedAccount, RestStart, TypeOK
  <2>2. /\ adapter' \in [Brokers -> {"none", "running", "stopped"}]
        /\ subs' \in [Brokers -> [Insts -> 0..3]]
        /\ severed' \subseteq Pairs
    BY <2>1, StartTyped
  <2> QED  BY <2>1, <2>2 DEF StartBrokers, TypeOK
<1>6. CASE RestStartAll
  BY <1>6, StartTyped DEF RestStartAll, StartBrokers, TypeOK
<1>7. ASSUME NEW b \in SessionBrokers, StoreSession(b) \/ DeleteSession(b) PROVE TypeOK'
  BY <1>7 DEF StoreSession, DeleteSession, TypeOK
<1>8. ASSUME NEW b \in Brokers, RestStop(b) PROVE TypeOK'
  <2>1. Nothing \in [Insts -> 0..3]
    BY DEF Nothing
  <2> QED  BY <1>8, <2>1 DEF RestStop, CountedOf, TypeOK
<1>9. ASSUME NEW b \in Brokers, NEW req \in Requests, NEW mode \in Modes,
             RestSubscribe(b, req, mode)
      PROVE  TypeOK'
  BY <1>9, SubscribeTyped DEF RestSubscribe, TypeOK
<1>10. ASSUME NEW b \in Brokers, NEW req \in Requests, RestUnsubscribe(b, req)
       PROVE  TypeOK'
  BY <1>10, LetGoTyped, UnsubscribeTyped DEF RestUnsubscribe, TypeOK
<1>11. CASE UNCHANGED hubVars
  BY <1>11 DEF hubVars, TypeOK
<1> QED  BY <1>1, <1>2, <1>3, <1>4, <1>5, <1>6, <1>7, <1>8, <1>9, <1>10, <1>11
         DEF AnyStep, HubNext, ClientStep, LoginStep, RestCountStep

\* The initial state is well typed.
LEMMA TypeInit == HubInit => TypeOK
  BY HubAssumption DEF HubInit, TypeOK, Nothing

\* In every reachable state of the hub, REST callers included, the state is
\* well typed: no count of refCounts ever becomes negative and no recorded mode
\* leaves 1..3.
THEOREM Typed == RestSpec => []TypeOK
  BY TypeInit, TypeStep, PTL DEF RestSpec, AnyStep

\* The same without the REST counting routes.
THEOREM HubTyped == HubSpec => []TypeOK
<1>1. [HubNext]_hubVars => [AnyStep]_hubVars
  BY DEF AnyStep
<1> QED  BY <1>1, TypeInit, TypeStep, PTL DEF HubSpec

-----------------------------------------------------------------------------
(* The ledger: counts and upstream subscriptions agree. *)

LedgerBody == IdleIsEmpty /\ SubscribedIsCounted /\ CountedIsSubscribed

\* clientSubscribe keeps the ledger: what it records it also counts.
LEMMA SubscribeLedger ==
  ASSUME Ledger, NEW b \in Brokers, NEW req \in Requests, NEW mode \in Modes,
         ClientSubscribe(b, req, mode)
  PROVE  LedgerBody'
<1> USE HubAssumption
<1>1. \A i \in Insts : req[i] \in Nat /\ refCounts[b][i] \in Nat
                       /\ subs[b][i] \in 0..3 /\ mode \in 1..3
  BY DEF Requests, Ledger, TypeOK
<1>2. \A i \in Insts :
        /\ refCounts'[b][i] = refCounts[b][i] + req[i]
        /\ subs'[b][i] = IF req[i] > 0 THEN Higher(subs[b][i], mode) ELSE subs[b][i]
  BY DEF ClientSubscribe, TrackSubs, Named, Ledger, TypeOK
<1>3. \A x \in Brokers \ {b} : refCounts'[x] = refCounts[x] /\ subs'[x] = subs[x]
  BY DEF ClientSubscribe, Ledger, TypeOK
<1>4. adapter' = adapter /\ severed' = severed /\ adapter[b] # "none"
  BY DEF ClientSubscribe
<1>5. IdleIsEmpty'
  BY <1>3, <1>4 DEF Ledger, IdleIsEmpty
<1>6. SubscribedIsCounted'
  BY <1>1, <1>2, <1>3 DEF Ledger, SubscribedIsCounted, Higher
<1>7. CountedIsSubscribed'
  BY <1>1, <1>2, <1>3, <1>4 DEF Ledger, CountedIsSubscribed, Higher
<1> QED  BY <1>5, <1>6, <1>7 DEF LedgerBody

\* clientUnsubscribe keeps it: the same instruments lose count and subscription.
LEMMA UnsubscribeLedger ==
  ASSUME Ledger, NEW rel \in LetGo, ClientUnsubscribe(rel)
  PROVE  LedgerBody'
<1>1. \A b \in Brokers, i \in Insts :
        /\ i \in Released(rel, b) => /\ refCounts'[b][i] = 0
                                     /\ subs'[b][i] = 0
        /\ i \notin Released(rel, b) =>
             /\ refCounts'[b][i] = refCounts[b][i] - rel[b][i]
             /\ subs'[b][i] = subs[b][i]
             /\ rel[b][i] > 0 => refCounts'[b][i] > 0
             /\ <<b, i>> \in severed => <<b, i>> \in severed'
  <2> SUFFICES ASSUME NEW b \in Brokers, NEW i \in Insts
               PROVE  /\ i \in Released(rel, b) => /\ refCounts'[b][i] = 0
                                                   /\ subs'[b][i] = 0
                      /\ i \notin Released(rel, b) =>
                           /\ refCounts'[b][i] = refCounts[b][i] - rel[b][i]
                           /\ subs'[b][i] = subs[b][i]
                           /\ rel[b][i] > 0 => refCounts'[b][i] > 0
                           /\ <<b, i>> \in severed => <<b, i>> \in severed'
    OBVIOUS
  <2>1. rel[b][i] \in Nat /\ refCounts[b][i] \in Nat
    BY DEF LetGo, Ledger, TypeOK
  <2>2. adapter[b] = "none" => subs[b][i] = 0
    BY DEF Ledger, IdleIsEmpty
  <2>3. subs'[b][i] = IF adapter[b] = "none" \/ i \notin Released(rel, b)
                        THEN subs[b][i] ELSE 0
    BY DEF ClientUnsubscribe, DropSubs, Ledger, TypeOK
  <2>4. refCounts'[b][i] = IF i \in Released(rel, b) THEN 0
                             ELSE refCounts[b][i] - rel[b][i]
    BY DEF ClientUnsubscribe
  <2>5. i \notin Released(rel, b) /\ rel[b][i] > 0 => refCounts[b][i] - rel[b][i] > 0
    BY <2>1 DEF Released, Named
  <2>6. <<b, i>> \in severed /\ i \notin Released(rel, b) => <<b, i>> \in severed'
    BY DEF ClientUnsubscribe
  <2> QED  BY <2>2, <2>3, <2>4, <2>5, <2>6
<1>2. adapter' = adapter
  BY DEF ClientUnsubscribe
<1>3. \A b \in Brokers, i \in Insts : rel[b][i] \in Nat /\ refCounts[b][i] \in Nat
  BY DEF LetGo, Ledger, TypeOK
<1>4. IdleIsEmpty'
  BY <1>1, <1>2 DEF Ledger, IdleIsEmpty
<1>5. SubscribedIsCounted'
  <2> SUFFICES ASSUME NEW b \in Brokers, NEW i \in Insts, subs'[b][i] > 0
               PROVE  refCounts'[b][i] > 0
    BY DEF SubscribedIsCounted
  <2>0. subs'[b][i] # 0
    OBVIOUS
  <2>1. i \notin Released(rel, b)
    BY <1>1, <2>0
  <2>2. refCounts[b][i] > 0
    BY <1>1, <2>1 DEF Ledger, SubscribedIsCounted
  <2>3. CASE rel[b][i] > 0
    BY <1>1, <2>1, <2>3
  <2>4. CASE ~(rel[b][i] > 0)
    <3>1. rel[b][i] = 0
      BY <1>3, <2>4
    <3>2. refCounts[b][i] \in Nat /\ refCounts'[b][i] = refCounts[b][i] - rel[b][i]
      BY <1>1, <1>3, <2>1
    <3> QED  BY <2>2, <3>1, <3>2
  <2> QED  BY <2>3, <2>4
<1>6. CountedIsSubscribed'
  <2> SUFFICES ASSUME NEW b \in Brokers, NEW i \in Insts,
                      refCounts'[b][i] > 0, <<b, i>> \notin severed'
               PROVE  adapter'[b] # "none" /\ subs'[b][i] > 0
    BY DEF CountedIsSubscribed
  <2>1. i \notin Released(rel, b) /\ <<b, i>> \notin severed
    BY <1>1
  <2>2. refCounts[b][i] > 0
    BY <1>1, <1>3, <2>1
  <2> QED  BY <1>1, <1>2, <2>1, <2>2 DEF Ledger, CountedIsSubscribed
<1> QED  BY <1>4, <1>5, <1>6 DEF LedgerBody

\* A (re)start keeps it: a new adapter carries the old subscriptions, and what a
\* failed one loses is recorded as severed.
LEMMA StartLedger ==
  ASSUME Ledger, NEW B \in SUBSET Brokers, StartBrokers(B)
  PROVE  LedgerBody'
<1> DEFINE failed == {b \in B : ~Creatable(b)}
<1>1. \A b \in Brokers, i \in Insts :
        /\ b \in failed => subs'[b][i] = 0
        /\ b \notin failed => subs'[b][i] = subs[b][i]
        /\ b \notin failed => adapter'[b] \in {adapter[b], "running"}
        /\ b \in failed /\ refCounts[b][i] > 0 => <<b, i>> \in severed'
  BY DEF StartBrokers, Carried, Nothing, CountedOf, Pairs
<1>2. refCounts' = refCounts /\ severed \subseteq severed'
  BY DEF StartBrokers
<1>3. \A b \in Brokers : adapter'[b] = "none" => adapter[b] = "none" \/ b \in failed
  BY DEF StartBrokers
<1>4. IdleIsEmpty'
  BY <1>1, <1>3 DEF Ledger, IdleIsEmpty
<1>5. SubscribedIsCounted'
  <2> SUFFICES ASSUME NEW b \in Brokers, NEW i \in Insts, subs'[b][i] > 0
               PROVE  refCounts'[b][i] > 0
    BY DEF SubscribedIsCounted
  <2>0. subs'[b][i] # 0
    OBVIOUS
  <2>1. subs[b][i] > 0
    BY <1>1, <2>0
  <2> QED  BY <1>2, <2>1 DEF Ledger, SubscribedIsCounted
<1>6. CountedIsSubscribed'
  <2> SUFFICES ASSUME NEW b \in Brokers, NEW i \in Insts,
                      refCounts'[b][i] > 0, <<b, i>> \notin severed'
               PROVE  adapter'[b] # "none" /\ subs'[b][i] > 0
    BY DEF CountedIsSubscribed
  <2>1. b \notin failed /\ <<b, i>> \notin severed /\ refCounts[b][i] > 0
    BY <1>1, <1>2
  <2>2. adapter[b] # "none" /\ subs[b][i] > 0
    BY <2>1 DEF Ledger, CountedIsSubscribed
  <2> QED  BY <1>1, <2>1, <2>2
<1> QED  BY <1>4, <1>5, <1>6 DEF LedgerBody

\* So does a stop, for the same reason.
LEMMA StopLedger ==
  ASSUME Ledger, NEW b \in Brokers, RestStop(b)
  PROVE  LedgerBody'
<1>1. \A x \in Brokers, i \in Insts :
        /\ x = b => subs'[x][i] = 0
        /\ x # b => subs'[x][i] = subs[x][i] /\ adapter'[x] = adapter[x]
        /\ x = b /\ refCounts[x][i] > 0 => <<x, i>> \in severed'
  BY DEF RestStop, Nothing, CountedOf, Pairs, Ledger, TypeOK
<1>2. refCounts' = refCounts /\ severed \subseteq severed'
  BY DEF RestStop
<1>3. IdleIsEmpty'
  BY <1>1 DEF Ledger, IdleIsEmpty
<1>4. SubscribedIsCounted'
  <2> SUFFICES ASSUME NEW x \in Brokers, NEW i \in Insts, subs'[x][i] > 0
               PROVE  refCounts'[x][i] > 0
    BY DEF SubscribedIsCounted
  <2>0. subs'[x][i] # 0
    OBVIOUS
  <2>1. subs[x][i] > 0
    BY <1>1, <2>0
  <2> QED  BY <1>2, <2>1 DEF Ledger, SubscribedIsCounted
<1>5. CountedIsSubscribed'
  <2> SUFFICES ASSUME NEW x \in Brokers, NEW i \in Insts,
                      refCounts'[x][i] > 0, <<x, i>> \notin severed'
               PROVE  adapter'[x] # "none" /\ subs'[x][i] > 0
    BY DEF CountedIsSubscribed
  <2>1. x # b /\ <<x, i>> \notin severed /\ refCounts[x][i] > 0
    BY <1>1, <1>2
  <2>2. adapter[x] # "none" /\ subs[x][i] > 0
    BY <2>1 DEF Ledger, CountedIsSubscribed
  <2> QED  BY <1>1, <2>1, <2>2
<1> QED  BY <1>3, <1>4, <1>5 DEF LedgerBody

\* Every step of the hub, REST counting routes included, keeps the ledger.
LEMMA LedgerStep == Ledger /\ [AnyStep]_hubVars => Ledger'
<1> SUFFICES ASSUME Ledger, [AnyStep]_hubVars PROVE LedgerBody'
  BY TypeStep DEF Ledger, LedgerBody
<1>0. ASSUME UNCHANGED <<adapter, subs, refCounts, severed>> PROVE LedgerBody'
  BY <1>0 DEF Ledger, LedgerBody, IdleIsEmpty, SubscribedIsCounted, CountedIsSubscribed
<1>1. ASSUME NEW c \in Clients, Connect(c) PROVE LedgerBody'
  BY <1>0, <1>1 DEF Connect
<1>2. ASSUME NEW c \in Clients, WsClose(c) PROVE LedgerBody'
  BY <1>2, LetGoTyped, UnsubscribeLedger DEF WsClose
<1>3. ASSUME NEW c \in Clients, NEW b \in Brokers, NEW req \in Requests,
             NEW mode \in Modes, WsSubscribe(c, b, req, mode)
      PROVE  LedgerBody'
  BY <1>3, SubscribeLedger DEF WsSubscribe
<1>4. ASSUME NEW c \in Clients, NEW b \in Brokers, NEW S \in SUBSET Insts,
             WsUnsubscribe(c, b, S)
      PROVE  LedgerBody'
  <2>1. {p[2] : p \in Dropped(c, b, S)} \in SUBSET Insts
    BY DEF Dropped, Ledger, TypeOK, Pairs
  <2> QED  BY <1>4, <2>1, LetGoTyped, UnsubscribeLedger DEF WsUnsubscribe
<1>5. ASSUME NEW b \in Brokers, SetFeedAccount(b) \/ RestStart(b) PROVE LedgerBody'
  BY <1>5, StartLedger DEF SetFeedAccount, RestStart
<1>6. CASE RestStartAll
  BY <1>6, StartLedger DEF RestStartAll, Ledger, TypeOK
<1>7. ASSUME NEW b \in SessionBrokers, StoreSession(b) \/ DeleteSession(b)
      PROVE  LedgerBody'
  BY <1>0, <1>7 DEF StoreSession, DeleteSession
<1>8. ASSUME NEW b \in Brokers, RestStop(b) PROVE LedgerBody'
  BY <1>8, StopLedger
<1>9. ASSUME NEW b \in Brokers, NEW req \in Requests, NEW mode \in Modes,
             RestSubscribe(b, req, mode)
      PROVE  LedgerBody'
  BY <1>9, SubscribeLedger DEF RestSubscribe
<1>10. ASSUME NEW b \in Brokers, NEW req \in Requests, RestUnsubscribe(b, req)
       PROVE  LedgerBody'
  BY <1>10, LetGoTyped, UnsubscribeLedger DEF RestUnsubscribe
<1>11. CASE UNCHANGED hubVars
  BY <1>0, <1>11 DEF hubVars
<1> QED  BY <1>1, <1>2, <1>3, <1>4, <1>5, <1>6, <1>7, <1>8, <1>9, <1>10, <1>11
         DEF AnyStep, HubNext, ClientStep, LoginStep, RestCountStep

\* Initially nothing is counted and nothing subscribed.
LEMMA LedgerInit == HubInit => Ledger
  BY TypeInit DEF HubInit, Ledger, IdleIsEmpty, SubscribedIsCounted,
     CountedIsSubscribed, Nothing

\* No adapter is ever subscribed to an instrument nobody is counted for: the
\* release in clientUnsubscribe, the carry-over in startBroker and the clearing
\* in stop() leave no orphan upstream subscription, whoever calls them.
THEOREM NoOrphans == RestSpec => []SubscribedIsCounted
<1>1. Ledger => SubscribedIsCounted
  BY DEF Ledger
<1> QED  BY <1>1, LedgerInit, LedgerStep, PTL DEF RestSpec, AnyStep

\* A counted instrument without an upstream subscription has lived through a
\* stop or a failed login: nothing else takes a subscription away early.
THEOREM GapsAreSevered == RestSpec => []CountedIsSubscribed
<1>1. Ledger => CountedIsSubscribed
  BY DEF Ledger
<1> QED  BY <1>1, LedgerInit, LedgerStep, PTL DEF RestSpec, AnyStep

-----------------------------------------------------------------------------
(* Held instruments are counted, while only clients let go of them. *)

\* Holder sets are finite: every socket is one of finitely many clients.
LEMMA HoldersFinite ==
  \A b \in Brokers, i \in Insts :
    /\ IsFiniteSet(Holders(b, i))
    /\ Cardinality(Holders(b, i)) \in Nat
<1> SUFFICES ASSUME NEW b \in Brokers, NEW i \in Insts
             PROVE  /\ IsFiniteSet(Holders(b, i))
                    /\ Cardinality(Holders(b, i)) \in Nat
  OBVIOUS
<1>1. Holders(b, i) \in SUBSET Clients
  BY DEF Holders
<1>2. IsFiniteSet(Holders(b, i))
  BY <1>1, FS_Subset, HubAssumption
<1> QED  BY <1>2, FS_CardinalityType

\* D are pairs client c lets go of, each once: the release of unsubscribe and of
\* close.  Nothing another client still holds is released upstream.
LEMMA LetGoKeepsHeld ==
  ASSUME TypeOK, HeldIsCounted, NEW c \in Clients, NEW D \in SUBSET keys[c],
         NEW rel \in LetGo, ClientUnsubscribe(rel),
         \A b \in Brokers, i \in Insts : rel[b][i] = IF <<b, i>> \in D THEN 1 ELSE 0,
         keys' = [keys EXCEPT ![c] = @ \ D]
  PROVE  /\ HeldIsCounted'
         /\ \A d \in Clients, b \in Brokers, i \in Insts :
              <<b, i>> \in keys'[d] => i \notin Released(rel, b)
<1> SUFFICES ASSUME NEW b \in Brokers, NEW i \in Insts
             PROVE  /\ Cardinality(Holders(b, i)') <= refCounts'[b][i]
                    /\ i \in Released(rel, b) => Holders(b, i)' = {}
  BY DEF HeldIsCounted, Holders
<1>1. /\ refCounts[b][i] \in Nat
      /\ Cardinality(Holders(b, i)) \in Nat
      /\ IsFiniteSet(Holders(b, i))
      /\ Cardinality(Holders(b, i)) <= refCounts[b][i]
  BY HoldersFinite DEF TypeOK, HeldIsCounted
<1>2. refCounts'[b][i] = IF i \in Released(rel, b) THEN 0
                           ELSE refCounts[b][i] - rel[b][i]
  BY DEF ClientUnsubscribe
<1>3. CASE <<b, i>> \in D
  <2>1. c \in Holders(b, i) /\ Holders(b, i)' = Holders(b, i) \ {c}
    BY <1>3 DEF Holders, TypeOK
  <2>2. /\ IsFiniteSet(Holders(b, i)')
        /\ Cardinality(Holders(b, i)') = Cardinality(Holders(b, i)) - 1
    BY <1>1, <2>1, FS_RemoveElement
  <2>3. rel[b][i] = 1
    BY <1>3
  <2>4. Cardinality(Holders(b, i)') \in Nat
    BY <2>2, FS_CardinalityType
  <2>5. CASE i \in Released(rel, b)
    <3>1. refCounts[b][i] <= 1
      BY <2>3, <2>5 DEF Released
    <3>2. Cardinality(Holders(b, i)') = 0
      BY <1>1, <2>2, <2>4, <3>1
    <3>3. Holders(b, i)' = {}
      BY <2>2, <3>2, FS_EmptySet
    <3> QED  BY <1>2, <2>5, <3>2, <3>3
  <2>6. CASE i \notin Released(rel, b)
    BY <1>1, <1>2, <2>2, <2>3, <2>6
  <2> QED  BY <2>5, <2>6
<1>4. CASE <<b, i>> \notin D
  <2>1. Holders(b, i)' = Holders(b, i)
    BY <1>4 DEF Holders, TypeOK
  <2>2. rel[b][i] = 0
    BY <1>4
  <2>3. i \notin Released(rel, b)
    BY <2>2 DEF Released, Named
  <2> QED  BY <1>1, <1>2, <2>1, <2>2, <2>3
<1> QED  BY <1>3, <1>4

\* The two ways a client lets go are instances of it.
LEMMA ClientLetsGo ==
  ASSUME TypeOK, NEW c \in Clients,
         WsClose(c) \/ \E b \in Brokers, S \in SUBSET Insts : WsUnsubscribe(c, b, S)
  PROVE  \E D \in SUBSET keys[c], rel \in LetGo :
           /\ ClientUnsubscribe(rel)
           /\ \A b \in Brokers, i \in Insts :
                rel[b][i] = IF <<b, i>> \in D THEN 1 ELSE 0
           /\ keys' = [keys EXCEPT ![c] = @ \ D]
           /\ \A d \in Clients : \A p \in keys'[d] : asked'[d][p] = asked[d][p]
<1>1. CASE WsClose(c)
  <2> DEFINE rel == [b \in Brokers |-> Once(HeldBy(c, b))]
  <2>1. rel \in LetGo
    BY LetGoTyped
  <2>2. \A b \in Brokers, i \in Insts :
          rel[b][i] = IF <<b, i>> \in keys[c] THEN 1 ELSE 0
    BY DEF Once, HeldBy
  <2>3. keys' = [keys EXCEPT ![c] = @ \ keys[c]]
    BY <1>1 DEF WsClose, TypeOK
  <2>4. \A d \in Clients : \A p \in keys'[d] : asked'[d][p] = asked[d][p]
    BY <1>1 DEF WsClose, TypeOK
  <2> QED  BY <1>1, <2>1, <2>2, <2>3, <2>4 DEF WsClose
<1>2. ASSUME NEW b \in Brokers, NEW S \in SUBSET Insts, WsUnsubscribe(c, b, S)
      PROVE  \E D \in SUBSET keys[c], rel \in LetGo :
               /\ ClientUnsubscribe(rel)
               /\ \A x \in Brokers, i \in Insts :
                    rel[x][i] = IF <<x, i>> \in D THEN 1 ELSE 0
               /\ keys' = [keys EXCEPT ![c] = @ \ D]
               /\ \A d \in Clients : \A p \in keys'[d] : asked'[d][p] = asked[d][p]
  <2> DEFINE D == Dropped(c, b, S)
             T == {p[2] : p \in D}
             rel == From(b, Once(T))
  <2>1. D \in SUBSET keys[c] /\ T \in SUBSET Insts
    BY DEF Dropped, TypeOK, Pairs
  <2>2. rel \in LetGo
    BY <2>1, LetGoTyped
  <2>3. \A x \in Brokers, i \in Insts : <<x, i>> \in D <=> x = b /\ i \in T
    <3>1. \A p \in D : p = <<b, p[2]>>
      BY DEF Dropped
    <3>2. \A x \in Brokers, i \in Insts : <<x, i>> \in D => x = b
      BY DEF Dropped
    <3> QED  BY <3>1, <3>2
  <2>4. \A x \in Brokers, i \in Insts : rel[x][i] = IF <<x, i>> \in D THEN 1 ELSE 0
    BY <2>3 DEF From, Once, Nothing
  <2>5. /\ ClientUnsubscribe(rel)
        /\ keys' = [keys EXCEPT ![c] = @ \ D]
        /\ asked' = [asked EXCEPT ![c] = [p \in Pairs |-> IF p \in D THEN 0 ELSE @[p]]]
    BY <1>2 DEF WsUnsubscribe
  <2>6. \A d \in Clients : \A p \in keys'[d] : asked'[d][p] = asked[d][p]
    BY <2>5 DEF TypeOK
  <2> QED  BY <2>1, <2>2, <2>4, <2>5, <2>6
<1> QED  BY <1>1, <1>2

\* A subscribe counts the new holder.
LEMMA SubscribeKeepsHeld ==
  ASSUME TypeOK, HeldIsCounted, NEW c \in Clients, NEW b \in Brokers,
         NEW req \in Requests, NEW mode \in Modes, WsSubscribe(c, b, req, mode)
  PROVE  HeldIsCounted'
<1> SUFFICES ASSUME NEW x \in Brokers, NEW i \in Insts
             PROVE  Cardinality(Holders(x, i)') <= refCounts'[x][i]
  BY DEF HeldIsCounted, Holders
<1>1. /\ refCounts[x][i] \in Nat
      /\ Cardinality(Holders(x, i)) \in Nat
      /\ IsFiniteSet(Holders(x, i))
      /\ Cardinality(Holders(x, i)) <= refCounts[x][i]
      /\ req[i] \in Nat
  BY HoldersFinite, HubAssumption DEF TypeOK, HeldIsCounted, Requests
<1>2. refCounts'[x][i] = IF x = b THEN refCounts[x][i] + req[i] ELSE refCounts[x][i]
  BY DEF WsSubscribe, ClientSubscribe, TypeOK
<1>3. CASE x = b /\ i \in Named(req)
  <2>1. Holders(x, i)' = Holders(x, i) \cup {c}
    BY <1>3 DEF WsSubscribe, Holders, TypeOK
  <2>2. Cardinality(Holders(x, i)') \in {Cardinality(Holders(x, i)),
                                        Cardinality(Holders(x, i)) + 1}
    BY <1>1, <2>1, FS_AddElement
  <2>3. req[i] >= 1
    BY <1>1, <1>3 DEF Named
  <2>4. Cardinality(Holders(x, i)') \in Nat
    BY <1>1, <2>1, FS_AddElement, FS_CardinalityType
  <2> QED  BY <1>1, <1>2, <1>3, <2>2, <2>3, <2>4
<1>4. CASE ~(x = b /\ i \in Named(req))
  <2>1. Holders(x, i)' = Holders(x, i)
    BY <1>4 DEF WsSubscribe, Holders, TypeOK
  <2> QED  BY <1>1, <1>2, <2>1
<1> QED  BY <1>3, <1>4

Held == Ledger /\ HeldIsCounted

\* Every step of the browsers, the logins and the start/stop routes keeps it.
LEMMA HeldStep == Held /\ [HubNext]_hubVars => Held'
<1> SUFFICES ASSUME Held, [HubNext]_hubVars PROVE HeldIsCounted'
  BY LedgerStep DEF Held, AnyStep
<1>0. TypeOK /\ HeldIsCounted
  BY DEF Held, Ledger
<1>1. ASSUME UNCHANGED <<keys, refCounts>> PROVE HeldIsCounted'
  BY <1>0, <1>1 DEF HeldIsCounted, Holders
<1>2. ASSUME NEW c \in Clients, Connect(c) PROVE HeldIsCounted'
  <2> SUFFICES ASSUME NEW b \in Brokers, NEW i \in Insts
               PROVE  Cardinality(Holders(b, i)') <= refCounts'[b][i]
    BY DEF HeldIsCounted, Holders
  <2>1. Holders(b, i)' \in SUBSET Holders(b, i)
    BY <1>0, <1>2 DEF Connect, Holders, TypeOK
  <2>2. /\ Cardinality(Holders(b, i)') <= Cardinality(Holders(b, i))
        /\ Cardinality(Holders(b, i)') \in Nat
    BY <2>1, HoldersFinite, FS_Subset, FS_CardinalityType
  <2>3. Cardinality(Holders(b, i)) <= refCounts[b][i] /\ refCounts[b][i] \in Nat
    BY <1>0 DEF HeldIsCounted, TypeOK
  <2>4. refCounts'[b][i] = refCounts[b][i]
    BY <1>2 DEF Connect
  <2> QED  BY <2>2, <2>3, <2>4, HoldersFinite
<1>3. ASSUME NEW c \in Clients,
             WsClose(c) \/ \E b \in Brokers, S \in SUBSET Insts : WsUnsubscribe(c, b, S)
      PROVE  HeldIsCounted'
  <2>1. PICK D \in SUBSET keys[c], rel \in LetGo :
           /\ ClientUnsubscribe(rel)
           /\ \A b \in Brokers, i \in Insts :
                rel[b][i] = IF <<b, i>> \in D THEN 1 ELSE 0
           /\ keys' = [keys EXCEPT ![c] = @ \ D]
    BY <1>0, <1>3, ClientLetsGo
  <2> QED  BY <1>0, <2>1, LetGoKeepsHeld
<1>4. ASSUME NEW c \in Clients, NEW b \in Brokers, NEW req \in Requests,
             NEW mode \in Modes, WsSubscribe(c, b, req, mode)
      PROVE  HeldIsCounted'
  BY <1>0, <1>4, SubscribeKeepsHeld
<1>5. CASE LoginStep
  BY <1>1, <1>5 DEF LoginStep, SetFeedAccount, RestStart, RestStartAll,
     StoreSession, DeleteSession, StartBrokers
<1>6. CASE \E b \in Brokers : RestStop(b)
  BY <1>1, <1>6 DEF RestStop
<1>7. CASE UNCHANGED hubVars
  BY <1>1, <1>7 DEF hubVars
<1> QED  BY <1>2, <1>3, <1>4, <1>5, <1>6, <1>7 DEF HubNext, ClientStep

\* Initially nobody holds anything.
LEMMA HeldInit == HubInit => Held
<1> SUFFICES ASSUME HubInit PROVE HeldIsCounted
  BY LedgerInit DEF Held
<1>1. \A b \in Brokers, i \in Insts : Holders(b, i) = {}
  BY DEF HubInit, Holders
<1>2. \A b \in Brokers, i \in Insts : refCounts[b][i] = 0
  BY DEF HubInit, Nothing
<1> QED  BY <1>1, <1>2, FS_EmptySet DEF HeldIsCounted

\* An instrument's count is never below the number of clients holding it: no
\* order of subscribes, repeated or not, unsubscribes and closes lets the count
\* reach zero, and clientUnsubscribe release upstream, under a client.
THEOREM HeldCounted == HubSpec => []HeldIsCounted
<1>1. Held => HeldIsCounted
  BY DEF Held
<1> QED  BY <1>1, HeldInit, HeldStep, PTL DEF HubSpec

-----------------------------------------------------------------------------
(* What a client that keeps holding a pair can rely on. *)

\* A pair that stays held loses its upstream subscription in no step that leaves
\* the broker's adapter running.
LEMMA HeldStaysStep ==
  ASSUME Held, [HubNext]_hubVars, NEW c \in Clients, NEW p \in keys[c] \cap keys'[c],
         subs[p[1]][p[2]] > 0, adapter'[p[1]] = "running"
  PROVE  subs'[p[1]][p[2]] > 0
<1>0. TypeOK /\ HeldIsCounted
  BY DEF Held, Ledger
<1> PICK b \in Brokers, i \in Insts : p = <<b, i>>
  BY <1>0 DEF TypeOK, Pairs
<1>1. p[1] = b /\ p[2] = i /\ subs[b][i] > 0 /\ subs[b][i] \in 0..3
  BY <1>0 DEF TypeOK
<1>2. ASSUME subs'[b][i] = subs[b][i] PROVE subs'[p[1]][p[2]] > 0
  BY <1>1, <1>2
<1>3. ASSUME NEW d \in Clients,
             WsClose(d) \/ \E x \in Brokers, S \in SUBSET Insts : WsUnsubscribe(d, x, S)
      PROVE  subs'[b][i] = subs[b][i]
  <2>1. PICK D \in SUBSET keys[d], rel \in LetGo :
           /\ ClientUnsubscribe(rel)
           /\ \A x \in Brokers, j \in Insts :
                rel[x][j] = IF <<x, j>> \in D THEN 1 ELSE 0
           /\ keys' = [keys EXCEPT ![d] = @ \ D]
    BY <1>0, <1>3, ClientLetsGo
  <2>2. i \notin Released(rel, b)
    BY <1>0, <2>1, LetGoKeepsHeld
  <2> QED  BY <2>1, <2>2 DEF ClientUnsubscribe, DropSubs
<1>4. ASSUME NEW d \in Clients, NEW x \in Brokers, NEW req \in Requests,
             NEW mode \in Modes, WsSubscribe(d, x, req, mode)
      PROVE  subs'[b][i] > 0
  <2>1. mode \in 1..3
    BY HubAssumption
  <2>2. subs'[b][i] \in {subs[b][i], Higher(subs[b][i], mode)}
    BY <1>0, <1>4 DEF WsSubscribe, ClientSubscribe, TrackSubs, TypeOK
  <2> QED  BY <1>1, <2>1, <2>2 DEF Higher
<1>5. ASSUME NEW B \in SUBSET Brokers, StartBrokers(B) PROVE subs'[b][i] = subs[b][i]
  <2>1. adapter'[b] = "running"
    BY <1>1
  <2>2. ~(b \in B /\ ~Creatable(b))
    BY <1>5, <2>1 DEF StartBrokers
  <2> QED  BY <1>5, <2>2 DEF StartBrokers, Carried
<1>6. CASE LoginStep
  <2>1. CASE \E B \in SUBSET Brokers : StartBrokers(B)
    BY <1>2, <1>5, <2>1
  <2>2. CASE subs' = subs
    BY <1>2, <2>2
  <2>3. feed \in SUBSET Brokers
    BY <1>0 DEF TypeOK
  <2> QED  BY <1>6, <2>1, <2>2, <2>3 DEF LoginStep, SetFeedAccount, RestStart,
           RestStartAll, StoreSession, DeleteSession
<1>7. ASSUME NEW x \in Brokers, RestStop(x) PROVE subs'[b][i] = subs[b][i]
  <2>1. x # b
    BY <1>0, <1>1, <1>7 DEF RestStop, TypeOK
  <2> QED  BY <1>0, <1>7, <2>1 DEF RestStop, TypeOK
<1>8. ASSUME NEW d \in Clients, Connect(d) PROVE subs'[b][i] = subs[b][i]
  BY <1>8 DEF Connect
<1>9. CASE UNCHANGED hubVars
  BY <1>2, <1>9 DEF hubVars
<1> QED  BY <1>1, <1>2, <1>3, <1>4, <1>6, <1>7, <1>8, <1>9 DEF HubNext, ClientStep

\* "Released only when the LAST client lets go", as far as browsers go: while a
\* client keeps a pair and the adapter stays up, the upstream subscription stays.
THEOREM HeldStays == HubSpec => HeldStaysSubscribed
<1>1. Held /\ [HubNext]_hubVars =>
        [\A c \in Clients : \A p \in keys[c] \cap keys'[c] :
           subs[p[1]][p[2]] > 0 /\ adapter'[p[1]] = "running"
             => subs'[p[1]][p[2]] > 0]_hubVars
  BY HeldStaysStep
<1> QED  BY <1>1, HeldInit, HeldStep, PTL DEF HubSpec, HeldStaysSubscribed

\* A mode is remembered only for a pair that is held, and only sockets hold pairs.
AskedIsHeld ==
  \A c \in Clients :
    /\ \A p \in Pairs : p \notin keys[c] => asked[c][p] = 0
    /\ c \notin clients => keys[c] = {}

\* Every step of the hub keeps that so.
LEMMA AskedStep == TypeOK /\ AskedIsHeld /\ [HubNext]_hubVars => AskedIsHeld'
<1> SUFFICES ASSUME TypeOK, AskedIsHeld, [HubNext]_hubVars PROVE AskedIsHeld'
  OBVIOUS
<1>1. ASSUME UNCHANGED <<keys, asked, clients>> PROVE AskedIsHeld'
  BY <1>1 DEF AskedIsHeld
<1>2. ASSUME NEW c \in Clients, Connect(c) \/ WsClose(c) PROVE AskedIsHeld'
  BY <1>2 DEF Connect, WsClose, AskedIsHeld, TypeOK
<1>3. ASSUME NEW c \in Clients, NEW b \in Brokers, NEW req \in Requests,
             NEW mode \in Modes, WsSubscribe(c, b, req, mode)
      PROVE  AskedIsHeld'
  BY <1>3 DEF WsSubscribe, AskedIsHeld, TypeOK
<1>4. ASSUME NEW c \in Clients, NEW b \in Brokers, NEW S \in SUBSET Insts,
             WsUnsubscribe(c, b, S)
      PROVE  AskedIsHeld'
  BY <1>4 DEF WsUnsubscribe, AskedIsHeld, TypeOK
<1>5. CASE LoginStep
  BY <1>1, <1>5 DEF LoginStep, SetFeedAccount, RestStart, RestStartAll,
     StoreSession, DeleteSession, StartBrokers
<1>6. CASE \E b \in Brokers : RestStop(b)
  BY <1>1, <1>6 DEF RestStop
<1>7. CASE UNCHANGED hubVars
  BY <1>1, <1>7 DEF hubVars
<1> QED  BY <1>2, <1>3, <1>4, <1>5, <1>6, <1>7 DEF HubNext, ClientStep

ModeInv == Held /\ AskedIsHeld /\ ModeCoversHolders

\* Every step keeps the upstream mode of an unsevered pair at or above what its
\* holders asked for.
LEMMA ModeStep == ModeInv /\ [HubNext]_hubVars => ModeCoversHolders'
<1> SUFFICES ASSUME ModeInv, [HubNext]_hubVars,
                    NEW c \in Clients, NEW p \in keys'[c], p \notin severed'
             PROVE  subs'[p[1]][p[2]] >= asked'[c][p]
  BY DEF ModeCoversHolders
<1>0. TypeOK /\ HeldIsCounted /\ AskedIsHeld /\ TypeOK'
  BY TypeStep DEF ModeInv, Held, Ledger, AnyStep
<1> PICK b \in Brokers, i \in Insts : p = <<b, i>>
  BY <1>0 DEF TypeOK, Pairs
<1>1. /\ p[1] = b /\ p[2] = i /\ p \in Pairs
      /\ subs[b][i] \in 0..3 /\ asked[c][p] \in 0..3
  BY <1>0 DEF TypeOK, Pairs
<1>2. p \in keys[c] /\ p \notin severed => subs[b][i] >= asked[c][p]
  BY <1>1 DEF ModeInv, ModeCoversHolders
<1>3. ASSUME p \in keys[c], p \notin severed, subs'[b][i] = subs[b][i],
             asked'[c][p] = asked[c][p]
      PROVE  subs'[b][i] >= asked'[c][p]
  BY <1>2, <1>3
<1>4. ASSUME NEW d \in Clients,
             WsClose(d) \/ \E x \in Brokers, S \in SUBSET Insts : WsUnsubscribe(d, x, S)
      PROVE  subs'[b][i] >= asked'[c][p]
  <2>1. PICK D \in SUBSET keys[d], rel \in LetGo :
           /\ ClientUnsubscribe(rel)
           /\ \A x \in Brokers, j \in Insts :
                rel[x][j] = IF <<x, j>> \in D THEN 1 ELSE 0
           /\ keys' = [keys EXCEPT ![d] = @ \ D]
           /\ \A e \in Clients : \A q \in keys'[e] : asked'[e][q] = asked[e][q]
    BY <1>0, <1>4, ClientLetsGo
  <2>2. i \notin Released(rel, b)
    BY <1>0, <2>1, LetGoKeepsHeld
  <2>3. subs'[b][i] = subs[b][i] /\ p \notin severed
    BY <1>1, <2>1, <2>2 DEF ClientUnsubscribe, DropSubs
  <2>4. p \in keys[c] /\ asked'[c][p] = asked[c][p]
    BY <1>0, <2>1 DEF TypeOK
  <2> QED  BY <1>3, <2>3, <2>4
<1>5. ASSUME NEW d \in Clients, NEW x \in Brokers, NEW req \in Requests,
             NEW mode \in Modes, WsSubscribe(d, x, req, mode)
      PROVE  subs'[b][i] >= asked'[c][p]
  <2>1. mode \in 1..3 /\ p \notin severed
    BY <1>5, HubAssumption DEF WsSubscribe, ClientSubscribe
  <2>2. p \in {x} \X Named(req) <=> b = x /\ i \in Named(req)
    BY <1>1
  <2>3. subs'[b][i] = IF b = x /\ i \in Named(req)
                        THEN Higher(subs[b][i], mode) ELSE subs[b][i]
    BY <1>0, <1>5 DEF WsSubscribe, ClientSubscribe, TrackSubs, TypeOK
  <2>4. /\ asked'[c][p] = IF c = d /\ p \in {x} \X Named(req)
                            THEN Higher(asked[c][p], mode) ELSE asked[c][p]
        /\ p \notin {x} \X Named(req) \/ c # d => p \in keys[c]
    BY <1>0, <1>1, <1>5 DEF WsSubscribe, TypeOK
  <2>5. p \notin keys[c] => asked[c][p] = 0
    BY <1>0, <1>1 DEF AskedIsHeld
  <2>6. subs[b][i] >= asked[c][p]
    BY <1>1, <1>2, <2>1, <2>5
  <2> QED  BY <1>1, <2>1, <2>2, <2>3, <2>4, <2>6 DEF Higher
<1>6. ASSUME NEW B \in SUBSET Brokers, StartBrokers(B)
      PROVE  subs'[b][i] >= asked'[c][p]
  <2>1. keys' = keys /\ asked' = asked /\ p \notin severed
    BY <1>6 DEF StartBrokers
  <2>2. CASE b \in B /\ ~Creatable(b)
    <3>1. ~(refCounts[b][i] > 0)
      BY <1>1, <1>6, <2>2 DEF StartBrokers, CountedOf
    <3>2. Cardinality(Holders(b, i)) = 0
      BY <1>0, <3>1, HoldersFinite DEF HeldIsCounted, TypeOK
    <3>3. Holders(b, i) = {}
      BY <3>2, HoldersFinite, FS_EmptySet
    <3> QED  BY <2>1, <3>3 DEF Holders
  <2>3. CASE ~(b \in B /\ ~Creatable(b))
    BY <1>3, <1>6, <2>1, <2>3 DEF StartBrokers, Carried
  <2> QED  BY <2>2, <2>3
<1>7. ASSUME UNCHANGED <<subs, keys, asked, severed>> PROVE subs'[b][i] >= asked'[c][p]
  BY <1>3, <1>7
<1>8. CASE LoginStep
  <2>1. feed \in SUBSET Brokers
    BY <1>0 DEF TypeOK
  <2> QED  BY <1>1, <1>6, <1>7, <1>8, <2>1 DEF LoginStep, SetFeedAccount, RestStart,
           RestStartAll, StoreSession, DeleteSession
<1>9. ASSUME NEW x \in Brokers, RestStop(x) PROVE subs'[b][i] >= asked'[c][p]
  <2>1. keys' = keys /\ asked' = asked /\ p \notin severed
    BY <1>9 DEF RestStop
  <2>2. CASE b = x
    <3>1. ~(refCounts[b][i] > 0)
      BY <1>1, <1>9, <2>2 DEF RestStop, CountedOf
    <3>2. Cardinality(Holders(b, i)) = 0
      BY <1>0, <3>1, HoldersFinite DEF HeldIsCounted, TypeOK
    <3>3. Holders(b, i) = {}
      BY <3>2, HoldersFinite, FS_EmptySet
    <3> QED  BY <2>1, <3>3 DEF Holders
  <2>3. CASE b # x
    BY <1>0, <1>3, <1>9, <2>1, <2>3 DEF RestStop, TypeOK
  <2> QED  BY <2>2, <2>3
<1>10. ASSUME NEW d \in Clients, Connect(d) PROVE subs'[b][i] >= asked'[c][p]
  BY <1>0, <1>3, <1>10 DEF Connect, TypeOK
<1>11. CASE UNCHANGED hubVars
  BY <1>7, <1>11 DEF hubVars
<1> QED  BY <1>1, <1>4, <1>5, <1>8, <1>9, <1>10, <1>11 DEF HubNext, ClientStep

\* For every pair no stop has severed, the upstream mode is at least the highest
\* mode any of its present holders asked for: trackSubs never downgrades, a
\* release waits for the last holder, and a re-login carries the modes over.
THEOREM ModesCovered == HubSpec => []ModeCoversHolders
<1>1. HubInit => ModeInv
  <2>1. HubInit => AskedIsHeld /\ ModeCoversHolders
    BY DEF HubInit, AskedIsHeld, ModeCoversHolders
  <2> QED  BY <2>1, HeldInit DEF ModeInv
<1>2. ModeInv /\ [HubNext]_hubVars => ModeInv'
  BY HeldStep, AskedStep, ModeStep DEF ModeInv, Held, Ledger
<1>3. ModeInv => ModeCoversHolders
  BY DEF ModeInv
<1> QED  BY <1>1, <1>2, <1>3, PTL DEF HubSpec
=============================================================================
