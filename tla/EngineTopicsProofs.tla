-------------------------- MODULE EngineTopicsProofs --------------------------
(***************************************************************************)
(* Proofs about EngineTopics, for any brokers, instruments, topics, finite *)
(* sets of clients and bounds, on top of the lemmas about the feed hub.    *)
(*                                                                         *)
(* HeldTopicsLive and SharesCounted hold for clients that may send         *)
(* anything at any time (EngineCore, Shares).  With clients that wait for  *)
(* the answer to engine_subscribe the counts are exact (NoLeakedLease),    *)
(* and the engine implements LeasedTopics, step by step.                   *)
(***************************************************************************)
EXTENDS EngineTopics, FeedHubProofs

\* A topic under construction is not in the map.
NothingHalfBuilt == building \cap live = {}

\* A socket that is gone holds no key and no slot.
GoneHoldNothing ==
  \A c \in Clients \ clients : keys[c] = {} /\ \A t \in Topics : slot[c][t] = "free"

EngineCore == EngineTypeOK /\ NothingHalfBuilt /\ GoneHoldNothing /\ HeldTopicsLive

\* The topics of D over an instrument.
Over(D, i) == {t \in D : i \in TopicInsts[t]}

-----------------------------------------------------------------------------
(* What the engine lets go of, and who holds a handle. *)

\* Sets of topics are finite, and counting those over an instrument adds up.
LEMMA OverCounts ==
  ASSUME NEW L \in SUBSET Topics, NEW D \in SUBSET L, NEW i
  PROVE  /\ Cardinality(Over(L, i)) \in Nat /\ Cardinality(Over(D, i)) \in Nat
         /\ Cardinality(Over(L \ D, i)) = Cardinality(Over(L, i)) - Cardinality(Over(D, i))
<1>1. IsFiniteSet(Over(L, i)) /\ IsFiniteSet(Over(D, i)) /\ IsFiniteSet(Over(L \ D, i))
  BY EngineAssumption, FS_Subset DEF Over
<1>2. Over(L, i) = Over(L \ D, i) \cup Over(D, i) /\ Over(L \ D, i) \cap Over(D, i) = {}
  BY DEF Over
<1>3. Cardinality(Over(L \ D, i) \cap Over(D, i)) = 0
  BY <1>2, FS_EmptySet
<1>4. Cardinality(Over(L, i)) = Cardinality(Over(L \ D, i)) + Cardinality(Over(D, i))
                                  - Cardinality(Over(L \ D, i) \cap Over(D, i))
  BY <1>1, <1>2, FS_Union
<1>5. /\ Cardinality(Over(L, i)) \in Nat /\ Cardinality(Over(D, i)) \in Nat
      /\ Cardinality(Over(L \ D, i)) \in Nat
  BY <1>1, FS_CardinalityType
<1> QED  BY <1>3, <1>4, <1>5

\* Destroying topics lets go of each instrument once per topic over it.
LEMMA TopicsLetGo ==
  ASSUME NEW rel \in LetGo, NEW D \in SUBSET Topics
  PROVE  /\ Plus(rel, TopicLetGo(D)) \in LetGo
         /\ \A i \in Insts :
              Plus(rel, TopicLetGo(D))[Feed][i] = rel[Feed][i] + Cardinality(Over(D, i))
<1>1. \A i \in Insts : Cardinality(Over(D, i)) \in Nat
  BY OverCounts
<1>2. \A b \in Brokers, i \in Insts :
        TopicLetGo(D)[b][i] = IF b = Feed THEN Cardinality(Over(D, i)) ELSE 0
  BY DEF TopicLetGo, Over
<1>3. \A b \in Brokers, i \in Insts : rel[b][i] \in Nat /\ TopicLetGo(D)[b][i] \in Nat
  BY <1>1, <1>2 DEF LetGo
<1>4. \A b \in Brokers, i \in Insts :
        Plus(rel, TopicLetGo(D))[b][i] = rel[b][i] + TopicLetGo(D)[b][i]
  BY DEF Plus
<1>5. Plus(rel, TopicLetGo(D)) \in LetGo
  BY <1>3 DEF Plus, LetGo
<1> QED  BY <1>2, <1>4, <1>5, EngineAssumption, HubAssumption

\* The tables the engine's own releases start from.
LEMMA EngineLetGoTyped ==
  /\ NoneLetGo \in LetGo
  /\ \A c \in Clients : [b \in Brokers |-> Once(HeldBy(c, b))] \in LetGo
BY LetGoTyped DEF NoneLetGo, Nothing, LetGo

\* A topic's holders are finitely many.
LEMMA HandlesFinite ==
  ASSUME EngineTypeOK, NEW t
  PROVE  IsFiniteSet(HandleHolders(t)) /\ Cardinality(HandleHolders(t)) \in Nat
<1>1. HandleHolders(t) \in SUBSET Clients
  BY DEF HandleHolders, EngineTypeOK, TypeOK
<1> QED  BY <1>1, HubAssumption, FS_Subset, FS_CardinalityType

\* A client releases the handles it has on the topics of R: the counts stay
\* natural numbers and above the holders left, and no held topic is destroyed.
LEMMA ReleaseKeepsHeld ==
  ASSUME EngineCore, NEW c \in clients, NEW R \in SUBSET Topics, NEW rel,
         \A t \in R : slot[c][t] = "held",
         ReleaseHandles(R, rel),
         \A t \in Topics :
           HandleHolders(t)' = IF t \in R THEN HandleHolders(t) \ {c} ELSE HandleHolders(t)
  PROVE  /\ refCount' \in [Topics -> Nat]
         /\ HeldTopicsLive'
         /\ Dying(R) \subseteq live /\ live' = live \ Dying(R)
<1>0. EngineTypeOK /\ HeldTopicsLive
  BY DEF EngineCore
<1>1. \A t \in R : c \in HandleHolders(t)
  BY DEF HandleHolders
<1>2. \A t \in Topics : /\ Cardinality(HandleHolders(t)) \in Nat
                        /\ Cardinality(HandleHolders(t)) <= refCount[t] /\ refCount[t] \in Nat
  BY <1>0, HandlesFinite DEF HeldTopicsLive, EngineTypeOK
<1>3. \A t \in R : /\ Cardinality(HandleHolders(t) \ {c}) = Cardinality(HandleHolders(t)) - 1
                   /\ Cardinality(HandleHolders(t) \ {c}) \in Nat
  <2> SUFFICES ASSUME NEW t \in R
               PROVE  /\ Cardinality(HandleHolders(t) \ {c}) = Cardinality(HandleHolders(t)) - 1
                      /\ Cardinality(HandleHolders(t) \ {c}) \in Nat
    OBVIOUS
  <2>1. IsFiniteSet(HandleHolders(t))
    BY <1>0, HandlesFinite
  <2> QED  BY <1>1, <2>1, FS_RemoveElement, FS_CardinalityType
<1>4. \A t \in Topics : refCount'[t] = IF t \in R THEN refCount[t] - 1 ELSE refCount[t]
  BY DEF ReleaseHandles
<1>5. refCount' \in [Topics -> Nat]
  BY <1>2, <1>3 DEF ReleaseHandles
<1>6. \A t \in Topics : Cardinality(HandleHolders(t)') <= refCount'[t]
  BY <1>2, <1>3, <1>4
<1>7. R \subseteq live /\ live' = live \ Dying(R)
  BY <1>0, <1>1 DEF HeldTopicsLive, ReleaseHandles, Destroy
<1>8. \A t \in Dying(R) : HandleHolders(t)' = {}
  <2> SUFFICES ASSUME NEW t \in Dying(R) PROVE HandleHolders(t) \ {c} = {}
    BY DEF Dying
  <2>1. t \in R /\ refCount[t] - 1 <= 0
    BY DEF Dying
  <2>2. Cardinality(HandleHolders(t) \ {c}) = 0
    BY <1>2, <1>3, <2>1
  <2>3. IsFiniteSet(HandleHolders(t) \ {c})
    BY <1>0, HandlesFinite, FS_Subset
  <2> QED  BY <2>2, <2>3, FS_EmptySet
<1>9. \A t \in Topics : HandleHolders(t)' # {} => t \in live'
  <2> SUFFICES ASSUME NEW t \in Topics, HandleHolders(t)' # {} PROVE t \in live'
    OBVIOUS
  <2>1. HandleHolders(t) # {}
    OBVIOUS
  <2>2. t \in live /\ t \notin Dying(R)
    BY <1>0, <1>8, <2>1 DEF HeldTopicsLive
  <2> QED  BY <1>7, <2>2
<1>10. HeldTopicsLive'
  BY <1>6, <1>9 DEF HeldTopicsLive
<1> QED  BY <1>5, <1>7, <1>10 DEF Dying

-----------------------------------------------------------------------------
(* The handlers, one by one. *)

\* Nothing the engine or its clients hold changes.
LEMMA CoreUntouched ==
  ASSUME EngineCore, TypeOK', GoneHoldNothing',
         UNCHANGED <<live, building, refCount, leased, waiting, polled, slot, timer>>,
         \A t \in Topics : HandleHolders(t)' = HandleHolders(t)
  PROVE  EngineCore'
<1>1. EngineTypeOK' /\ NothingHalfBuilt'
  BY DEF EngineCore, EngineTypeOK, NothingHalfBuilt
<1>2. HeldTopicsLive'
  BY DEF EngineCore, HeldTopicsLive
<1> QED  BY <1>1, <1>2 DEF EngineCore

\* A step of the hub's own, the sockets' subscriptions, logins and stops.
LEMMA HubStepCore ==
  ASSUME EngineCore, HubStep \/ FeedStop PROVE EngineCore'
<1>0. EngineTypeOK /\ TypeOK /\ GoneHoldNothing
  BY DEF EngineCore, EngineTypeOK
<1>1. HubNext /\ UNCHANGED engineVars
  BY DEF HubStep, FeedStop, HubNext, ClientStep
<1>2. TypeOK'
  BY <1>0, <1>1, TypeStep DEF AnyStep
<1>3. clients' = clients /\ \A c \in Clients \ clients : keys'[c] = keys[c]
  <2>1. ASSUME NEW c \in Clients, NEW b \in Brokers, NEW req \in Requests, NEW mode \in Modes,
               WsSubscribe(c, b, req, mode)
        PROVE  clients' = clients /\ \A d \in Clients \ clients : keys'[d] = keys[d]
    BY <1>0, <2>1 DEF WsSubscribe, TypeOK
  <2>2. ASSUME NEW c \in Clients, NEW b \in Brokers, NEW S \in SUBSET Insts, WsUnsubscribe(c, b, S)
        PROVE  clients' = clients /\ \A d \in Clients \ clients : keys'[d] = keys[d]
    BY <1>0, <2>2 DEF WsUnsubscribe, TypeOK
  <2>3. LoginStep => clients' = clients /\ keys' = keys
    BY DEF LoginStep, SetFeedAccount, RestStart, RestStartAll, StartBrokers, StoreSession,
           DeleteSession
  <2>4. FeedStop => clients' = clients /\ keys' = keys
    BY DEF FeedStop, RestStop
  <2> QED  BY <2>1, <2>2, <2>3, <2>4 DEF HubStep
<1>4. GoneHoldNothing'
  BY <1>0, <1>1, <1>3 DEF GoneHoldNothing, engineVars
<1>5. \A t \in Topics : HandleHolders(t)' = HandleHolders(t)
  BY <1>1, <1>3 DEF HandleHolders, engineVars
<1> QED  BY <1>1, <1>2, <1>4, <1>5, CoreUntouched DEF engineVars

\* A socket connects.
LEMMA ConnectCore ==
  ASSUME EngineCore, NEW c \in Clients, EngineConnect(c)
  PROVE  /\ EngineCore'
         /\ \A t \in Topics : HandleHolders(t)' = HandleHolders(t)
<1>0. EngineTypeOK /\ TypeOK /\ GoneHoldNothing
  BY DEF EngineCore, EngineTypeOK
<1>1. Connect(c) /\ UNCHANGED engineVars
  BY DEF EngineConnect
<1>2. TypeOK'
  BY <1>0, <1>1, TypeStep DEF AnyStep, HubNext, ClientStep
<1>3. c \notin clients /\ clients' = clients \cup {c} /\ keys' = [keys EXCEPT ![c] = {}]
  BY <1>1 DEF Connect
<1>4. GoneHoldNothing'
  BY <1>0, <1>1, <1>3 DEF GoneHoldNothing, engineVars, TypeOK
<1>5. \A t \in Topics : slot[c][t] = "free"
  BY <1>0, <1>3 DEF GoneHoldNothing
<1>6. \A t \in Topics : HandleHolders(t)' = HandleHolders(t)
  BY <1>1, <1>3, <1>5 DEF HandleHolders, engineVars
<1> QED  BY <1>1, <1>2, <1>4, <1>6, CoreUntouched DEF engineVars

\* engine_subscribe: a topic that exists is joined, else the slot is reserved.
LEMMA SubscribeCore ==
  ASSUME EngineCore, NEW c \in Clients, NEW t \in Topics, EngineSubscribe(c, t)
  PROVE  /\ EngineCore'
         /\ \A x \in Topics : HandleHolders(x)' =
              IF x = t /\ t \in live THEN HandleHolders(x) \cup {c} ELSE HandleHolders(x)
<1>0. /\ EngineTypeOK /\ TypeOK /\ NothingHalfBuilt /\ GoneHoldNothing /\ HeldTopicsLive
      /\ c \in clients /\ slot[c][t] = "free" /\ UNCHANGED hubVars /\ live' = live
      /\ building' = Ensure(t) /\ UNCHANGED <<leased, polled, timer>>
  BY DEF EngineCore, EngineTypeOK, EngineSubscribe
<1>1. CASE t \in live
  <2>1. /\ refCount' = [refCount EXCEPT ![t] = @ + 1]
        /\ slot' = [slot EXCEPT ![c][t] = "held"] /\ UNCHANGED waiting
    BY <1>1 DEF EngineSubscribe
  <2>2. building' = building
    BY <1>0, <1>1 DEF Ensure
  <2>3. \A x \in Topics : HandleHolders(x)' =
          IF x = t THEN HandleHolders(x) \cup {c} ELSE HandleHolders(x)
    BY <1>0, <2>1 DEF HandleHolders, EngineTypeOK, hubVars, TypeOK
  <2>4. EngineTypeOK'
    BY <1>0, <2>1, <2>2 DEF EngineTypeOK, TypeOK, hubVars
  <2>5. Cardinality(HandleHolders(t) \cup {c}) <= Cardinality(HandleHolders(t)) + 1
    <3>1. IsFiniteSet(HandleHolders(t)) /\ Cardinality(HandleHolders(t)) \in Nat
      BY <1>0, HandlesFinite
    <3>2. Cardinality(HandleHolders(t) \cup {c}) =
            IF c \in HandleHolders(t) THEN Cardinality(HandleHolders(t))
                                      ELSE Cardinality(HandleHolders(t)) + 1
      BY <3>1, FS_AddElement
    <3> QED  BY <3>1, <3>2
  <2>6. /\ \A x \in Topics : Cardinality(HandleHolders(x)) \in Nat /\ refCount[x] \in Nat
        /\ Cardinality(HandleHolders(t) \cup {c}) \in Nat
    <3>1. IsFiniteSet(HandleHolders(t) \cup {c})
      BY <1>0, HandlesFinite, FS_AddElement
    <3> QED  BY <1>0, <3>1, HandlesFinite, FS_CardinalityType DEF EngineTypeOK
  <2>7. \A x \in Topics : Cardinality(HandleHolders(x)') <= refCount'[x]
    <3> SUFFICES ASSUME NEW x \in Topics PROVE Cardinality(HandleHolders(x)') <= refCount'[x]
      OBVIOUS
    <3>1. Cardinality(HandleHolders(x)) <= refCount[x]
      BY <1>0 DEF HeldTopicsLive
    <3>2. refCount'[x] = IF x = t THEN refCount[x] + 1 ELSE refCount[x]
      BY <1>0, <2>1 DEF EngineTypeOK
    <3> QED  BY <2>3, <2>5, <2>6, <3>1, <3>2
  <2>8. HeldTopicsLive'
    BY <1>0, <1>1, <2>3, <2>7 DEF HeldTopicsLive
  <2>9. NothingHalfBuilt' /\ GoneHoldNothing'
    BY <1>0, <2>1, <2>2 DEF NothingHalfBuilt, GoneHoldNothing, EngineTypeOK, hubVars, TypeOK
  <2> QED  BY <1>1, <2>3, <2>4, <2>8, <2>9 DEF EngineCore
<1>2. CASE t \notin live
  <2>1. /\ Cardinality(CallsOf(c, t)) < MaxCalls
        /\ slot' = [slot EXCEPT ![c][t] = "reserved"] /\ UNCHANGED refCount
        /\ waiting' = [waiting EXCEPT ![t] = @ \cup {<<c, Cardinality(CallsOf(c, t)) + 1>>}]
    BY <1>2 DEF EngineSubscribe
  <2>2. building' = building \cup {t}
    BY <1>0, <1>2 DEF Ensure
  <2>3. \A x \in Topics : HandleHolders(x)' = HandleHolders(x)
    BY <1>0, <2>1 DEF HandleHolders, EngineTypeOK, hubVars, TypeOK
  <2>4. Cardinality(CallsOf(c, t)) + 1 \in 1..MaxCalls
    <3>1. waiting[t] \in SUBSET (Clients \X (1..MaxCalls))
      BY <1>0 DEF EngineTypeOK
    <3>2. IsFiniteSet({c} \X (1..MaxCalls))
      <4>1. IsFiniteSet({c})
        BY FS_Singleton
      <4>2. IsFiniteSet(1..MaxCalls)
        BY FS_Interval, EngineAssumption
      <4> QED  BY <4>1, <4>2, FS_Product
    <3>3. CallsOf(c, t) \subseteq {c} \X (1..MaxCalls)
      BY <3>1 DEF CallsOf
    <3>4. Cardinality(CallsOf(c, t)) \in Nat
      BY <3>2, <3>3, FS_Subset, FS_CardinalityType
    <3> QED  BY <2>1, <3>4, EngineAssumption
  <2>5. EngineTypeOK'
    BY <1>0, <2>1, <2>2, <2>4 DEF EngineTypeOK, TypeOK, hubVars
  <2>6. HeldTopicsLive'
    BY <1>0, <2>1, <2>3 DEF HeldTopicsLive
  <2>7. NothingHalfBuilt' /\ GoneHoldNothing'
    BY <1>0, <1>2, <2>1, <2>2 DEF NothingHalfBuilt, GoneHoldNothing, EngineTypeOK, hubVars, TypeOK
  <2> QED  BY <1>2, <2>3, <2>5, <2>6, <2>7 DEF EngineCore
<1> QED  BY <1>1, <1>2

\* A release keeps the hub's state typed, whatever the engine and its clients let
\* go of.
LEMMA DestroyTyped ==
  ASSUME TypeOK, NEW D \in SUBSET Topics, NEW rel \in LetGo, Destroy(D, rel)
  PROVE  /\ refCounts' \in [Brokers -> [Insts -> Nat]]
         /\ subs' \in [Brokers -> [Insts -> 0..3]]
         /\ adapter' = adapter /\ severed' \subseteq severed
BY TopicsLetGo, UnsubscribeTyped DEF Destroy

\* engine_unsubscribe: a handle is released, or the reservation given up.
LEMMA UnsubscribeCore ==
  ASSUME EngineCore, NEW c \in Clients, NEW t \in Topics, EngineUnsubscribe(c, t)
  PROVE  /\ EngineCore'
         /\ \A x \in Topics : HandleHolders(x)' =
              IF x = t THEN HandleHolders(x) \ {c} ELSE HandleHolders(x)
<1>0. /\ EngineTypeOK /\ TypeOK /\ NothingHalfBuilt /\ GoneHoldNothing /\ HeldTopicsLive
      /\ c \in clients /\ slot' = [slot EXCEPT ![c][t] = "free"]
      /\ UNCHANGED <<feed, session, clients, keys, asked, building, leased, waiting, polled>>
  BY DEF EngineCore, EngineTypeOK, EngineUnsubscribe
<1>1. \A x \in Topics : HandleHolders(x)' =
        IF x = t THEN HandleHolders(x) \ {c} ELSE HandleHolders(x)
  BY <1>0 DEF HandleHolders, EngineTypeOK, TypeOK
<1>2. GoneHoldNothing'
  BY <1>0 DEF GoneHoldNothing, EngineTypeOK
<1>3. CASE slot[c][t] = "held"
  <2>1. ReleaseHandles({t}, NoneLetGo)
    BY <1>3 DEF EngineUnsubscribe
  <2>2. \A x \in Topics : HandleHolders(x)' =
          IF x \in {t} THEN HandleHolders(x) \ {c} ELSE HandleHolders(x)
    BY <1>1
  <2>3. /\ refCount' \in [Topics -> Nat] /\ HeldTopicsLive'
        /\ Dying({t}) \subseteq live /\ live' = live \ Dying({t})
    BY <1>0, <1>3, <2>1, <2>2, ReleaseKeepsHeld
  <2>4. Dying({t}) \in SUBSET Topics
    BY DEF Dying
  <2>5. Destroy(Dying({t}), NoneLetGo)
    BY <2>1 DEF ReleaseHandles
  <2>6. TypeOK'
    BY <1>0, <2>4, <2>5, DestroyTyped, EngineLetGoTyped DEF TypeOK
  <2>7. timer' \in BOOLEAN
    BY <1>0, <2>5 DEF Destroy, StopIfIdle, EngineTypeOK
  <2>8. EngineTypeOK'
    BY <1>0, <2>3, <2>6, <2>7 DEF EngineTypeOK
  <2>9. NothingHalfBuilt'
    BY <1>0, <2>3 DEF NothingHalfBuilt
  <2> QED  BY <1>1, <1>2, <2>3, <2>8, <2>9 DEF EngineCore
<1>4. CASE slot[c][t] # "held"
  <2>1. UNCHANGED <<live, refCount, timer, adapter, subs, refCounts, severed>>
    BY <1>4 DEF EngineUnsubscribe
  <2>2. EngineTypeOK' /\ NothingHalfBuilt'
    BY <1>0, <2>1 DEF EngineTypeOK, TypeOK, NothingHalfBuilt
  <2>3. \A x \in Topics : HandleHolders(x)' = HandleHolders(x)
    BY <1>1, <1>4 DEF HandleHolders
  <2>4. HeldTopicsLive'
    BY <1>0, <2>1, <2>3 DEF HeldTopicsLive
  <2> QED  BY <1>1, <1>2, <2>2, <2>4 DEF EngineCore
<1> QED  BY <1>3, <1>4

\* A socket closes: its keys go, then its handles.
LEMMA CloseCore ==
  ASSUME EngineCore, NEW c \in Clients, EngineClose(c)
  PROVE  /\ EngineCore'
         /\ \A x \in Topics : HandleHolders(x)' = HandleHolders(x) \ {c}
<1> DEFINE R == {t \in Topics : slot[c][t] = "held"}
           rel == [b \in Brokers |-> Once(HeldBy(c, b))]
<1>0. /\ EngineTypeOK /\ TypeOK /\ NothingHalfBuilt /\ GoneHoldNothing
      /\ c \in clients /\ clients' = clients \ {c}
      /\ ReleaseHandles(R, rel)
      /\ slot' = [slot EXCEPT ![c] = [t \in Topics |-> "free"]]
      /\ keys' = [keys EXCEPT ![c] = {}]
      /\ asked' = [asked EXCEPT ![c] = [p \in Pairs |-> 0]]
      /\ UNCHANGED <<feed, session, building, leased, waiting, polled>>
  BY DEF EngineCore, EngineTypeOK, EngineClose
<1>1. \A x \in Topics : HandleHolders(x)' = HandleHolders(x) \ {c}
  BY <1>0 DEF HandleHolders, EngineTypeOK, TypeOK
<1>2. \A x \in Topics : HandleHolders(x)' =
        IF x \in R THEN HandleHolders(x) \ {c} ELSE HandleHolders(x)
  <2>1. \A x \in Topics : x \notin R => c \notin HandleHolders(x)
    BY DEF HandleHolders
  <2> QED  BY <1>1, <2>1
<1>3. R \in SUBSET Topics /\ \A t \in R : slot[c][t] = "held"
  OBVIOUS
<1>4. /\ refCount' \in [Topics -> Nat] /\ HeldTopicsLive'
      /\ Dying(R) \subseteq live /\ live' = live \ Dying(R)
  <2> HIDE DEF R, rel
  <2> QED  BY <1>0, <1>2, <1>3, ReleaseKeepsHeld
<1>5. Destroy(Dying(R), rel) /\ Dying(R) \in SUBSET Topics
  BY <1>0 DEF ReleaseHandles, Dying
<1>6. rel \in LetGo
  BY EngineLetGoTyped
<1>7. TypeOK'
  <2> HIDE DEF R, rel
  <2>1. /\ refCounts' \in [Brokers -> [Insts -> Nat]]
        /\ subs' \in [Brokers -> [Insts -> 0..3]]
        /\ adapter' = adapter /\ severed' \subseteq severed
    BY <1>0, <1>5, <1>6, DestroyTyped
  <2> QED  BY <1>0, <2>1 DEF TypeOK
<1>8. timer' \in BOOLEAN
  BY <1>0, <1>5 DEF Destroy, StopIfIdle, EngineTypeOK
<1>9. EngineTypeOK'
  <2> HIDE DEF R, rel
  <2> QED  BY <1>0, <1>4, <1>7, <1>8 DEF EngineTypeOK
<1>10. NothingHalfBuilt'
  BY <1>0, <1>4 DEF NothingHalfBuilt
<1>11. GoneHoldNothing'
  BY <1>0 DEF GoneHoldNothing, EngineTypeOK, TypeOK
<1> QED  BY <1>1, <1>4, <1>9, <1>10, <1>11 DEF EngineCore

\* A poll, and a lease that lapses: no handle is involved.
LEMMA LeaseStepCore ==
  ASSUME EngineCore, NEW t \in Topics, Poll(t) \/ LapseLease(t)
  PROVE  /\ EngineCore'
         /\ \A x \in Topics : HandleHolders(x)' = HandleHolders(x)
<1>0. /\ EngineTypeOK /\ NothingHalfBuilt /\ GoneHoldNothing /\ HeldTopicsLive
      /\ UNCHANGED <<hubVars, live, refCount, waiting, slot, timer>>
  BY DEF EngineCore, Poll, LapseLease
<1>1. EngineTypeOK' /\ NothingHalfBuilt'
  BY <1>0 DEF Poll, LapseLease, Ensure, EngineTypeOK, TypeOK, hubVars, NothingHalfBuilt
<1>2. \A x \in Topics : HandleHolders(x)' = HandleHolders(x)
  BY <1>0 DEF HandleHolders, hubVars
<1>3. HeldTopicsLive' /\ GoneHoldNothing'
  BY <1>0, <1>2 DEF HeldTopicsLive, GoneHoldNothing, hubVars
<1> QED  BY <1>1, <1>2, <1>3 DEF EngineCore

\* The clients whose calls for a topic are waiting and who are still there.
Callers(t) == {w[1] : w \in Served(t)}

\* They are no more than their calls.
LEMMA CallersCounted ==
  ASSUME EngineTypeOK, NEW t \in Topics
  PROVE  /\ IsFiniteSet(Served(t)) /\ Cardinality(Served(t)) \in Nat
         /\ Callers(t) \subseteq clients
         /\ Cardinality(Callers(t)) \in Nat
         /\ Cardinality(Callers(t)) <= Cardinality(Served(t))
<1>1. IsFiniteSet(Clients \X (1..MaxCalls))
  <2>1. IsFiniteSet(1..MaxCalls)
    BY FS_Interval, EngineAssumption
  <2> QED  BY <2>1, HubAssumption, FS_Product
<1>2. Served(t) \in SUBSET (Clients \X (1..MaxCalls))
  BY DEF Served, EngineTypeOK
<1>3. IsFiniteSet(Served(t)) /\ Cardinality(Served(t)) \in Nat
  BY <1>1, <1>2, FS_Subset, FS_CardinalityType
<1> DEFINE first == [w \in Served(t) |-> w[1]]
<1>4. first \in Surjection(Served(t), Callers(t))
  BY DEF Surjection, Callers
<1>5. IsFiniteSet(Callers(t)) /\ Cardinality(Callers(t)) <= Cardinality(Served(t))
  <2> HIDE DEF first
  <2> QED  BY <1>3, <1>4, FS_Surjection
<1>6. Callers(t) \subseteq clients
  BY DEF Callers, Served
<1> QED  BY <1>3, <1>5, <1>6, FS_CardinalityType

\* A construction succeeds: its callers get their handles.
LEMMA BuildOkCore ==
  ASSUME EngineCore, NEW t \in Topics, BuildOk(t)
  PROVE  /\ EngineCore' /\ t \notin live
         /\ \A x \in Topics : HandleHolders(x)' =
              IF x = t THEN Callers(t) ELSE HandleHolders(x)
<1>0. /\ EngineTypeOK /\ TypeOK /\ NothingHalfBuilt /\ GoneHoldNothing /\ HeldTopicsLive
      /\ t \in building
      /\ ClientSubscribe(Feed, Once(TopicInsts[t]), 2)
      /\ live' = live \cup {t}
      /\ refCount' = [refCount EXCEPT ![t] = Cardinality(Served(t))]
      /\ leased' = IF t \in polled THEN leased \cup {t} ELSE leased
      /\ slot' = [c \in Clients |->
           IF \E w \in Served(t) : w[1] = c THEN [slot[c] EXCEPT ![t] = "held"] ELSE slot[c]]
      /\ timer' = TRUE
      /\ building' = building \ {t}
      /\ waiting' = [waiting EXCEPT ![t] = {}]
      /\ polled' = polled \ {t}
      /\ UNCHANGED <<feed, session, clients, keys, asked>>
  BY DEF EngineCore, EngineTypeOK, BuildOk
<1>1. t \notin live /\ HandleHolders(t) = {}
  BY <1>0 DEF NothingHalfBuilt, HeldTopicsLive
<1>2. TypeOK'
  <2>1. Feed \in Brokers /\ Once(TopicInsts[t]) \in [Insts -> Nat] /\ 2 \in 0..3
    BY EngineAssumption, HubAssumption DEF Once
  <2>2. refCounts' \in [Brokers -> [Insts -> Nat]]
    <3>1. \A i \in Insts : refCounts[Feed][i] + Once(TopicInsts[t])[i] \in Nat
      BY <1>0, <2>1 DEF TypeOK
    <3> QED  BY <1>0, <3>1 DEF ClientSubscribe, TypeOK
  <2>3. TrackSubs(subs[Feed], Named(Once(TopicInsts[t])), 2) \in [Insts -> 0..3]
    BY <1>0, <2>1 DEF TrackSubs, Higher, TypeOK
  <2> QED  BY <1>0, <2>2, <2>3 DEF ClientSubscribe, TypeOK
<1>3. \A x \in Topics : HandleHolders(x)' =
        IF x = t THEN Callers(t) ELSE HandleHolders(x)
  <2> SUFFICES ASSUME NEW x \in Topics
               PROVE  HandleHolders(x)' = IF x = t THEN Callers(t) ELSE HandleHolders(x)
    OBVIOUS
  <2>1. clients' = clients /\ clients \subseteq Clients
    BY <1>0 DEF TypeOK
  <2>2. \A c \in Clients : slot'[c][x] =
          IF x = t /\ c \in Callers(t) THEN "held" ELSE slot[c][x]
    BY <1>0 DEF Callers, EngineTypeOK
  <2>3. Callers(t) \subseteq clients
    BY <1>0, CallersCounted
  <2> QED  BY <1>1, <2>1, <2>2, <2>3 DEF HandleHolders
<1>4. EngineTypeOK'
  <2>1. slot' \in [Clients -> [Topics -> {"free", "reserved", "held"}]]
    BY <1>0 DEF EngineTypeOK
  <2>2. refCount' \in [Topics -> Nat]
    BY <1>0, CallersCounted DEF EngineTypeOK
  <2> QED  BY <1>0, <1>2, <2>1, <2>2 DEF EngineTypeOK
<1>5. HeldTopicsLive'
  BY <1>0, <1>3, CallersCounted DEF HeldTopicsLive, EngineTypeOK
<1>6. NothingHalfBuilt'
  BY <1>0 DEF NothingHalfBuilt
<1>7. GoneHoldNothing'
  <2>1. \A c \in Clients \ clients : slot'[c] = slot[c]
    BY <1>0 DEF Served
  <2> QED  BY <1>0, <2>1 DEF GoneHoldNothing
<1> QED  BY <1>1, <1>3, <1>2, <1>4, <1>5, <1>6, <1>7 DEF EngineCore

\* It succeeds for clients that are gone, or fails: nobody gets a handle.
LEMMA BuildLostCore ==
  ASSUME EngineCore, NEW t \in Topics, BuildAbandoned(t) \/ BuildFail(t)
  PROVE  /\ EngineCore'
         /\ \A x \in Topics : HandleHolders(x)' = HandleHolders(x)
<1>0. /\ EngineTypeOK /\ TypeOK /\ NothingHalfBuilt /\ GoneHoldNothing /\ HeldTopicsLive
      /\ t \in building
      /\ building' = building \ {t} /\ waiting' = [waiting EXCEPT ![t] = {}]
      /\ UNCHANGED <<feed, session, clients, keys, asked, adapter, refCounts, severed,
                     live, refCount, leased, timer>>
  BY DEF EngineCore, EngineTypeOK, BuildAbandoned, BuildFail, hubVars
<1>1. t \notin live /\ HandleHolders(t) = {}
  BY <1>0 DEF NothingHalfBuilt, HeldTopicsLive
<1>2. \A c \in Clients, x \in Topics :
        slot'[c][x] = slot[c][x] \/ (x = t /\ slot'[c][x] = "free")
  BY <1>0 DEF BuildAbandoned, BuildFail, EngineTypeOK
<1>3. slot' \in [Clients -> [Topics -> {"free", "reserved", "held"}]]
  BY <1>0 DEF BuildAbandoned, BuildFail, EngineTypeOK
<1>4. \A x \in Topics : HandleHolders(x)' = HandleHolders(x)
  BY <1>0, <1>1, <1>2 DEF HandleHolders, TypeOK
<1>5. TypeOK'
  <2>1. BuildFail(t) => subs' = subs
    BY DEF BuildFail, hubVars
  <2>2. BuildAbandoned(t) => subs' \in [Brokers -> [Insts -> 0..3]]
    <3> SUFFICES ASSUME BuildAbandoned(t) PROVE subs' \in [Brokers -> [Insts -> 0..3]]
      OBVIOUS
    <3>1. \A S : TrackSubs(subs[Feed], S, 2) \in [Insts -> 0..3]
      BY <1>0, EngineAssumption, HubAssumption DEF TrackSubs, Higher, TypeOK
    <3>2. \A S, D : DropSubs(TrackSubs(subs[Feed], S, 2), D) \in [Insts -> 0..3]
      BY <3>1 DEF DropSubs
    <3> QED  BY <1>0, <3>2 DEF BuildAbandoned, TypeOK
  <2> QED  BY <1>0, <2>1, <2>2 DEF TypeOK
<1>6. polled' \subseteq Topics
  BY <1>0 DEF BuildAbandoned, BuildFail, EngineTypeOK
<1>7. EngineTypeOK'
  BY <1>0, <1>3, <1>5, <1>6 DEF EngineTypeOK
<1>8. NothingHalfBuilt' /\ HeldTopicsLive'
  BY <1>0, <1>4 DEF NothingHalfBuilt, HeldTopicsLive
<1>9. GoneHoldNothing'
  BY <1>0, <1>2 DEF GoneHoldNothing
<1> QED  BY <1>4, <1>7, <1>8, <1>9 DEF EngineCore

\* The compute timer reaps topics nobody holds.
LEMMA ReapCore ==
  ASSUME EngineCore, TickAllTopics
  PROVE  /\ EngineCore'
         /\ \A x \in Topics : HandleHolders(x)' = HandleHolders(x)
<1>0. /\ EngineTypeOK /\ TypeOK /\ NothingHalfBuilt /\ GoneHoldNothing /\ HeldTopicsLive
      /\ Destroy(Reapable, NoneLetGo)
      /\ UNCHANGED <<feed, session, clients, keys, asked, building, refCount, leased,
                     waiting, polled, slot>>
  BY DEF EngineCore, EngineTypeOK, TickAllTopics
<1>1. Reapable \in SUBSET Topics /\ live' = live \ Reapable
  BY <1>0 DEF Reapable, Destroy, EngineTypeOK
<1>2. \A x \in Topics : HandleHolders(x)' = HandleHolders(x)
  BY <1>0 DEF HandleHolders
<1>3. TypeOK'
  BY <1>0, <1>1, DestroyTyped, EngineLetGoTyped DEF TypeOK
<1>4. EngineTypeOK' /\ NothingHalfBuilt'
  BY <1>0, <1>1, <1>3 DEF EngineTypeOK, NothingHalfBuilt, Destroy, StopIfIdle
<1>5. \A x \in Reapable : HandleHolders(x) = {}
  <2> SUFFICES ASSUME NEW x \in Reapable PROVE HandleHolders(x) = {}
    OBVIOUS
  <2>1. /\ Cardinality(HandleHolders(x)) <= refCount[x] /\ refCount[x] <= 0
        /\ refCount[x] \in Nat
    BY <1>0 DEF Reapable, HeldTopicsLive, EngineTypeOK
  <2>2. IsFiniteSet(HandleHolders(x)) /\ Cardinality(HandleHolders(x)) \in Nat
    BY <1>0, HandlesFinite
  <2>3. Cardinality(HandleHolders(x)) = 0
    BY <2>1, <2>2
  <2> QED  BY <2>2, <2>3, FS_EmptySet
<1>6. HeldTopicsLive'
  BY <1>0, <1>1, <1>2, <1>5 DEF HeldTopicsLive
<1>7. GoneHoldNothing'
  BY <1>0 DEF GoneHoldNothing
<1> QED  BY <1>2, <1>4, <1>6, <1>7 DEF EngineCore

\* Every step keeps the core.
LEMMA CoreStep == EngineCore /\ [EngineNext]_allVars => EngineCore'
<1> SUFFICES ASSUME EngineCore, [EngineNext]_allVars PROVE EngineCore'
  OBVIOUS
<1>1. CASE HubStep \/ FeedStop
  BY <1>1, HubStepCore
<1>2. ASSUME NEW c \in Clients, EngineConnect(c) \/ EngineClose(c) PROVE EngineCore'
  BY <1>2, ConnectCore, CloseCore
<1>3. ASSUME NEW c \in Clients, NEW t \in Topics, EngineSubscribe(c, t) \/ EngineUnsubscribe(c, t)
      PROVE  EngineCore'
  BY <1>3, SubscribeCore, UnsubscribeCore
<1>4. ASSUME NEW t \in Topics, Poll(t) \/ LapseLease(t) \/ Settle(t) PROVE EngineCore'
  BY <1>4, LeaseStepCore, BuildOkCore, BuildLostCore DEF Settle
<1>5. CASE TickAllTopics
  BY <1>5, ReapCore
<1>6. CASE UNCHANGED allVars
  <2>1. UNCHANGED <<hubVars, engineVars>>
    BY <1>6 DEF allVars
  <2>2. EngineTypeOK' /\ NothingHalfBuilt' /\ GoneHoldNothing'
    BY <2>1 DEF EngineCore, EngineTypeOK, TypeOK, NothingHalfBuilt, GoneHoldNothing, hubVars,
                engineVars
  <2>3. HeldTopicsLive'
    BY <2>1 DEF EngineCore, HeldTopicsLive, HandleHolders, hubVars, engineVars
  <2> QED  BY <2>2, <2>3 DEF EngineCore
<1> QED  BY <1>1, <1>2, <1>3, <1>4, <1>5, <1>6 DEF EngineNext, EngineStep

\* It holds to begin with.
LEMMA CoreInit == EngineInit => EngineCore
<1> SUFFICES ASSUME EngineInit PROVE EngineCore
  OBVIOUS
<1>1. EngineTypeOK /\ NothingHalfBuilt
  BY TypeInit DEF EngineInit, EngineTypeOK, NothingHalfBuilt
<1>2. GoneHoldNothing
  BY DEF EngineInit, HubInit, GoneHoldNothing
<1>3. \A t \in Topics : HandleHolders(t) = {} /\ refCount[t] = 0
  BY DEF EngineInit, HubInit, HandleHolders
<1>4. Cardinality({}) = 0
  BY FS_EmptySet
<1> QED  BY <1>1, <1>2, <1>3, <1>4 DEF EngineCore, HeldTopicsLive

\* A client that holds a handle holds it on a topic that exists, and the topic
\* counts it: no release, lapse, reaping, failed construction or close destroys
\* a topic under a subscriber, whatever the clients send and when.
THEOREM HeldTopicsExist == EngineSpec => []HeldTopicsLive
<1>1. EngineCore => HeldTopicsLive
  BY DEF EngineCore
<1> QED  BY <1>1, CoreInit, CoreStep, PTL DEF EngineSpec

\* The engine and the feed hub under it keep their types; no topic's count of subscribers
\* becomes negative, no topic is built a second time beside itself, and a socket that is
\* gone keeps neither a key nor a slot.
THEOREM EngineTypes == EngineSpec => [](EngineTypeOK /\ NothingHalfBuilt /\ GoneHoldNothing)
<1>1. EngineCore => EngineTypeOK /\ NothingHalfBuilt /\ GoneHoldNothing
  BY DEF EngineCore
<1> QED  BY <1>1, CoreInit, CoreStep, PTL DEF EngineSpec

-----------------------------------------------------------------------------
(* The shares of browsers and topics in the counts of the feed's broker. *)

Shares == EngineCore /\ SharesCounted

\* A client that lets go of the keys of D leaves the holders of those alone.
LEMMA HolderLeaves ==
  ASSUME TypeOK, NEW c \in Clients, NEW D \in SUBSET keys[c],
         keys' = [keys EXCEPT ![c] = @ \ D]
  PROVE  \A b \in Brokers, i \in Insts :
           /\ Cardinality(Holders(b, i)') \in Nat
           /\ Cardinality(Holders(b, i)') =
                Cardinality(Holders(b, i)) - (IF <<b, i>> \in D THEN 1 ELSE 0)
<1> SUFFICES ASSUME NEW b \in Brokers, NEW i \in Insts
             PROVE  /\ Cardinality(Holders(b, i)') \in Nat
                    /\ Cardinality(Holders(b, i)') =
                         Cardinality(Holders(b, i)) - (IF <<b, i>> \in D THEN 1 ELSE 0)
  OBVIOUS
<1>1. IsFiniteSet(Holders(b, i)) /\ Cardinality(Holders(b, i)) \in Nat
  BY HoldersFinite
<1>2. CASE <<b, i>> \in D
  <2>1. Holders(b, i)' = Holders(b, i) \ {c} /\ c \in Holders(b, i)
    BY <1>2 DEF Holders, TypeOK
  <2>2. IsFiniteSet(Holders(b, i) \ {c})
        /\ Cardinality(Holders(b, i) \ {c}) = Cardinality(Holders(b, i)) - 1
    BY <1>1, <2>1, FS_RemoveElement
  <2>3. Cardinality(Holders(b, i) \ {c}) \in Nat
    BY <2>2, FS_CardinalityType
  <2> QED  BY <1>2, <2>1, <2>2, <2>3
<1>3. CASE <<b, i>> \notin D
  <2>1. Holders(b, i)' = Holders(b, i)
    BY <1>3 DEF Holders, TypeOK
  <2> QED  BY <1>1, <1>3, <2>1
<1> QED  BY <1>2, <1>3

\* A release takes no more from a count than the shares it gives up.
LEMMA LetGoKeepsShares ==
  ASSUME EngineTypeOK, SharesCounted, NEW let \in LetGo, ClientUnsubscribe(let),
         live' \subseteq Topics,
         \A i \in Insts :
           /\ Cardinality(Holders(Feed, i)') \in Nat
           /\ Cardinality(Holders(Feed, i)') + Cardinality(Over(live', i)) + let[Feed][i]
                <= Cardinality(Holders(Feed, i)) + Cardinality(Over(live, i))
  PROVE  SharesCounted'
<1> SUFFICES ASSUME NEW i \in Insts
             PROVE  Cardinality(Holders(Feed, i)') + Cardinality(Over(live', i))
                      <= refCounts'[Feed][i]
  BY DEF SharesCounted, Over, Holders
<1>1. Feed \in Brokers
  BY EngineAssumption, HubAssumption
<1>2. Cardinality(Holders(Feed, i)) + Cardinality(Over(live, i)) <= refCounts[Feed][i]
  BY DEF SharesCounted, Over
<1>3. /\ Cardinality(Holders(Feed, i)) \in Nat /\ refCounts[Feed][i] \in Nat
      /\ let[Feed][i] \in Nat
  BY <1>1, HoldersFinite DEF EngineTypeOK, TypeOK, LetGo
<1>4. Cardinality(Over(live, i)) \in Nat /\ Cardinality(Over(live', i)) \in Nat
  BY OverCounts DEF EngineTypeOK
<1>5. refCounts'[Feed][i] =
        IF i \in Released(let, Feed) THEN 0 ELSE refCounts[Feed][i] - let[Feed][i]
  BY <1>1 DEF ClientUnsubscribe
<1>6. CASE i \in Released(let, Feed)
  <2>1. refCounts[Feed][i] <= let[Feed][i]
    BY <1>6 DEF Released
  <2> QED  BY <1>2, <1>3, <1>4, <1>5, <1>6, <2>1
<1>7. CASE i \notin Released(let, Feed)
  BY <1>2, <1>3, <1>4, <1>5, <1>7
<1> QED  BY <1>6, <1>7

\* So does destroying topics, in a handler that also lets go of a client's keys.
LEMMA DestroyKeepsShares ==
  ASSUME EngineTypeOK, SharesCounted, NEW D \in SUBSET live, NEW rel \in LetGo,
         Destroy(D, rel),
         \A i \in Insts :
           /\ Cardinality(Holders(Feed, i)') \in Nat
           /\ Cardinality(Holders(Feed, i)') + rel[Feed][i] <= Cardinality(Holders(Feed, i))
  PROVE  SharesCounted'
<1> DEFINE let == Plus(rel, TopicLetGo(D))
<1>1. live \in SUBSET Topics /\ D \in SUBSET Topics /\ live' = live \ D
  BY DEF EngineTypeOK, Destroy
<1>2. let \in LetGo /\ \A i \in Insts : let[Feed][i] = rel[Feed][i] + Cardinality(Over(D, i))
  BY <1>1, TopicsLetGo
<1>3. ClientUnsubscribe(let)
  BY DEF Destroy
<1>4. \A i \in Insts :
        Cardinality(Holders(Feed, i)') + Cardinality(Over(live', i)) + let[Feed][i]
          <= Cardinality(Holders(Feed, i)) + Cardinality(Over(live, i))
  <2> SUFFICES ASSUME NEW i \in Insts
               PROVE  Cardinality(Holders(Feed, i)') + Cardinality(Over(live', i)) + let[Feed][i]
                        <= Cardinality(Holders(Feed, i)) + Cardinality(Over(live, i))
    OBVIOUS
  <2>1. Cardinality(Over(live', i)) = Cardinality(Over(live, i)) - Cardinality(Over(D, i))
        /\ Cardinality(Over(live, i)) \in Nat /\ Cardinality(Over(D, i)) \in Nat
    BY <1>1, OverCounts
  <2>2. Cardinality(Holders(Feed, i)) \in Nat /\ rel[Feed][i] \in Nat
    BY EngineAssumption, HubAssumption, HoldersFinite DEF LetGo
  <2>3. let[Feed][i] = rel[Feed][i] + Cardinality(Over(D, i))
    BY <1>2
  <2> HIDE DEF let
  <2> QED  BY <2>1, <2>2, <2>3
<1> HIDE DEF let
<1> QED  BY <1>1, <1>2, <1>3, <1>4, LetGoKeepsShares

\* Steps that leave the keys, the topics and the counts alone.
LEMMA SharesUntouched ==
  ASSUME SharesCounted, UNCHANGED <<keys, live, refCounts>> PROVE SharesCounted'
BY DEF SharesCounted, Holders

\* A client's own subscription counts its share.
LEMMA WsSubscribeShares ==
  ASSUME EngineTypeOK, SharesCounted, NEW c \in Clients, NEW b \in Brokers,
         NEW req \in Requests, NEW mode \in Modes, WsSubscribe(c, b, req, mode),
         live' = live
  PROVE  SharesCounted'
<1> SUFFICES ASSUME NEW i \in Insts
             PROVE  Cardinality(Holders(Feed, i)') + Cardinality(Over(live, i))
                      <= refCounts'[Feed][i]
  BY DEF SharesCounted, Over, Holders
<1>0. TypeOK /\ Feed \in Brokers
  BY EngineAssumption, HubAssumption DEF EngineTypeOK
<1>1. /\ refCounts[Feed][i] \in Nat /\ req[i] \in Nat
      /\ IsFiniteSet(Holders(Feed, i)) /\ Cardinality(Holders(Feed, i)) \in Nat
      /\ Cardinality(Over(live, i)) \in Nat
      /\ Cardinality(Holders(Feed, i)) + Cardinality(Over(live, i)) <= refCounts[Feed][i]
  <2>1. refCounts[Feed][i] \in Nat /\ req[i] \in Nat
    BY <1>0, HubAssumption DEF TypeOK, Requests
  <2>2. IsFiniteSet(Holders(Feed, i)) /\ Cardinality(Holders(Feed, i)) \in Nat
    BY <1>0, HoldersFinite
  <2>3. Cardinality(Over(live, i)) \in Nat
    BY OverCounts DEF EngineTypeOK
  <2> QED  BY <2>1, <2>2, <2>3 DEF SharesCounted, Over
<1>2. refCounts'[Feed][i] =
        IF Feed = b THEN refCounts[Feed][i] + req[i] ELSE refCounts[Feed][i]
  BY <1>0 DEF WsSubscribe, ClientSubscribe, TypeOK
<1>3. CASE Feed = b /\ i \in Named(req)
  <2>1. Holders(Feed, i)' = Holders(Feed, i) \cup {c}
    BY <1>0, <1>3 DEF WsSubscribe, Holders, TypeOK
  <2>2. Cardinality(Holders(Feed, i)') \in {Cardinality(Holders(Feed, i)),
                                           Cardinality(Holders(Feed, i)) + 1}
    BY <1>1, <2>1, FS_AddElement
  <2>3. req[i] >= 1
    BY <1>1, <1>3 DEF Named
  <2> QED  BY <1>1, <1>2, <1>3, <2>2, <2>3
<1>4. CASE ~(Feed = b /\ i \in Named(req))
  <2>1. Holders(Feed, i)' = Holders(Feed, i)
    BY <1>0, <1>4 DEF WsSubscribe, Holders, TypeOK
  <2> QED  BY <1>1, <1>2, <2>1
<1> QED  BY <1>3, <1>4

\* The construction of a topic counts its share, once per instrument.
LEMMA BuildOkShares ==
  ASSUME EngineTypeOK, SharesCounted, NEW t \in Topics, t \notin live, BuildOk(t)
  PROVE  SharesCounted'
<1> SUFFICES ASSUME NEW i \in Insts
             PROVE  Cardinality(Holders(Feed, i)) + Cardinality(Over(live \cup {t}, i))
                      <= refCounts'[Feed][i]
  BY DEF SharesCounted, Over, Holders, BuildOk
<1>0. TypeOK /\ Feed \in Brokers /\ live \cup {t} \in SUBSET Topics /\ live \subseteq Topics
  BY EngineAssumption, HubAssumption DEF EngineTypeOK
<1>1. refCounts'[Feed][i] = refCounts[Feed][i] + Once(TopicInsts[t])[i]
  BY <1>0 DEF BuildOk, ClientSubscribe, TypeOK
<1>2. /\ Cardinality(Holders(Feed, i)) \in Nat /\ refCounts[Feed][i] \in Nat
      /\ Cardinality(Over(live, i)) \in Nat
      /\ Cardinality(Holders(Feed, i)) + Cardinality(Over(live, i)) <= refCounts[Feed][i]
  <2>1. refCounts[Feed][i] \in Nat /\ Cardinality(Holders(Feed, i)) \in Nat
    BY <1>0, HoldersFinite DEF TypeOK
  <2>2. Cardinality(Over(live, i)) \in Nat
    BY <1>0, OverCounts
  <2> QED  BY <2>1, <2>2 DEF SharesCounted, Over
<1>3. Cardinality(Over(live \cup {t}, i)) <= Cardinality(Over(live, i)) + Once(TopicInsts[t])[i]
      /\ Cardinality(Over(live \cup {t}, i)) \in Nat
  <2>1. Over(live \cup {t}, i) =
          IF i \in TopicInsts[t] THEN Over(live, i) \cup {t} ELSE Over(live, i)
    BY DEF Over
  <2>2. IsFiniteSet(Over(live, i))
    BY <1>0, EngineAssumption, FS_Subset DEF Over
  <2>3. Cardinality(Over(live, i) \cup {t}) \in {Cardinality(Over(live, i)),
                                               Cardinality(Over(live, i)) + 1}
    BY <2>2, FS_AddElement
  <2>4. Once(TopicInsts[t])[i] = IF i \in TopicInsts[t] THEN 1 ELSE 0
    BY DEF Once
  <2> QED  BY <1>2, <2>1, <2>3, <2>4
<1>4. Once(TopicInsts[t])[i] \in Nat
  BY DEF Once
<1> QED  BY <1>1, <1>2, <1>3, <1>4

\* Every step keeps the shares counted.
LEMMA SharesStep == EngineCore /\ SharesCounted /\ [EngineNext]_allVars => SharesCounted'
<1> SUFFICES ASSUME EngineCore, SharesCounted, [EngineNext]_allVars PROVE SharesCounted'
  OBVIOUS
<1>0. /\ EngineTypeOK /\ TypeOK /\ HeldTopicsLive
      /\ Feed \in Brokers /\ live \subseteq Topics
  BY EngineAssumption, HubAssumption DEF EngineCore, EngineTypeOK
<1>1. CASE HubStep \/ FeedStop
  <2>0. live' = live
    BY <1>1 DEF HubStep, FeedStop, engineVars
  <2>1. ASSUME NEW c \in Clients, NEW b \in Brokers, NEW req \in Requests, NEW mode \in Modes,
               WsSubscribe(c, b, req, mode)
        PROVE  SharesCounted'
    BY <1>0, <2>0, <2>1, WsSubscribeShares
  <2>2. ASSUME NEW c \in Clients, NEW b \in Brokers, NEW S \in SUBSET Insts, WsUnsubscribe(c, b, S)
        PROVE  SharesCounted'
    <3>1. PICK D \in SUBSET keys[c], rel \in LetGo :
            /\ ClientUnsubscribe(rel)
            /\ \A x \in Brokers, i \in Insts : rel[x][i] = IF <<x, i>> \in D THEN 1 ELSE 0
            /\ keys' = [keys EXCEPT ![c] = @ \ D]
      BY <1>0, <2>2, ClientLetsGo
    <3>0. \A x \in Brokers, i \in Insts :
            /\ Cardinality(Holders(x, i)') \in Nat
            /\ Cardinality(Holders(x, i)') =
                 Cardinality(Holders(x, i)) - (IF <<x, i>> \in D THEN 1 ELSE 0)
      BY <1>0, <3>1, HolderLeaves
    <3>2. \A i \in Insts :
            /\ Cardinality(Holders(Feed, i)') \in Nat
            /\ Cardinality(Holders(Feed, i)') + Cardinality(Over(live', i)) + rel[Feed][i]
                 <= Cardinality(Holders(Feed, i)) + Cardinality(Over(live, i))
      <4> SUFFICES ASSUME NEW i \in Insts
                   PROVE  /\ Cardinality(Holders(Feed, i)') \in Nat
                          /\ Cardinality(Holders(Feed, i)') + Cardinality(Over(live', i))
                               + rel[Feed][i]
                               <= Cardinality(Holders(Feed, i)) + Cardinality(Over(live, i))
        OBVIOUS
      <4>1. /\ Cardinality(Holders(Feed, i)') \in Nat
            /\ Cardinality(Holders(Feed, i)') =
                 Cardinality(Holders(Feed, i)) - (IF <<Feed, i>> \in D THEN 1 ELSE 0)
        BY <1>0, <3>0
      <4>2. Cardinality(Holders(Feed, i)) \in Nat /\ rel[Feed][i] \in Nat
        BY <1>0, HoldersFinite DEF LetGo
      <4>3. Cardinality(Over(live, i)) \in Nat
        BY <1>0, OverCounts
      <4>4. rel[Feed][i] = IF <<Feed, i>> \in D THEN 1 ELSE 0
        BY <1>0, <3>1
      <4> QED  BY <2>0, <4>1, <4>2, <4>3, <4>4
    <3>3. live' \subseteq Topics
      BY <1>0, <2>0
    <3> QED  BY <1>0, <3>1, <3>2, <3>3, LetGoKeepsShares
  <2>3. LoginStep \/ FeedStop => SharesCounted'
    BY <2>0, SharesUntouched DEF LoginStep, SetFeedAccount, RestStart, RestStartAll,
       StartBrokers, StoreSession, DeleteSession, FeedStop, RestStop
  <2> QED  BY <1>1, <2>1, <2>2, <2>3 DEF HubStep
<1>2. ASSUME NEW c \in Clients, EngineConnect(c) PROVE SharesCounted'
  <2>1. keys' = keys
    BY <1>0, <1>2 DEF EngineConnect, Connect, EngineCore, GoneHoldNothing, TypeOK
  <2> QED  BY <1>2, <2>1, SharesUntouched DEF EngineConnect, Connect, engineVars
<1>3. ASSUME NEW c \in Clients, EngineClose(c) PROVE SharesCounted'
  <2> DEFINE R == {t \in Topics : slot[c][t] = "held"}
             rel == [b \in Brokers |-> Once(HeldBy(c, b))]
  <2>1. Destroy(Dying(R), rel) /\ keys' = [keys EXCEPT ![c] = {}] /\ c \in clients
    BY <1>3 DEF EngineClose, ReleaseHandles
  <2>2. rel \in LetGo
    BY EngineLetGoTyped
  <2>3. \A i \in Insts : rel[Feed][i] = IF <<Feed, i>> \in keys[c] THEN 1 ELSE 0
    BY <1>0 DEF Once, HeldBy
  <2>4. keys' = [keys EXCEPT ![c] = @ \ keys[c]]
    BY <1>0, <2>1 DEF TypeOK
  <2>5. Dying(R) \in SUBSET live
    BY <1>0, <2>1 DEF Dying, HeldTopicsLive, HandleHolders
  <2> HIDE DEF rel, R
  <2>0. \A b \in Brokers, i \in Insts :
          /\ Cardinality(Holders(b, i)') \in Nat
          /\ Cardinality(Holders(b, i)') =
               Cardinality(Holders(b, i)) - (IF <<b, i>> \in keys[c] THEN 1 ELSE 0)
    BY <1>0, <2>4, HolderLeaves
  <2>6. \A i \in Insts :
          /\ Cardinality(Holders(Feed, i)') \in Nat
          /\ Cardinality(Holders(Feed, i)') + rel[Feed][i] <= Cardinality(Holders(Feed, i))
    <3> SUFFICES ASSUME NEW i \in Insts
                 PROVE  /\ Cardinality(Holders(Feed, i)') \in Nat
                        /\ Cardinality(Holders(Feed, i)') + rel[Feed][i]
                             <= Cardinality(Holders(Feed, i))
      OBVIOUS
    <3>1. /\ Cardinality(Holders(Feed, i)') \in Nat
          /\ Cardinality(Holders(Feed, i)') =
               Cardinality(Holders(Feed, i)) - (IF <<Feed, i>> \in keys[c] THEN 1 ELSE 0)
      BY <1>0, <2>0
    <3>2. Cardinality(Holders(Feed, i)) \in Nat /\ rel[Feed][i] \in Nat
      BY <1>0, <2>2, HoldersFinite DEF LetGo
    <3> QED  BY <2>3, <3>1, <3>2
  <2> QED  BY <1>0, <2>1, <2>2, <2>5, <2>6, DestroyKeepsShares
<1>4. ASSUME NEW D \in SUBSET live, Destroy(D, NoneLetGo), keys' = keys PROVE SharesCounted'
  <2>1. \A i \in Insts :
          /\ Cardinality(Holders(Feed, i)') \in Nat
          /\ Cardinality(Holders(Feed, i)') + NoneLetGo[Feed][i] <= Cardinality(Holders(Feed, i))
    <3> SUFFICES ASSUME NEW i \in Insts
                 PROVE  /\ Cardinality(Holders(Feed, i)') \in Nat
                        /\ Cardinality(Holders(Feed, i)') + NoneLetGo[Feed][i]
                             <= Cardinality(Holders(Feed, i))
      OBVIOUS
    <3>1. Holders(Feed, i)' = Holders(Feed, i) /\ NoneLetGo[Feed][i] = 0
      BY <1>0, <1>4 DEF Holders, NoneLetGo, Nothing
    <3>2. Cardinality(Holders(Feed, i)) \in Nat
      BY <1>0, HoldersFinite
    <3> QED  BY <3>1, <3>2
  <2> QED  BY <1>0, <1>4, <2>1, EngineLetGoTyped, DestroyKeepsShares
<1>5. ASSUME NEW c \in Clients, NEW t \in Topics, EngineSubscribe(c, t) PROVE SharesCounted'
  BY <1>5, SharesUntouched DEF EngineSubscribe, hubVars
<1>6. ASSUME NEW c \in Clients, NEW t \in Topics, EngineUnsubscribe(c, t) PROVE SharesCounted'
  <2>1. CASE slot[c][t] = "held"
    <3>1. Destroy(Dying({t}), NoneLetGo) /\ keys' = keys /\ c \in clients
      BY <1>6, <2>1 DEF EngineUnsubscribe, ReleaseHandles
    <3>2. Dying({t}) \in SUBSET live
      BY <1>0, <2>1, <3>1 DEF Dying, HeldTopicsLive, HandleHolders
    <3> QED  BY <1>4, <3>1, <3>2
  <2>2. CASE slot[c][t] # "held"
    BY <1>6, <2>2, SharesUntouched DEF EngineUnsubscribe
  <2> QED  BY <2>1, <2>2
<1>7. ASSUME NEW t \in Topics, Poll(t) \/ LapseLease(t) PROVE SharesCounted'
  BY <1>7, SharesUntouched DEF Poll, LapseLease, hubVars
<1>8. ASSUME NEW t \in Topics, BuildOk(t) PROVE SharesCounted'
  BY <1>0, <1>8, BuildOkCore, BuildOkShares
<1>9. ASSUME NEW t \in Topics, BuildAbandoned(t) \/ BuildFail(t) PROVE SharesCounted'
  BY <1>9, SharesUntouched DEF BuildAbandoned, BuildFail, hubVars
<1>10. CASE TickAllTopics
  BY <1>4, <1>10 DEF TickAllTopics, Reapable
<1>11. CASE UNCHANGED allVars
  BY <1>11, SharesUntouched DEF allVars, hubVars, engineVars
<1> QED  BY <1>1, <1>2, <1>3, <1>5, <1>6, <1>7, <1>8, <1>9, <1>10, <1>11
         DEF EngineNext, EngineStep, Settle

\* Browsers and topics share the reference counts of the feed's broker: the count
\* of an instrument is never below the browsers that hold it and the topics over
\* it together, so neither can use up the other's share.
THEOREM SharesAreCounted == EngineSpec => []SharesCounted
<1>1. EngineInit => SharesCounted
  <2> SUFFICES ASSUME EngineInit PROVE SharesCounted
    OBVIOUS
  <2>1. \A i \in Insts : /\ Holders(Feed, i) = {} /\ {t \in live : i \in TopicInsts[t]} = {}
                         /\ refCounts[Feed][i] = 0
    BY EngineAssumption, HubAssumption DEF EngineInit, HubInit, Holders, Nothing
  <2>2. Cardinality({}) = 0
    BY FS_EmptySet
  <2> QED  BY <2>1, <2>2 DEF SharesCounted
<1>2. Shares /\ [EngineNext]_allVars => Shares'
  BY CoreStep, SharesStep DEF Shares
<1>3. Shares => SharesCounted
  BY DEF Shares
<1>4. EngineInit => Shares
  BY <1>1, CoreInit DEF Shares
<1> QED  BY <1>2, <1>3, <1>4, PTL DEF EngineSpec

-----------------------------------------------------------------------------
(* With clients that wait for the answer, the counts are exact. *)

\* A client that is there has one call at most for a topic, and its slot reserved.
OneCallEach ==
  \A t \in Topics : \A w \in waiting[t] :
    /\ w[1] \in clients => slot[w[1]][t] = "reserved"
    /\ \A v \in waiting[t] : v[1] = w[1] => v = w

Exact == EngineCore /\ OneCallEach /\ NoLeakedLease

\* Every step keeps the reservations.
LEMMA OneCallStep ==
  ASSUME ~Impatient, EngineCore, OneCallEach, [EngineNext]_allVars
  PROVE  OneCallEach'
<1>0. /\ EngineTypeOK /\ TypeOK /\ NothingHalfBuilt
      /\ waiting \in [Topics -> SUBSET (Clients \X (1..MaxCalls))]
      /\ slot \in [Clients -> [Topics -> {"free", "reserved", "held"}]]
  BY DEF EngineCore, EngineTypeOK
<1>1. ASSUME UNCHANGED <<waiting, slot, clients>> PROVE OneCallEach'
  BY <1>1 DEF OneCallEach
<1>2. CASE HubStep \/ FeedStop
  <2>1. UNCHANGED engineVars /\ clients' = clients
    BY <1>2 DEF HubStep, FeedStop, WsSubscribe, WsUnsubscribe, LoginStep, SetFeedAccount,
           RestStart, RestStartAll, StartBrokers, StoreSession, DeleteSession, RestStop
  <2> QED  BY <1>1, <2>1 DEF engineVars
<1>3. ASSUME NEW c \in Clients, EngineConnect(c) PROVE OneCallEach'
  BY <1>0, <1>3 DEF EngineConnect, Connect, CallsOf, engineVars, OneCallEach
<1>4. ASSUME NEW c \in Clients, EngineClose(c) PROVE OneCallEach'
  BY <1>0, <1>4 DEF EngineClose, OneCallEach
<1>5. ASSUME NEW c \in Clients, NEW t \in Topics, EngineSubscribe(c, t) PROVE OneCallEach'
  <2>0. c \in clients /\ slot[c][t] = "free" /\ clients' = clients
    BY <1>5 DEF EngineSubscribe, hubVars
  <2>1. \A w \in waiting[t] : w[1] # c
    BY <2>0 DEF OneCallEach
  <2>2. CASE t \in live
    <3>1. slot' = [slot EXCEPT ![c][t] = "held"] /\ waiting' = waiting
      BY <1>5, <2>2 DEF EngineSubscribe
    <3> QED  BY <1>0, <2>0, <2>1, <3>1 DEF OneCallEach
  <2>3. CASE t \notin live
    <3> DEFINE call == <<c, Cardinality(CallsOf(c, t)) + 1>>
    <3>1. /\ slot' = [slot EXCEPT ![c][t] = "reserved"]
          /\ waiting' = [waiting EXCEPT ![t] = @ \cup {call}]
      BY <1>5, <2>3 DEF EngineSubscribe
    <3>2. call[1] = c
      OBVIOUS
    <3> HIDE DEF call
    <3> QED  BY <1>0, <2>0, <2>1, <3>1, <3>2 DEF OneCallEach
  <2> QED  BY <2>2, <2>3
<1>6. ASSUME NEW c \in Clients, NEW t \in Topics, EngineUnsubscribe(c, t) PROVE OneCallEach'
  <2>1. /\ slot[c][t] = "held" /\ c \in clients
        /\ slot' = [slot EXCEPT ![c][t] = "free"] /\ UNCHANGED <<waiting, clients>>
    BY <1>6 DEF EngineUnsubscribe
  <2> QED  BY <1>0, <2>1 DEF OneCallEach
<1>7. ASSUME NEW t \in Topics, Poll(t) \/ LapseLease(t) PROVE OneCallEach'
  BY <1>1, <1>7 DEF Poll, LapseLease, hubVars
<1>8. ASSUME NEW t \in Topics, Settle(t) PROVE OneCallEach'
  <2>1. /\ waiting' = [waiting EXCEPT ![t] = {}] /\ clients' = clients
        /\ \A c \in Clients, x \in Topics : x # t => slot'[c][x] = slot[c][x]
    BY <1>0, <1>8 DEF Settle, BuildOk, BuildAbandoned, BuildFail, hubVars
  <2> QED  BY <1>0, <2>1 DEF OneCallEach, TypeOK
<1>9. CASE TickAllTopics
  BY <1>1, <1>9 DEF TickAllTopics
<1>10. CASE UNCHANGED allVars
  BY <1>1, <1>10 DEF allVars, hubVars, engineVars
<1> QED  BY <1>2, <1>3, <1>4, <1>5, <1>6, <1>7, <1>8, <1>9, <1>10 DEF EngineNext, EngineStep

\* What the counts and the topics of a step have to do with its holders, for the
\* counts to stay exact.
LEMMA StaysExact ==
  ASSUME EngineTypeOK, NoLeakedLease, live' \subseteq live,
         \A t \in live' : /\ refCount'[t] = refCount[t]
                          /\ HandleHolders(t)' = HandleHolders(t)
  PROVE  NoLeakedLease'
BY DEF NoLeakedLease

\* Releasing the handles of R takes each of them off its count.
LEMMA ReleaseExact ==
  ASSUME EngineTypeOK, NoLeakedLease, NEW c \in clients, NEW R \in SUBSET Topics, NEW rel,
         \A t \in R : slot[c][t] = "held",
         ReleaseHandles(R, rel),
         \A t \in Topics :
           HandleHolders(t)' = IF t \in R THEN HandleHolders(t) \ {c} ELSE HandleHolders(t)
  PROVE  NoLeakedLease'
<1> SUFFICES ASSUME NEW t \in live' PROVE refCount'[t] = Cardinality(HandleHolders(t)')
  BY DEF NoLeakedLease
<1>1. t \in live /\ t \in Topics
  BY DEF ReleaseHandles, Destroy, EngineTypeOK
<1>2. refCount[t] = Cardinality(HandleHolders(t))
  BY <1>1 DEF NoLeakedLease
<1>3. refCount'[t] = IF t \in R THEN refCount[t] - 1 ELSE refCount[t]
  BY <1>1 DEF ReleaseHandles
<1>4. t \in R => Cardinality(HandleHolders(t) \ {c}) = Cardinality(HandleHolders(t)) - 1
  <2> SUFFICES ASSUME t \in R
               PROVE  Cardinality(HandleHolders(t) \ {c}) = Cardinality(HandleHolders(t)) - 1
    OBVIOUS
  <2>1. c \in HandleHolders(t)
    BY DEF HandleHolders
  <2>2. IsFiniteSet(HandleHolders(t))
    BY HandlesFinite
  <2> QED  BY <2>1, <2>2, FS_RemoveElement
<1> QED  BY <1>1, <1>2, <1>3, <1>4

\* With one call each, the callers are as many as the calls.
LEMMA CallersExact ==
  ASSUME EngineTypeOK, OneCallEach, NEW t \in Topics
  PROVE  Cardinality(Callers(t)) = Cardinality(Served(t))
<1> DEFINE first == [w \in Served(t) |-> w[1]]
<1>1. first \in Surjection(Served(t), Callers(t))
  BY DEF Surjection, Callers
<1>2. \A v, w \in Served(t) : v[1] = w[1] => v = w
  BY DEF OneCallEach, Served
<1>3. first \in Injection(Served(t), Callers(t))
  BY <1>1, <1>2 DEF Surjection, Injection, IsInjective
<1>4. IsFiniteSet(Served(t))
  BY CallersCounted
<1> HIDE DEF first
<1> QED  BY <1>1, <1>3, <1>4, FS_Surjection

\* Every step keeps the counts of the topics exact.
LEMMA ExactStep ==
  ASSUME ~Impatient, Exact, [EngineNext]_allVars
  PROVE  NoLeakedLease'
<1>0. /\ EngineCore /\ EngineTypeOK /\ TypeOK /\ OneCallEach /\ NoLeakedLease
      /\ live \subseteq Topics
  BY DEF Exact, EngineCore, EngineTypeOK
<1>1. ASSUME UNCHANGED <<live, refCount, slot, clients>> PROVE NoLeakedLease'
  BY <1>0, <1>1 DEF NoLeakedLease, HandleHolders
<1>2. CASE HubStep \/ FeedStop
  <2>1. UNCHANGED engineVars /\ clients' = clients
    BY <1>2 DEF HubStep, FeedStop, WsSubscribe, WsUnsubscribe, LoginStep, SetFeedAccount,
           RestStart, RestStartAll, StartBrokers, StoreSession, DeleteSession, RestStop
  <2> QED  BY <1>1, <2>1 DEF engineVars
<1>3. ASSUME NEW c \in Clients, EngineConnect(c) PROVE NoLeakedLease'
  <2>1. \A t \in Topics : HandleHolders(t)' = HandleHolders(t)
    BY <1>0, <1>3, ConnectCore
  <2>2. UNCHANGED <<live, refCount>>
    BY <1>3 DEF EngineConnect, engineVars
  <2> QED  BY <1>0, <2>1, <2>2, StaysExact
<1>4. ASSUME NEW c \in Clients, EngineClose(c) PROVE NoLeakedLease'
  <2> DEFINE R == {t \in Topics : slot[c][t] = "held"}
  <2>1. c \in clients /\ ReleaseHandles(R, [b \in Brokers |-> Once(HeldBy(c, b))])
    BY <1>4 DEF EngineClose
  <2>2. \A t \in Topics : HandleHolders(t)' = HandleHolders(t) \ {c}
    BY <1>0, <1>4, CloseCore
  <2>3. \A t \in Topics :
          HandleHolders(t)' = IF t \in R THEN HandleHolders(t) \ {c} ELSE HandleHolders(t)
    <3>1. \A t \in Topics : t \notin R => c \notin HandleHolders(t)
      BY DEF HandleHolders
    <3> QED  BY <2>2, <3>1
  <2>4. R \in SUBSET Topics /\ \A t \in R : slot[c][t] = "held"
    OBVIOUS
  <2> HIDE DEF R
  <2> QED  BY <1>0, <2>1, <2>3, <2>4, ReleaseExact
<1>5. ASSUME NEW c \in Clients, NEW t \in Topics, EngineSubscribe(c, t) PROVE NoLeakedLease'
  <2>0. /\ live' = live /\ c \notin HandleHolders(t)
        /\ \A x \in Topics : HandleHolders(x)' =
             IF x = t /\ t \in live THEN HandleHolders(x) \cup {c} ELSE HandleHolders(x)
    BY <1>0, <1>5, SubscribeCore DEF EngineSubscribe, HandleHolders
  <2>1. CASE t \in live
    <3>1. refCount' = [refCount EXCEPT ![t] = @ + 1]
      BY <1>5, <2>1 DEF EngineSubscribe
    <3>2. Cardinality(HandleHolders(t) \cup {c}) = Cardinality(HandleHolders(t)) + 1
      BY <1>0, <2>0, HandlesFinite, FS_AddElement
    <3>3. \A x \in live : refCount[x] = Cardinality(HandleHolders(x))
      BY <1>0 DEF NoLeakedLease
    <3>4. \A x \in live : refCount'[x] = Cardinality(HandleHolders(x)')
      BY <1>0, <2>0, <2>1, <3>1, <3>2, <3>3 DEF EngineTypeOK
    <3> QED  BY <2>0, <3>4 DEF NoLeakedLease
  <2>2. CASE t \notin live
    <3>1. refCount' = refCount
      BY <1>5, <2>2 DEF EngineSubscribe
    <3>2. \A x \in Topics : HandleHolders(x)' = HandleHolders(x)
      BY <2>0, <2>2
    <3> QED  BY <1>0, <2>0, <3>1, <3>2, StaysExact
  <2> QED  BY <2>1, <2>2
<1>6. ASSUME NEW c \in Clients, NEW t \in Topics, EngineUnsubscribe(c, t) PROVE NoLeakedLease'
  <2>1. c \in clients /\ slot[c][t] = "held" /\ ReleaseHandles({t}, NoneLetGo)
    BY <1>6 DEF EngineUnsubscribe
  <2>2. \A x \in Topics :
          HandleHolders(x)' = IF x \in {t} THEN HandleHolders(x) \ {c} ELSE HandleHolders(x)
    BY <1>0, <1>6, UnsubscribeCore
  <2> QED  BY <1>0, <2>1, <2>2, ReleaseExact
<1>7. ASSUME NEW t \in Topics, Poll(t) \/ LapseLease(t) PROVE NoLeakedLease'
  BY <1>1, <1>7 DEF Poll, LapseLease, hubVars
<1>8. ASSUME NEW t \in Topics, BuildOk(t) PROVE NoLeakedLease'
  <2>1. /\ t \notin live /\ live' = live \cup {t}
        /\ refCount' = [refCount EXCEPT ![t] = Cardinality(Served(t))]
        /\ \A x \in Topics : HandleHolders(x)' =
             IF x = t THEN Callers(t) ELSE HandleHolders(x)
    BY <1>0, <1>8, BuildOkCore DEF BuildOk
  <2>2. Cardinality(Callers(t)) = Cardinality(Served(t))
    BY <1>0, CallersExact
  <2>3. \A x \in live : refCount[x] = Cardinality(HandleHolders(x))
    BY <1>0 DEF NoLeakedLease
  <2>4. \A x \in live' : refCount'[x] = Cardinality(HandleHolders(x)')
    BY <1>0, <2>1, <2>2, <2>3 DEF EngineTypeOK
  <2> QED  BY <2>4 DEF NoLeakedLease
<1>9. ASSUME NEW t \in Topics, BuildAbandoned(t) \/ BuildFail(t) PROVE NoLeakedLease'
  <2>1. \A x \in Topics : HandleHolders(x)' = HandleHolders(x)
    BY <1>0, <1>9, BuildLostCore
  <2>2. UNCHANGED <<live, refCount>>
    BY <1>9 DEF BuildAbandoned, BuildFail
  <2> QED  BY <1>0, <2>1, <2>2, StaysExact
<1>10. CASE TickAllTopics
  <2>1. \A x \in Topics : HandleHolders(x)' = HandleHolders(x)
    BY <1>0, <1>10, ReapCore
  <2>2. live' \subseteq live /\ refCount' = refCount
    BY <1>10 DEF TickAllTopics, Destroy
  <2> QED  BY <1>0, <2>1, <2>2, StaysExact
<1>11. CASE UNCHANGED allVars
  BY <1>1, <1>11 DEF allVars, hubVars, engineVars
<1> QED  BY <1>2, <1>3, <1>4, <1>5, <1>6, <1>7, <1>8, <1>9, <1>10, <1>11
         DEF EngineNext, EngineStep, Settle

\* They are exact to begin with.
LEMMA ExactInit == EngineInit => Exact
<1>1. EngineInit => OneCallEach /\ NoLeakedLease
  BY DEF EngineInit, OneCallEach, NoLeakedLease
<1> QED  BY <1>1, CoreInit DEF Exact

\* They stay exact.
LEMMA ExactStays == ~Impatient /\ Exact /\ [EngineNext]_allVars => Exact'
BY CoreStep, OneCallStep, ExactStep DEF Exact

\* "Reserve the slot before awaiting so two rapid subscribes for the same topic
\* can't both get through and leak one of the leases": when clients wait for the
\* answer before they unsubscribe, a topic is held exactly as often as clients
\* have a handle on it.
THEOREM NoLeasesLeak == ~Impatient => (EngineSpec => []NoLeakedLease)
<1>1. Exact => NoLeakedLease
  BY DEF Exact
<1>2. ~Impatient => (Exact /\ [EngineNext]_allVars => Exact')
  BY ExactStays
<1>3. CASE Impatient
  BY <1>3
<1>4. CASE ~Impatient
  <2>1. Exact /\ [EngineNext]_allVars => Exact'
    BY <1>2, <1>4
  <2>2. EngineSpec => []NoLeakedLease
    BY <1>1, <2>1, ExactInit, PTL DEF EngineSpec
  <2> QED  BY <2>2
<1> QED  BY <1>3, <1>4

-----------------------------------------------------------------------------
(* The engine implements LeasedTopics: each step is one of its steps, or none. *)

heldBy == [t \in Topics |-> HandleHolders(t)]

\* The abstract state does not change.
LEMMA LeaseStutters ==
  ASSUME UNCHANGED <<live, leased>>, \A t \in Topics : HandleHolders(t)' = HandleHolders(t)
  PROVE  UNCHANGED Lease!leaseVars
BY DEF Lease!leaseVars

\* Which topics a release destroys: those nobody else holds and no lease keeps.
LEMMA DyingIsUnheld ==
  ASSUME EngineTypeOK, HeldTopicsLive, NoLeakedLease, NEW c \in clients,
         NEW R \in SUBSET Topics, \A t \in R : slot[c][t] = "held"
  PROVE  Dying(R) = {t \in R : heldBy[t] \subseteq {c} /\ t \notin leased}
<1> SUFFICES ASSUME NEW t \in R
             PROVE  refCount[t] - 1 <= 0 <=> HandleHolders(t) \subseteq {c}
  BY DEF Dying, heldBy
<1>1. c \in HandleHolders(t)
  BY DEF HandleHolders
<1>2. refCount[t] = Cardinality(HandleHolders(t))
  BY <1>1 DEF HeldTopicsLive, NoLeakedLease
<1>3. IsFiniteSet(HandleHolders(t))
  BY HandlesFinite
<1>4. IsFiniteSet(HandleHolders(t) \ {c}) /\ Cardinality(HandleHolders(t) \ {c}) \in Nat
      /\ Cardinality(HandleHolders(t) \ {c}) = Cardinality(HandleHolders(t)) - 1
  BY <1>1, <1>3, FS_RemoveElement, FS_CardinalityType
<1>5. Cardinality(HandleHolders(t) \ {c}) = 0 <=> HandleHolders(t) \ {c} = {}
  BY <1>4, FS_EmptySet
<1>6. Cardinality(HandleHolders(t)) \in Nat
  BY HandlesFinite
<1>7. refCount[t] - 1 <= 0 <=> Cardinality(HandleHolders(t) \ {c}) = 0
  BY <1>2, <1>4, <1>6
<1> QED  BY <1>5, <1>7

\* Releasing the handles of R is Drop.
LEMMA ReleaseIsDrop ==
  ASSUME Exact, NEW c \in clients, NEW R \in SUBSET Topics, NEW rel,
         \A t \in R : slot[c][t] = "held",
         ReleaseHandles(R, rel), leased' = leased,
         \A t \in Topics :
           HandleHolders(t)' = IF t \in R THEN HandleHolders(t) \ {c} ELSE HandleHolders(t)
  PROVE  Lease!LeaseNext
<1>0. EngineTypeOK /\ HeldTopicsLive /\ NoLeakedLease /\ c \in Clients
  BY DEF Exact, EngineCore, EngineTypeOK, TypeOK
<1>1. Dying(R) = {t \in R : heldBy[t] \subseteq {c} /\ t \notin leased}
  BY <1>0, DyingIsUnheld
<1>2. live' = live \ Dying(R)
  BY DEF ReleaseHandles, Destroy
<1>3. heldBy' = [t \in Topics |-> IF t \in R THEN heldBy[t] \ {c} ELSE heldBy[t]]
  BY DEF heldBy
<1>4. Lease!Drop(c, R)
  BY <1>1, <1>2, <1>3 DEF Lease!Drop, heldBy
<1> QED  BY <1>0, <1>4 DEF Lease!LeaseNext

\* Each step of the engine is a step of the leased topics, or leaves them alone.
LEMMA EngineSimulates ==
  ASSUME ~Impatient, Exact, [EngineNext]_allVars
  PROVE  [Lease!LeaseNext]_Lease!leaseVars
<1>0. /\ EngineCore /\ EngineTypeOK /\ TypeOK /\ OneCallEach /\ NoLeakedLease /\ HeldTopicsLive
      /\ live \subseteq Topics
  BY DEF Exact, EngineCore, EngineTypeOK
<1>1. CASE HubStep \/ FeedStop
  <2>1. UNCHANGED engineVars /\ clients' = clients
    BY <1>1 DEF HubStep, FeedStop, WsSubscribe, WsUnsubscribe, LoginStep, SetFeedAccount,
           RestStart, RestStartAll, StartBrokers, StoreSession, DeleteSession, RestStop
  <2>2. \A t \in Topics : HandleHolders(t)' = HandleHolders(t)
    BY <2>1 DEF HandleHolders, engineVars
  <2> QED  BY <2>1, <2>2, LeaseStutters DEF engineVars
<1>2. ASSUME NEW c \in Clients, EngineConnect(c) PROVE UNCHANGED Lease!leaseVars
  <2>1. \A t \in Topics : HandleHolders(t)' = HandleHolders(t)
    BY <1>0, <1>2, ConnectCore
  <2> QED  BY <1>2, <2>1, LeaseStutters DEF EngineConnect, engineVars
<1>3. ASSUME NEW c \in Clients, EngineClose(c) PROVE Lease!LeaseNext
  <2> DEFINE R == {t \in Topics : slot[c][t] = "held"}
  <2>1. /\ c \in clients /\ ReleaseHandles(R, [b \in Brokers |-> Once(HeldBy(c, b))])
        /\ leased' = leased
    BY <1>3 DEF EngineClose
  <2>2. \A t \in Topics : HandleHolders(t)' = HandleHolders(t) \ {c}
    BY <1>0, <1>3, CloseCore
  <2>3. \A t \in Topics :
          HandleHolders(t)' = IF t \in R THEN HandleHolders(t) \ {c} ELSE HandleHolders(t)
    <3>1. \A t \in Topics : t \notin R => c \notin HandleHolders(t)
      BY DEF HandleHolders
    <3> QED  BY <2>2, <3>1
  <2>4. R \in SUBSET Topics /\ \A t \in R : slot[c][t] = "held"
    OBVIOUS
  <2> HIDE DEF R
  <2> QED  BY <2>1, <2>3, <2>4, ReleaseIsDrop
<1>4. ASSUME NEW c \in Clients, NEW t \in Topics, EngineSubscribe(c, t)
      PROVE  [Lease!LeaseNext]_Lease!leaseVars
  <2>0. /\ live' = live /\ leased' = leased
        /\ \A x \in Topics : HandleHolders(x)' =
             IF x = t /\ t \in live THEN HandleHolders(x) \cup {c} ELSE HandleHolders(x)
    BY <1>0, <1>4, SubscribeCore DEF EngineSubscribe
  <2>1. CASE t \in live
    <3>1. heldBy' = [heldBy EXCEPT ![t] = @ \cup {c}]
      BY <2>0, <2>1 DEF heldBy
    <3>2. Lease!Take(t, {c}, FALSE)
      BY <2>0, <2>1, <3>1 DEF Lease!Take, heldBy
    <3> QED  BY <3>2 DEF Lease!LeaseNext
  <2>2. CASE t \notin live
    BY <2>0, <2>2, LeaseStutters
  <2> QED  BY <2>1, <2>2
<1>5. ASSUME NEW c \in Clients, NEW t \in Topics, EngineUnsubscribe(c, t)
      PROVE  Lease!LeaseNext
  <2>1. /\ c \in clients /\ slot[c][t] = "held" /\ ReleaseHandles({t}, NoneLetGo)
        /\ leased' = leased
    BY <1>5 DEF EngineUnsubscribe
  <2>2. \A x \in Topics :
          HandleHolders(x)' = IF x \in {t} THEN HandleHolders(x) \ {c} ELSE HandleHolders(x)
    BY <1>0, <1>5, UnsubscribeCore
  <2> QED  BY <2>1, <2>2, ReleaseIsDrop
<1>6. ASSUME NEW t \in Topics, Poll(t) PROVE [Lease!LeaseNext]_Lease!leaseVars
  <2>1. live' = live /\ \A x \in Topics : HandleHolders(x)' = HandleHolders(x)
    BY <1>0, <1>6, LeaseStepCore DEF Poll
  <2>2. CASE t \in live
    <3>1. leased' = leased \cup {t}
      BY <1>6, <2>2 DEF Poll
    <3>2. heldBy' = [heldBy EXCEPT ![t] = @ \cup {}]
      BY <2>1 DEF heldBy
    <3>3. Lease!Take(t, {}, TRUE)
      BY <2>1, <2>2, <3>1, <3>2 DEF Lease!Take, heldBy
    <3> QED  BY <3>3 DEF Lease!LeaseNext
  <2>3. CASE t \notin live
    BY <1>6, <2>1, <2>3, LeaseStutters DEF Poll
  <2> QED  BY <2>2, <2>3
<1>7. ASSUME NEW t \in Topics, LapseLease(t) PROVE Lease!LeaseNext
  <2>1. live' = live /\ t \in leased /\ leased' = leased \ {t}
        /\ \A x \in Topics : HandleHolders(x)' = HandleHolders(x)
    BY <1>0, <1>7, LeaseStepCore DEF LapseLease
  <2>2. Lease!Lapse(t)
    BY <2>1 DEF Lease!Lapse
  <2> QED  BY <2>2 DEF Lease!LeaseNext
<1>8. ASSUME NEW t \in Topics, BuildOk(t) PROVE Lease!LeaseNext
  <2>1. /\ live' = live \cup {t} /\ t \notin live
        /\ leased' = IF t \in polled THEN leased \cup {t} ELSE leased
        /\ Served(t) # {} \/ t \in polled
        /\ \A x \in Topics : HandleHolders(x)' =
             IF x = t THEN Callers(t) ELSE HandleHolders(x)
    BY <1>0, <1>8, BuildOkCore DEF BuildOk
  <2>2. HandleHolders(t) = {} /\ Callers(t) \in SUBSET Clients
    BY <1>0, <2>1, CallersCounted DEF HeldTopicsLive, TypeOK
  <2>3. heldBy' = [heldBy EXCEPT ![t] = @ \cup Callers(t)]
    BY <2>1, <2>2 DEF heldBy
  <2>4. Callers(t) # {} \/ t \in polled
    BY <2>1 DEF Callers
  <2>5. Lease!Take(t, Callers(t), t \in polled)
    BY <2>1, <2>3, <2>4 DEF Lease!Take, heldBy
  <2>6. (t \in polled) \in BOOLEAN
    OBVIOUS
  <2> QED  BY <2>2, <2>5, <2>6 DEF Lease!LeaseNext
<1>9. ASSUME NEW t \in Topics, BuildAbandoned(t) \/ BuildFail(t)
      PROVE  UNCHANGED Lease!leaseVars
  <2>1. \A x \in Topics : HandleHolders(x)' = HandleHolders(x)
    BY <1>0, <1>9, BuildLostCore
  <2>2. UNCHANGED <<live, leased>>
    BY <1>9 DEF BuildAbandoned, BuildFail
  <2> QED  BY <2>1, <2>2, LeaseStutters
<1>10. CASE TickAllTopics
  <2>1. \A x \in Topics : HandleHolders(x)' = HandleHolders(x)
    BY <1>0, <1>10, ReapCore
  <2>2. Reapable # {} /\ live' = live \ Reapable /\ leased' = leased
    BY <1>10 DEF TickAllTopics, Destroy
  <2>3. Reapable = {t \in live : heldBy[t] = {} /\ t \notin leased}
    <3> SUFFICES ASSUME NEW t \in live PROVE refCount[t] <= 0 <=> HandleHolders(t) = {}
      BY <1>0 DEF Reapable, heldBy
    <3>1. refCount[t] = Cardinality(HandleHolders(t))
      BY <1>0 DEF NoLeakedLease
    <3>2. IsFiniteSet(HandleHolders(t)) /\ Cardinality(HandleHolders(t)) \in Nat
      BY <1>0, HandlesFinite
    <3>3. Cardinality(HandleHolders(t)) = 0 <=> HandleHolders(t) = {}
      BY <3>2, FS_EmptySet
    <3> QED  BY <3>1, <3>2, <3>3
  <2>4. Lease!Collect
    BY <1>0, <2>1, <2>2, <2>3 DEF Lease!Collect, Lease!Unneeded, heldBy
  <2> QED  BY <2>4 DEF Lease!LeaseNext
<1>11. CASE UNCHANGED allVars
  <2>1. \A t \in Topics : HandleHolders(t)' = HandleHolders(t)
    BY <1>11 DEF allVars, hubVars, engineVars, HandleHolders
  <2> QED  BY <1>11, <2>1, LeaseStutters DEF allVars, engineVars
<1> QED  BY <1>1, <1>2, <1>3, <1>4, <1>5, <1>6, <1>7, <1>8, <1>9, <1>10, <1>11
         DEF EngineNext, EngineStep, Settle

\* With clients that wait for the answer the engine implements LeasedTopics: a
\* topic appears when somebody takes it up and goes when nobody holds it and no
\* lease runs, whatever the feed, the counts and the construction do below.
\* (That Collect is fair in it as well is checked by TLC.)
THEOREM EngineImplementsLeases ==
  ~Impatient => (EngineSpec => Lease!LeaseInit /\ [][Lease!LeaseNext]_Lease!leaseVars)
<1>1. EngineInit => Lease!LeaseInit
  BY DEF EngineInit, HubInit, Lease!LeaseInit, HandleHolders
<1>2. CASE Impatient
  BY <1>2
<1>3. CASE ~Impatient
  <2>1. Exact /\ [EngineNext]_allVars => Exact' /\ [Lease!LeaseNext]_Lease!leaseVars
    BY <1>3, ExactStays, EngineSimulates
  <2>2. EngineSpec => Lease!LeaseInit /\ [][Lease!LeaseNext]_Lease!leaseVars
    BY <1>1, <2>1, ExactInit, PTL DEF EngineSpec
  <2> QED  BY <2>2
<1> QED  BY <1>2, <1>3
=============================================================================
