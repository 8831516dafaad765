------------------------------ MODULE EntryProofs ------------------------------
(***************************************************************************)
(* Proofs about the chains and the basket of trade entry: the panel's      *)
(* chain shows its own quotes and is the selected one at rest              *)
(* (ChainPanel), the streaming chain shows its own tokens and is streamed  *)
(* no other's (LiveChain), an option changed in its row holds the contract *)
(* that the row names (BasketLegs), and the chain's table draws the rows   *)
(* in view (ChainTable).                                                   *)
(*                                                                         *)
(* Each part has an inductive invariant (ChainCore and SelectionCore,      *)
(* LiveCore, LegsCore, TableCore) that says of the answers still to come   *)
(* what they will find when they arrive: no late answer is of something    *)
(* else than what it is taken for.                                         *)
(***************************************************************************)
EXTENDS ChainPanel, BasketLegs, LiveChain, ChainTable, WellFoundedInduction, FiniteSetTheorems,
        TLAPS

-----------------------------------------------------------------------------
(* The panel's chain (ChainPanel) *)

\* Ticks, held or shown, the prices and the tokens of the feed are of the chain on screen;
\* a leg has a token, so that a tick for it is not one for no chain.
ChainCore ==
  /\ heldTicks \subseteq {chain} /\ shownTicks \subseteq {chain}
  /\ prices \in {None, chain} /\ feedTokens \in {None, chain}
  /\ \A l \in chainLegs : l.token # None

\* Every step of the panel keeps the quotes those of the chain on screen.
LEMMA ChainKeepsItsQuotes == ChainCore /\ [ChainNext]_chainVars => ChainCore'
<1> SUFFICES ASSUME ChainCore, [ChainNext]_chainVars PROVE ChainCore'
  OBVIOUS
<1> USE DEF ChainCore, feedSide
<1>1. CASE MasterIndexLoaded \/ RefreshMaster \/ MasterRefreshed \/ AccountReady
  BY <1>1 DEF MasterIndexLoaded, RefreshMaster, MasterRefreshed, AccountReady
<1>2. ASSUME NEW s \in Symbols, ChooseSymbol(s) PROVE ChainCore'
  BY <1>2 DEF ChooseSymbol
<1>3. ASSUME NEW k \in Selections, ChooseExpiry(k[2]) PROVE ChainCore'
  BY <1>3 DEF ChooseExpiry
<1>4. CASE PressLoadChain \/ LoggedIn \/ ChainFailed
  BY <1>4 DEF PressLoadChain, LoggedIn, ChainFailed
<1>5. CASE SkeletonLoaded
  BY <1>5 DEF SkeletonLoaded, TicksDropped
<1>6. ASSUME NEW k \in Chains, PricesLoaded(k) \/ PricesLost(k) \/ Subscribed(k) PROVE ChainCore'
  BY <1>6 DEF PricesLoaded, PricesFit, PricesLost, Subscribed
<1>7. ASSUME NEW k \in Chains, Tick(k) PROVE ChainCore'
  <2>1. k # None /\ k = feedTokens
    BY <1>7 DEF Tick, Streamed
  <2> QED  BY <1>7, <2>1 DEF Tick
<1>8. CASE Flush
  BY <1>8 DEF Flush
<1>9. CASE TradeRow
  BY <1>9 DEF TradeRow, Offers
<1>10. ASSUME NEW l \in chainLegs, DropLeg(l) PROVE ChainCore'
  BY <1>10 DEF DropLeg
<1>11. CASE UNCHANGED chainVars
  BY <1>11 DEF chainVars
<1> QED  BY <1>1, <1>2, <1>3, <1>4, <1>5, <1>6, <1>7, <1>8, <1>9, <1>10, <1>11 DEF ChainNext

\* Every tick and every price on screen is of the chain on screen, whatever symbols,
\* expiries and chains there are and however late the ticks and the prices come.
THEOREM QuotesStayTheChains == ChainSpec => []QuotesAreTheChains
<1>1. ChainInit => ChainCore
  BY DEF ChainInit, ChainCore
<1>2. ChainCore => QuotesAreTheChains
  BY DEF ChainCore, QuotesAreTheChains
<1> QED  BY <1>1, <1>2, ChainKeepsItsQuotes, PTL DEF ChainSpec

-----------------------------------------------------------------------------
(* The panel's chain at rest (ChainPanel) *)

\* When nothing is loading, the chain on screen is the one that is selected: the effect
\* that loads a selection on its own (EnterTrade.jsx) has missed none, whatever was
\* selected, refreshed or refused while something else was loading.  It is what is left
\* of ChainFollows without its fairness.
RestingChain ==
  chainCall = None /\ creds # "none" /\ symbol # None => chain = <<symbol, expiry>>

\* Is this call the load of a chain?
LoadsChain(call) == call # None /\ call.stage # "refresh"

\* What autoLoadRef remembers is being loaded, or is the chain on screen; at rest it is
\* the selection.
SelectionCore ==
  /\ symbol \in Symbols \cup {None} /\ expiry \in AllExpiries \cup {None}
  /\ symbol = None <=> expiry = None
  /\ chainCall \in ChainCalls \cup {None} /\ autoKey \in Selections \cup {None}
  /\ LoadsChain(chainCall) => chainCall.sel = autoKey
  /\ autoKey # None /\ ~LoadsChain(chainCall) => chain = autoKey
  /\ chainCall = None /\ creds # "none" /\ symbol # None => autoKey = <<symbol, expiry>>

\* The load of a selection is a call.
LEMMA LoadsAreCalls ==
  ASSUME NEW sel \in Selections, NEW cr
  PROVE  /\ LoadOf(sel, cr) \in ChainCalls /\ LoadOf(sel, cr) # None
         /\ LoadsChain(LoadOf(sel, cr)) /\ LoadOf(sel, cr).sel = sel
<1>1. LoadOf(sel, cr) \in ChainCalls
  BY DEF LoadOf, ChainCalls, Selections
<1> QED  BY <1>1, NoneAssumption DEF LoadsChain, LoadOf

\* The first expiry of a symbol is one of its expiries.
LEMMA FirstExpiryIs ==
  ASSUME NEW s \in Symbols
  PROVE  FirstExpiry(s) \in Range(Expiries[s]) /\ Range(Expiries[s]) \subseteq AllExpiries
<1>1. Expiries[s] \in Seq(Range(Expiries[s])) /\ Expiries[s] # <<>>
  BY ChainAssumption
<1>2. Head(Expiries[s]) \in Range(Expiries[s])
  BY <1>1
<1> QED  BY <1>2 DEF FirstExpiry, AllExpiries

\* The effect at the end of a commit leaves the selection of that commit loaded or being
\* loaded, if what the commit hands to it was so.
LEMMA AutoLoadKeeps ==
  ASSUME NEW s \in Symbols \cup {None}, NEW e \in AllExpiries \cup {None}, s = None <=> e = None,
         NEW cr, NEW call \in ChainCalls \cup {None}, NEW key \in Selections \cup {None},
         AutoLoadChain(<<s, e>>, cr, call, key),
         LoadsChain(call) => call.sel = key,
         key # None /\ ~LoadsChain(call) => chain' = key
  PROVE  /\ chainCall' \in ChainCalls \cup {None} /\ autoKey' \in Selections \cup {None}
         /\ LoadsChain(chainCall') => chainCall'.sel = autoKey'
         /\ autoKey' # None /\ ~LoadsChain(chainCall') => chain' = autoKey'
         /\ chainCall' = None /\ cr # "none" /\ s # None => autoKey' = <<s, e>>
<1> DEFINE sel == <<s, e>>
           starts == s # None /\ e # None /\ call = None /\ cr # "none" /\ key # sel
<1>1. /\ chainCall' = (IF starts THEN LoadOf(sel, cr) ELSE call)
      /\ autoKey' = (IF starts THEN sel ELSE key)
  BY DEF AutoLoadChain
<1>2. CASE starts
  <2>1. sel \in Selections
    BY <1>2 DEF Selections
  <2>2. chainCall' = LoadOf(sel, cr) /\ autoKey' = sel
    BY <1>1, <1>2
  <2> HIDE DEF sel, starts
  <2> QED  BY <2>1, <2>2, LoadsAreCalls
<1>3. CASE ~starts
  BY <1>1, <1>3
<1> QED  BY <1>2, <1>3

\* Every step keeps SelectionCore.
LEMMA SelectionStays == SelectionCore /\ [ChainNext]_chainVars => SelectionCore'
<1> SUFFICES ASSUME SelectionCore, [ChainNext]_chainVars PROVE SelectionCore'
  OBVIOUS
<1>0. /\ symbol \in Symbols \cup {None} /\ expiry \in AllExpiries \cup {None}
      /\ symbol = None <=> expiry = None
      /\ chainCall \in ChainCalls \cup {None} /\ autoKey \in Selections \cup {None}
  BY DEF SelectionCore
<1>1. ASSUME NEW call \in ChainCalls \cup {None}, NEW key \in Selections \cup {None}, NEW cr,
             AutoLoadChain(<<symbol', expiry'>>, cr, call, key),
             symbol' \in Symbols \cup {None}, expiry' \in AllExpiries \cup {None},
             symbol' = None <=> expiry' = None, creds' = cr,
             LoadsChain(call) => call.sel = key, key # None /\ ~LoadsChain(call) => chain' = key
      PROVE  SelectionCore'
  <2> DEFINE s == symbol'
             e == expiry'
  <2>1. AutoLoadChain(<<s, e>>, cr, call, key)
    BY <1>1
  <2>2. s \in Symbols \cup {None} /\ e \in AllExpiries \cup {None} /\ (s = None <=> e = None)
    BY <1>1
  <2> HIDE DEF s, e
  <2>3. /\ chainCall' \in ChainCalls \cup {None} /\ autoKey' \in Selections \cup {None}
        /\ LoadsChain(chainCall') => chainCall'.sel = autoKey'
        /\ autoKey' # None /\ ~LoadsChain(chainCall') => chain' = autoKey'
        /\ chainCall' = None /\ cr # "none" /\ s # None => autoKey' = <<s, e>>
    BY <1>1, <2>1, <2>2, AutoLoadKeeps
  <2> QED  BY <1>1, <2>2, <2>3 DEF SelectionCore, LoadsChain, s, e
<1>2. (SelectFirst \/ UNCHANGED selVars) =>
        /\ symbol' \in Symbols \cup {None} /\ expiry' \in AllExpiries \cup {None}
        /\ symbol' = None <=> expiry' = None
  <2>1. /\ FirstSymbol \in Symbols /\ FirstExpiry(FirstSymbol) \in AllExpiries
        /\ None \notin Symbols \cup AllExpiries
    BY ChainAssumption, FirstExpiryIs, NoneAssumption
  <2> QED  BY <1>0, <2>1 DEF SelectFirst, selVars
<1>3. ASSUME UNCHANGED <<selVars, creds, chainCall, autoKey, chain>> PROVE SelectionCore'
  BY <1>3 DEF SelectionCore, selVars, LoadsChain
<1>4. CASE MasterIndexLoaded
  <2>1. /\ SelectFirst /\ AutoLoadChain(<<symbol', expiry'>>, creds, chainCall, autoKey)
        /\ creds' = creds /\ chain' = chain
    BY <1>4 DEF MasterIndexLoaded
  <2> QED  BY <1>0, <1>1, <1>2, <2>1 DEF SelectionCore
<1>5. CASE RefreshMaster
  <2>1. /\ chainCall = None /\ UNCHANGED <<selVars, creds, autoKey, chain>>
        /\ chainCall' = [stage |-> "refresh", sel |-> <<symbol, expiry>>]
    BY <1>5 DEF RefreshMaster
  <2>2. chainCall' \in ChainCalls /\ chainCall' # None /\ ~LoadsChain(chainCall')
    BY <1>0, <2>1, NoneAssumption DEF ChainCalls, LoadsChain
  <2>3. ~LoadsChain(chainCall)
    BY <2>1 DEF LoadsChain
  <2> QED  BY <2>1, <2>2, <2>3 DEF SelectionCore, selVars, LoadsChain
<1>6. CASE MasterRefreshed
  <2>1. /\ ~LoadsChain(chainCall) /\ ~LoadsChain(None) /\ creds' = creds /\ chain' = chain
        /\ SelectFirst \/ UNCHANGED selVars
        /\ AutoLoadChain(<<symbol', expiry'>>, creds, None, autoKey)
    BY <1>6 DEF MasterRefreshed, LoadsChain
  <2> QED  BY <1>0, <1>1, <1>2, <2>1 DEF SelectionCore
<1>7. CASE AccountReady
  <2>1. /\ creds' = "keys" /\ UNCHANGED <<symbol, expiry, chain>>
        /\ AutoLoadChain(<<symbol', expiry'>>, creds', chainCall, autoKey)
    BY <1>7 DEF AccountReady, selVars
  <2> QED  BY <1>0, <1>1, <2>1 DEF SelectionCore
<1>8. ASSUME NEW s \in Symbols, ChooseSymbol(s) PROVE SelectionCore'
  <2> DEFINE now == <<s, expiry>>
             starts == chainCall = None /\ creds # "none" /\ autoKey # now
  <2>1. /\ symbol # None /\ symbol' = s /\ UNCHANGED <<creds, chain>>
        /\ expiry' = (IF expiry \in Range(Expiries[s]) THEN expiry ELSE FirstExpiry(s))
        /\ IF starts THEN chainCall' = LoadOf(now, creds) /\ autoKey' = now
           ELSE AutoLoadChain(<<symbol', expiry'>>, creds, chainCall, autoKey)
    BY <1>8 DEF ChooseSymbol
  <2>2. /\ expiry' \in AllExpiries /\ expiry' # None /\ s # None /\ now \in Selections
        /\ now # None
    BY <1>0, <2>1, FirstExpiryIs, NoneAssumption DEF Selections
  <2> HIDE DEF now
  <2>3. CASE starts
    <3>1. chainCall' \in ChainCalls /\ chainCall' # None /\ LoadsChain(chainCall') /\ chainCall'.sel = now
      BY <2>1, <2>2, <2>3, LoadsAreCalls
    <3> QED  BY <2>1, <2>2, <2>3, <3>1 DEF SelectionCore, LoadsChain
  <2>4. CASE ~starts
    BY <1>0, <1>1, <2>1, <2>2, <2>4 DEF SelectionCore
  <2> QED  BY <2>3, <2>4
<1>9. ASSUME NEW k \in Selections, ChooseExpiry(k[2]) PROVE SelectionCore'
  <2>1. /\ symbol # None /\ symbol' = symbol /\ expiry' = k[2] /\ UNCHANGED <<creds, chain>>
        /\ AutoLoadChain(<<symbol', expiry'>>, creds, chainCall, autoKey)
    BY <1>9 DEF ChooseExpiry
  <2>2. expiry' \in AllExpiries /\ expiry' # None
    BY <2>1, NoneAssumption DEF Selections
  <2> QED  BY <1>0, <1>1, <2>1, <2>2 DEF SelectionCore
<1>10. CASE PressLoadChain
  <2> DEFINE sel == <<symbol, expiry>>
  <2>1. /\ chainCall = None /\ creds # "none" /\ symbol # None
        /\ UNCHANGED <<selVars, creds, autoKey, chain>> /\ chainCall' = LoadOf(sel, creds)
    BY <1>10 DEF PressLoadChain
  <2>2. autoKey = sel /\ sel \in Selections
    BY <1>0, <2>1 DEF SelectionCore, Selections
  <2> HIDE DEF sel
  <2>3. chainCall' \in ChainCalls /\ chainCall' # None /\ LoadsChain(chainCall') /\ chainCall'.sel = sel
    BY <2>1, <2>2, LoadsAreCalls
  <2> QED  BY <2>1, <2>2, <2>3 DEF SelectionCore, selVars, LoadsChain
<1>11. CASE LoggedIn
  <2>1. /\ chainCall # None /\ chainCall.stage = "login"
        /\ UNCHANGED <<selVars, autoKey, chain>>
        /\ chainCall' = [chainCall EXCEPT !.stage = "skeleton"]
    BY <1>11 DEF LoggedIn
  <2>2. /\ chainCall' \in ChainCalls /\ chainCall' # None /\ chainCall'.sel = chainCall.sel
        /\ LoadsChain(chainCall) /\ LoadsChain(chainCall')
    BY <1>0, <2>1, NoneAssumption DEF ChainCalls, LoadsChain
  <2> QED  BY <2>1, <2>2 DEF SelectionCore, selVars, LoadsChain
<1>12. CASE ChainFailed
  <2>1. /\ creds' = creds /\ UNCHANGED <<symbol, expiry, chain>> /\ ~LoadsChain(None)
        /\ AutoLoadChain(<<symbol', expiry'>>, creds', None, None)
    BY <1>12 DEF ChainFailed, LoadEnds, ForgottenKey, selVars, LoadsChain
  <2> QED  BY <1>0, <1>1, <2>1
<1>13. CASE SkeletonLoaded
  <2>1. /\ chain' = chainCall.sel /\ UNCHANGED <<symbol, expiry>> /\ ~LoadsChain(None)
        /\ AutoLoadChain(<<symbol', expiry'>>, creds', None, autoKey) /\ LoadsChain(chainCall)
    BY <1>13 DEF SkeletonLoaded, LoadEnds, selVars, LoadsChain
  <2>2. chain' = autoKey
    BY <2>1 DEF SelectionCore
  <2> QED  BY <1>0, <1>1, <2>1, <2>2
<1>14. ASSUME NEW k \in Chains, PricesLoaded(k) \/ PricesLost(k) \/ Subscribed(k) \/ Tick(k)
       PROVE  SelectionCore'
  BY <1>3, <1>14 DEF PricesLoaded, PricesLost, Subscribed, Tick
<1>15. CASE Flush \/ TradeRow
  BY <1>3, <1>15 DEF Flush, TradeRow
<1>16. ASSUME NEW l \in chainLegs, DropLeg(l) PROVE SelectionCore'
  BY <1>3, <1>16 DEF DropLeg
<1>17. CASE UNCHANGED chainVars
  BY <1>3, <1>17 DEF chainVars, selVars
<1> QED  BY <1>4, <1>5, <1>6, <1>7, <1>8, <1>9, <1>10, <1>11, <1>12, <1>13, <1>14, <1>15, <1>16,
            <1>17 DEF ChainNext

\* The chain on screen is the selected one whenever nothing loads, for any symbols and
\* expiries (the auto-load effect and loadChain of EnterTrade.jsx).
THEOREM RestingChainIsSelected == ChainSpec => []RestingChain
<1>1. ChainInit => SelectionCore
  BY DEF ChainInit, SelectionCore, LoadsChain
<1>2. SelectionCore => RestingChain
  <2> SUFFICES ASSUME SelectionCore, chainCall = None, creds # "none", symbol # None
               PROVE  chain = <<symbol, expiry>>
    BY DEF RestingChain
  <2>1. autoKey = <<symbol, expiry>> /\ expiry # None /\ autoKey \in Selections
    BY DEF SelectionCore, Selections
  <2>2. autoKey # None /\ ~LoadsChain(chainCall)
    BY <2>1, NoneAssumption DEF LoadsChain
  <2> QED  BY <2>1, <2>2 DEF SelectionCore
<1> QED  BY <1>1, <1>2, SelectionStays, PTL DEF ChainSpec

-----------------------------------------------------------------------------
(* The streaming chain (LiveChain) *)

Loads == [seq : Nat, of : Ladders, stage : {"chain", "map", "extra"}]
LiveTyped ==
  /\ view \in {"page", "window", "left"} /\ picked \in Ladders /\ loadSeq \in Nat
  /\ onScreen \in Ladders \cup {NoLadder} /\ adapters \subseteq Feeding
  /\ conn \in [Conns -> {"unused", "connecting", "open", "closing"}]
  /\ wsRef \in Conns \cup {NoConn} /\ DOMAIN served = Conns
  /\ chainLoads \subseteq Loads

\* Loads are told apart by their number.  The one that is current finds an empty screen
\* when its chain arrives and its own chain when its tokens or its greeks do; nothing
\* comes to the screen of a page that was left.
LoadsInOrder ==
  /\ \A r \in chainLoads : r.seq <= loadSeq
  /\ \A r, s \in chainLoads : r.seq = s.seq => r = s
  /\ \A r \in chainLoads : Current(r) /\ view # "left" =>
       onScreen = IF r.stage = "chain" THEN NoLadder ELSE r.of
  /\ view = "left" => onScreen = NoLadder

\* What is subscribed for the chain on screen is that chain, of every adapter that runs and
\* has its tokens, Angel's under the segment of the chain or of a symbol picked since.
Owns(c, v, since) == {SegmentOf[c]} \cup (IF v = "window" THEN {} ELSE {SegmentOf[d] : d \in since})
OfTheScreen(items, c, up, run, owns) ==
  c # NoLadder => \E own \in owns :
    items = [broker : run \cap {"angel"}, of : {c}, segment : {own}]
              \cup [broker : run \cap {"upstox"}, of : {c} \cap {up}, segment : {SegmentOf[c]}]
StreamKept ==
  /\ picked \in pickedSince
  /\ OfTheScreen(subTokens, onScreen, upTokens, adapters, Owns(onScreen, view, pickedSince))
  /\ wsRef # NoConn /\ conn[wsRef] = "open" => served[wsRef] = subTokens

LiveCore == LiveTyped /\ LoadsInOrder /\ TokensAreTheChains /\ StreamKept

\* The records of three fields, one by one.
LEMMA RecordsOf ==
  ASSUME NEW B, NEW O, NEW S, NEW r
  PROVE  r \in [broker : B, of : O, segment : S]
           <=> \E b \in B, o \in O, s \in S : r = [broker |-> b, of |-> o, segment |-> s]
<1>1. ASSUME r \in [broker : B, of : O, segment : S]
      PROVE  \E b \in B, o \in O, s \in S : r = [broker |-> b, of |-> o, segment |-> s]
  <2>1. r = [broker |-> r.broker, of |-> r.of, segment |-> r.segment]
    BY <1>1
  <2>2. r.broker \in B /\ r.of \in O /\ r.segment \in S
    BY <1>1
  <2> QED  BY <2>1, <2>2
<1>2. ASSUME NEW b \in B, NEW o \in O, NEW s \in S, r = [broker |-> b, of |-> o, segment |-> s]
      PROVE  r \in [broker : B, of : O, segment : S]
  BY <1>2
<1> QED  BY <1>1, <1>2

\* What is asked for of a chain is that chain, of the adapters that run.
LEMMA SubscribesOfChain ==
  ASSUME NEW c, c # NoLadder, NEW up \in {c, NoLadder}, NEW run \in SUBSET Feeding,
         NEW pick \in pickedSince
  PROVE  OfTheScreen(Subscribes(c, up, run, pick), c, up, run, Owns(c, view, pickedSince))
<1> DEFINE own == Segment(c, pick)
           a == [broker |-> "angel", of |-> c, segment |-> own]
           u == [broker |-> "upstox", of |-> c, segment |-> SegmentOf[c]]
           angel == [broker : run \cap {"angel"}, of : {c}, segment : {own}]
           upstox == [broker : run \cap {"upstox"}, of : {c} \cap {up}, segment : {SegmentOf[c]}]
<1>1. own \in Owns(c, view, pickedSince)
  BY DEF Owns, Segment
<1>2. ASSUME NEW r PROVE r \in Subscribes(c, up, run, pick) <=> r \in angel \cup upstox
  <2>1. r \in angel <=> "angel" \in run /\ r = a
    <3>1. r \in angel <=> \E b \in run \cap {"angel"}, o \in {c}, s \in {own} :
                             r = [broker |-> b, of |-> o, segment |-> s]
      BY RecordsOf
    <3> QED  BY <3>1
  <2>2. r \in upstox <=> "upstox" \in run /\ up = c /\ r = u
    <3>1. r \in upstox <=> \E b \in run \cap {"upstox"}, o \in {c} \cap {up}, s \in {SegmentOf[c]} :
                             r = [broker |-> b, of |-> o, segment |-> s]
      BY RecordsOf
    <3> QED  BY <3>1
  <2>3. r \in {a : b \in run \cap {"angel"}} <=> "angel" \in run /\ r = a
    OBVIOUS
  <2>4. r \in {[broker |-> "upstox", of |-> up, segment |-> SegmentOf[up]] :
                 b \in (run \cap {"upstox"}) \ {x \in Feeding : up = NoLadder}}
          <=> "upstox" \in run /\ up = c /\ r = u
    BY DEF Feeding
  <2> QED  BY <2>1, <2>2, <2>3, <2>4 DEF Subscribes
<1>3. Subscribes(c, up, run, pick) = angel \cup upstox
  BY <1>2, Zenon
<1> QED  BY <1>1, <1>3 DEF OfTheScreen

\* A subscription reaches the current socket, or a new one that is not open yet.
LEMMA SubscribeReaches ==
  ASSUME LiveCore, NEW items, SubscribeLive(items)
  PROVE  /\ subTokens' = items
         /\ conn' \in [Conns -> {"unused", "connecting", "open", "closing"}]
         /\ wsRef' \in Conns \cup {NoConn} /\ DOMAIN served' = Conns
         /\ wsRef' # NoConn /\ conn'[wsRef'] = "open" => served'[wsRef'] = items
<1> USE DEF LiveCore, LiveTyped, StreamKept, SubscribeLive
<1>1. CASE Usable
  BY <1>1 DEF Usable
<1>2. CASE ~Usable
  BY <1>2, LiveChainAssumption
<1> QED  BY <1>1, <1>2

\* Asking for a chain again leaves the subscriptions those of the chain.
LEMMA ResubscribeReaches ==
  ASSUME LiveCore, NEW c, NEW up \in {c, NoLadder}, NEW run \in SUBSET Feeding,
         NEW pick \in pickedSince,
         Resubscribe(c, up, run, pick)
  PROVE  /\ OfTheScreen(subTokens', c, up, run, Owns(c, view, pickedSince))
         /\ conn' \in [Conns -> {"unused", "connecting", "open", "closing"}]
         /\ wsRef' \in Conns \cup {NoConn} /\ DOMAIN served' = Conns
         /\ wsRef' # NoConn /\ conn'[wsRef'] = "open" => served'[wsRef'] = subTokens'
<1>1. CASE c = NoLadder
  BY <1>1 DEF Resubscribe, wire, LiveCore, LiveTyped, StreamKept, OfTheScreen
<1>2. CASE c # NoLadder
  BY <1>2, SubscribesOfChain, SubscribeReaches DEF Resubscribe
<1> QED  BY <1>1, <1>2

\* A load goes on to one more stage at most, under its number.
LEMMA LoadGoesOn ==
  ASSUME LiveCore, NEW r \in chainLoads, NEW stages \in SUBSET {"map", "extra"},
         \A s, t \in stages : s = t, chainLoads' = AfterLoad(r, stages), UNCHANGED loadSeq
  PROVE  /\ chainLoads' \subseteq Loads /\ \A p \in chainLoads' : p.seq <= loadSeq'
         /\ \A p, q \in chainLoads' : p.seq = q.seq => p = q
         /\ \A p \in chainLoads' : \/ p \in chainLoads /\ p.seq # r.seq
                                   \/ p.seq = r.seq /\ p.of = r.of /\ p.stage \in stages
<1>1. chainLoads \subseteq Loads /\ LoadsInOrder
  BY DEF LiveCore, LiveTyped
<1>2. \A s \in stages : /\ [r EXCEPT !.stage = s] \in Loads /\ [r EXCEPT !.stage = s].of = r.of
                        /\ [r EXCEPT !.stage = s].seq = r.seq /\ [r EXCEPT !.stage = s].stage = s
  BY <1>1 DEF Loads
<1>3. \A p \in chainLoads' : \/ p \in chainLoads /\ p # r
                             \/ \E s \in stages : p = [r EXCEPT !.stage = s]
  BY DEF AfterLoad
<1>4. \A p \in chainLoads' : \/ p \in chainLoads /\ p.seq # r.seq
                             \/ p.seq = r.seq /\ p.of = r.of /\ p.stage \in stages
  <2> SUFFICES ASSUME NEW p \in chainLoads'
               PROVE  \/ p \in chainLoads /\ p.seq # r.seq
                      \/ p.seq = r.seq /\ p.of = r.of /\ p.stage \in stages
    OBVIOUS
  <2>1. CASE p \in chainLoads /\ p # r
    BY <1>1, <2>1 DEF LoadsInOrder
  <2>2. CASE \E s \in stages : p = [r EXCEPT !.stage = s]
    BY <1>2, <2>2
  <2> QED  BY <1>3, <2>1, <2>2
<1>5. chainLoads' \subseteq Loads /\ \A p \in chainLoads' : p.seq <= loadSeq'
  <2>1. chainLoads' \subseteq Loads
    BY <1>1, <1>2, <1>3
  <2>2. ASSUME NEW p \in chainLoads' PROVE p.seq <= loadSeq'
    BY <1>1, <1>4 DEF LoadsInOrder
  <2> QED  BY <2>1, <2>2
<1>6. ASSUME NEW p \in chainLoads', NEW q \in chainLoads', p.seq = q.seq PROVE p = q
  <2>1. CASE p.seq = r.seq
    <3>1. \E s \in stages : p = [r EXCEPT !.stage = s]
      BY <1>1, <1>3, <2>1 DEF LoadsInOrder
    <3>2. \E s \in stages : q = [r EXCEPT !.stage = s]
      BY <1>1, <1>3, <1>6, <2>1 DEF LoadsInOrder
    <3> QED  BY <3>1, <3>2
  <2>2. CASE p.seq # r.seq
    BY <1>1, <1>4, <1>6, <2>2 DEF LoadsInOrder
  <2> QED  BY <2>1, <2>2
<1> QED  BY <1>4, <1>5, <1>6

\* Every step of the page, of its sockets and of the adapters keeps LiveCore.
LEMMA LiveStays == LiveCore /\ [LiveNext]_liveVars => LiveCore'
<1> SUFFICES ASSUME LiveCore, [LiveNext]_liveVars PROVE LiveCore'
  OBVIOUS
<1>0. LiveTyped /\ LoadsInOrder /\ TokensAreTheChains /\ StreamKept
  BY DEF LiveCore
<1> USE DEF wire, picking, Pick, Drop
\* A new load empties the screen and overtakes the loads under way.
<1>1. ASSUME NEW c \in Ladders, StartLoad(c), picked' = c, view # "left",
             UNCHANGED <<view, adapters, wire>>
      PROVE  LiveCore'
  <2> DEFINE load == [seq |-> loadSeq + 1, of |-> c, stage |-> "chain"]
  <2>1. /\ chainLoads' = chainLoads \cup {load} /\ loadSeq' = loadSeq + 1
        /\ load.seq = loadSeq + 1 /\ load.of = c /\ load.stage = "chain"
        /\ onScreen' = NoLadder /\ upTokens' = NoLadder /\ extra' = NoLadder
        /\ picked' \in pickedSince'
    BY <1>1 DEF StartLoad
  <2>2. load \in Loads /\ loadSeq' \in Nat /\ loadSeq' = load.seq
    BY <1>0, <2>1 DEF Loads, LiveTyped
  <2> HIDE DEF load
  <2>3. LiveTyped'
    BY <1>0, <1>1, <2>1, <2>2 DEF LiveTyped
  <2>4. LoadsInOrder'
    <3>1. ASSUME NEW r \in chainLoads PROVE r.seq <= loadSeq' /\ r.seq # load.seq
      <4>1. r.seq \in Nat /\ loadSeq \in Nat /\ r.seq <= loadSeq
        BY <1>0 DEF LoadsInOrder, LiveTyped, Loads
      <4> QED  BY <2>1, <4>1
    <3>2. ASSUME NEW r \in chainLoads' PROVE r.seq <= loadSeq'
      BY <2>1, <2>2, <3>1
    <3>3. \A r, s \in chainLoads' : r.seq = s.seq => r = s
      BY <1>0, <2>1, <3>1 DEF LoadsInOrder
    <3> QED  BY <1>1, <2>1, <3>1, <3>2, <3>3 DEF LoadsInOrder, Current
  <2> QED  BY <1>0, <1>1, <2>1, <2>3, <2>4
           DEF LiveCore, TokensAreTheChains, StreamKept, OfTheScreen
<1>2. ASSUME NEW c \in Ladders, PickSymbol(c) PROVE LiveCore'
  <2>1. Owns(onScreen, view, pickedSince) \subseteq Owns(onScreen', view', pickedSince')
    BY <1>2 DEF PickSymbol, Owns
  <2>2. StreamKept'
    BY <1>0, <1>2, <2>1 DEF PickSymbol, StreamKept, OfTheScreen
  <2> QED  BY <1>0, <1>2, <2>2 DEF PickSymbol, LiveCore, LiveTyped, LoadsInOrder, Current,
           TokensAreTheChains
<1>3. ASSUME NEW c \in Ladders, PickExpiry(c) \/ PickInWindow(c) PROVE LiveCore'
  BY <1>1, <1>3 DEF PickExpiry, PickInWindow
<1>4. CASE LoadChain
  BY <1>0, <1>1, <1>4 DEF LoadChain, LiveTyped
<1>5. CASE Unmount
  <2>1. LiveTyped' /\ StreamKept'
    BY <1>0, <1>5 DEF Unmount, Usable, LiveTyped, StreamKept, OfTheScreen
  <2>2. LoadsInOrder' /\ TokensAreTheChains'
    BY <1>0, <1>5 DEF Unmount, LoadsInOrder, Current, TokensAreTheChains
  <2> QED  BY <2>1, <2>2 DEF LiveCore
<1>6. CASE PreferFeed
  <2>1. /\ OfTheScreen(subTokens', onScreen, upTokens, adapters, Owns(onScreen, view, pickedSince))
        /\ conn' \in [Conns -> {"unused", "connecting", "open", "closing"}]
        /\ wsRef' \in Conns \cup {NoConn} /\ DOMAIN served' = Conns
        /\ wsRef' # NoConn /\ conn'[wsRef'] = "open" => served'[wsRef'] = subTokens'
    <3>1. Resubscribe(onScreen, upTokens, adapters, picked)
      BY <1>6 DEF PreferFeed
    <3>2. upTokens \in {onScreen, NoLadder} /\ adapters \in SUBSET Feeding /\ picked \in pickedSince
      BY <1>0 DEF TokensAreTheChains, LiveTyped, StreamKept
    <3> QED  BY <3>1, <3>2, ResubscribeReaches
  <2> QED  BY <1>0, <1>6, <2>1 DEF PreferFeed, LiveCore, LiveTyped, LoadsInOrder, Current,
           TokensAreTheChains, StreamKept
<1>7. ASSUME NEW r \in chainLoads, ChainAnswered(r) PROVE LiveCore'
  <2>1. CASE ~Current(r)
    BY <1>0, <1>7, <2>1 DEF ChainAnswered, LiveCore, LiveTyped, LoadsInOrder, Current,
       TokensAreTheChains, StreamKept
  <2>2. CASE Current(r)
    <3>1. /\ chainLoads' = AfterLoad(r, {"map"})
          /\ UNCHANGED <<view, picked, pickedSince, loadSeq, upTokens, extra, adapters>>
      BY <1>7, <2>2 DEF ChainAnswered
    <3>2. LoadsInOrder' /\ onScreen' \in Ladders \cup {NoLadder} /\ TokensAreTheChains'
      <4>1. CASE view = "left"
        BY <1>0, <1>7, <2>2, <3>1, <4>1, LoadGoesOn
           DEF ChainAnswered, LoadsInOrder, Current, TokensAreTheChains, LiveTyped
      <4>2. CASE view # "left"
        <5>1. onScreen' = r.of /\ onScreen = NoLadder /\ r.of \in Ladders /\ r.seq = loadSeq
          BY <1>0, <1>7, <2>2, <4>2 DEF ChainAnswered, LoadsInOrder, Current, LiveTyped, Loads
        <5> QED  BY <1>0, <3>1, <4>2, <5>1, LoadGoesOn DEF LoadsInOrder, Current, TokensAreTheChains
      <4> QED  BY <4>1, <4>2
    <3>3. /\ conn' \in [Conns -> {"unused", "connecting", "open", "closing"}]
          /\ wsRef' \in Conns \cup {NoConn} /\ DOMAIN served' = Conns
          /\ StreamKept'
      <4>1. CASE view = "left"
        <5>1. SubscribeLive(Subscribes(r.of, NoLadder, adapters, r.of)) /\ onScreen' = NoLadder
          BY <1>0, <1>7, <2>2, <4>1 DEF ChainAnswered, LoadsInOrder
        <5> QED  BY <1>0, <3>1, <5>1, SubscribeReaches DEF StreamKept, OfTheScreen
      <4>2. CASE view # "left"
        <5>1. /\ onScreen' = r.of /\ onScreen = NoLadder /\ upTokens = NoLadder /\ r.of # NoLadder
              /\ Resubscribe(r.of, upTokens, adapters, picked) /\ adapters \subseteq Feeding
          BY <1>0, <1>7, <2>2, <4>2, LiveChainAssumption
             DEF ChainAnswered, LoadsInOrder, Current, LiveTyped, Loads, TokensAreTheChains
        <5> QED  BY <1>0, <3>1, <5>1, ResubscribeReaches DEF StreamKept
      <4> QED  BY <4>1, <4>2
    <3>4. chainLoads' \subseteq Loads
      BY <3>1, LoadGoesOn
    <3> QED  BY <1>0, <3>1, <3>2, <3>3, <3>4 DEF LiveCore, LiveTyped
  <2> QED  BY <2>1, <2>2
<1>8. ASSUME NEW r \in chainLoads, ChainRefused(r) PROVE LiveCore'
    BY <1>0, <1>8 DEF ChainRefused, LiveCore, LiveTyped, LoadsInOrder, Current,
       TokensAreTheChains, StreamKept
<1>9. ASSUME NEW r \in chainLoads, TokensMapped(r) PROVE LiveCore'
  <2>1. /\ UNCHANGED <<view, picked, pickedSince, loadSeq, onScreen, extra, adapters>>
        /\ r.of \in Ladders /\ adapters \subseteq Feeding
        /\ Current(r) /\ view # "left" => onScreen = r.of
    BY <1>0, <1>9 DEF TokensMapped, LiveTyped, LoadsInOrder, Loads
  <2>2. chainLoads' \subseteq Loads /\ LoadsInOrder'
    <3> DEFINE stages == IF view = "page" /\ Current(r) THEN {"extra"} ELSE {}
    <3>1. chainLoads' = AfterLoad(r, stages) /\ stages \subseteq {"map", "extra"}
          /\ \A s, t \in stages : s = t
      BY <1>9 DEF TokensMapped
    <3> QED  BY <1>0, <2>1, <3>1, LoadGoesOn DEF LoadsInOrder, Current
  <2>3. /\ conn' \in [Conns -> {"unused", "connecting", "open", "closing"}]
        /\ wsRef' \in Conns \cup {NoConn} /\ DOMAIN served' = Conns
        /\ StreamKept' /\ TokensAreTheChains'
    <3>1. PICK up \in {r.of, NoLadder} :
            IF ~Current(r) THEN UNCHANGED <<upTokens, wire>>
            ELSE IF view = "left"
              THEN UNCHANGED upTokens /\ SubscribeLive(Subscribes(r.of, up, adapters, r.of))
            ELSE upTokens' = up /\ Resubscribe(onScreen, up, adapters, picked)
      BY <1>9 DEF TokensMapped
    <3>2. CASE ~Current(r)
      BY <1>0, <2>1, <3>1, <3>2 DEF LiveTyped, StreamKept, TokensAreTheChains
    <3>3. CASE Current(r) /\ view = "left"
      BY <1>0, <2>1, <3>1, <3>3, SubscribeReaches
         DEF LoadsInOrder, StreamKept, OfTheScreen, TokensAreTheChains
    <3>4. CASE Current(r) /\ view # "left"
      <4>1. /\ Resubscribe(onScreen, up, adapters, picked) /\ upTokens' = up
            /\ up \in {onScreen, NoLadder}
        BY <2>1, <3>1, <3>4
      <4>2. /\ OfTheScreen(subTokens', onScreen, up, adapters, Owns(onScreen, view, pickedSince))
            /\ conn' \in [Conns -> {"unused", "connecting", "open", "closing"}]
            /\ wsRef' \in Conns \cup {NoConn} /\ DOMAIN served' = Conns
            /\ wsRef' # NoConn /\ conn'[wsRef'] = "open" => served'[wsRef'] = subTokens'
        BY <1>0, <2>1, <4>1, ResubscribeReaches DEF StreamKept
      <4> QED  BY <1>0, <2>1, <4>1, <4>2 DEF StreamKept, TokensAreTheChains
    <3> QED  BY <3>2, <3>3, <3>4
  <2> QED  BY <1>0, <2>1, <2>2, <2>3 DEF LiveCore, LiveTyped
<1>10. ASSUME NEW r \in chainLoads, ExtraAnswered(r) PROVE LiveCore'
  <2>1. /\ UNCHANGED <<view, picked, pickedSince, loadSeq, onScreen, upTokens, adapters>>
        /\ adapters \subseteq Feeding /\ chainLoads' = chainLoads \ {r}
    BY <1>0, <1>10 DEF ExtraAnswered, LiveTyped
  <2>2. chainLoads' \subseteq Loads /\ LoadsInOrder'
    BY <1>0, <2>1 DEF LoadsInOrder, Current, LiveTyped
  <2>3. CASE Resubscribe(onScreen, upTokens, adapters, picked) /\ extra' = onScreen
    <3>1. upTokens \in {onScreen, NoLadder}
      BY <1>0 DEF TokensAreTheChains
    <3>2. /\ OfTheScreen(subTokens', onScreen, upTokens, adapters, Owns(onScreen, view, pickedSince))
          /\ conn' \in [Conns -> {"unused", "connecting", "open", "closing"}]
          /\ wsRef' \in Conns \cup {NoConn} /\ DOMAIN served' = Conns
          /\ wsRef' # NoConn /\ conn'[wsRef'] = "open" => served'[wsRef'] = subTokens'
      BY <1>0, <2>1, <2>3, <3>1, ResubscribeReaches DEF StreamKept
    <3> QED  BY <1>0, <2>1, <2>2, <2>3, <3>2
             DEF LiveCore, LiveTyped, TokensAreTheChains, StreamKept
  <2>4. CASE UNCHANGED <<extra, wire>>
    BY <1>0, <2>1, <2>2, <2>4 DEF LiveCore, LiveTyped, StreamKept, TokensAreTheChains
  <2> QED  BY <1>10, <2>3, <2>4 DEF ExtraAnswered
<1>11. ASSUME NEW run \in SUBSET Feeding, StatusPolled(run) PROVE LiveCore'
  <2>1. UNCHANGED <<view, picked, pickedSince, loadSeq, chainLoads, onScreen, upTokens, extra>>
        /\ adapters' = run
        /\ Resubscribe(onScreen, upTokens, run, picked)
    BY <1>11 DEF StatusPolled
  <2>2. /\ OfTheScreen(subTokens', onScreen, upTokens, run, Owns(onScreen, view, pickedSince))
        /\ conn' \in [Conns -> {"unused", "connecting", "open", "closing"}]
        /\ wsRef' \in Conns \cup {NoConn} /\ DOMAIN served' = Conns
        /\ wsRef' # NoConn /\ conn'[wsRef'] = "open" => served'[wsRef'] = subTokens'
    BY <1>0, <2>1, ResubscribeReaches DEF TokensAreTheChains, StreamKept
  <2> QED  BY <1>0, <2>1, <2>2
           DEF LiveCore, LiveTyped, LoadsInOrder, Current, TokensAreTheChains, StreamKept
<1>12. ASSUME NEW n \in Conns, SocketOpened(n) PROVE LiveCore'
    BY <1>0, <1>12 DEF SocketOpened, SentOnOpen, LiveCore, LiveTyped, LoadsInOrder, Current,
       TokensAreTheChains, StreamKept
<1>13. ASSUME NEW n \in Conns, SocketCloses(n) \/ SocketClosed(n) PROVE LiveCore'
    BY <1>0, <1>13, LiveChainAssumption DEF SocketCloses, SocketClosed, LiveCore, LiveTyped, LoadsInOrder, Current,
       TokensAreTheChains, StreamKept
<1>14. CASE UNCHANGED liveVars
  BY <1>0, <1>14 DEF liveVars, LiveCore, LiveTyped, LoadsInOrder, Current, TokensAreTheChains,
     StreamKept
<1> QED  BY <1>2, <1>3, <1>4, <1>5, <1>6, <1>7, <1>8, <1>9, <1>10, <1>11, <1>12, <1>13, <1>14
         DEF LiveNext

\* The page starts with nothing on screen and no socket.
LEMMA LiveBegins == LiveInit => LiveCore
<1> SUFFICES ASSUME LiveInit PROVE LiveCore
  OBVIOUS
<1>1. picked \in Ladders
  BY LiveChainAssumption DEF LiveInit
<1> QED  BY <1>1 DEF LiveInit, LiveCore, LiveTyped, LoadsInOrder, Current, TokensAreTheChains,
            StreamKept, OfTheScreen

\* The Upstox tokens and the greeks are those of the chain on screen, whatever loads were
\* overtaken, refused or answered late: for any chains and any number of sockets.
THEOREM TokensStayTheChains == LiveSpec => []TokensAreTheChains
<1>1. LiveCore => TokensAreTheChains
  BY DEF LiveCore
<1> QED  BY <1>1, LiveBegins, LiveStays, PTL DEF LiveSpec

\* The socket in use, once open, is streamed the chain on screen of every adapter that runs
\* and has its tokens and nothing else, through closed sockets and whatever was asked for
\* meanwhile; under its own segment, unless the page has picked one of another since.
THEOREM StreamsFollow == LiveSpec => []StreamFollows
<1>1. LiveCore => StreamFollows
  BY DEF LiveCore, StreamKept, OfTheScreen, Owns, StreamFollows
<1> QED  BY <1>1, LiveBegins, LiveStays, PTL DEF LiveSpec

-----------------------------------------------------------------------------
(* The legs of the basket (BasketLegs) *)

\* A set of numbers has a least one.
LEMMA LeastOf ==
  ASSUME NEW T \in SUBSET Nat, T # {}
  PROVE  \E x \in T : \A y \in T : x <= y
<1>1. \E x \in T : \A y \in T : <<y, x>> \notin OpToRel(<, Nat)
  BY NatLessThanWellFounded, WFMin
<1>2. \A x, y \in Nat : <<y, x>> \notin OpToRel(<, Nat) => x <= y
  BY DEF OpToRel
<1> QED  BY <1>1, <1>2

\* There is a strike nearest to any other: the least distance, and of the strikes at that
\* distance the lower one.
LEMMA NearestExists ==
  ASSUME NEW strikes \in SUBSET Nat, strikes # {}, NEW k \in Nat
  PROVE  Nearest(strikes, k) \in strikes
<1>1. \A x \in strikes : Distance(x, k) \in Nat
  BY DEF Distance
<1> DEFINE distances == {Distance(x, k) : x \in strikes}
<1>2. PICK d \in distances : \A y \in distances : d <= y
  BY <1>1, LeastOf
<1>3. PICK z \in strikes : d = Distance(z, k)
  BY <1>2
<1>4. z \in Closest(strikes, k) /\ Closest(strikes, k) \subseteq strikes
  BY <1>2, <1>3 DEF Closest
<1>5. PICK x \in Closest(strikes, k) : \A y \in Closest(strikes, k) : x <= y
  <2>1. Closest(strikes, k) \in SUBSET Nat /\ Closest(strikes, k) # {}
    BY <1>4
  <2> QED  BY <2>1, LeastOf
<1> QED  BY <1>4, <1>5 DEF Nearest

Resolves ==
  [stage : {"chain", "server"}, id : LegIds, seq : Nat, expiry : LadderExpiries, strike : Nat,
   kind : LegKinds]
  \cup [stage : {"step", "jump"}, id : LegIds, seq : {0}, expiry : LadderExpiries, strike : Nat,
        up : BOOLEAN]
Resolving == {"chain", "server"}

LegsTyped ==
  /\ legs \in [LegIds -> Legs \cup {NoLeg}] /\ latest \in [LegIds -> Nat]
  /\ resolves \subseteq Resolves /\ chainCache \subseteq LadderExpiries

\* A resolve has a number that was given to its leg once.
ResolvesNumbered ==
  /\ \A r \in resolves : r.stage \in Resolving => r.seq \in 1 .. latest[r.id]
  /\ \A r, s \in resolves :
       r.stage \in Resolving /\ s.stage \in Resolving /\ r.id = s.id /\ r.seq = s.seq => r = s

\* A request of the calculators that has not been cancelled is for the basket as it is.
MarginKept ==
  /\ marginJob.stage = "posted" => marginJob.of = Calc(legs)
  /\ MarginIsTheBaskets

LegsCore == LegsTyped /\ ResolvesNumbered /\ LegHoldsItsContract /\ MarginKept

\* A contract is an expiry with a strike and a kind.
LEMMA ContractsListed ==
  /\ \A c \in Contracts : c[1] \in LadderExpiries /\ c[2] \in Nat /\ c[3] \in LegKinds
  /\ \A e \in LadderExpiries, s \in OptionSides : \A k \in Ladder[e][s] :
       <<e, k, s>> \in Contracts /\ k \in Nat
<1>1. \A e \in LadderExpiries, s \in OptionSides : Ladder[e][s] \subseteq Nat
  BY BasketLegsAssumption
<1>2. ASSUME NEW c \in Contracts
      PROVE  c[1] \in LadderExpiries /\ c[2] \in Nat /\ c[3] \in LegKinds
  BY <1>1 DEF Contracts, Options, Listed, OptionSides, LegKinds
<1>3. ASSUME NEW e \in LadderExpiries, NEW s \in OptionSides, NEW k \in Ladder[e][s]
      PROVE  <<e, k, s>> \in Contracts /\ k \in Nat
  BY <1>1 DEF Contracts, Options, Listed, OptionSides
<1> QED  BY <1>2, <1>3

\* A commit leaves the margin true: it starts over whatever was under way for another basket.
LEMMA RepriceKeeps ==
  ASSUME MarginKept, NEW acct, NEW forced \in BOOLEAN, Reprice(legs', acct, forced)
  PROVE  MarginKept'
<1>1. CASE Calc(legs') = Calc(legs) /\ acct = priced /\ ~forced
  BY <1>1 DEF MarginKept, MarginIsTheBaskets, Reprice
<1>2. CASE ~(Calc(legs') = Calc(legs) /\ acct = priced /\ ~forced)
  BY <1>2 DEF MarginKept, MarginIsTheBaskets, Reprice, Cancelled
<1> QED  BY <1>1, <1>2

\* A resolve that starts overtakes the earlier ones of its leg and prices nothing.
LEMMA ResolveStarts ==
  ASSUME LegsCore, NEW i \in InBasket, NEW e \in LadderExpiries, NEW k \in Nat, NEW s \in LegKinds,
         NEW others \in SUBSET resolves, ResolveAs(i, e, k, s, others),
         UNCHANGED <<chainCache, margin, marginJob>>
  PROVE  LegsCore'
<1> USE DEF LegsCore, InBasket
<1> DEFINE leg == [legs[i] EXCEPT !.expiry = e, !.strike = k, !.kind = s, !.resolving = TRUE]
           job == [stage |-> IF e \in chainCache \/ priced THEN "chain" ELSE "server",
                   id |-> i, seq |-> latest[i] + 1, expiry |-> e, strike |-> k, kind |-> s]
<1>1. i \in LegIds /\ legs[i] \in Legs /\ legs[i] # NoLeg
  BY DEF LegsTyped
<1>2. /\ leg \in Legs /\ leg.expiry = e /\ leg.strike = k /\ leg.kind = s /\ leg.resolving
      /\ leg.token = legs[i].token /\ leg.qty = legs[i].qty
  BY <1>1 DEF Legs
<1>3. /\ job \in Resolves /\ job.stage \in Resolving /\ job.id = i /\ job.seq = latest[i] + 1
      /\ job.expiry = e /\ job.strike = k /\ job.kind = s
  BY <1>1 DEF LegsTyped, Resolves, Resolving
<1>4. legs' = [legs EXCEPT ![i] = leg] /\ latest' = [latest EXCEPT ![i] = latest[i] + 1]
      /\ resolves' = others \cup {job}
  BY DEF ResolveAs
<1> HIDE DEF leg, job
<1>5. LegsTyped'
  BY <1>1, <1>2, <1>3, <1>4 DEF LegsTyped
<1>6. ASSUME NEW r \in others, r.stage \in Resolving
      PROVE  /\ r.id \in LegIds /\ r.seq \in 1 .. latest[r.id] /\ r.seq \in 1 .. latest'[r.id]
             /\ r.id = i => r.seq # latest'[i] /\ r.seq # job.seq
  <2>1. r.id \in LegIds /\ r.seq \in Nat /\ latest[r.id] \in Nat /\ r.seq \in 1 .. latest[r.id]
    BY <1>6 DEF LegsTyped, Resolves, ResolvesNumbered
  <2>2. latest'[r.id] = IF r.id = i THEN latest[i] + 1 ELSE latest[r.id]
    BY <1>1, <1>4, <2>1 DEF LegsTyped
  <2> QED  BY <1>3, <2>1, <2>2
<1>7. ResolvesNumbered'
  <2>1. job.seq \in 1 .. latest'[job.id]
    BY <1>1, <1>3, <1>4 DEF LegsTyped
  <2> QED  BY <1>3, <1>4, <1>6, <2>1 DEF ResolvesNumbered
<1>8. LegHoldsItsContract'
  <2>1. \A j \in LegIds : legs'[j] = IF j = i THEN leg ELSE legs[j]
    BY <1>1, <1>4 DEF LegsTyped
  <2>2. ASSUME NEW r \in resolves', r.stage \in Resolving, legs'[r.id] # NoLeg, latest'[r.id] = r.seq
        PROVE  /\ legs'[r.id].resolving /\ legs'[r.id].kind = r.kind
               /\ legs'[r.id].expiry = r.expiry /\ legs'[r.id].strike = r.strike
    <3>1. CASE r = job
      BY <1>1, <1>2, <1>3, <2>1, <3>1
    <3>2. CASE r \in others
      <4>1. r.id # i /\ r.id \in LegIds /\ r \in resolves
        BY <1>6, <2>2, <3>2
      <4>2. latest'[r.id] = latest[r.id] /\ legs'[r.id] = legs[r.id]
        BY <1>4, <2>1, <4>1 DEF LegsTyped
      <4> QED  BY <2>2, <4>1, <4>2 DEF LegHoldsItsContract, Resolving
    <3> QED  BY <1>4, <3>1, <3>2
  <2>3. \A j \in LegIds : legs'[j] # NoLeg /\ ~legs'[j].resolving
          => j # i /\ legs'[j] = legs[j] /\ latest'[j] = latest[j]
    BY <1>2, <1>4, <2>1 DEF LegsTyped
  <2> QED  BY <2>2, <2>3 DEF LegHoldsItsContract, Resolving
<1>9. Calc(legs') = Calc(legs)
  <2>1. \A j \in LegIds : legs'[j] = IF j = i THEN leg ELSE legs[j]
    BY <1>1, <1>4 DEF LegsTyped
  <2>2. \A j \in LegIds : /\ legs'[j] # NoLeg <=> legs[j] # NoLeg
                          /\ legs'[j] # NoLeg => /\ legs'[j].token = legs[j].token
                                                 /\ legs'[j].qty = legs[j].qty
    BY <1>1, <1>2, <2>1, BasketLegsAssumption
  <2> QED  BY <2>2 DEF Calc
<1>10. MarginKept'
  BY <1>9 DEF MarginKept, MarginIsTheBaskets
<1> QED  BY <1>5, <1>7, <1>8, <1>10

\* The answer to a resolve: the latest one of its leg decides what the leg is.
LEMMA ResolveFinishes ==
  ASSUME LegsCore, NEW r \in resolves, r.stage \in Resolving, NEW patched, Finish(r, patched),
         IsLatest(r) =>
           /\ patched \in Legs /\ ~patched.resolving
           /\ patched.kind \in OptionSides /\ ~patched.error =>
                patched.token = <<patched.expiry, patched.strike, patched.kind>>
  PROVE  LegsCore'
<1> USE DEF LegsCore, InBasket
<1>1. r.id \in LegIds /\ r.seq \in 1 .. latest[r.id]
  BY DEF LegsTyped, Resolves, ResolvesNumbered
<1>2. /\ resolves' = resolves \ {r} /\ UNCHANGED <<latest, chainCache, priced, edits>>
      /\ legs' = IF IsLatest(r) THEN [legs EXCEPT ![r.id] = patched] ELSE legs
      /\ Reprice(legs', priced, FALSE)
  BY DEF Finish
<1>3. LegsTyped'
  BY <1>1, <1>2 DEF LegsTyped
<1>4. ResolvesNumbered'
  BY <1>2 DEF ResolvesNumbered
<1>5. MarginKept'
  BY <1>2, RepriceKeeps
<1>6. LegHoldsItsContract'
  <2>1. CASE ~IsLatest(r)
    BY <1>2, <2>1 DEF LegHoldsItsContract
  <2>2. CASE IsLatest(r)
    <3>1. \A j \in LegIds : legs'[j] = IF j = r.id THEN patched ELSE legs[j]
      BY <1>1, <1>2, <2>2 DEF LegsTyped
    <3>2. \A s \in resolves' : s.stage \in Resolving /\ latest'[s.id] = s.seq => s.id # r.id
      BY <1>2, <2>2 DEF IsLatest, ResolvesNumbered
    <3>3. \A s \in resolves' : s.id \in LegIds
      BY <1>2 DEF LegsTyped, Resolves
    <3> QED  BY <1>2, <2>2, <3>1, <3>2, <3>3 DEF LegHoldsItsContract, Resolving
  <2> QED  BY <2>1, <2>2
<1> QED  BY <1>3, <1>4, <1>5, <1>6

\* Every edit, answer and tick of the basket keeps LegsCore.
LEMMA LegsStay == LegsCore /\ [LegsNext]_legVars => LegsCore'
<1> SUFFICES ASSUME LegsCore, [LegsNext]_legVars PROVE LegsCore'
  OBVIOUS
<1>0. LegsTyped /\ ResolvesNumbered /\ LegHoldsItsContract /\ MarginKept
  BY DEF LegsCore
<1> USE DEF InBasket, Edit
<1>1. ASSUME NEW i \in LegIds, NEW c \in Contracts, NEW e \in LadderExpiries, AddLeg(i, c, e)
      PROVE  LegsCore'
  <2> DEFINE leg == [expiry |-> e, strike |-> c[2], kind |-> c[3], token |-> c, qty |-> 1,
                     resolving |-> FALSE, error |-> FALSE]
  <2>1. leg \in Legs
    BY ContractsListed DEF Legs
  <2>2. /\ legs' = [legs EXCEPT ![i] = leg] /\ latest[i] = 0 /\ Reprice(legs', priced, FALSE)
        /\ UNCHANGED <<resolves, latest, chainCache, priced>>
    BY <1>1 DEF AddLeg
  <2> HIDE DEF leg
  <2>3. \A j \in LegIds : legs'[j] = IF j = i THEN leg ELSE legs[j]
    BY <1>0, <2>2 DEF LegsTyped
  <2>4. \A r \in resolves : r.id \in LegIds /\ (r.stage \in Resolving /\ latest[r.id] = r.seq => r.id # i)
    BY <1>0, <2>2 DEF LegsTyped, Resolves, ResolvesNumbered
  <2>5. LegHoldsItsContract'
    BY <1>0, <2>2, <2>3, <2>4 DEF LegHoldsItsContract, Resolving
  <2>6. MarginKept'
    BY <1>0, <2>2, RepriceKeeps
  <2> QED  BY <1>0, <2>1, <2>2, <2>5, <2>6 DEF LegsCore, LegsTyped, ResolvesNumbered
\* Legs that leave take the numbers of their resolves with them.
<1>2. ASSUME NEW gone \in SUBSET LegIds, Reprice(legs', priced, FALSE), UNCHANGED <<resolves, chainCache>>,
             legs' = [i \in LegIds |-> IF i \in gone THEN NoLeg ELSE legs[i]],
             latest' = [i \in LegIds |-> IF i \in gone THEN latest[i] + 1 ELSE latest[i]]
      PROVE  LegsCore'
  <2>1. LegsTyped'
    BY <1>0, <1>2 DEF LegsTyped
  <2>2. \A r \in resolves : r.id \in LegIds /\ r.seq \in Nat /\ latest[r.id] \in Nat
    BY <1>0 DEF LegsTyped, Resolves
  <2>3. ResolvesNumbered'
    BY <1>0, <1>2, <2>2 DEF ResolvesNumbered
  <2>4. LegHoldsItsContract'
    BY <1>0, <1>2, <2>2 DEF LegHoldsItsContract
  <2> QED  BY <1>0, <1>2, <2>1, <2>3, <2>4, RepriceKeeps DEF LegsCore
<1>3. ASSUME NEW i \in LegIds, RemoveLeg(i) PROVE LegsCore'
  <2>1. /\ legs' = [j \in LegIds |-> IF j \in {i} THEN NoLeg ELSE legs[j]]
        /\ latest' = [j \in LegIds |-> IF j \in {i} THEN latest[j] + 1 ELSE latest[j]]
    BY <1>0, <1>3 DEF RemoveLeg, LegsTyped
  <2> QED  BY <1>2, <1>3, <2>1 DEF RemoveLeg
<1>4. CASE ClearLegs
  BY <1>2, <1>4 DEF ClearLegs
<1>5. ASSUME NEW i \in LegIds, UpdateLeg(i) PROVE LegsCore'
  <2> DEFINE leg == [legs[i] EXCEPT !.qty = 3 - @]
  <2>1. legs[i] \in Legs /\ i \in InBasket
    BY <1>0, <1>5 DEF UpdateLeg, LegsTyped
  <2>2. leg \in Legs /\ leg.token = legs[i].token /\ leg.expiry = legs[i].expiry
        /\ leg.strike = legs[i].strike /\ leg.kind = legs[i].kind
        /\ leg.resolving = legs[i].resolving /\ leg.error = legs[i].error
    BY <2>1 DEF Legs
  <2>3. legs' = [legs EXCEPT ![i] = leg] /\ Reprice(legs', priced, FALSE)
        /\ UNCHANGED <<resolves, latest, chainCache, priced>>
    BY <1>5 DEF UpdateLeg
  <2> HIDE DEF leg
  <2>4. \A j \in LegIds : legs'[j] = IF j = i THEN leg ELSE legs[j]
    BY <1>0, <2>3 DEF LegsTyped
  <2>5. \A r \in resolves : r.id \in LegIds
    BY <1>0 DEF LegsTyped, Resolves
  <2>6. LegHoldsItsContract'
    BY <1>0, <2>1, <2>2, <2>3, <2>4, <2>5 DEF LegHoldsItsContract
  <2>7. MarginKept'
    BY <1>0, <2>3, RepriceKeeps
  <2> QED  BY <1>0, <2>2, <2>3, <2>6, <2>7 DEF LegsCore, LegsTyped, ResolvesNumbered
<1>6. ASSUME UNCHANGED <<legs, resolves, latest, chainCache>>, MarginKept' PROVE LegsCore'
  BY <1>0, <1>6 DEF LegsCore, LegsTyped, ResolvesNumbered, LegHoldsItsContract
<1>7. CASE RefreshMargin \/ MarginContext
  BY <1>0, <1>6, <1>7, RepriceKeeps DEF RefreshMargin, MarginContext
<1>8. ASSUME NEW i \in LegIds, NEW e \in LadderExpiries, NEW k \in StrikesOf(i), NEW s \in LegKinds,
             ChangeContract(i, e, k, s)
      PROVE  LegsCore'
  <2>1. ResolveAs(i, e, k, s, resolves) /\ i \in InBasket /\ UNCHANGED <<chainCache, margin, marginJob>>
    BY <1>8 DEF ChangeContract
  <2>2. legs[i] \in Legs
    BY <1>0, <2>1 DEF LegsTyped
  <2>3. k \in Nat
    BY <2>2, BasketLegsAssumption DEF StrikesOf, Legs
  <2> QED  BY <2>1, <2>3, ResolveStarts
<1>9. ASSUME NEW i \in LegIds, NEW up \in BOOLEAN, StepStrike(i, up) PROVE LegsCore'
  <2> DEFINE press ==
        [stage |-> IF legs[i].expiry \in chainCache \/ priced THEN "step" ELSE "jump",
         id |-> i, seq |-> 0, expiry |-> legs[i].expiry, strike |-> legs[i].strike, up |-> up]
  <2>1. legs[i] \in Legs
    BY <1>0, <1>9 DEF StepStrike, LegsTyped
  <2>2. press \in Resolves /\ press.stage \notin Resolving
    BY <2>1 DEF Resolves, Legs, Resolving
  <2>3. resolves' = resolves \cup {press} /\ UNCHANGED <<legs, latest, chainCache, margin, marginJob>>
    BY <1>9 DEF StepStrike
  <2> HIDE DEF press
  <2> QED  BY <1>0, <2>2, <2>3 DEF LegsCore, LegsTyped, ResolvesNumbered, LegHoldsItsContract,
               MarginKept, MarginIsTheBaskets, Resolving
<1>10. ASSUME NEW r \in resolves, Stepped(r) PROVE LegsCore'
  <2>1. r \in Resolves /\ r.id \in LegIds /\ r.strike \in Nat /\ r.expiry \in LadderExpiries
    BY <1>0 DEF LegsTyped, Resolves
  <2>2. CASE resolves' = resolves \ {r} /\ UNCHANGED <<legs, latest, chainCache, margin, marginJob>>
    BY <1>0, <2>2 DEF LegsCore, LegsTyped, ResolvesNumbered, LegHoldsItsContract,
       MarginKept, MarginIsTheBaskets
  <2>3. ASSUME legs[r.id] # NoLeg, NEW k \in Steps(r),
               ResolveAs(r.id, legs[r.id].expiry, k, legs[r.id].kind, resolves \ {r}),
               UNCHANGED <<chainCache, margin, marginJob>>
        PROVE  LegsCore'
    <3>1. legs[r.id] \in Legs /\ legs[r.id].expiry \in LadderExpiries /\ legs[r.id].kind \in LegKinds
      BY <1>0, <2>1, <2>3 DEF LegsTyped, Legs
    <3>2. k \in Nat
      <4>1. CASE k \in FixedSteps(r)
        BY <2>1, <4>1, BasketLegsAssumption DEF FixedSteps
      <4>2. CASE k \in LadderSteps(r)
        <5> DEFINE beyond == {x \in Window[r.expiry] : IF r.up THEN x > r.strike ELSE x < r.strike}
        <5>1. k = Nearest(beyond, r.strike) /\ beyond # {}
          BY <4>2 DEF LadderSteps
        <5>2. beyond \in SUBSET Nat
          BY <2>1, BasketLegsAssumption
        <5> HIDE DEF beyond
        <5> QED  BY <2>1, <5>1, <5>2, NearestExists
      <4> QED  BY <2>3, <4>1, <4>2 DEF Steps
    <3> QED  BY <2>1, <2>3, <3>1, <3>2, ResolveStarts
  <2> QED  BY <1>10, <2>2, <2>3 DEF Stepped
<1>11. ASSUME NEW e \in LadderExpiries, ChainCached(e) PROVE LegsCore'
  BY <1>0, <1>11 DEF ChainCached, LegsCore, LegsTyped, ResolvesNumbered, LegHoldsItsContract,
     MarginKept, MarginIsTheBaskets
<1>12. ASSUME NEW r \in resolves, NEW s \in OptionSides, NEW k \in Ladder[r.expiry][s],
              NEW kind \in LegKinds, kind \in OptionSides => kind = s, NEW err \in BOOLEAN,
              r.stage \in Resolving, Finish(r, Resolved(<<r.expiry, k, s>>, kind, r, err))
       PROVE  LegsCore'
  <2> DEFINE c == <<r.expiry, k, s>>
  <2>1. r.id \in LegIds /\ r.expiry \in LadderExpiries
    BY <1>0 DEF LegsTyped, Resolves
  <2>2. c \in Contracts /\ k \in Nat /\ c[1] = r.expiry /\ c[2] = k /\ c = <<r.expiry, k, s>>
    BY <1>12, <2>1, ContractsListed
  <2> HIDE DEF c
  <2>3. legs[r.id] \in Legs =>
          /\ Resolved(c, kind, r, err) \in Legs /\ ~Resolved(c, kind, r, err).resolving
          /\ Resolved(c, kind, r, err).kind = kind /\ Resolved(c, kind, r, err).token = c
          /\ Resolved(c, kind, r, err).expiry = r.expiry /\ Resolved(c, kind, r, err).strike = k
    BY <1>12, <2>1, <2>2 DEF Resolved, Legs
  <2>4. IsLatest(r) => legs[r.id] \in Legs
    BY <1>0, <2>1 DEF IsLatest, LegsTyped
  <2>5. Finish(r, Resolved(c, kind, r, err))
    BY <1>12 DEF c
  <2> DEFINE patched == Resolved(c, kind, r, err)
  <2>6. legs[r.id] \in Legs =>
          /\ patched \in Legs /\ ~patched.resolving
          /\ patched.kind \in OptionSides /\ ~patched.error =>
               patched.token = <<patched.expiry, patched.strike, patched.kind>>
    <3> SUFFICES ASSUME legs[r.id] \in Legs, kind \in OptionSides
                 PROVE  patched.token = <<patched.expiry, patched.strike, patched.kind>>
      BY <2>3
    <3>1. kind = s
      BY <1>12
    <3> QED  BY <2>2, <2>3, <3>1
  <2> HIDE DEF patched
  <2>7. Finish(r, patched)
    BY <2>5 DEF patched
  <2> QED  BY <1>12, <2>4, <2>6, <2>7, ResolveFinishes
<1>13. ASSUME NEW r \in resolves, FromChain(r) \/ FromServer(r) PROVE LegsCore'
  <2>1. r.stage \in Resolving /\ r \in Resolves
    BY <1>0, <1>13 DEF FromChain, FromServer, LegsTyped, Resolving
  <2>2. r.kind \in LegKinds /\ SideOf(r.kind) \in OptionSides /\ SideOf(r.kind) \in LegKinds
        /\ (r.kind \in OptionSides => r.kind = SideOf(r.kind))
    BY <2>1 DEF Resolves, Resolving, SideOf, OptionSides, LegKinds
  <2>3. CASE FromChain(r)
    BY <1>12, <2>1, <2>2, <2>3 DEF FromChain
  <2>4. CASE FromServer(r)
    <3>1. PICK k \in Closest(Ladder[r.expiry][SideOf(r.kind)], r.strike), err \in BOOLEAN :
             Finish(r, Resolved(<<r.expiry, k, SideOf(r.kind)>>, SideOf(r.kind), r, err))
      BY <2>4 DEF FromServer
    <3>2. k \in Ladder[r.expiry][SideOf(r.kind)]
      BY DEF Closest
    <3> QED  BY <1>12, <2>1, <2>2, <3>1, <3>2
  <2> QED  BY <1>13, <2>3, <2>4
<1>14. ASSUME NEW r \in resolves, AskServer(r) PROVE LegsCore'
  <2> DEFINE asked == [r EXCEPT !.stage = "server"]
  <2>1. r \in Resolves /\ r.stage = "chain"
    BY <1>0, <1>14 DEF AskServer, LegsTyped
  <2>2. /\ asked \in Resolves /\ asked.stage = "server" /\ asked.id = r.id /\ asked.seq = r.seq
        /\ asked.expiry = r.expiry /\ asked.strike = r.strike /\ asked.kind = r.kind
    BY <2>1 DEF Resolves
  <2>3. resolves' = (resolves \ {r}) \cup {asked} /\ UNCHANGED <<legs, latest, chainCache, margin, marginJob>>
    BY <1>14 DEF AskServer
  <2> HIDE DEF asked
  <2>4. LegsTyped' /\ ResolvesNumbered'
    BY <1>0, <2>1, <2>2, <2>3 DEF LegsTyped, ResolvesNumbered, Resolving
  <2>5. LegHoldsItsContract'
    BY <1>0, <2>1, <2>2, <2>3 DEF LegHoldsItsContract
  <2> QED  BY <1>0, <2>3, <2>4, <2>5 DEF LegsCore, MarginKept, MarginIsTheBaskets
<1>15. ASSUME NEW r \in resolves, ResolveFailed(r) PROVE LegsCore'
  <2> DEFINE leg == [legs[r.id] EXCEPT !.resolving = FALSE, !.error = TRUE]
  <2>1. r.id \in LegIds
    BY <1>0 DEF LegsTyped, Resolves
  <2>2. IsLatest(r) => leg \in Legs /\ ~leg.resolving /\ leg.error
    BY <1>0, <2>1 DEF IsLatest, LegsTyped, Legs
  <2>3. Finish(r, leg) /\ r.stage \in Resolving
    BY <1>15 DEF ResolveFailed, Resolving
  <2> HIDE DEF leg
  <2> QED  BY <2>2, <2>3, ResolveFinishes
<1>16. CASE MarginPosted \/ MarginFailed \/ \E renewed \in BOOLEAN : MarginAnswered(renewed)
  BY <1>0, <1>6, <1>16 DEF MarginPosted, MarginFailed, MarginAnswered, MarginKept, MarginIsTheBaskets
<1>17. CASE UNCHANGED legVars
  BY <1>0, <1>6, <1>17 DEF legVars, MarginKept, MarginIsTheBaskets
<1>18. ASSUME NEW i \in LegIds, NEW c \in Contracts,
              AddFromSearch(i, c) \/ \E e \in LadderExpiries : AddFromChain(i, c, e)
       PROVE  LegsCore'
  BY <1>1, <1>18, ContractsListed DEF AddFromSearch, AddFromChain
<1> QED  BY <1>3, <1>4, <1>5, <1>7, <1>8, <1>9, <1>10, <1>11, <1>13, <1>14, <1>15, <1>16, <1>17, <1>18
         DEF LegsNext

\* The basket starts empty, with nothing under way.
LEMMA LegsBegin == LegsInit => LegsCore
BY DEF LegsInit, LegsCore, LegsTyped, ResolvesNumbered, LegHoldsItsContract, InBasket, MarginKept,
   MarginIsTheBaskets

\* The leg of an option that was changed in its row and is at rest holds the token of the
\* contract the row names, whatever resolves are under way and in whatever order chains and
\* server answer them: for any ladders, windows, typed strikes and legs.
THEOREM LegsHoldTheirContracts == LegsSpec => []LegHoldsItsContract
<1>1. LegsCore => LegHoldsItsContract
  BY DEF LegsCore
<1> QED  BY <1>1, LegsBegin, LegsStay, PTL DEF LegsSpec

\* A margin on screen that nothing is about to replace is that of the basket on screen.
THEOREM MarginsAreTheBaskets == LegsSpec => []MarginIsTheBaskets
<1>1. LegsCore => MarginIsTheBaskets
  BY DEF LegsCore, MarginKept
<1> QED  BY <1>1, LegsBegin, LegsStay, PTL DEF LegsSpec

-----------------------------------------------------------------------------
(* The rows the table draws *)

\* Only mounted panes are listened to, what is heard moves all of them, and the range, once
\* no frame is queued, covers the viewport of a side that was heard or is at the top.
Covers(s) == visible[1] <= place[s] /\ Least(Rows, place[s] + InView) <= visible[2]
TableTyped ==
  /\ place \in [Panes -> Nat] /\ visible \in Nat \X Nat
  /\ listening \in BOOLEAN /\ heard \in BOOLEAN /\ loadFrame \in BOOLEAN
  /\ scrollFrame \in {"none", "queued", "gone"}
HeardTogether ==
  /\ listening => Mounted /\ scrollFrame # "gone"
  /\ heard => listening /\ (~loadFrame => \A p, q \in Panes : place[p] = place[q])
  /\ scrollFrame = "queued" => listening /\ \A s, t \in Sides : place[s] = place[t]
RangeKept ==
  listening /\ ~loadFrame /\ scrollFrame = "none" /\ Rows > VirtualRows =>
    \A s \in Sides : heard \/ place[s] = 0 => Covers(s)
TableCore == TableTyped /\ HeardTogether /\ RangeKept

\* A place is a number of rows.
LEMMA LastPlaceIsNat == LastPlace \in Nat
<1>1. MatchedRows \in SUBSET (1..Rows) /\ Rows \in Nat /\ InView \in Nat
  BY ChainTableAssumption DEF MatchedRows
<1>2. IsFiniteSet(MatchedRows)
  <2>1. IsFiniteSet(1..Rows)
    BY <1>1, FS_Interval
  <2> QED  BY <1>1, <2>1, FS_Subset
<1>3. Cardinality(MatchedRows) \in Nat
  BY <1>2, FS_CardinalityType
<1> QED  BY <1>1, <1>3 DEF LastPlace, Most

LEMMA LastPlaceStaysNat == (LastPlace \in Nat)'
BY LastPlaceIsNat, PTL

\* A range measured at a place covers the viewport there.
LEMMA RangeReaches ==
  ASSUME NEW top \in Nat, NEW height \in Nat, UpdateVisibleRange(top, height)
  PROVE  /\ visible' \in Nat \X Nat
         /\ Rows > VirtualRows /\ height = InView =>
              visible'[1] <= top /\ Least(Rows, top + InView) <= visible'[2]
<1>1. Rows \in Nat /\ Overscan \in Nat /\ InView \in Nat /\ VirtualRows \in Nat
  BY ChainTableAssumption
<1> DEFINE first == Most(0, top - Overscan)
<1>2. /\ first \in Nat /\ first <= top /\ top <= first + Overscan
      /\ RangeEnds(first, height) \in Nat
      /\ height = InView => Least(Rows, top + InView) <= RangeEnds(first, height)
  BY <1>1 DEF Most, Least, RangeEnds
<1>3. visible' = IF Rows <= VirtualRows THEN <<0, Rows>> ELSE <<first, RangeEnds(first, height)>>
  BY DEF UpdateVisibleRange
<1> HIDE DEF first
<1>4. CASE Rows <= VirtualRows
  BY <1>1, <1>3, <1>4
<1>5. CASE ~(Rows <= VirtualRows)
  <2>1. visible'[1] = first /\ visible'[2] = RangeEnds(first, height) /\ visible' \in Nat \X Nat
    BY <1>2, <1>3, <1>5
  <2> QED  BY <1>2, <2>1
<1> QED  BY <1>4, <1>5

\* A scroll that is heard on mounted panes keeps the invariant.
LEMMA HeardKeeps ==
  ASSUME TableCore, listening, NEW n \in Nat, Heard(n), Mounted', UNCHANGED <<visible, loadFrame>>
  PROVE  TableCore'
<1>1. /\ place' = [p \in Panes |-> n] /\ heard' = TRUE /\ listening' = TRUE
      /\ scrollFrame' = "queued" /\ UNCHANGED <<visible, loadFrame>>
  BY DEF TableCore, TableTyped, HeardTogether, Heard
<1>2. \A p \in Panes : place'[p] = n
  BY <1>1
<1> QED  BY <1>1, <1>2 DEF TableCore, TableTyped, HeardTogether, RangeKept, Panes

\* So does every render, whatever it leaves of the table.
LEMMA RenderKeeps == ASSUME TableCore, Rendered PROVE TableCore'
<1>0. PanesFollow /\ UNCHANGED <<visible, loadFrame>>
  BY DEF Rendered
<1>1. ASSUME NEW p \in Panes PROVE Clamped(p) \in Nat /\ (place[p] = 0 => Clamped(p) = 0)
  <2>1. LastPlace' \in Nat
    BY LastPlaceStaysNat
  <2>2. place[p] \in Nat
    BY DEF TableCore, TableTyped
  <2> QED  BY <2>1, <2>2 DEF Clamped, Least
<1>2. CASE ~(Mounted /\ Mounted')
  <2>1. /\ place' = AtTop /\ listening' = FALSE /\ heard' = FALSE
        /\ scrollFrame' \in {"none", "gone"}
    BY <1>0, <1>2 DEF PanesFollow
  <2> QED  BY <1>0, <2>1 DEF TableCore, TableTyped, HeardTogether, RangeKept, AtTop
<1>3. CASE Mounted /\ Mounted' /\ listening /\ \E s \in Sides : Clamped(s) # place[s]
  <2>1. PICK s \in Sides : Heard(Clamped(s))
    BY <1>0, <1>3 DEF PanesFollow
  <2> QED  BY <1>0, <1>1, <1>3, <2>1, HeardKeeps DEF Panes
<1>4. CASE Mounted /\ Mounted' /\ ~(listening /\ \E s \in Sides : Clamped(s) # place[s])
  <2>1. place' = [p \in Panes |-> Clamped(p)] /\ UNCHANGED <<listening, heard, scrollFrame>>
    BY <1>0, <1>4 DEF PanesFollow
  <2>2. place' \in [Panes -> Nat]
    BY <1>1, <2>1
  <2>3. listening => \A s \in Sides : place'[s] = place[s]
    BY <1>4, <2>1 DEF Panes
  <2>4. heard /\ ~loadFrame => \A p, q \in Panes : place'[p] = place'[q]
    <3>1. \A p, q \in Panes : place[p] = place[q] => Clamped(p) = Clamped(q)
      BY DEF Clamped
    <3> QED  BY <2>1, <3>1 DEF TableCore, HeardTogether
  <2>5. TableTyped' /\ HeardTogether'
    BY <1>0, <1>4, <2>1, <2>2, <2>3, <2>4 DEF TableCore, TableTyped, HeardTogether
  <2>6. RangeKept'
    BY <1>0, <2>1, <2>3 DEF TableCore, RangeKept, Covers
  <2> QED  BY <2>5, <2>6 DEF TableCore
<1> QED  BY <1>2, <1>3, <1>4

\* Every tick, scroll, filter, chain and frame keeps the invariant.
LEMMA TableStays == TableCore /\ [TableNext]_tableVars => TableCore'
<1> SUFFICES ASSUME TableCore, [TableNext]_tableVars PROVE TableCore'
  OBVIOUS
<1>0. TableTyped /\ HeardTogether /\ RangeKept
  BY DEF TableCore
<1>1. ASSUME UNCHANGED <<seenTicks, wsBroker, filter, scrollVars>> PROVE TableCore'
  <2>1. Mounted' = Mounted
    BY <1>1 DEF Mounted, MatchedRows, MatchedSides, LegPasses, Within, Ltp
  <2> QED  BY <1>0, <1>1, <2>1
           DEF scrollVars, paneVars, TableCore, TableTyped, HeardTogether, RangeKept, Covers
<1>2. ASSUME NEW b, NEW l, NEW p, TableTick(b, l, p) PROVE TableCore'
  BY <1>1, <1>2 DEF TableTick
<1>3. CASE TicksReset
  BY <1>1, <1>3 DEF TicksReset
<1>4. CASE SecondPasses \/ PickLiveFeed \/ ClearFilter
  BY <1>4, RenderKeeps DEF SecondPasses, PickLiveFeed, ClearFilter
<1>5. ASSUME NEW op, NEW v, NEW v2, NEW s, SetFilter(op, v, v2, s) PROVE TableCore'
  BY <1>5, RenderKeeps DEF SetFilter
<1>6. CASE HydrateTable \/ LoadTable
  <2>1. PICK places \in [Panes -> Nat] : ShowsChain(places)
    <3>1. AtTop \in [Panes -> Nat]
      BY DEF AtTop
    <3>2. [p \in Panes |-> Clamped(p)] \in [Panes -> Nat]
      <4>1. LastPlace' \in Nat
        BY LastPlaceStaysNat
      <4> QED  BY <1>0, <4>1 DEF TableTyped, Clamped, Least
    <3> QED  BY <1>6, <3>1, <3>2 DEF HydrateTable, LoadTable
  <2>2. /\ place' = places /\ listening' = Mounted' /\ heard' = FALSE /\ loadFrame' = TRUE
        /\ scrollFrame' = "none" /\ visible' = visible
    BY <2>1 DEF ShowsChain
  <2>3. Mounted' \in BOOLEAN
    BY DEF Mounted
  <2> QED  BY <1>0, <2>2, <2>3 DEF TableCore, TableTyped, HeardTogether, RangeKept
<1>7. CASE LoadFrame
  <2>1. /\ place' = [place EXCEPT !["strike"] = 0] /\ heard' = FALSE /\ loadFrame' = FALSE
        /\ UNCHANGED <<seenTicks, wsBroker, filter, listening, scrollFrame>>
        /\ UpdateVisibleRange(0, IF Mounted THEN InView ELSE 0)
    BY <1>7 DEF LoadFrame
  <2>2. Mounted' = Mounted /\ InView \in Nat
    BY <2>1, ChainTableAssumption DEF Mounted, MatchedRows, MatchedSides, LegPasses, Within, Ltp
  <2>3. place' \in [Panes -> Nat] /\ \A s \in Sides : place'[s] = place[s]
    BY <1>0, <2>1 DEF TableTyped, Panes, Sides
  <2>4. visible' \in Nat \X Nat
    BY <2>1, <2>2, RangeReaches
  <2>5. TableTyped' /\ HeardTogether'
    BY <1>0, <2>1, <2>2, <2>3, <2>4 DEF TableTyped, HeardTogether
  <2>6. RangeKept'
    <3> SUFFICES ASSUME listening, Rows > VirtualRows, NEW s \in Sides, place'[s] = 0
                 PROVE  Covers(s)'
      BY <2>1 DEF RangeKept
    <3>1. Mounted
      BY <1>0 DEF HeardTogether
    <3>2. visible'[1] <= 0 /\ Least(Rows, 0 + InView) <= visible'[2]
      BY <2>1, <2>2, <3>1, RangeReaches
    <3> QED  BY <3>2 DEF Covers
  <2> QED  BY <2>5, <2>6 DEF TableCore
<1>8. CASE ScrollFrame
  <2>1. /\ scrollFrame # "none" /\ scrollFrame' = "none" /\ ~loadFrame
        /\ UNCHANGED <<seenTicks, wsBroker, filter, place, listening, heard, loadFrame>>
        /\ \/ scrollFrame = "gone" /\ UpdateVisibleRange(0, 0)
           \/ scrollFrame = "queued" /\ \E s \in Sides : UpdateVisibleRange(place[s], InView)
    BY <1>0, <1>8 DEF ScrollFrame, TableTyped
  <2>2. Mounted' = Mounted /\ InView \in Nat /\ \A s \in Sides : place[s] \in Nat
    BY <1>0, <2>1, ChainTableAssumption
       DEF Mounted, MatchedRows, MatchedSides, LegPasses, Within, Ltp, TableTyped, Panes
  <2>3. CASE scrollFrame = "gone"
    <3>1. visible' \in Nat \X Nat /\ ~listening
      BY <1>0, <2>1, <2>3, RangeReaches DEF HeardTogether
    <3> QED  BY <1>0, <2>1, <2>2, <3>1 DEF TableCore, TableTyped, HeardTogether, RangeKept
  <2>4. CASE scrollFrame = "queued"
    <3>1. PICK s \in Sides : UpdateVisibleRange(place[s], InView)
      BY <2>1, <2>4
    <3>2. /\ visible' \in Nat \X Nat
          /\ Rows > VirtualRows =>
               visible'[1] <= place[s] /\ Least(Rows, place[s] + InView) <= visible'[2]
      BY <2>2, <3>1, RangeReaches
    <3>3. \A t \in Sides : place'[t] = place[s]
      BY <1>0, <2>1, <2>4 DEF HeardTogether
    <3>4. TableTyped' /\ HeardTogether'
      BY <1>0, <2>1, <2>2, <3>2 DEF TableTyped, HeardTogether
    <3>5. RangeKept'
      BY <3>2, <3>3 DEF RangeKept, Covers
    <3> QED  BY <3>4, <3>5 DEF TableCore
  <2> QED  BY <2>1, <2>3, <2>4
<1>9. ASSUME NEW s \in Sides, NEW n \in 0..Rows, ScrollTo(s, n) PROVE TableCore'
  <2>1. /\ Mounted /\ n \in Nat
        /\ UNCHANGED <<seenTicks, wsBroker, filter, visible, loadFrame>>
    BY <1>9, ChainTableAssumption DEF ScrollTo
  <2>2. Mounted' = Mounted
    BY <2>1 DEF Mounted, MatchedRows, MatchedSides, LegPasses, Within, Ltp
  <2>3. CASE listening
    BY <1>9, <2>1, <2>2, <2>3, HeardKeeps DEF ScrollTo
  <2>4. CASE ~listening
    <3>1. place' = [place EXCEPT ![s] = n] /\ UNCHANGED <<listening, heard, scrollFrame>>
      BY <1>9, <2>4 DEF ScrollTo
    <3>2. place' \in [Panes -> Nat]
      BY <1>0, <2>1, <3>1 DEF TableTyped
    <3> QED  BY <1>0, <2>1, <2>2, <2>4, <3>1, <3>2 DEF TableCore, TableTyped, HeardTogether, RangeKept
  <2> QED  BY <2>3, <2>4
<1>10. CASE UNCHANGED tableVars
  BY <1>1, <1>10 DEF tableVars, scrollVars, paneVars
<1> QED  BY <1>2, <1>3, <1>4, <1>5, <1>6, <1>7, <1>8, <1>9, <1>10 DEF TableNext

\* The range that covers a viewport has its rows drawn.
LEMMA RangeIsDrawn ==
  ASSUME TableCore, IsVirtual, NEW s \in Sides, Covers(s), NEW i \in Viewport(s)
  PROVE  i \in Drawn
<1>1. /\ Rows \in Nat /\ InView \in Nat /\ ~filter.on /\ place[s] \in Nat
      /\ i \in 1..Rows /\ i > place[s] /\ i <= place[s] + InView
      /\ visible[1] \in Nat /\ visible[2] \in Nat
  BY ChainTableAssumption DEF TableCore, TableTyped, IsVirtual, Viewport, Panes
<1>2. visible[1] + 1 <= i /\ i <= visible[2] /\ visible[2] # 0
  BY <1>1 DEF Covers, Least
<1>3. Drawn = (visible[1] + 1) .. visible[2]
  BY <1>1, <1>2 DEF Drawn
<1> QED  BY <1>1, <1>2, <1>3

\* Once the queued frames have run, panes that have been heard are beside one another and
\* the rows in their viewport are drawn, after any filters, ticks, chains and scrolls; and
\* the first rows are when the sides are at the top.
THEOREM TableStaysInView == TableSpec => []TableFollows
<1>1. TableInit => TableCore
  <2> SUFFICES ASSUME TableInit PROVE TableCore
    OBVIOUS
  <2>1. Mounted /\ place \in [Panes -> Nat] /\ visible \in Nat \X Nat
    BY DEF TableInit, Mounted, NoFilter, AtTop
  <2> QED  BY <2>1 DEF TableInit, TableCore, TableTyped, HeardTogether, RangeKept
<1>2. TableCore => TableFollows
  <2> SUFFICES ASSUME TableCore PROVE TableFollows
    OBVIOUS
  <2>1. IsVirtual => Rows > VirtualRows
    BY DEF IsVirtual
  <2> QED  BY <2>1, RangeIsDrawn DEF TableFollows, TableCore, HeardTogether, RangeKept
<1> QED  BY <1>1, <1>2, TableStays, PTL DEF TableSpec

=============================================================================
