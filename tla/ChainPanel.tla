------------------------------ MODULE ChainPanel ------------------------------
(***************************************************************************)
(* The option chain of the Enter Trade panel (EnterTrade.jsx) with the     *)
(* Angel account that feeds it (useAngelAccount.js).  The panel keeps a    *)
(* symbol and an expiry; a change of either loads the chain of the two: a  *)
(* login when there is no session, the skeleton from the scrip master,     *)
(* then, in the background, the prices and the live feed.  Its Buy and     *)
(* Sell buttons add the row's contract to the basket as a leg, and the     *)
(* ticks it keeps are the ones the basket shows.                           *)
(*                                                                         *)
(* A chain is the pair <<symbol, expiry>> and stands for its tokens: a     *)
(* tick is one of a token of a chain, a leg holds a token of a chain.      *)
(***************************************************************************)
EXTENDS Naturals, FiniteSets, Sequences, Functions

CONSTANTS
    Symbols, None,
    Expiries,           \* symbol -> sequence of its expiries in the master index
    FirstSymbol,        \* the preferred symbol the panel starts on
    MaxLegs, MaxPresses \* bounds: legs in the basket, selections and loads by hand

ASSUME ChainAssumption ==
    /\ FirstSymbol \in Symbols /\ DOMAIN Expiries = Symbols
    /\ \A s \in Symbols : Expiries[s] \in Seq(Range(Expiries[s])) \ {<<>>}
    /\ MaxLegs \in Nat /\ MaxPresses \in Nat

VARIABLES
    symbol, expiry,     \* the selection
    presses,            \* how often the user has pressed something (for the bound)
    creds,              \* of the account: "none", "keys" (apiKey, PIN, TOTP) or "session"
    chainCall,          \* what keeps `loading` set: a login, a skeleton or a master refresh
    autoKey,            \* autoLoadRef: the selection that was loaded on its own
    chain,              \* the chain on screen
    prices,             \* the chain whose prices are merged into it
    priceCalls, subscribes,  \* background answers and subscriptions to come
    feedTokens,         \* feedTokenSetRef: the chain whose ticks are taken
    streamed, streamOn, \* the chain the server streams; is the EventSource open
    heldTicks, dirty,   \* liveRef and dirtyRef
    shownTicks,         \* live and liveTicks: what the chain and the basket show
    chainLegs           \* basket legs added from the chain: [named, token]

chainVars == <<symbol, expiry, presses, creds, chainCall, autoKey, chain, prices, priceCalls, subscribes,
               feedTokens, streamed, streamOn, heldTicks, dirty, shownTicks, chainLegs>>
selVars == <<symbol, expiry>>
feedSide == <<feedTokens, streamed, streamOn, heldTicks, dirty, shownTicks>>

Chains == UNION {{<<s, e>> : e \in Range(Expiries[s])} : s \in Symbols}
AllExpiries == UNION {Range(Expiries[s]) : s \in Symbols}
Selections == Symbols \X AllExpiries
FirstExpiry(s) == Head(Expiries[s])
ChainCalls == [stage : {"login", "skeleton", "refresh"},
               sel : (Symbols \cup {None}) \X (AllExpiries \cup {None})]

ASSUME NoneAssumption == None \notin Symbols \cup AllExpiries \cup Selections \cup ChainCalls

ChainInit ==
    /\ symbol = None /\ expiry = None /\ presses = 0 /\ creds = "none"
    /\ chainCall = None /\ autoKey = None
    /\ chain = None /\ prices = None /\ priceCalls = {} /\ subscribes = {}
    /\ feedTokens = None /\ streamed = None /\ streamOn = FALSE
    /\ heldTicks = {} /\ dirty = FALSE /\ shownTicks = {} /\ chainLegs = {}

Press == presses < MaxPresses /\ presses' = presses + 1

\* loadChain with the selection of the render it was called from.
LoadOf(sel, cr) == [stage |-> IF cr = "session" THEN "skeleton" ELSE "login", sel |-> sel]

\* The auto-load effect of a commit: it loads a selection once, while nothing loads.
AutoLoadChain(sel, cr, call, key) ==
    LET starts == None \notin {sel[1], sel[2]} /\ call = None /\ cr # "none" /\ key # sel
    IN  /\ chainCall' = IF starts THEN LoadOf(sel, cr) ELSE call
        /\ autoKey' = IF starts THEN sel ELSE key

\* The master index arrives: the first symbol and its first expiry are selected.
SelectFirst ==
    IF symbol # None THEN UNCHANGED selVars
    ELSE symbol' = FirstSymbol /\ expiry' = FirstExpiry(FirstSymbol)
MasterIndexLoaded ==
    /\ symbol = None /\ SelectFirst
    /\ AutoLoadChain(<<symbol', expiry'>>, creds, chainCall, autoKey)
    /\ UNCHANGED <<presses, creds, chain, prices, priceCalls, subscribes,
                   feedSide, chainLegs>>

RefreshMaster ==
    /\ Press /\ chainCall = None /\ chainCall' = [stage |-> "refresh", sel |-> <<symbol, expiry>>]
    /\ UNCHANGED <<selVars, creds, autoKey, chain, prices, priceCalls,
                   subscribes, feedSide, chainLegs>>
MasterRefreshed ==
    /\ chainCall # None /\ chainCall.stage = "refresh"
    /\ SelectFirst \/ UNCHANGED selVars     \* or the refresh fails
    /\ AutoLoadChain(<<symbol', expiry'>>, creds, None, autoKey)
    /\ UNCHANGED <<presses, creds, chain, prices, priceCalls, subscribes,
                   feedSide, chainLegs>>

\* The first Angel account of the first user arrives with its credentials; nothing on
\* this panel changes the user or the account afterwards.
AccountReady ==
    /\ creds = "none" /\ creds' = "keys"
    /\ AutoLoadChain(<<symbol, expiry>>, creds', chainCall, autoKey)
    /\ UNCHANGED <<presses, selVars, chain, prices, priceCalls, subscribes,
                   feedSide, chainLegs>>

\* A symbol whose expiries lack the selected one selects its first expiry, but only in
\* the next commit: the auto-load effect of this one sees the new symbol with the old
\* expiry, a chain that need not exist.
ChooseSymbol(s) ==
    /\ Press /\ symbol # None /\ s # symbol
    /\ symbol' = s
    /\ expiry' = IF expiry \in Range(Expiries[s]) THEN expiry ELSE FirstExpiry(s)
    /\ LET now == <<s, expiry>>
           starts == chainCall = None /\ creds # "none" /\ autoKey # now
       IN IF starts THEN chainCall' = LoadOf(now, creds) /\ autoKey' = now
          ELSE AutoLoadChain(<<s, expiry'>>, creds, chainCall, autoKey)
    /\ UNCHANGED <<creds, chain, prices, priceCalls, subscribes, feedSide, chainLegs>>

ChooseExpiry(e) ==
    /\ Press /\ symbol # None /\ e \in Range(Expiries[symbol]) /\ e # expiry
    /\ expiry' = e
    /\ AutoLoadChain(<<symbol, e>>, creds, chainCall, autoKey)
    /\ UNCHANGED <<symbol, creds, chain, prices, priceCalls, subscribes,
                   feedSide, chainLegs>>

\* The LOAD button, disabled while loading.
PressLoadChain ==
    /\ Press /\ symbol # None /\ chainCall = None /\ creds # "none"
    /\ chainCall' = LoadOf(<<symbol, expiry>>, creds)
    /\ UNCHANGED <<selVars, creds, autoKey, chain, prices, priceCalls,
                   subscribes, feedSide, chainLegs>>

LoggedIn ==
    /\ chainCall # None /\ chainCall.stage = "login"
    /\ creds' = "session" /\ chainCall' = [chainCall EXCEPT !.stage = "skeleton"]
    /\ UNCHANGED <<presses, selVars, autoKey, chain, prices, priceCalls,
                   subscribes, feedSide, chainLegs>>

\* A load that fails forgets that the selection was loaded, so that the effect of the
\* commit which ends it loads the selection of now, again and again if need be.
KeptKey == autoKey      \* fault: a failed load counts as loaded
ForgottenKey == None
LoadEnds(key) == AutoLoadChain(<<symbol, expiry>>, creds', None, key)
ChainFailed ==
    /\ chainCall # None /\ chainCall.stage \in {"login", "skeleton"}
    /\ UNCHANGED creds /\ LoadEnds(ForgottenKey)
    /\ UNCHANGED <<presses, selVars, chain, prices, priceCalls, subscribes,
                   feedSide, chainLegs>>

\* The skeleton of an existing chain: the ticks and prices of the old one are dropped
\* with it, the feed takes the new chain's tokens if the session has a feed token, and
\* the prices are requested.
TicksKept == heldTicks \cup shownTicks     \* fault: the tick buffers outlive their chain
TicksDropped == {}
SkeletonLoaded ==
    /\ chainCall # None /\ chainCall.stage = "skeleton" /\ chainCall.sel \in Chains
    /\ chain' = chainCall.sel /\ prices' = None
    /\ heldTicks' = TicksDropped /\ shownTicks' = TicksDropped /\ dirty' = FALSE
    /\ creds' = "session"
    /\ priceCalls' = priceCalls \cup {chainCall.sel}
    /\ \/ feedTokens' = chainCall.sel /\ subscribes' = subscribes \cup {chainCall.sel}
       \/ feedTokens' = None /\ UNCHANGED subscribes
    /\ LoadEnds(autoKey)
    /\ UNCHANGED <<presses, selVars, streamed, streamOn, chainLegs>>

\* The prices arrive, aligned by strike with the skeleton they were asked for.
PricesFit(k) == chain = k
PricesLoaded(k) ==
    /\ k \in priceCalls /\ priceCalls' = priceCalls \ {k}
    /\ prices' = IF PricesFit(k) THEN k ELSE prices
    /\ UNCHANGED <<presses, selVars, creds, chainCall, autoKey, chain,
                   subscribes, feedSide, chainLegs>>
PricesLost(k) ==
    /\ k \in priceCalls /\ priceCalls' = priceCalls \ {k}
    /\ UNCHANGED <<presses, selVars, creds, chainCall, autoKey, chain, prices,
                   subscribes, feedSide, chainLegs>>

\* The subscription is served and the panel opens the stream if it is not open; one
\* that fails leaves the stream as it is.
Subscribed(k) ==
    /\ k \in subscribes /\ subscribes' = subscribes \ {k}
    /\ \/ streamed' = k /\ streamOn' = TRUE
       \/ UNCHANGED <<streamed, streamOn>>
    /\ UNCHANGED <<presses, selVars, creds, chainCall, autoKey, chain, prices, priceCalls,
                   feedTokens, heldTicks, dirty, shownTicks, chainLegs>>

\* A tick of the streamed chain or of a leg's token (basket-tokens keeps them
\* subscribed) is taken only if its token is one of the feed's.
Streamed == {k \in {streamed} : k # None} \cup {l.token : l \in chainLegs}
Tick(k) ==
    /\ streamOn /\ k \in Streamed /\ k = feedTokens
    /\ heldTicks' = heldTicks \cup {k} /\ dirty' = TRUE
    /\ UNCHANGED <<presses, selVars, creds, chainCall, autoKey, chain, prices, priceCalls, subscribes,
                   feedTokens, streamed, streamOn, shownTicks, chainLegs>>
Flush ==
    /\ dirty /\ dirty' = FALSE /\ shownTicks' = heldTicks
    /\ UNCHANGED <<presses, selVars, creds, chainCall, autoKey, chain, prices, priceCalls, subscribes,
                   feedTokens, streamed, streamOn, heldTicks, chainLegs>>

\* Buy or Sell on a row: the leg is named by the selection and holds the row's token.
Offers == chain # None /\ Cardinality(chainLegs) < MaxLegs
TradeRow ==
    /\ Offers
    /\ chainLegs' = chainLegs \cup {[named |-> <<symbol, expiry>>, token |-> chain]}
    /\ UNCHANGED <<presses, selVars, creds, chainCall, autoKey, chain, prices,
                   priceCalls, subscribes, feedSide>>
DropLeg(l) ==
    /\ l \in chainLegs /\ chainLegs' = chainLegs \ {l}
    /\ UNCHANGED <<presses, selVars, creds, chainCall, autoKey, chain, prices,
                   priceCalls, subscribes, feedSide>>

ChainNext ==
    \/ MasterIndexLoaded \/ RefreshMaster \/ MasterRefreshed \/ AccountReady
    \/ \E s \in Symbols : ChooseSymbol(s)
    \/ \E k \in Selections : ChooseExpiry(k[2])
    \/ PressLoadChain \/ LoggedIn \/ ChainFailed \/ SkeletonLoaded
    \/ \E k \in Chains : PricesLoaded(k) \/ PricesLost(k) \/ Subscribed(k) \/ Tick(k)
    \/ Flush \/ TradeRow
    \/ \E l \in chainLegs : DropLeg(l)

\* Every request is answered in the end and not always with an error; the stream keeps
\* sending; the browser runs its animation frames.
LoadAnswered == LoggedIn \/ SkeletonLoaded \/ ChainFailed
ChainSpec == ChainInit /\ [][ChainNext]_chainVars
    /\ SF_chainVars(LoggedIn) /\ SF_chainVars(SkeletonLoaded) /\ WF_chainVars(LoadAnswered)
    /\ WF_chainVars(MasterRefreshed) /\ WF_chainVars(Flush)
    /\ \A k \in Chains : WF_chainVars(Tick(k))

-----------------------------------------------------------------------------
(* Properties *)

\* Every live tick and every price on screen is of the chain on screen: no buffer, no
\* scheduled flush, no stream that still sends the old chain's ticks and no late answer,
\* which would be merged by row, brings another's.
QuotesAreTheChains == shownTicks \subseteq {chain} /\ prices \in {None, chain}

\* The chain follows the selection, whatever loads were under way or failed before it.
ChainFollows ==
    \A k \in Chains :
        <>[](<<symbol, expiry>> = k /\ creds # "none") => <>(chain = k /\ <<symbol, expiry>> = k)
=============================================================================
