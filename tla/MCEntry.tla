------------------------------- MODULE MCEntry -------------------------------
(* Trade entry and the option chains for TLC: the panel's chain, its basket, its order *)
(* ticket, the streaming chain or the streaming chain's table in a behaviour.           *)
EXTENDS ChainPanel, BasketLegs, OrderTicket, LiveChain, ChainTable, TLC

CONSTANTS u1, u2, a, b, indexChain, mcxChain, Parts
VARIABLE part

\* An underlying with two expiries and one whose only expiry is another.
TwoSymbols == {"nifty", "bank"}
OwnExpiries == [s \in TwoSymbols |-> IF s = "nifty" THEN <<"e1", "e2">> ELSE <<"e3">>]
\* Expiries whose ladders differ by side and reach beyond their cached windows, which show
\* strikes one side is not listed at.
TwoLadders == "e1" :> [CE |-> {1, 2, 5}, PE |-> {1, 5}] @@ "e2" :> [CE |-> {1}, PE |-> {2}]
TwoWindows == "e1" :> {1, 2} @@ "e2" :> {1, 2}

TwoUsers == {u1, u2}
TwoAccounts == {a, b}
OneConfigured == u1 :> {a, b} @@ u2 :> {}
FirstConfigured == u1 :> a @@ u2 :> NoAccount
SameBroker == a :> "zerodha" @@ b :> "zerodha"

\* An index chain and a commodity's.
TwoLadderChains == {indexChain, mcxChain}
TwoSegments == [c \in TwoLadderChains |-> IF c = indexChain THEN "NFO" ELSE "MCX"]

\* A premium on either side of the limits, and ticks for one leg.
FourRows == [l \in (1..4) \X {"call", "put"} |-> IF (l[2] = "call") = (l[1] > 2) THEN 26 ELSE 14]
FirstCall == {<<1, "call">>}

OnChain == part = "chain" /\ UNCHANGED <<part, legVars, orderVars, liveVars, tableVars>>
OnLegs == part = "legs" /\ UNCHANGED <<part, chainVars, orderVars, liveVars, tableVars>>
OnTicket == part = "ticket" /\ UNCHANGED <<part, chainVars, legVars, liveVars, tableVars>>
OnLive == part = "live" /\ UNCHANGED <<part, chainVars, legVars, orderVars, tableVars>>
OnTable == part = "table" /\ UNCHANGED <<part, chainVars, legVars, orderVars, liveVars>>

Next ==
    \/ OnChain /\ MasterIndexLoaded
    \/ OnChain /\ RefreshMaster
    \/ OnChain /\ MasterRefreshed
    \/ OnChain /\ AccountReady
    \/ \E s \in Symbols : OnChain /\ ChooseSymbol(s)
    \/ \E e \in {sel[2] : sel \in Selections} : OnChain /\ ChooseExpiry(e)
    \/ OnChain /\ PressLoadChain
    \/ OnChain /\ LoggedIn
    \/ OnChain /\ ChainFailed
    \/ OnChain /\ SkeletonLoaded
    \/ \E c \in Chains : OnChain /\ PricesLoaded(c)
    \/ \E c \in Chains : OnChain /\ PricesLost(c)
    \/ \E c \in Chains : OnChain /\ Subscribed(c)
    \/ \E c \in Chains : OnChain /\ Tick(c)
    \/ OnChain /\ Flush
    \/ OnChain /\ TradeRow
    \/ \E l \in chainLegs : OnChain /\ DropLeg(l)
    \/ \E i \in LegIds, c \in Contracts : OnLegs /\ AddFromSearch(i, c)
    \/ \E i \in LegIds, c \in Contracts, e \in DOMAIN Ladder : OnLegs /\ AddFromChain(i, c, e)
    \/ \E i \in LegIds : OnLegs /\ RemoveLeg(i)
    \/ \E i \in LegIds : OnLegs /\ UpdateLeg(i)
    \/ \E i \in LegIds, up \in BOOLEAN : OnLegs /\ StepStrike(i, up)
    \/ \E i \in LegIds : \E e \in DOMAIN Ladder, k \in StrikesOf(i), s \in LegKinds :
          OnLegs /\ ChangeContract(i, e, k, s)
    \/ OnLegs /\ ClearLegs
    \/ OnLegs /\ RefreshMargin
    \/ OnLegs /\ MarginContext
    \/ \E e \in DOMAIN Ladder : OnLegs /\ ChainCached(e)
    \/ \E r \in resolves : OnLegs /\ Stepped(r)
    \/ \E r \in resolves : OnLegs /\ FromChain(r)
    \/ \E r \in resolves : OnLegs /\ AskServer(r)
    \/ \E r \in resolves : OnLegs /\ FromServer(r)
    \/ \E r \in resolves : OnLegs /\ ResolveFailed(r)
    \/ OnLegs /\ MarginPosted
    \/ OnLegs /\ MarginFailed
    \/ \E renewed \in BOOLEAN : OnLegs /\ MarginAnswered(renewed)
    \/ \E u \in OrderUsers : OnTicket /\ ChooseOrderUser(u)
    \/ \E c \in OrderAccounts : OnTicket /\ ChooseOrderAccount(c)
    \/ \E r \in orderCalls : OnTicket /\ OrderListed(r)
    \/ \E r \in orderCalls : OnTicket /\ OrderClientReady(r)
    \/ \E r \in orderCalls : OnTicket /\ OrderCallFailed(r)
    \/ \E l \in TicketLegs : OnTicket /\ TickLeg(l)
    \/ OnTicket /\ ClearTicket
    \/ OnTicket /\ BasketUnmounted
    \/ OnTicket /\ OpenPreview
    \/ OnTicket /\ ClosePreview
    \/ OnTicket /\ ConfirmOrders
    \/ \E p \in jobs : OnTicket /\ TicketLoggedIn(p)
    \/ \E p \in jobs : OnTicket /\ TicketPlaced(p)
    \/ \E p \in jobs : OnTicket /\ TicketFailed(p)
    \/ \E c \in Ladders : OnLive /\ PickSymbol(c)
    \/ \E c \in Ladders : OnLive /\ PickExpiry(c)
    \/ \E c \in Ladders : OnLive /\ PickInWindow(c)
    \/ OnLive /\ LoadChain
    \/ OnLive /\ Unmount
    \/ OnLive /\ PreferFeed
    \/ \E r \in chainLoads : OnLive /\ ChainAnswered(r)
    \/ \E r \in chainLoads : OnLive /\ ChainRefused(r)
    \/ \E r \in chainLoads : OnLive /\ TokensMapped(r)
    \/ \E r \in chainLoads : OnLive /\ ExtraAnswered(r)
    \/ \E run \in SUBSET Feeding : OnLive /\ StatusPolled(run)
    \/ \E n \in Conns : OnLive /\ SocketOpened(n)
    \/ \E n \in Conns : OnLive /\ SocketCloses(n)
    \/ \E n \in Conns : OnLive /\ SocketClosed(n)
    \/ \E k \in TickKeys, premium \in Premiums : OnTable /\ TableTick(k[1], k[2], premium)
    \/ OnTable /\ TicksReset
    \/ OnTable /\ SecondPasses
    \/ OnTable /\ PickLiveFeed
    \/ OnTable /\ ClearFilter
    \/ OnTable /\ HydrateTable
    \/ OnTable /\ LoadTable
    \/ OnTable /\ LoadFrame
    \/ OnTable /\ ScrollFrame
    \/ \E op \in {"lte", "gte", "between"}, v \in Limits, v2 \in Limits,
          side \in Sides \cup {"either"} : OnTable /\ SetFilter(op, v, v2, side)
    \/ \E side \in Sides, n \in 0..Rows : OnTable /\ ScrollTo(side, n)

Init ==
    /\ part \in Parts /\ ChainInit /\ LegsInit /\ OrderInit /\ LiveInit /\ TableInit
    /\ part = "live" \/ view = "page"
    /\ part = "legs" \/ ~priced
    /\ part = "ticket" \/ (orderUser = u1 /\ \A c \in OrderAccounts : orderSaved[c] = NoAccount)

\* Fairness of the loads, the status polls and the sockets, as their specifications state it.
Spec == Init
    /\ [][Next]_<<part, chainVars, legVars, orderVars, liveVars, tableVars>>
    /\ SF_chainVars(part = "chain" /\ LoggedIn) /\ SF_chainVars(part = "chain" /\ SkeletonLoaded)
    /\ WF_chainVars(part = "chain" /\ LoadAnswered) /\ WF_chainVars(part = "chain" /\ MasterRefreshed)
    /\ WF_liveVars(part = "live" /\ PollsAgain)
    /\ \A n \in Conns : /\ WF_liveVars(part = "live" /\ SocketOpened(n))
                        /\ WF_liveVars(part = "live" /\ conn[n] = "closing" /\ SocketClosed(n))
=============================================================================
