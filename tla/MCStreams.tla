------------------------------ MODULE MCStreams ------------------------------
(* The upstream connections of the backends for TLC: a broker adapter, the trade   *)
(* panel's feed, the Go order feed or the Zerodha order stream in a behaviour.      *)
EXTENDS BrokerLink, AngelFeed, GoOrderFeed, ZerodhaOrders

CONSTANTS i1, i2, k1, k2, noOrders, placed, repriced, h0, h1, Parts
VARIABLE part

TwoInsts == {i1, i2}
TwoKeys == {k1, k2}
OwnKeys == [i \in {i1, i2} |-> IF i = i1 THEN k1 ELSE k2]
AllKinds == {"angel", "nubra", "kotak", "upstox"}

AllBooks == {noOrders, placed, repriced}
\* Repricing an order leaves its hash alone.
Hash == [b \in AllBooks |-> IF b = noOrders THEN h0 ELSE h1]

OnLink == part = "link" /\ UNCHANGED <<part, feedVars, orderVars, ordersVars>>
OnFeed == part = "feed" /\ UNCHANGED <<part, linkVars, orderVars, ordersVars>>
OnUpdates == part = "updates" /\ UNCHANGED <<part, linkVars, feedVars, ordersVars>>
OnPolls == part = "polls" /\ UNCHANGED <<part, linkVars, feedVars, orderVars>>

Next ==
    \/ \E given \in BOOLEAN : OnLink /\ Login(given)
    \/ OnLink /\ LoginFails
    \/ OnLink /\ StopFeed
    \/ \E S \in SUBSET Insts : OnLink /\ Subscribe(S)
    \/ \E S \in SUBSET Insts : OnLink /\ Unsubscribe(S)
    \/ \E g \in 1..made : OnLink /\ Authorized(g)
    \/ \E g \in 1..made : OnLink /\ Unauthorized(g)
    \/ \E g \in 1..made : OnLink /\ Opened(g)
    \/ \E g \in 1..made : OnLink /\ Acked(g)
    \/ \E g \in 1..made : OnLink /\ Rejected(g)
    \/ \E g \in 1..made : OnLink /\ Down(g)
    \/ \E g \in 1..made : OnLink /\ LateMessage(g)
    \/ \E g \in 1..made : OnLink /\ Timer(g)
    \/ \E S \in SUBSET Tokens : OnFeed /\ SubscribeItems(S)
    \/ \E S \in SUBSET Tokens, given \in BOOLEAN : OnFeed /\ SetBasketTokensItems(S, given)
    \/ \E c \in Listeners : OnFeed /\ AddClient(c)
    \/ \E c \in Listeners : OnFeed /\ RemoveClient(c)
    \/ OnFeed /\ IdleClose
    \/ OnFeed /\ FeedOpened
    \/ OnFeed /\ PeerCloses
    \/ OnFeed /\ FeedDown
    \/ \E a \in Accounts : OnUpdates /\ Watch(a)
    \/ \E a \in Accounts : OnUpdates /\ DialFail(a)
    \/ \E a \in Accounts : OnUpdates /\ RetryFires(a)
    \/ \E a \in Accounts, n \in Sockets : OnUpdates /\ DialOk(a, n)
    \/ \E n \in Sockets : OnUpdates /\ SocketDies(n)
    \/ \E n \in Sockets : OnUpdates /\ ReadLoopEnds(n)
    \/ \E n \in Sockets : OnUpdates /\ Close(n)
    \/ \E v \in Viewers : OnUpdates /\ AddSseClient(v)
    \/ \E v \in Viewers : OnUpdates /\ RemoveSseClient(v)
    \/ \E v \in Streams, p \in Pollers : OnPolls /\ Open(v, p)
    \/ \E v \in Streams, p \in Pollers : OnPolls /\ Leave(v, p)
    \/ \E p \in Pollers : OnPolls /\ Fires(p)
    \/ \E p \in Pollers : OnPolls /\ Reads(p)
    \/ \E p \in Pollers : OnPolls /\ PollAnswered(p)
    \/ \E p \in Pollers : OnPolls /\ Fails(p)
    \/ OnPolls /\ Refresh
    \/ OnPolls /\ BookChanges

\* A repriced book to begin with would differ from a placed one in name only.
Init ==
    /\ part \in Parts /\ LinkInit /\ FeedInit /\ OrderInit /\ OrdersInit
    /\ part = "link" \/ kind = "angel"
    /\ IF part = "polls" THEN book # repriced ELSE book = NoOrders

\* The fairness of each component, as its own specification states it.
Spec == Init
    /\ [][Next]_<<part, linkVars, feedVars, orderVars, ordersVars>>
    /\ \A g \in Gens : /\ WF_linkVars(part = "link" /\ Answered(g))
                       /\ WF_linkVars(part = "link" /\ Dialed(g))
                       /\ WF_linkVars(part = "link" /\ Timer(g))
    /\ \A a \in Accounts : /\ WF_orderVars(part = "updates" /\ RetryFires(a))
                           /\ WF_orderVars(part = "updates" /\ DialEnds(a))
    /\ \A n \in Sockets : /\ WF_orderVars(part = "updates" /\ ReadLoopEnds(n))
                          /\ WF_orderVars(part = "updates" /\ Close(n))
    /\ \A p \in Pollers : /\ WF_ordersVars(part = "polls" /\ Fires(p))
                          /\ WF_ordersVars(part = "polls" /\ Reads(p))
                          /\ WF_ordersVars(part = "polls" /\ PollEnds(p))
=============================================================================
