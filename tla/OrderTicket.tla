------------------------------ MODULE OrderTicket ------------------------------
(***************************************************************************)
(* Placing the basket of the Enter Trade panel: the account the orders go  *)
(* to (useOrderAccount.js, BrokerOrderBar.jsx), the preview with its       *)
(* CONFIRM button (Basket.jsx) and placeBasket (EnterTrade.jsx), which     *)
(* logs the account in and posts the ticked legs in one request.           *)
(*                                                                         *)
(* An account is one broker configuration; a session is named by the       *)
(* account it belongs to.  What the broker has accepted is a count per     *)
(* leg, and a leg has an id that is never used again.                      *)
(***************************************************************************)
EXTENDS Naturals, FiniteSets

CONSTANTS
    OrderAccounts, OrderUsers, NoAccount,
    AccountsOf,         \* user -> set of its supported accounts
    FirstOf,            \* user -> the account chosen for it, NoAccount if it has none
    BrokerOf,           \* account -> its broker
    TicketLegs,         \* ids of legs
    MaxActs             \* bound: choices of a user or an account, and confirmations

ASSUME OrderAssumption ==
    /\ NoAccount \notin OrderAccounts /\ MaxActs \in Nat
    /\ \A u \in OrderUsers :
          FirstOf[u] \in AccountsOf[u] \cup {NoAccount} /\ AccountsOf[u] \subseteq OrderAccounts

VARIABLES
    orderUser, orderCfg, orderClient,   \* chosen user and account; its hydrated client
    orderSaved,         \* localStorage: account -> whose session is saved under its key
    orderCalls,         \* list and credential requests that nothing has cancelled
    ticket,             \* ticked legs in the basket
    preview, placing, outcome,   \* the modal, its PLACING state, and "none", "placed" or "error"
    jobs,               \* placeBasket calls under way
    accepted,           \* at the broker: leg -> orders accepted
    acts

orderVars == <<orderUser, orderCfg, orderClient, orderSaved, orderCalls, ticket, preview, placing,
               outcome, jobs, accepted, acts>>
accountVars == <<orderUser, orderCfg, orderClient, orderSaved, orderCalls>>
ticketVars == <<ticket, preview, placing, outcome, jobs, accepted>>
NoClient == [cfg |-> NoAccount, session |-> NoAccount]

Act == acts < MaxActs /\ acts' = acts + 1

OrderInit ==
    /\ orderUser \in OrderUsers /\ orderCfg = NoAccount /\ orderClient = NoClient
    /\ orderSaved \in [OrderAccounts -> OrderAccounts \cup {NoAccount}]
    /\ \A c \in OrderAccounts : orderSaved[c] \in {c, NoAccount}
    /\ orderCalls = {[what |-> "list", of |-> orderUser]}
    /\ ticket = {} /\ preview = FALSE /\ placing = FALSE /\ outcome = "none" /\ jobs = {}
    /\ accepted = [l \in TicketLegs |-> 0] /\ acts = 0

\* The effects of a new user: accounts, account and client are cleared and what was
\* requested for the old user or account is cancelled.
ChooseOrderUser(u) ==
    /\ Act /\ u # orderUser /\ orderUser' = u
    /\ orderCfg' = NoAccount /\ orderClient' = NoClient /\ orderCalls' = {[what |-> "list", of |-> u]}
    /\ UNCHANGED <<orderSaved, ticketVars>>

\* The effect of a new account: the client is cleared, the credentials are requested.
CredsOf(c) == {[what |-> "creds", of |-> c] : x \in {c} \ {NoAccount}}
Choose(c) == orderCfg' = c /\ orderClient' = NoClient
OrderListed(r) ==
    /\ r \in orderCalls /\ r.what = "list"
    /\ Choose(FirstOf[r.of]) /\ orderCalls' = CredsOf(FirstOf[r.of])
    /\ UNCHANGED <<orderUser, orderSaved, ticketVars, acts>>
ChooseOrderAccount(c) ==
    /\ Act /\ c \in AccountsOf[orderUser] /\ c # orderCfg
    /\ \A r \in orderCalls : r.what # "list"
    /\ Choose(c) /\ orderCalls' = CredsOf(c)
    /\ UNCHANGED <<orderUser, orderSaved, ticketVars>>
OrderClientReady(r) ==
    /\ r \in orderCalls /\ r.what = "creds" /\ orderCalls' = orderCalls \ {r}
    /\ orderClient' = [cfg |-> r.of, session |-> orderSaved[r.of]]
    /\ UNCHANGED <<orderUser, orderCfg, orderSaved, ticketVars, acts>>
OrderCallFailed(r) ==
    /\ r \in orderCalls /\ orderCalls' = orderCalls \ {r}
    /\ UNCHANGED <<orderUser, orderCfg, orderClient, orderSaved, ticketVars, acts>>

\* handleSession, as the render of the account c made it: the session is put into the
\* client of now and saved under c.
HandleSession(c, session) ==
    /\ orderSaved' = [orderSaved EXCEPT ![c] = session]
    /\ orderClient' = IF orderClient = NoClient THEN NoClient
                      ELSE [orderClient EXCEPT !.session = session]

\* Legs come and go; an emptied basket unmounts after its closing animation, and with
\* it go the modal and its state, but not a placement under way.
TickLeg(l) ==
    /\ l \notin ticket /\ accepted[l] = 0 /\ \A p \in jobs : l \notin p.legs
    /\ ticket' = ticket \cup {l}
    /\ UNCHANGED <<accountVars, preview, placing, outcome, jobs, accepted, acts>>
ClearTicket ==
    /\ ~preview /\ ticket # {} /\ ticket' = {}
    /\ UNCHANGED <<accountVars, preview, placing, outcome, jobs, accepted, acts>>
BasketUnmounted ==
    /\ ticket = {} /\ (placing \/ outcome # "none")
    /\ placing' = FALSE /\ outcome' = "none" /\ preview' = FALSE
    /\ jobs' = {[p EXCEPT !.mounted = FALSE] : p \in jobs}
    /\ UNCHANGED <<accountVars, ticket, accepted, acts>>

\* PREVIEW BASKET forgets the last outcome; the modal closes at any time.
OpenPreview ==
    /\ ~preview /\ ticket # {} /\ preview' = TRUE /\ outcome' = "none"
    /\ UNCHANGED <<accountVars, ticket, placing, jobs, accepted, acts>>
ClosePreview ==
    /\ preview /\ preview' = FALSE
    /\ UNCHANGED <<accountVars, ticket, placing, outcome, jobs, accepted, acts>>

\* CONFIRM ORDER, with the client and the handlers of this render.
ConfirmOnAny == preview /\ ticket # {} /\ outcome # "placed"     \* fault: not disabled while placing
ConfirmOn == preview /\ ticket # {} /\ outcome # "placed" /\ ~placing
ConfirmOrders ==
    /\ Act /\ ConfirmOn
    /\ IF orderClient = NoClient THEN outcome' = "error" /\ UNCHANGED <<placing, jobs>>
       ELSE /\ outcome' = "none" /\ placing' = TRUE
            /\ jobs' = jobs \cup {[n |-> acts, stage |-> "login", cfg |-> orderCfg, client |-> orderClient,
                                   session |-> NoAccount, legs |-> ticket, mounted |-> TRUE]}
    /\ UNCHANGED <<accountVars, ticket, preview, accepted>>

\* brokerAutoLogin: a session of the client that is still good is used as it is, for
\* Zerodha by the user it names; otherwise the client's own account logs in.
LoginSession(p) ==
    {p.client.cfg}
    \cup {s \in {p.client.session} : s # NoAccount /\ BrokerOf[s] = BrokerOf[p.client.cfg]}
TicketLoggedIn(p) ==
    /\ p \in jobs /\ p.stage = "login"
    /\ \E s \in LoginSession(p) :
          /\ HandleSession(p.cfg, s)
          /\ jobs' = (jobs \ {p}) \cup {[p EXCEPT !.stage = "sent", !.session = s]}
    /\ UNCHANGED <<orderUser, orderCfg, orderCalls, ticket, preview, placing,
                   outcome, accepted, acts>>

\* The basket's answer ends the job: `placed` only when every leg was accepted.
Ends(p, how) ==
    /\ jobs' = jobs \ {p}
    /\ placing' = (placing /\ ~p.mounted) /\ outcome' = IF p.mounted THEN how ELSE outcome
TicketPlaced(p) ==
    /\ p \in jobs /\ p.stage = "sent"
    /\ \E taken \in SUBSET p.legs :
          /\ accepted' = [l \in TicketLegs |-> accepted[l] + IF l \in taken THEN 1 ELSE 0]
          /\ Ends(p, IF taken = p.legs THEN "placed" ELSE "error")
    /\ HandleSession(p.cfg, p.session)
    /\ UNCHANGED <<orderUser, orderCfg, orderCalls, ticket, preview, acts>>
TicketFailed(p) ==
    /\ p \in jobs /\ Ends(p, "error")
    /\ UNCHANGED <<accountVars, ticket, preview, accepted, acts>>

OrderNext ==
    \/ \E u \in OrderUsers : ChooseOrderUser(u)
    \/ \E c \in OrderAccounts : ChooseOrderAccount(c)
    \/ \E r \in orderCalls : OrderListed(r) \/ OrderClientReady(r) \/ OrderCallFailed(r)
    \/ \E l \in TicketLegs : TickLeg(l)
    \/ ClearTicket \/ BasketUnmounted \/ OpenPreview \/ ClosePreview \/ ConfirmOrders
    \/ \E p \in jobs : TicketLoggedIn(p) \/ TicketPlaced(p) \/ TicketFailed(p)

\* Every login and every basket is answered, by an error if need be.
JobsGoOn == \E p \in jobs : TicketLoggedIn(p) \/ TicketPlaced(p) \/ TicketFailed(p)
TicketSpec == OrderInit /\ [][OrderNext]_orderVars /\ WF_orderVars(JobsGoOn)

-----------------------------------------------------------------------------
(* Properties *)

\* No leg is in two placements at once: closing and reopening the preview, or clearing
\* the basket while it is placed, does not let it be confirmed a second time.
OneFlightPerLeg == \A p, q \in jobs : p # q => p.legs \cap q.legs = {}
=============================================================================
