------------------------------- MODULE MCPanels -------------------------------
(* The account panels, their tables and the older page's books for TLC, one of them in a behaviour. *)
EXTENDS AccountPanel, PositionsTable, OrderTables, LegacyBooks, TLC

CONSTANTS u1, u2, a, b, Parts
VARIABLE part

TwoUsers == {u1, u2}
TwoAccounts == {a, b}
\* One user has two accounts, the other none.
OneConfigured == u1 :> <<a, b>> @@ u2 :> <<>>
KotakZerodha == a :> "kotak" @@ b :> "zerodha"
BothAngel == a :> "angel" @@ b :> "angel"

Row(id, sym, exch, label, strike, opt, product, qty, pl) ==
    [id |-> id, sym |-> sym, exch |-> exch, label |-> label, strike |-> strike, opt |-> opt,
     product |-> product, qty |-> qty, lot |-> 0, avg |-> 1, ltp |-> 1, realised |-> pl, pnl |-> pl]
\* An answer with two labels that say no day, whose rows take turns by strike on one
\* exchange, and an answer with a dated row of another exchange before one of them.
TwoBooks == LET x == Row(1, 2, 2, 7, 10, "CE", 1, 2, 1)
                y == Row(2, 1, 2, 8, 20, "PE", 1, -1, 0)
                z == Row(3, 2, 2, 7, 30, "CE", 2, 2, 2)
            IN  {<<z, y, x>>, <<[x EXCEPT !.id = 4, !.pnl = 0], Row(5, 1, 1, 1, 20, "CE", 1, 1, 0)>>}
NoDay == 1 :> 10 @@ 7 :> 99 @@ 8 :> 99 @@ 9 :> 99
OneHasLot == 1 :> 1 @@ 2 :> 0
CallsOnly == [optionType |-> {"CE"}]

OwnExpiry == 1 :> 1 @@ 2 :> 2
OneValue == 1 :> 5 @@ 2 :> 0
Fills == 1 :> <<2, 2>> @@ 2 :> <<3, 1>>

OnAccount == part = "account" /\ UNCHANGED <<part, tableVars, orderTableVars, booksVars>>
OnTable == part = "positions" /\ UNCHANGED <<part, panelVars, orderTableVars, booksVars>>
OnOrders == part = "orders" /\ UNCHANGED <<part, panelVars, tableVars, booksVars>>
OnBooks == part = "books" /\ UNCHANGED <<part, panelVars, tableVars, orderTableVars>>

Next ==
    \/ \E u \in Users : OnAccount /\ ChooseUser(u)
    \/ \E c \in Accounts : OnAccount /\ ChooseAccount(c)
    \/ \E c \in Accounts : OnAccount /\ Trade(c)
    \/ \E r \in requests : OnAccount /\ Listed(r)
    \/ \E r \in requests : OnAccount /\ ListFailed(r)
    \/ \E r \in requests : OnAccount /\ Hydrated(r)
    \/ \E r \in requests : OnAccount /\ NotHydrated(r)
    \/ \E r \in requests : OnAccount /\ Serve(r)
    \/ \E r \in requests : OnAccount /\ Landed(r)
    \/ \E r \in requests : OnAccount /\ LoadFailed(r)
    \/ OnAccount /\ PressLoad
    \/ OnAccount /\ FillPushed
    \/ OnAccount /\ RowPushed
    \/ OnAccount /\ Refresh
    \/ OnAccount /\ OrdersPushed
    \/ OnAccount /\ BackgroundTick
    \/ OnAccount /\ VisibilityChanged
    \/ \E rs \in Books : OnTable /\ NewRows(rs)
    \/ \E s \in DOMAIN Lots : OnTable /\ LiveTick(s, 2)
    \/ \E key \in DOMAIN FilterValues : \E v \in FilterValues[key] : OnTable /\ PickFilter(key, v)
    \/ \E column \in SortKeys : OnTable /\ ResetColumn(column)
    \/ \E column \in SortKeys : OnTable /\ SortBy(column)
    \/ OnTable /\ ClearFilters
    \/ OnTable /\ CollapseAll
    \/ OnTable /\ ClearSelection
    \/ OnTable /\ OpenDialog
    \/ OnTable /\ Dialog
    \/ OnTable /\ ToggleGroup
    \/ OnTable /\ ToggleRow
    \/ \E o \in OrderIds, status \in Statuses : OnOrders /\ Moves(o, status)
    \/ OnOrders /\ OrderPushed
    \/ OnOrders /\ StreamDropped
    \/ OnOrders /\ ReRead
    \/ OnOrders /\ Background
    \/ \E read \in reading : OnOrders /\ Answer(read)
    \/ \E q \in Queries : OnOrders /\ Search(q)
    \/ \E i \in IndexRange, acct \in Logins : OnBooks /\ LogsRowIn(i, acct)
    \/ \E i \in IndexRange : OnBooks /\ LogsRowOut(i)
    \/ \E i \in IndexRange : OnBooks /\ DeletesRow(i)
    \/ \E i \in IndexRange : OnBooks /\ PicksRow(i)
    \/ \E t \in {"open", "history", "trades"} : OnBooks /\ PicksTab(t)
    \/ OnBooks /\ LeavesOrComes
    \/ OnBooks /\ PressesRefresh
    \/ OnBooks /\ SafetyRefresh
    \/ OnBooks /\ OrderEvent
    \/ OnBooks /\ DebounceEnds
    \/ \E acct \in Logins : OnBooks /\ AccountTrades(acct)
    \/ \E f \in fetches : OnBooks /\ BookServed(f)
    \/ \E f \in fetches : OnBooks /\ BookLanded(f)
    \/ \E f \in fetches : OnBooks /\ BookLost(f)

Init ==
    /\ part \in Parts /\ PanelInit /\ TableInit /\ OrderTablesInit /\ BooksInit
    /\ part = "account" \/ (user = u1 /\ saved = [c \in Accounts |-> None])
    /\ part = "books" \/ inAs = [i \in IndexRange |-> Nobody]

panelsVars == <<part, panelVars, tableVars, orderTableVars, booksVars>>

\* Fairness as AccountPanel and LegacyBooks state it: a behaviour keeps its part, so that one
\* condition serves an action of each.
Spec == Init
    /\ [][Next]_panelsVars
    /\ WF_panelsVars((OnAccount /\ BackgroundTick) \/ (OnBooks /\ SafetyRefresh))
    /\ WF_panelsVars(OnAccount /\ Answered)
    /\ SF_panelsVars((OnAccount /\ Served) \/ (OnBooks /\ BookReads))
    /\ SF_panelsVars((OnAccount /\ LoadLanded) \/ (OnBooks /\ BookLands))
=============================================================================
