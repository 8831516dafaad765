------------------------------ MODULE OrderTables ------------------------------
(***************************************************************************)
(* The tables of the Order Book and Trade Book panels (GetOrderBook.jsx,   *)
(* GetTradeBook.jsx): orders as the book's answers and Kotak's private     *)
(* stream leave them, in sections of open and executed orders, and the     *)
(* fills of executed orders grouped by expiry with their turnover.         *)
(* An order moves at the broker while pushes about it are on their way and *)
(* re-reads, one timer behind every push, are answered from the book.      *)
(***************************************************************************)
EXTENDS Naturals, FiniteSets, Sequences, SequencesExt

CONSTANTS
    OrderIds,
    Expiry,         \* order -> expiry of its instrument
    Value,          \* order -> value of its fill, 0 where the broker sends none
    PriceQty,       \* order -> <<fill price, filled quantity>>
    MaxReads, MaxPushes      \* bounds: re-reads in flight, pushes on their way

ASSUME OrdersAssumption ==
    /\ MaxReads \in Nat /\ MaxPushes \in Nat /\ IsFiniteSet(OrderIds)
    /\ DOMAIN Expiry = OrderIds /\ Value \in [OrderIds -> Nat] /\ PriceQty \in [OrderIds -> Nat \X Nat]

VARIABLES
    placed,         \* at the broker: order -> status, "none" before it is placed
    stream,         \* pushes on their way: [id, status]
    table,          \* the rows on screen: [id, status]
    reread,         \* is a refresh scheduled
    reading,        \* answers of re-reads on their way: sequences of rows
    query           \* the search: orders that match it

orderTableVars == <<placed, stream, table, reread, reading, query>>

Steps == {<<"none", "pending">>, <<"pending", "open">>, <<"pending", "rejected">>,
          <<"open", "complete">>, <<"open", "cancelled">>}
Statuses == {s[2] : s \in Steps}

\* The status texts, tested in this order; anything else is open.
StatusKind(status) ==
    CASE status \in {"complete", "traded", "executed", "filled"} -> "complete"
      [] status = "rejected" -> "rejected"
      [] status = "cancelled" -> "cancelled"
      [] OTHER -> "open"
Filled(status) == StatusKind(status) = "complete"

\* What is shown of the rows, by number.
Shown == {i \in DOMAIN table : table[i].id \in query}
Section(open) == {i \in Shown : (StatusKind(table[i].status) = "open") = open}
\* The tags count every row, the sections the ones that match the search.
Summary ==
    LET count(kinds) == Cardinality({i \in DOMAIN table : StatusKind(table[i].status) \in kinds})
    IN  [complete |-> count({"complete"}), rejected |-> count({"rejected", "cancelled"}),
         open |-> count({"open"})]

\* A fill's value is the broker's, or price times quantity.
TradeValue(id) == IF Value[id] > 0 THEN Value[id] ELSE PriceQty[id][1] * PriceQty[id][2]
Turnover(rows) == SumFunctionOnSet([i \in DOMAIN table |-> TradeValue(table[i].id)], rows)
Trades == {i \in Shown : Filled(table[i].status)}
TradeGroups ==
    [label \in {Expiry[table[i].id] : i \in Trades} |-> {i \in Trades : Expiry[table[i].id] = label}]

BookAtBroker == LET ids == SetToSeq({o \in OrderIds : placed[o] # "none"})
                IN  [i \in DOMAIN ids |-> [id |-> ids[i], status |-> placed[ids[i]]]]

OrderTablesInit ==
    /\ placed = [o \in OrderIds |-> "none"] /\ stream = <<>> /\ table = <<>>
    /\ reread = FALSE /\ reading = {} /\ query = OrderIds

\* The broker moves an order on and pushes the change.
Moves(o, status) ==
    /\ <<placed[o], status>> \in Steps /\ Len(stream) < MaxPushes
    /\ placed' = [placed EXCEPT ![o] = status]
    /\ stream' = Append(stream, [id |-> o, status |-> status])
    /\ UNCHANGED <<table, reread, reading, query>>

\* A push: the order's row is patched, or put at the top, and a re-read scheduled.
MergedOnTop(rows, o) == <<o>> \o rows       \* fault: the row is not looked for
Merged(rows, o) ==
    IF \E i \in DOMAIN rows : rows[i].id = o.id
    THEN [i \in DOMAIN rows |-> IF rows[i].id = o.id THEN o ELSE rows[i]]
    ELSE <<o>> \o rows
OrderPushed ==
    /\ stream # <<>>
    /\ table' = Merged(table, Head(stream)) /\ stream' = Tail(stream)
    /\ reread' = TRUE
    /\ UNCHANGED <<placed, reading, query>>

\* The stream drops, and the pushes on their way with it; the reconnect re-reads.
StreamDropped ==
    /\ stream # <<>> /\ stream' = <<>> /\ reread' = TRUE
    /\ UNCHANGED <<placed, table, reading, query>>

\* The timer fires: the book is read, answered later.
ReRead ==
    /\ reread /\ Cardinality(reading) < MaxReads
    /\ reread' = FALSE /\ reading' = reading \cup {BookAtBroker}
    /\ UNCHANGED <<placed, stream, table, query>>
Answer(rows) ==
    /\ rows \in reading /\ table' = rows /\ reading' = reading \ {rows}
    /\ UNCHANGED <<placed, stream, reread, query>>
\* The background interval reads the book whatever was pushed.
Background ==
    /\ reading = {} /\ reading' = {BookAtBroker}
    /\ UNCHANGED <<placed, stream, table, reread, query>>

Queries == {OrderIds} \cup {{o} : o \in OrderIds}
Search(q) == query # q /\ query' = q /\ UNCHANGED <<placed, stream, table, reread, reading>>

OrderTablesNext ==
    \/ \E o \in OrderIds, status \in Statuses : Moves(o, status)
    \/ OrderPushed \/ StreamDropped \/ ReRead \/ Background
    \/ \E rows \in reading : Answer(rows)
    \/ \E q \in Queries : Search(q)

\* The stream delivers, reads are answered and the interval fires.
Reads == \E rows \in reading : Answer(rows)
OrderTablesSpec == OrderTablesInit /\ [][OrderTablesNext]_orderTableVars
    /\ WF_orderTableVars(OrderPushed) /\ WF_orderTableVars(Background) /\ WF_orderTableVars(Reads)

-----------------------------------------------------------------------------
(* Properties *)

\* However pushes and re-reads fall, no order has two rows, and with no search the
\* tags count the sections and the groups of fills add up to the turnover shown.
OneRowEach(rows) == \A i, j \in DOMAIN rows : rows[i].id = rows[j].id => i = j
RowsAddUp ==
    /\ OneRowEach(table)
    /\ query = OrderIds => Summary.open = Cardinality(Section(TRUE))
    /\ Turnover(Trades) = SumFunction([label \in DOMAIN TradeGroups |-> Turnover(TradeGroups[label])])
=============================================================================
