---------------------------- MODULE PositionsTable ----------------------------
(***************************************************************************)
(* The table of the Positions panel (GetPositions.jsx): live ticks and lot *)
(* sizes joined onto the broker's rows, column filters, sorting, grouping  *)
(* by expiry and exchange, and the selection of rows that become the legs  *)
(* of a strategy.  A position is a record of the fields those steps read.  *)
(* Its expiry is the label read off its symbol, NoExpiry when the symbol   *)
(* shows none: groups and filters go by the label, the sort by the day the *)
(* label says, and every label that says none (the digits of a symbol that *)
(* does not parse, say) sorts as one day after all others.                 *)
(***************************************************************************)
EXTENDS Naturals, Integers, FiniteSets, Sequences, SequencesExt

CONSTANTS
    Books,          \* the sequences of rows an answer or a push may leave
    FilterValues,   \* filter key -> the values its menu offers
    SortKeys,       \* the columns that are sorted by
    Lots,           \* instrument -> lot size in the instrument master, 0 if it has none;
                    \* instruments are numbered in the order of their symbols
    NoExpiry,       \* the label of a symbol without an expiry
    DayOf,          \* label -> the day it sorts by; labels that say no day share one
    MaxTicked       \* bound: keys selected at a time

ASSUME TableAssumption ==
    /\ MaxTicked \in Nat
    /\ DOMAIN FilterValues \subseteq
         {"symbol", "exchange", "expiry", "optionType", "product", "side", "netQty", "pnl"}
    /\ SortKeys \subseteq {"instrument", "product", "qty", "ltp", "pnl"}

Position ==
    [id: Nat, sym: DOMAIN Lots, exch: Int, label: DOMAIN DayOf, strike: Int, opt: STRING, product: Int,
     qty: Int, lot: Nat, avg: Int, ltp: Int, realised: Int, pnl: Int]
\* A broker nets what an account holds of an instrument in a product into one row, and
\* onPosition (GetPositions.jsx:351-357) finds the row of a push that way: no two rows of
\* a book agree in what their keys are made of.
Alike(r, q) == r.sym = q.sym /\ r.exch = q.exch /\ r.product = q.product /\ r.qty = q.qty
Netted(rs) == \A i, j \in DOMAIN rs : Alike(rs[i], rs[j]) => i = j
ASSUME NettedAssumption ==
    /\ NoExpiry \in DOMAIN DayOf /\ \A l \in DOMAIN DayOf : DayOf[l] \in Int
    /\ DOMAIN Lots \subseteq Int /\ \A s \in DOMAIN Lots : Lots[s] \in Nat
    /\ \A rs \in Books : rs \in Seq(Position) /\ Netted(rs)

VARIABLES
    positions,      \* rows, lot sizes joined on
    ticks,          \* instrument -> last price of the market feed, 0 before the first
    filters,        \* the active filters: key -> value
    sort,           \* [key, dir]
    collapsed,      \* keys of the collapsed groups
    selected,       \* selectedPositionKeys
    checked,        \* every position whose box the user has ticked since the rows changed
    dialog,         \* the strategy dialog: "closed", "named", "unnamed"
    lotCache        \* instrumentLotCache: instrument -> lot size, 0 for a miss

tableVars == <<positions, ticks, filters, sort, collapsed, selected, checked, dialog, lotCache>>

\* What is known of a row after a live tick: the price moves the unrealised part.
WithLiveTick(row, t) ==
    IF row.qty = 0 \/ t[row.sym] = 0 THEN row
    ELSE [row EXCEPT !.ltp = t[row.sym],
                     !.pnl = row.realised + (t[row.sym] - row.avg) * row.qty]
LiveRows(rs, t) == [i \in DOMAIN rs |-> WithLiveTick(rs[i], t)]

\* A row that says its lot size keeps it; otherwise the cache decides, a miss
\* included, and only an instrument never searched for is searched.
Enriched(row, cache) ==
    IF row.lot > 0 THEN row ELSE [row EXCEPT !.lot = cache[row.sym]]
Searched(rs, cache) ==
    LET asked == {rs[i].sym : i \in {j \in DOMAIN rs : rs[j].lot = 0}} \ DOMAIN cache
    IN  [s \in DOMAIN cache \cup asked |-> IF s \in DOMAIN cache THEN cache[s] ELSE Lots[s]]

ColumnFilters(column) ==
    CASE column = "instrument" -> {"symbol", "exchange", "expiry", "optionType"}
      [] column = "product" -> {"product", "side"}
      [] column = "qty" -> {"netQty"}
      [] column = "pnl" -> {"pnl"}
      [] OTHER -> {}
FilterActive(column, fs) == ColumnFilters(column) \cap DOMAIN fs # {}

\* The values the menus offer are the ones the rows have.
FilterOptions(rs) ==
    [exchange |-> {rs[i].exch : i \in DOMAIN rs},
     expiry |-> {rs[i].label : i \in DOMAIN rs} \ {NoExpiry},
     product |-> {rs[i].product : i \in DOMAIN rs}]
Offered(key, rs) ==
    IF key \in {"exchange", "expiry", "product"}
    THEN FilterValues[key] \cap FilterOptions(rs)[key] ELSE FilterValues[key]

Signed(qty, side) ==
    CASE side = "long" -> qty > 0 [] side = "short" -> qty < 0 [] side = "flat" -> qty = 0
Passes(row, fs) ==
    \A key \in DOMAIN fs :
        CASE key = "symbol" -> row.sym = fs[key]
          [] key = "exchange" -> row.exch = fs[key]
          [] key = "expiry" -> row.label = fs[key]
          [] key = "optionType" -> row.opt = fs[key]
          [] key = "product" -> row.product = fs[key]
          [] key \in {"side", "netQty"} -> Signed(row.qty, fs[key])
          [] key = "pnl" -> (row.pnl >= 0) = (fs[key] = "profit")

\* What a label sorts by.
ExpirySortValue(label) == DayOf[label]

\* What comparePositionRows compares, one after the other.
SortValues(row, key) ==
    CASE key = "instrument" -> <<ExpirySortValue(row.label), row.exch, row.strike, row.sym>>
      [] key = "product" -> <<row.product>>
      [] key = "qty" -> <<row.qty>>
      [] key = "ltp" -> <<row.ltp>>
      [] key = "pnl" -> <<row.pnl>>
FirstDiffers(v, w) == \E i \in DOMAIN v : v[i] < w[i] /\ \A j \in 1..(i - 1) : v[j] = w[j]
Before(a, b, s) ==
    IF s.dir = "desc" THEN FirstDiffers(SortValues(b, s.key), SortValues(a, s.key))
    ELSE FirstDiffers(SortValues(a, s.key), SortValues(b, s.key))
\* Array.prototype.sort is stable: equals stay in their order.
Precedes(rs, s, i, j) == Before(rs[i], rs[j], s) \/ (~Before(rs[j], rs[i], s) /\ i <= j)
Place(rs, S, s, i) == Cardinality({j \in S : Precedes(rs, s, j, i)})
\* The rows numbered S, sorted.
Sorted(rs, S, s) ==
    LET placed == {[place |-> Place(rs, S, s, i), row |-> rs[i]] : i \in S}
    IN  [k \in 1..Cardinality(S) |-> (CHOOSE p \in placed : p.place = k).row]
VisibleRows == LET live == LiveRows(positions, ticks)
               IN  Sorted(live, {i \in DOMAIN live : Passes(live[i], filters)}, sort)

GroupKey(row) == <<row.label, row.exch>>
PnlOf(rs) == [i \in DOMAIN rs |-> rs[i].pnl]
Total(rs) == SumFunction(PnlOf(rs))
\* A header opens wherever the group changes, and carries the group's count and P&L.
Header(rs, g) ==
    LET mine == {i \in DOMAIN rs : GroupKey(rs[i]) = g}
    IN  [type |-> "group", key |-> g, count |-> Cardinality(mine),
         pnl |-> SumFunctionOnSet(PnlOf(rs), mine)]
Item(r) == [type |-> "row", key |-> GroupKey(r), row |-> r]
Drawn(out, rs, k) ==
    IF k > 1 /\ GroupKey(rs[k - 1]) = GroupKey(rs[k]) THEN Append(out, Item(rs[k]))
    ELSE out \o <<Header(rs, GroupKey(rs[k])), Item(rs[k])>>
Grouped(rs) ==
    LET out[k \in 0..Len(rs)] == IF k = 0 THEN <<>> ELSE Drawn(out[k - 1], rs, k)
    IN  out[Len(rs)]
\* Groups are drawn only while the sort is by instrument.
TableRows ==
    IF sort.key = "instrument" THEN Grouped(VisibleRows)
    ELSE LET rs == VisibleRows IN [i \in DOMAIN rs |-> [type |-> "row", key |-> <<>>, row |-> rs[i]]]
Rows(items) == {i \in DOMAIN items : items[i].type = "row"}
Heads(items) == {i \in DOMAIN items : items[i].type = "group"}
GroupKeys == LET items == TableRows IN {items[i].key : i \in Heads(items)}
OnScreen(items) == {i \in Rows(items) : items[i].key \notin collapsed}

\* The key of a row names its instrument, its quantity and its place in the table.
RowKey(row, i) == <<row.sym, row.exch, row.product, row.qty, i>>
SelectedLegs ==
    LET items == TableRows
    IN  {items[i].row.id : i \in {j \in Rows(items) : RowKey(items[j].row, j) \in selected}}

\* The boxes on screen: the key each ticks and the position it stands for.
Boxes ==
    LET items == TableRows
    IN  {[key |-> RowKey(items[i].row, i), id |-> items[i].row.id] : i \in OnScreen(items)}

\* Long and short quantity per underlying side; lots are known when every row's are.
QuantityOverview(rs, opt) ==
    LET side(long) == SelectSeq(rs, LAMBDA r : r.opt = opt /\ r.qty # 0 /\ (r.qty > 0) = long)
        sum(s) == FoldLeft(LAMBDA n, r : n + IF r.qty > 0 THEN r.qty ELSE -r.qty, 0, s)
        lots(s) == IF \E i \in DOMAIN s : s[i].lot = 0 THEN {} ELSE
                   {FoldLeft(LAMBDA n, r : n + (IF r.qty > 0 THEN r.qty ELSE -r.qty) \div r.lot, 0, s)}
    IN  [longQty |-> sum(side(TRUE)), shortQty |-> sum(side(FALSE)),
         longLots |-> lots(side(TRUE)), shortLots |-> lots(side(FALSE))]

\* What the toolbar and the selection bar offer.
Available(control) ==
    CASE control \in {"search", "sort", "filter"} -> TRUE
      [] control = "clearFilters" -> DOMAIN filters # {}
      [] control \in {"group", "clearSelection"} -> selected # {}
      [] control \in {"CE", "PE"} ->
           LET all == QuantityOverview(LiveRows(positions, ticks), control)
           IN  all.longQty + all.shortQty > 0

TableInit ==
    /\ positions = <<>> /\ ticks = [s \in DOMAIN Lots |-> 0]
    /\ filters = <<>> /\ sort = [key |-> "instrument", dir |-> "asc"]
    /\ collapsed = {} /\ selected = {} /\ checked = {}
    /\ dialog = "closed" /\ lotCache = <<>>

\* New rows (an answer, a push, another account): nothing stays selected and the
\* dialog closes.
KeepsSelection == UNCHANGED <<selected, checked, dialog>>      \* fault: no reset
Deselect == selected' = {} /\ checked' = {} /\ dialog' = "closed"
NewRows(rs) ==
    /\ rs # positions
    /\ lotCache' = Searched(rs, lotCache)
    /\ positions' = [i \in DOMAIN rs |-> Enriched(rs[i], lotCache')]
    /\ Deselect
    /\ UNCHANGED <<ticks, filters, sort, collapsed>>

LiveTick(s, price) ==
    /\ ticks[s] # price /\ ticks' = [ticks EXCEPT ![s] = price]
    /\ UNCHANGED <<positions, filters, sort, collapsed, selected, checked,
                   dialog, lotCache>>

\* The menu of a column: pick a value ("All" drops the filter), or reset its filters.
PickFilter(key, value) ==
    /\ value \in Offered(key, LiveRows(positions, ticks))
    /\ filters' = [k \in DOMAIN filters \cup {key} |-> IF k = key THEN value ELSE filters[k]]
    /\ UNCHANGED <<positions, ticks, sort, collapsed, selected, checked, dialog,
                   lotCache>>
ResetColumn(column) ==
    /\ FilterActive(column, filters)
    /\ filters' = [k \in DOMAIN filters \ ColumnFilters(column) |-> filters[k]]
    /\ UNCHANGED <<positions, ticks, sort, collapsed, selected, checked, dialog,
                   lotCache>>
ClearFilters ==
    /\ Available("clearFilters") /\ filters' = <<>>
    /\ UNCHANGED <<positions, ticks, sort, collapsed, selected, checked, dialog,
                   lotCache>>

\* A column's header: another column sorts ascending, the same one turns round.
SortBy(key) ==
    /\ sort' = [key |-> key, dir |-> IF sort.key = key /\ sort.dir = "asc" THEN "desc" ELSE "asc"]
    /\ UNCHANGED <<positions, ticks, filters, collapsed, selected, checked,
                   dialog, lotCache>>

ToggleGroup ==
    /\ \E g \in GroupKeys : collapsed' = IF g \in collapsed THEN collapsed \ {g} ELSE collapsed \cup {g}
    /\ UNCHANGED <<positions, ticks, filters, sort, selected, checked, dialog,
                   lotCache>>
CollapseAll ==
    /\ sort.key = "instrument"
    /\ LET groupKeys == GroupKeys
       IN  groupKeys # {} /\ collapsed' = IF groupKeys \subseteq collapsed THEN {} ELSE groupKeys
    /\ UNCHANGED <<positions, ticks, filters, sort, selected, checked, dialog,
                   lotCache>>

ToggleRow ==
    /\ \E box \in Boxes :
           /\ box.key \in selected \/ Cardinality(selected) < MaxTicked
           /\ IF box.key \in selected THEN selected' = selected \ {box.key} /\ checked' = checked
              ELSE selected' = selected \cup {box.key} /\ checked' = checked \cup {box.id}
    /\ UNCHANGED <<positions, ticks, filters, sort, collapsed, dialog, lotCache>>
ClearSelection ==
    /\ Available("clearSelection") /\ selected' = {} /\ checked' = {}
    /\ UNCHANGED <<positions, ticks, filters, sort, collapsed, dialog, lotCache>>

\* Add to Group opens the dialog; Save is on once a name is typed, and leaves the
\* dialog open with an error, since the backend keeps no strategies.
OpenDialog ==
    /\ Available("group") /\ dialog = "closed" /\ dialog' = "unnamed"
    /\ UNCHANGED <<positions, ticks, filters, sort, collapsed, selected,
                   checked, lotCache>>
Dialog ==
    /\ dialog # "closed" /\ dialog' \in {"closed", "named", "unnamed"} \ {dialog}
    /\ UNCHANGED <<positions, ticks, filters, sort, collapsed, selected,
                   checked, lotCache>>

TableNext ==
    \/ \E rs \in Books : NewRows(rs)
    \/ \E s \in DOMAIN Lots : LiveTick(s, 2)
    \/ \E key \in DOMAIN FilterValues : \E v \in FilterValues[key] : PickFilter(key, v)
    \/ \E column \in SortKeys : ResetColumn(column) \/ SortBy(column)
    \/ ClearFilters \/ CollapseAll \/ ClearSelection \/ OpenDialog \/ Dialog
    \/ ToggleGroup
    \/ ToggleRow

TableSpec == TableInit /\ [][TableNext]_tableVars

-----------------------------------------------------------------------------
(* Properties *)

\* The rows of group g may take turns with those of another: a label shown on the same
\* exchange sorts as the same day.
Mingles(rs, g) ==
    \E i \in DOMAIN rs :
        /\ rs[i].label # g[1] /\ rs[i].exch = g[2]
        /\ ExpirySortValue(rs[i].label) = ExpirySortValue(g[1])

\* A leg of the strategy is a position whose box the user ticked in the rows on
\* screen: no sort, filter, push or change of account makes a leg of another row.  And
\* sorted by instrument, either way, the rows of a group are together unless another
\* label of its exchange sorts as the same day; each header carries the P&L of its whole
\* group, so that one header of each group adds up to the rows shown.
RowsAreTheirOwn ==
    /\ SelectedLegs \subseteq checked
    /\ sort.key = "instrument" =>
          LET items == TableRows
              heads == Heads(items)
              firsts == {i \in heads : \A j \in heads : items[j].key = items[i].key => i <= j}
          IN  /\ \A i, j \in heads :
                    items[i].key = items[j].key => i = j \/ Mingles(VisibleRows, items[i].key)
              /\ SumFunction([i \in firsts |-> items[i].pnl]) = Total(VisibleRows)
=============================================================================
