------------------------------ MODULE ChainTable ------------------------------
(***************************************************************************)
(* The table of the streaming option chain (OptionChain.jsx, chainLive.js  *)
(* and the mini widget's rows): every leg of a strike has a live tick of  *)
(* one of two brokers or the value of the loaded chain, a filter keeps the *)
(* strikes with a matching leg, long ladders draw only the rows in view.   *)
(* The calls, the strikes and the puts are three panes that scroll         *)
(* together.  A filter that nothing passes takes them away; they come back *)
(* at the top, and nobody listens to them until the chain is shown again   *)
(* (loaded, or hydrated with its greeks), which queues a frame of its own. *)
(***************************************************************************)
EXTENDS Integers, FiniteSets, Sequences

CONSTANTS
    Rows,               \* number of strikes, drawn in rows 1..Rows
    Rest,               \* premium of each leg <<row, side>> in the loaded chain
    Traded,             \* the legs that have a token, and ticks
    Premiums, NoTick,   \* premiums of ticks
    Tol,                \* FILTER_FIELDS.tol of the premium
    Limits,             \* values the user types
    VirtualRows, Overscan, InView,   \* row threshold, overscan, rows in the viewport
    MaxTableTicks       \* bound: ticks that arrive

ASSUME ChainTableAssumption ==
    /\ {Rows, Tol, VirtualRows, Overscan, InView, MaxTableTicks} \subseteq Nat /\ Rows > 0
    /\ Traded \subseteq (1..Rows) \X {"call", "put"}
    /\ Premiums \subseteq Nat /\ Limits \subseteq Nat /\ NoTick \notin Premiums

Sides == {"call", "put"}
TableLegs == (1..Rows) \X Sides
TickBrokers == {"angel", "upstox"}
TickKeys == TickBrokers \X Traded

VARIABLES
    tickOf,             \* liveTickStore: <<broker, leg>> -> premium or NoTick
    seenTicks,          \* the ticks the last render of the page saw
    wsBroker,           \* the broker whose price is preferred
    filter,             \* [on, op, value, value2, side]
    place,              \* rows above the viewport of each pane
    listening,          \* are the scroll listeners on the panes that are mounted
    heard,              \* has a scroll been heard since the chain was shown or the panes
                        \* were mounted (history, for TableFollows)
    visible,            \* visibleRange
    loadFrame, scrollFrame, \* is a frame queued by a chain; by a scroll: "none", "queued",
                        \* "gone" once the pane it measures is unmounted
    tableTicks

tableVars == <<tickOf, seenTicks, wsBroker, filter, place, listening, heard, visible, loadFrame,
               scrollFrame, tableTicks>>
paneVars == <<place, listening, heard, scrollFrame>>
scrollVars == <<paneVars, visible, loadFrame>>
Panes == Sides \cup {"strike"}

NoFilter == [on |-> FALSE, op |-> "lte", value |-> 0, value2 |-> 0, side |-> "call"]
NoTicks == [k \in TickKeys |-> NoTick]
AtTop == [p \in Panes |-> 0]
TableInit ==
    /\ tickOf = NoTicks /\ seenTicks = NoTicks /\ tableTicks = 0
    /\ wsBroker = "angel" /\ filter = NoFilter /\ place = AtTop /\ listening = TRUE
    /\ heard = FALSE /\ visible = <<0, 0>> /\ loadFrame = TRUE /\ scrollFrame = "none"

\* liveLtpFromTicks: the preferred broker's tick, the other's, the loaded premium.
Ltp(ticks, l) ==
    LET other == CHOOSE b \in TickBrokers : b # wsBroker
    IN  IF l \notin Traded THEN Rest[l]
        ELSE IF ticks[<<wsBroker, l>>] # NoTick THEN ticks[<<wsBroker, l>>]
        ELSE IF ticks[<<other, l>>] # NoTick THEN ticks[<<other, l>>] ELSE Rest[l]

\* buildFilterPredicate on one premium: the limits give way by the tolerance.
Least(x, y) == IF x < y THEN x ELSE y
Most(x, y) == IF x < y THEN y ELSE x
Within(v) ==
    CASE filter.op = "lte" -> v <= filter.value + Tol
      [] filter.op = "gte" -> v >= filter.value - Tol
      [] filter.op = "between" -> v >= Least(filter.value, filter.value2) - Tol
                                  /\ v <= Most(filter.value, filter.value2) + Tol

\* matchedSides and matchedIndexes: a leg passes with the value it shows, and a row
\* whose legs both fail is left out.  With no row left there are no panes.
LegPasses(l) == filter.side \in {l[2], "either"} /\ Within(Ltp(seenTicks, l))
MatchedSides(i) == {s \in Sides : LegPasses(<<i, s>>)}
MatchedRows == {i \in 1..Rows : MatchedSides(i) # {}}
Mounted == filter.on => MatchedRows # {}

\* rowIndexes: the matches; or, of a long ladder, the range in view, forty rows before
\* it has been measured; or everything.
IsVirtual == ~filter.on /\ Rows > VirtualRows
Drawn ==
    IF filter.on THEN MatchedRows
    ELSE IF IsVirtual THEN (visible[1] + 1) .. (IF visible[2] = 0 THEN Least(Rows, 40) ELSE visible[2])
    ELSE 1..Rows

\* How far the rows scroll, of which only the ones in range are drawn.
LastPlace == Most(0, (IF filter.on THEN Cardinality(MatchedRows) ELSE Rows) - InView)

\* A scroll that is heard moves the other panes with it and queues one frame.
Heard(n) ==
    /\ place' = [p \in Panes |-> n] /\ heard' = TRUE
    /\ scrollFrame' = (IF scrollFrame = "none" THEN "queued" ELSE scrollFrame)
    /\ UNCHANGED listening

\* The panes after a render: gone or mounted anew, or scrolled back as far as there are
\* still rows, which is a scroll like any other.
Clamped(p) == Least(place[p], LastPlace')
PanesFollow ==
    IF ~(Mounted /\ Mounted')
    THEN /\ place' = AtTop /\ listening' = FALSE /\ heard' = FALSE
         /\ scrollFrame' = IF scrollFrame = "none" THEN "none" ELSE "gone"
    ELSE IF listening /\ \E s \in Sides : Clamped(s) # place[s]
    THEN \E s \in Sides : Clamped(s) # place[s] /\ Heard(Clamped(s))
    ELSE place' = [p \in Panes |-> Clamped(p)] /\ UNCHANGED <<listening, heard, scrollFrame>>

\* A render of the page recalculates the filter; typing and picking render it at once, and
\* twice a second it renders anyway.
Rendered == seenTicks' = tickOf /\ PanesFollow /\ UNCHANGED <<visible, loadFrame, tableTicks>>
TableTick(b, l, p) ==
    /\ tableTicks < MaxTableTicks /\ tableTicks' = tableTicks + 1
    /\ tickOf' = [tickOf EXCEPT ![<<b, l>>] = p]
    /\ UNCHANGED <<seenTicks, wsBroker, filter, scrollVars>>
\* Every subscription empties the tick store, also the one a preferred broker asks for.
TicksReset ==
    /\ tickOf # NoTicks /\ tickOf' = NoTicks
    /\ UNCHANGED <<seenTicks, wsBroker, filter, scrollVars, tableTicks>>
SecondPasses == seenTicks # tickOf /\ UNCHANGED <<tickOf, wsBroker, filter>> /\ Rendered
PickLiveFeed ==
    /\ wsBroker' \in TickBrokers \ {wsBroker} /\ UNCHANGED filter
    /\ Rendered /\ tickOf' = NoTicks
SetFilter(op, v, v2, side) ==
    /\ filter' = [on |-> TRUE, op |-> op, value |-> v, value2 |-> v2, side |-> side]
    /\ UNCHANGED <<tickOf, wsBroker>> /\ Rendered
ClearFilter == filter.on /\ filter' = NoFilter /\ UNCHANGED <<tickOf, wsBroker>> /\ Rendered

\* A chain shown again, hydrated with its greeks or loaded anew: the page renders, the
\* listeners go to the panes that are there, and the frame of a scroll gives way to one
\* that goes back to the top.  Panes that stayed keep their place.
ShowsChain(places) ==
    /\ seenTicks' = tickOf /\ tickOf' = NoTicks /\ UNCHANGED <<wsBroker, filter, visible, tableTicks>>
    /\ place' = places /\ listening' = Mounted' /\ heard' = FALSE
    /\ loadFrame' = TRUE /\ scrollFrame' = "none"
HydrateTable == ShowsChain(IF Mounted /\ Mounted' THEN [p \in Panes |-> Clamped(p)] ELSE AtTop)
LoadTable == ShowsChain(AtTop)

\* The user scrolls a side, or moves it sideways where it is (n = place[s]), as does the
\* frame of a chain if the sides have been moved sideways.
ScrollTo(s, n) ==
    /\ Mounted /\ n <= LastPlace
    /\ IF listening THEN Heard(n)
       ELSE place' = [place EXCEPT ![s] = n] /\ UNCHANGED <<listening, heard, scrollFrame>>
    /\ UNCHANGED <<tickOf, seenTicks, wsBroker, filter, visible, loadFrame, tableTicks>>

\* updateVisibleRange, of a place and a height, which are 0 for a pane that is not there.
\* fault: the rows below the overscan above are forgotten
RangeEndsShort(first, height) == Least(Rows, first + height)

RangeEnds(first, height) == Least(Rows, first + height + 2 * Overscan)
UpdateVisibleRange(top, height) ==
    LET first == Most(0, top - Overscan)
    IN  visible' = IF Rows <= VirtualRows THEN <<0, Rows>> ELSE <<first, RangeEnds(first, height)>>

\* The frames run in the order they were queued in, a chain's first.
LoadFrame ==
    /\ loadFrame /\ loadFrame' = FALSE
    /\ place' = [place EXCEPT !["strike"] = 0] /\ heard' = FALSE
    /\ UpdateVisibleRange(0, IF Mounted THEN InView ELSE 0)
    /\ UNCHANGED <<tickOf, seenTicks, wsBroker, filter, listening, scrollFrame, tableTicks>>
ScrollFrame ==
    /\ ~loadFrame /\ scrollFrame # "none" /\ scrollFrame' = "none"
    /\ IF scrollFrame = "gone" THEN UpdateVisibleRange(0, 0)
       ELSE \E s \in Sides : UpdateVisibleRange(place[s], InView)
    /\ UNCHANGED <<tickOf, seenTicks, wsBroker, filter, place, listening, heard, loadFrame, tableTicks>>

TableNext ==
    \/ \E b \in TickBrokers, l \in Traded, p \in Premiums : TableTick(b, l, p)
    \/ TicksReset \/ SecondPasses \/ PickLiveFeed \/ ClearFilter
    \/ \E op \in {"lte", "gte", "between"}, v \in Limits, v2 \in Limits, s \in Sides \cup {"either"} :
          SetFilter(op, v, v2, s)
    \/ HydrateTable \/ LoadTable \/ LoadFrame \/ ScrollFrame
    \/ \E s \in Sides, n \in 0..Rows : ScrollTo(s, n)

TableSpec == TableInit /\ [][TableNext]_tableVars

-----------------------------------------------------------------------------
(* Properties *)

\* Once the queued frames have run: if a scroll has been heard since the chain was shown or
\* the panes were mounted, the strikes are beside their calls and puts; and of a long ladder
\* that is listened to, every row in the viewport of a side is drawn, then and at the top,
\* whatever filters and ticks have shortened, emptied or restored the table meanwhile.  A
\* chain hydrated under a scrolled table, and panes that were away, leave both open until a
\* scroll is heard (OptionChain.jsx:619, :652).
Viewport(s) == {i \in 1..Rows : i > place[s] /\ i <= place[s] + InView}
TableFollows ==
    Mounted /\ ~loadFrame /\ scrollFrame = "none" =>
        /\ heard => \A p, q \in Panes : place[p] = place[q]
        /\ IsVirtual /\ listening =>
             \A s \in Sides : heard \/ place[s] = 0 => Viewport(s) \subseteq Drawn
=============================================================================
