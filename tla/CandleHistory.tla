---------------------------- MODULE CandleHistory ----------------------------
(***************************************************************************)
(* The second-by-second history of a contract (routes/oiPremiumDecay.js):  *)
(* a range is cut into pages whose anchors are computed, a pool of workers *)
(* fetches them, and pages that can change no more are kept in a cache of  *)
(* a bounded number of candles.  Requests for one contract.                *)
(***************************************************************************)
EXTENDS Integers, FiniteSets, FiniteSetsExt, SequencesExt

CONSTANTS
  Charts,      \* the requests
  Ranges,      \* the ranges they ask for: first and last second
  Days,        \* the sets of seconds in which the contract may have traded
  Limit,       \* candles per page
  Settle,      \* SETTLE_MS
  Late,        \* how late a candle may appear upstream
  MaxWait,     \* the timeout of an attempt
  MaxTries,    \* the attempts of a page
  MaxCandles,  \* MAX_CACHED_CANDLES
  Pool,        \* CONCURRENCY
  MaxSecond    \* bound: the clock

\* A page is settled when all that it covers has appeared before it was asked for.
ASSUME CandleAssumption ==
  /\ {Limit, Pool, MaxTries} \subseteq Nat \ {0} /\ {Late, MaxWait, MaxCandles} \subseteq Nat
  /\ Settle \in Nat /\ Late + MaxWait <= Settle
  /\ Ranges \subseteq Nat \X Nat /\ \A day \in Days : day \subseteq Nat

VARIABLES
  second,      \* the clock
  traded,      \* the seconds in which the contract trades
  pageCache,   \* the pages kept, the one used longest ago first
  cachedCandles,  \* the number of candles the cache believes it keeps
  chart        \* the requests

candleVars == <<second, traded, pageCache, cachedCandles, chart>>

CandleInit ==
  /\ second = 0 /\ traded \in Days
  /\ pageCache = << >> /\ cachedCandles = 0
  /\ chart = [c \in Charts |-> [at |-> "idle"]]

\* fault: a page is taken to cover the stride
PageCursorsByStride(start, end) ==
  {end - k * Limit : k \in {k \in 0 .. end : k = 0 \/ end - k * Limit > start}}

\* The anchors, a stride apart, until one covers the start.
PageCursors(start, end) ==
  {end - k * Limit : k \in {k \in 0 .. end : k = 0 \/ end - k * Limit + 1 > start}}

\* Upstream answers with the last Limit candles it has at or before the anchor.
PageAt(cursor, visible) ==
  LET past == {s \in visible : s <= cursor} IN
  {s \in past : Cardinality({u \in past : u > s}) < Limit}

Asked(c, range) ==
  /\ chart[c].at \in {"idle", "answered"} /\ range[2] <= second
  /\ chart' = [chart EXCEPT ![c] =
       [at |-> "running", start |-> range[1], end |-> range[2], asked |-> second,
        todo |-> PageCursors(range[1], range[2]), flying |-> {}, collected |-> {},
        failed |-> FALSE]]
  /\ UNCHANGED <<second, traded, pageCache, cachedCandles>>

\* What upstream shows: a candle appears within Late seconds.
Visible(v) ==
  /\ v \subseteq {s \in traded : s <= second}
  /\ {s \in traded : s + Late <= second} \subseteq v

Kept(cursor) == {i \in DOMAIN pageCache : pageCache[i].cursor = cursor}

\* A worker takes the next page: it is in the cache, and now the one used last, or
\* it is asked for.
TakesPage(c, visible) ==
  /\ chart[c].at = "running" /\ chart[c].todo # {} /\ Cardinality(chart[c].flying) < Pool
  /\ LET cursor == Max(chart[c].todo)
         rest == [chart[c] EXCEPT !.todo = @ \ {cursor}] IN
     IF Kept(cursor) # {}
     THEN LET i == CHOOSE i \in Kept(cursor) : TRUE IN
          /\ visible = {}
          /\ pageCache' = Append(RemoveAt(pageCache, i), pageCache[i])
          /\ chart' = [chart EXCEPT ![c] = [rest EXCEPT !.collected = @ \cup pageCache[i].candles]]
     ELSE /\ Visible(visible)
          /\ chart' = [chart EXCEPT ![c] = [rest EXCEPT !.flying =
               @ \cup {[cursor |-> cursor, page |-> PageAt(cursor, visible),
                        sent |-> second, tries |-> 1]}]]
          /\ UNCHANGED pageCache
  /\ UNCHANGED <<second, traded, cachedCandles>>

\* The candles of a list of pages: a candle counts once for every page that has it.
Stock(pages) == UNION {{i} \X pages[i].candles : i \in DOMAIN pages}
Weight(pages) == Cardinality(Stock(pages))

\* The page is stored and what has been unused longest goes; one that another
\* request has stored meanwhile is replaced, and counted a second time.
Put(cursor, candles) ==
  LET page == [cursor |-> cursor, candles |-> candles]
      stored == IF Kept(cursor) = {} THEN Append(pageCache, page)
                ELSE [i \in DOMAIN pageCache |-> IF i \in Kept(cursor) THEN page ELSE pageCache[i]]
      counted == cachedCandles + Cardinality(candles)
      After(n) == counted - Weight(SubSeq(stored, 1, n))
      gone == Min({n \in 0 .. Len(stored) : After(n) <= MaxCandles \/ n = Len(stored)}) IN
  /\ pageCache' = SubSeq(stored, gone + 1, Len(stored))
  /\ cachedCandles' = After(gone)

\* A page is kept if its anchor is far enough in the past by now.
PageComes(c, f) ==
  /\ IF f.cursor > second - Settle THEN UNCHANGED <<pageCache, cachedCandles>>
     ELSE Put(f.cursor, f.page)
  /\ chart' = [chart EXCEPT ![c].flying = @ \ {f}, ![c].collected = @ \cup f.page]
  /\ UNCHANGED <<second, traded>>

\* An attempt fails in a way that is tried again, or for good: "one bad page no
\* longer discards the whole contract".
PageRetries(c, f, visible) ==
  /\ f.tries < MaxTries /\ Visible(visible)
  /\ chart' = [chart EXCEPT ![c].flying = (@ \ {f}) \cup
       {[f EXCEPT !.page = PageAt(f.cursor, visible), !.sent = second, !.tries = @ + 1]}]
  /\ UNCHANGED <<second, traded, pageCache, cachedCandles>>
PageFails(c, f) ==
  /\ chart' = [chart EXCEPT ![c].flying = @ \ {f}, ![c].failed = TRUE]
  /\ UNCHANGED <<second, traded, pageCache, cachedCandles>>

HistoryAnswers(c) ==
  /\ chart[c].at = "running" /\ chart[c].todo = {} /\ chart[c].flying = {}
  /\ chart' = [chart EXCEPT ![c] =
       [at |-> "answered", start |-> chart[c].start, end |-> chart[c].end,
        asked |-> chart[c].asked, failed |-> chart[c].failed,
        history |-> chart[c].collected \cap (chart[c].start .. chart[c].end)]]
  /\ UNCHANGED <<second, traded, pageCache, cachedCandles>>

FlyingOf(c) == IF chart[c].at = "running" THEN chart[c].flying ELSE {}
SecondPasses ==
  /\ second < MaxSecond
  /\ \A c \in Charts : \A f \in FlyingOf(c) : second - f.sent < MaxWait
  /\ second' = second + 1
  /\ UNCHANGED <<traded, pageCache, cachedCandles, chart>>

CandleNext ==
  \/ \E c \in Charts :
       \/ \E range \in Ranges : Asked(c, range)
       \/ \E visible \in SUBSET traded : TakesPage(c, visible)
       \/ HistoryAnswers(c)
       \/ \E f \in FlyingOf(c) :
            \/ PageComes(c, f) \/ PageFails(c, f)
            \/ \E visible \in SUBSET traded : PageRetries(c, f, visible)
  \/ SecondPasses

CandleSpec == CandleInit /\ [][CandleNext]_candleVars

-----------------------------------------------------------------------------
\* "Redundant pages collapse in the dedupe below; gaps cannot open up": a history
\* without errors has every candle of its range that had appeared when it was asked
\* for, wherever its pages came from, and the cache keeps within its budget.
NoGaps ==
  \A c \in Charts : chart[c].at = "answered" /\ ~chart[c].failed =>
    {s \in traded : chart[c].start <= s /\ s <= chart[c].end /\ s + Late <= chart[c].asked}
      \subseteq chart[c].history
HistoryIsWhole ==
  /\ NoGaps
  /\ Weight(pageCache) <= MaxCandles
=============================================================================
