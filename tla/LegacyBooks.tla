------------------------------ MODULE LegacyBooks ------------------------------
(***************************************************************************)
(* The order and trade books of the older page (OrderBookView of           *)
(* main.jsx): the books of the row that is chosen in its account picker,   *)
(* pushed by Angel's order stream, read again every 20 seconds, one        *)
(* refresh at a time, with the closures of the render that started them.   *)
(***************************************************************************)
EXTENDS Naturals, FiniteSets, FiniteSetsExt

CONSTANTS
  Logins,         \* the accounts that may be logged in
  Nobody,
  ClientRows,     \* bound: the rows of the account table, 1 .. ClientRows
  MaxBookVer, MaxFetches,   \* bounds: versions of a broker's book, reads under way
  MaxMoves        \* bound: what the user does

ASSUME BooksAssumption ==
  /\ Nobody \notin Logins /\ {ClientRows, MaxFetches} \subseteq Nat \ {0} /\ {MaxBookVer, MaxMoves} \subseteq Nat

VARIABLES
  inAs,        \* row -> the account its session is of
  active,      \* whether the tab of the books is in front
  bookTab,
  clientIndex,
  shownRows,   \* book -> the rows on the page: whose and how new
  loadedRef, pollingRef, booksLoading,
  watch,       \* the effect under way: the book it refreshes, with its render's row and account
  nudged,      \* whether its debounce is armed
  fetches,     \* the reads under way
  booksAtBroker,
  moves        \* bound: what the user has done so far

booksVars == <<inAs, active, bookTab, clientIndex, shownRows, loadedRef, pollingRef,
               booksLoading, watch, nudged, fetches, booksAtBroker, moves>>

IndexRange == 1 .. ClientRows
BookNames == {"orders", "trades"}
BookOf(t) == IF t = "trades" THEN "trades" ELSE "orders"
NoWatch == [which |-> "none"]
NotLoaded == [b \in BookNames |-> FALSE]
NoRows == [b \in BookNames |-> Nobody]

Fetch(which, row, acct, silent, polls) ==
  [which |-> which, row |-> row, acct |-> acct, silent |-> silent, polls |-> polls, ver |-> Nobody]

\* A picker that stands on a row that is not logged in moves to the first that is.
Corrected(ins, index) ==
  LET logged == {i \in IndexRange : ins[i] # Nobody}
  IN  IF logged = {} \/ index \in logged THEN index ELSE Min(logged)

\* The page opens with another tab in front; rows log in meanwhile.
BooksInit ==
  /\ inAs \in [IndexRange -> Logins \cup {Nobody}] /\ clientIndex = Corrected(inAs, 1)
  /\ active = FALSE /\ bookTab = "history" /\ shownRows = NoRows /\ loadedRef = NotLoaded
  /\ pollingRef = FALSE /\ booksLoading = FALSE /\ watch = NoWatch /\ nudged = FALSE
  /\ fetches = {} /\ booksAtBroker = [a \in Logins |-> 0] /\ moves = 0

Move == moves < MaxMoves /\ moves' = moves + 1

\* The effects of a render: another row clears the books, and whatever the refreshing
\* effect depends on restarts it, with a first read of a book not read yet.
Rendered(ins, front, t, index, rowsNow, loadedNow, fetchesNow, busyNow) ==
  LET at == Corrected(ins, index)
      cleared == at # clientIndex
      loaded == IF cleared THEN NotLoaded ELSE loadedNow
      runs == front /\ ins[at] # Nobody
      again == <<front, t, at, ins[at]>> # <<active, bookTab, clientIndex, inAs[clientIndex]>>
      first == again /\ runs /\ ~loaded[BookOf(t)]
  IN  /\ inAs' = ins /\ active' = front /\ bookTab' = t /\ clientIndex' = at
      /\ loadedRef' = loaded /\ shownRows' = IF cleared THEN NoRows ELSE rowsNow
      /\ watch' = IF ~again THEN watch
                  ELSE IF runs THEN [which |-> BookOf(t), row |-> at, acct |-> ins[at]]
                  ELSE NoWatch
      /\ nudged' = (nudged /\ ~again)
      /\ fetches' = fetchesNow \cup IF first THEN {Fetch(BookOf(t), at, ins[at], FALSE, FALSE)} ELSE {}
      /\ booksLoading' = (busyNow \/ first)
      /\ Cardinality(fetches') <= MaxFetches

RowsChange(ins) ==
  Rendered(ins, active, bookTab, clientIndex, shownRows, loadedRef, fetches, booksLoading)
\* Elsewhere on the page a row logs in or out, or is deleted and the others move up.
LogsRowIn(i, a) ==
  /\ Move /\ RowsChange([inAs EXCEPT ![i] = a]) /\ UNCHANGED <<pollingRef, booksAtBroker>>
LogsRowOut(i) ==
  /\ Move /\ inAs[i] # Nobody /\ RowsChange([inAs EXCEPT ![i] = Nobody])
  /\ UNCHANGED <<pollingRef, booksAtBroker>>
DeletesRow(i) ==
  /\ Move /\ RowsChange([j \in IndexRange |->
                   IF j < i THEN inAs[j] ELSE IF j < ClientRows THEN inAs[j + 1] ELSE Nobody])
  /\ UNCHANGED <<pollingRef, booksAtBroker>>

PicksTab(t) ==
  /\ Move /\ t # bookTab
  /\ Rendered(inAs, active, t, clientIndex, shownRows, loadedRef, fetches, booksLoading)
  /\ UNCHANGED <<pollingRef, booksAtBroker>>
PicksRow(i) ==
  /\ Move /\ i # clientIndex
  /\ Rendered(inAs, active, bookTab, i, shownRows, loadedRef, fetches, booksLoading)
  /\ UNCHANGED <<pollingRef, booksAtBroker>>
LeavesOrComes ==
  /\ Move /\ Rendered(inAs, ~active, bookTab, clientIndex, shownRows, loadedRef, fetches, booksLoading)
  /\ UNCHANGED <<pollingRef, booksAtBroker>>

\* The Refresh button, off while a read of its kind is under way.
RefreshButton == ~booksLoading
PressesRefresh ==
  /\ Move /\ active /\ RefreshButton /\ inAs[clientIndex] # Nobody
  /\ fetches' = fetches \cup
       {Fetch(BookOf(bookTab), clientIndex, inAs[clientIndex], FALSE, FALSE)}
  /\ Cardinality(fetches') <= MaxFetches /\ booksLoading' = TRUE
  /\ UNCHANGED <<inAs, active, bookTab, clientIndex, shownRows, loadedRef, pollingRef, watch,
                 nudged, booksAtBroker>>

\* refresh: one at a time; the other book is out of date from now on.
refresh ==
  /\ watch # NoWatch /\ ~pollingRef /\ pollingRef' = TRUE
  /\ loadedRef' = [b \in BookNames |-> loadedRef[b] /\ b = watch.which]
  /\ fetches' = fetches \cup {Fetch(watch.which, watch.row, watch.acct, TRUE, TRUE)}
  /\ Cardinality(fetches') <= MaxFetches
  /\ UNCHANGED <<inAs, active, bookTab, clientIndex, shownRows, booksLoading, watch, booksAtBroker, moves>>
SafetyRefresh == refresh /\ nudged' = nudged
\* An order of any account is pushed; the debounce ends in a refresh, or in nothing while
\* another one is under way.
OrderEvent ==
  /\ watch # NoWatch /\ nudged' = TRUE
  /\ UNCHANGED <<inAs, active, bookTab, clientIndex, shownRows, loadedRef, pollingRef,
                 booksLoading, watch, fetches, booksAtBroker, moves>>
DebounceEnds ==
  /\ nudged /\ nudged' = FALSE
  /\ \/ refresh
     \/ /\ pollingRef
        /\ UNCHANGED <<inAs, active, bookTab, clientIndex, shownRows, loadedRef, pollingRef,
                       booksLoading, watch, fetches, booksAtBroker, moves>>

-----------------------------------------------------------------------------
\* An account trades, which changes both its books.
AccountTrades(a) ==
  /\ booksAtBroker[a] < MaxBookVer /\ booksAtBroker' = [booksAtBroker EXCEPT ![a] = @ + 1]
  /\ UNCHANGED <<inAs, active, bookTab, clientIndex, shownRows, loadedRef, pollingRef,
                 booksLoading, watch, nudged, fetches, moves>>
\* The backend reads the book.
BookServed(f) ==
  /\ f \in fetches /\ f.ver = Nobody
  /\ fetches' = (fetches \ {f}) \cup {[f EXCEPT !.ver = booksAtBroker[f.acct]]}
  /\ UNCHANGED <<inAs, active, bookTab, clientIndex, shownRows, loadedRef, pollingRef,
                 booksLoading, watch, nudged, booksAtBroker, moves>>

\* The flag of a refresh comes down when its read ends, in whichever way.
PollingForever(f) == pollingRef       \* fault: only the effect would reset it
PollingAfter(f) == pollingRef /\ ~f.polls
\* The answer: the session goes to the row of the render that asked, the rows to the page.
BookLanded(f) ==
  /\ f \in fetches /\ f.ver # Nobody
  /\ pollingRef' = PollingAfter(f)
  /\ Rendered([inAs EXCEPT ![f.row] = f.acct], active, bookTab, clientIndex,
              [shownRows EXCEPT ![f.which] = [acct |-> f.acct, ver |-> f.ver]],
              [loadedRef EXCEPT ![f.which] = TRUE], fetches \ {f}, booksLoading /\ f.silent)
  /\ UNCHANGED <<booksAtBroker, moves>>
\* A failure that the user would see allows another first read.
BookLost(f) ==
  /\ f \in fetches /\ pollingRef' = PollingAfter(f) /\ fetches' = fetches \ {f}
  /\ loadedRef' = IF f.silent THEN loadedRef ELSE [loadedRef EXCEPT ![f.which] = FALSE]
  /\ booksLoading' = (booksLoading /\ f.silent)
  /\ UNCHANGED <<inAs, active, bookTab, clientIndex, shownRows, watch, nudged, booksAtBroker, moves>>

BookReads == \E f \in fetches : BookServed(f)
BookLands == \E f \in fetches : BookLanded(f)
BooksNext ==
  \/ \E i \in IndexRange, a \in Logins : LogsRowIn(i, a)
  \/ \E i \in IndexRange : LogsRowOut(i) \/ DeletesRow(i) \/ PicksRow(i)
  \/ \E t \in {"open", "history", "trades"} : PicksTab(t)
  \/ LeavesOrComes \/ PressesRefresh \/ SafetyRefresh \/ OrderEvent \/ DebounceEnds
  \/ \E a \in Logins : AccountTrades(a)
  \/ BookReads \/ BookLands \/ \E f \in fetches : BookLost(f)

\* The interval fires, and reads are answered in the end and not always with an error.
BooksSpec == BooksInit /\ [][BooksNext]_booksVars
  /\ WF_booksVars(SafetyRefresh) /\ SF_booksVars(BookReads) /\ SF_booksVars(BookLands)

\* The book in front of a logged-in row is that account's current book again and again,
\* whatever reads of other rows, books and renders are still under way.
LegacyBookCatchesUp ==
  []<>(watch # NoWatch =>
         shownRows[watch.which] = [acct |-> watch.acct, ver |-> booksAtBroker[watch.acct]])
=============================================================================
