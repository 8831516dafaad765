---------------------------- MODULE SharedFlights ----------------------------
(***************************************************************************)
(* Callers that share upstream reads: what the last read of a key brought  *)
(* is served for a while, and callers that miss it wait for one read.  The *)
(* Upstox chain cache (engine/chainCache.js), the quote cache of the Node  *)
(* backend (angel/httpClient.js) and that of the Go backend (cache.go),    *)
(* where a caller may be preempted between its look and its wait.  One key *)
(* of one of them.                                                         *)
(***************************************************************************)
EXTENDS Integers

CONSTANTS
  Readers,
  Ttl,        \* how long what a read brought is served
  MaxTick     \* bound: the clock

ASSUME FlightsAssumption == Ttl \in Nat \ {0} /\ MaxTick \in Nat

VARIABLES
  cache,      \* the cache: chain, quote or go
  tick,       \* the clock
  entry,      \* when what is stored came, and what it is
  flight,     \* when the read that is under way began
  reader      \* the callers

flightVars == <<cache, tick, entry, flight, reader>>

Nobody == [at |-> "none"]
FlightsInit ==
  /\ cache \in {"chain", "quote", "go"} /\ tick = 0
  /\ entry = Nobody /\ flight = Nobody /\ reader = [r \in Readers |-> Nobody]

\* The chain cache compares with <, the quote caches with an expiry.
Served == IF cache = "chain" THEN Ttl - 1 ELSE Ttl
Hit == entry.at = "held" /\ tick - entry.came <= Served

Got(r, asked, came, what) ==
  [reader EXCEPT ![r] = [at |-> "got", asked |-> asked, came |-> came, what |-> what]]
Waits(r, asked) == reader' = [reader EXCEPT ![r] = [at |-> "waits", asked |-> asked]]

\* The read that is under way is joined; if there is none one begins.
Boards(r, asked) ==
  /\ Waits(r, asked)
  /\ flight' = IF flight # Nobody THEN flight ELSE [at |-> "up", began |-> tick]

AsksFor(r) ==
  /\ reader[r].at \in {"none", "got"}
  /\ IF Hit THEN reader' = Got(r, tick, entry.came, entry.what) /\ UNCHANGED flight
     ELSE IF cache = "go"
       THEN reader' = [reader EXCEPT ![r] = [at |-> "missed", asked |-> tick]] /\ UNCHANGED flight
     ELSE Boards(r, tick)
  /\ UNCHANGED <<cache, tick, entry>>

\* fault: the cache is not read again inside the flight
BoardsLate(r) ==
  /\ reader[r].at = "missed"
  /\ Boards(r, reader[r].asked)
  /\ UNCHANGED <<cache, tick, entry>>

\* The group's Do, where "another caller may have filled it".
BoardsAgain(r) ==
  /\ reader[r].at = "missed"
  /\ IF flight = Nobody /\ Hit
       THEN reader' = Got(r, reader[r].asked, entry.came, entry.what) /\ UNCHANGED flight
       ELSE Boards(r, reader[r].asked)
  /\ UNCHANGED <<cache, tick, entry>>

\* A chain that is no good is returned and not kept; the quote caches keep every
\* answer that is no error; an error is everyone's who waits.  A Go flight also
\* fails when the request of the caller who began it is cancelled.
LandsFlight(what) ==
  /\ flight # Nobody /\ flight' = Nobody
  /\ entry' = IF what = "error" \/ (cache = "chain" /\ what = "bad") THEN entry
              ELSE [at |-> "held", came |-> tick, what |-> what]
  /\ reader' = [r \in Readers |-> IF reader[r].at # "waits" THEN reader[r]
                  ELSE [at |-> "got", asked |-> reader[r].asked, came |-> tick, what |-> what]]
  /\ UNCHANGED <<cache, tick>>

TickOn == tick < MaxTick /\ tick' = tick + 1 /\ UNCHANGED <<cache, entry, flight, reader>>

FlightsNext ==
  \/ \E r \in Readers : AsksFor(r) \/ BoardsAgain(r)
  \/ \E what \in {"good", "bad", "error"} : LandsFlight(what)
  \/ TickOn

FlightsSpec == FlightsInit /\ [][FlightsNext]_flightVars

-----------------------------------------------------------------------------
\* One upstream read per key and window: none begins while what the last one
\* brought is still served.  What a caller gets is no older at its call than that
\* window, an error came after it asked, "a thrown fetch must not leave a poisoned
\* promise", and so did a bad chain: failures "are never cached".
FlightsAreShared ==
  /\ flight # Nobody /\ entry.at = "held" =>
       flight.began - entry.came > Served
  /\ \A r \in Readers : reader[r].at = "got" =>
       reader[r].came + (IF reader[r].what = "error" \/ (cache = "chain" /\ reader[r].what = "bad")
                           THEN 0 ELSE Served) >= reader[r].asked
=============================================================================
