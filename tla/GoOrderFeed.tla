------------------------------ MODULE GoOrderFeed ------------------------------
(***************************************************************************)
(* The order-status feed of the Go backend (internal/angel/orderfeed.go):  *)
(* a registry with a slot for each watched account, sockets dialed by      *)
(* goroutines outside the mutex, read loops that retry a lost socket once, *)
(* and event-stream viewers whose absence closes everything.               *)
(***************************************************************************)
EXTENDS Integers, FiniteSets

CONSTANTS
  Accounts,       \* client codes
  Viewers,        \* event-stream clients
  Sockets,        \* bound: the sockets alive, or being read, at once
  MaxDials,       \* bound: the dials of one account in progress at once
  MaxFails,       \* bound: the dials that fail
  MaxRetries      \* bound: the reconnect timers of one account set at once

Free == "free"
Reserved == "reserved"
ASSUME OrderAssumption ==
  /\ Free \notin Sockets /\ Reserved \notin Sockets
  /\ MaxDials \in Nat /\ MaxFails \in Nat /\ MaxRetries \in Nat
  /\ Free \notin Accounts

VARIABLES
  slot,      \* f.conns: each account's slot: free, reserved or a socket
  open,      \* the sockets that are connected
  reads,     \* the account for which a read loop runs on each socket, or Free
  stopped,   \* the sockets closed on purpose
  toClose,   \* taken out of the registry, about to be closed
  dialing,   \* the dials of each account in progress
  retries,   \* its reconnect timers
  failures,  \* the dials that have failed
  viewers    \* f.sseClients

orderVars == <<slot, open, reads, stopped, toClose, dialing, retries, failures, viewers>>

OrderTypeOK ==
  /\ slot \in [Accounts -> Sockets \cup {Free, Reserved}]
  /\ open \subseteq {n \in Sockets : reads[n] # Free}
  /\ stopped \subseteq Sockets /\ toClose \subseteq Sockets
  /\ reads \in [Sockets -> Accounts \cup {Free}]
  /\ dialing \in [Accounts -> 0 .. MaxDials]
  /\ retries \in [Accounts -> 0 .. MaxRetries]
  /\ failures \in 0 .. MaxFails
  /\ viewers \subseteq Viewers

OrderInit ==
  /\ slot = [a \in Accounts |-> Free]
  /\ open = {} /\ stopped = {} /\ toClose = {}
  /\ reads = [n \in Sockets |-> Free]
  /\ dialing = [a \in Accounts |-> 0] /\ retries = [a \in Accounts |-> 0]
  /\ failures = 0 /\ viewers = {}

Holds(n) == \E a \in Accounts : slot[a] = n
Unused == {n \in Sockets : n \notin open \cup toClose /\ reads[n] = Free /\ ~Holds(n)}

\* Watch's critical section: a free slot is reserved and a dial started.
Watches(a) ==
  IF slot[a] = Free
    THEN /\ dialing[a] < MaxDials
         /\ slot' = [slot EXCEPT ![a] = Reserved]
         /\ dialing' = [dialing EXCEPT ![a] = @ + 1]
    ELSE UNCHANGED <<slot, dialing>>

Watch(a) ==
  /\ Watches(a)
  /\ UNCHANGED <<open, reads, stopped, toClose, retries, failures, viewers>>

ReadFor(a, n) == [reads EXCEPT ![n] = a]

\* connect: the slot takes the new socket, whatever it holds by now.
DialOk(a, n) ==
  /\ dialing[a] > 0 /\ n \in Unused
  /\ dialing' = [dialing EXCEPT ![a] = @ - 1]
  /\ slot' = [slot EXCEPT ![a] = n]
  /\ open' = open \cup {n}
  /\ reads' = ReadFor(a, n)
  /\ UNCHANGED <<toClose, stopped, retries, failures, viewers>>

FreedNot(a) == slot                        \* fault: a failed dial keeps its reservation

\* ... and is freed when the dial fails, whatever it holds by now.
Freed(a) == [slot EXCEPT ![a] = Free]

DialFail(a) ==
  /\ dialing[a] > 0 /\ failures < MaxFails
  /\ dialing' = [dialing EXCEPT ![a] = @ - 1]
  /\ slot' = Freed(a)
  /\ failures' = failures + 1
  /\ UNCHANGED <<open, reads, stopped, toClose, retries, viewers>>

SocketDies(n) ==
  /\ n \in open
  /\ open' = open \ {n}
  /\ UNCHANGED <<slot, reads, stopped, toClose, dialing, retries, failures, viewers>>

RetriesNever(n) == FALSE                   \* fault: a lost socket is not retried

Retries(n) == n \notin stopped /\ viewers # {}

\* readLoop ends: its slot is freed if still its own, and unless the socket was
\* closed on purpose a timer is set to watch again.
ReadLoopEnds(n) ==
  LET a == reads[n] IN
  /\ a # Free /\ n \notin open
  /\ Retries(n) => retries[a] < MaxRetries
  /\ reads' = [reads EXCEPT ![n] = Free]
  /\ stopped' = stopped \ {n}
  /\ slot' = IF slot[a] = n THEN [slot EXCEPT ![a] = Free] ELSE slot
  /\ retries' = IF Retries(n) THEN [retries EXCEPT ![a] = @ + 1] ELSE retries
  /\ UNCHANGED <<open, toClose, dialing, failures, viewers>>

RetryFires(a) ==
  /\ retries[a] > 0
  /\ retries' = [retries EXCEPT ![a] = @ - 1]
  /\ IF viewers # {} THEN Watches(a) ELSE UNCHANGED <<slot, dialing>>
  /\ UNCHANGED <<open, reads, stopped, toClose, failures, viewers>>

AddSseClient(v) ==
  /\ v \notin viewers
  /\ viewers' = viewers \cup {v}
  /\ UNCHANGED <<slot, open, reads, stopped, toClose, dialing, retries, failures>>

\* The last viewer's leaving empties the registry; its sockets are closed after
\* the mutex is released.
RemoveSseClient(v) ==
  /\ v \in viewers
  /\ viewers' = viewers \ {v}
  /\ IF viewers' = {}
       THEN /\ toClose' = toClose \cup {n \in Sockets : Holds(n)}
            /\ slot' = [a \in Accounts |-> Free]
       ELSE UNCHANGED <<toClose, slot>>
  /\ UNCHANGED <<open, reads, stopped, dialing, retries, failures>>

\* orderConn.close.
Close(n) ==
  /\ n \in toClose
  /\ toClose' = toClose \ {n}
  /\ stopped' = IF reads[n] = Free THEN stopped ELSE stopped \cup {n}
  /\ open' = open \ {n}
  /\ UNCHANGED <<slot, reads, dialing, retries, failures, viewers>>

OrderNext ==
  \/ \E a \in Accounts : Watch(a) \/ DialFail(a) \/ RetryFires(a)
  \/ \E a \in Accounts, n \in Sockets : DialOk(a, n)
  \/ \E n \in Sockets : SocketDies(n) \/ ReadLoopEnds(n) \/ Close(n)
  \/ \E v \in Viewers : AddSseClient(v) \/ RemoveSseClient(v)

\* Goroutines and timers run; a dial ends one way or the other.
DialEnds(a) == DialFail(a) \/ \E n \in Sockets : DialOk(a, n)
OrderFairness ==
  /\ \A a \in Accounts :
       /\ WF_orderVars(RetryFires(a))
       /\ WF_orderVars(DialEnds(a))
  /\ \A n \in Sockets : WF_orderVars(ReadLoopEnds(n)) /\ WF_orderVars(Close(n))

OrderSpec == OrderInit /\ [][OrderNext]_orderVars /\ OrderFairness

-----------------------------------------------------------------------------
\* A slot that refuses a Watch is worth waiting for: it is being dialed, or its
\* socket lives, or the read loop that will free it runs.
SlotIsAlive ==
  \A a \in Accounts :
    /\ slot[a] = Reserved => dialing[a] > 0
    /\ slot[a] \in Sockets => slot[a] \in open \/ reads[slot[a]] # Free

\* "a dropped socket reconnects itself while SSE clients remain", as long as the
\* dials succeed: the read loop's end sets one timer, and its dial is the last.
Recovers ==
  \A a \in Accounts :
    (viewers # {} /\ slot[a] \in Sockets /\ slot[a] \notin open)
      ~> (viewers = {} \/ slot[a] \in open \/ failures > 0)
=============================================================================
