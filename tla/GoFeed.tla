-------------------------------- MODULE GoFeed --------------------------------
(***************************************************************************)
(* The trade panel's live feed in the Go backend (internal/angel/feed.go). *)
(* It keeps the token union of TokenUnion under a mutex, but every request *)
(* is a goroutine that takes the mutex several times: the union changes in *)
(* one critical section, and the frames about it are written, and the      *)
(* socket dialed, in later ones.  Requests, leaving viewers, sockets that  *)
(* die and read loops that notice it all interleave.                       *)
(***************************************************************************)
EXTENDS TokenUnion

CONSTANTS
  Requests,  \* the HTTP handlers that may be running at once
  Viewers,   \* event-stream clients
  Sockets    \* bound: the sockets ever dialed

None == "none"
ASSUME FeedAssumption == None \notin Sockets

VARIABLES
  conn,     \* f.conn, a socket or None
  sock,     \* what each socket is: "unused", "open" or "dead"
  reading,  \* the sockets whose read loop runs
  told,     \* what Angel streams on each socket
  req,      \* the handlers: where they are and what they hold
  creds,    \* does the feed remember credentials?
  viewers,  \* f.sseClients
  leaving,  \* viewers found to be the last, about to close the upstream
  rivalled, \* sockets that were dialed while another handler was dialing
  crossed   \* tokens that one handler changed while another still had frames to write
            \* about them (both are history, for OneSocketOneUnion)

sockVars == <<conn, sock, reading, told>>
viewVars == <<viewers, leaving>>
feedHistory == <<rivalled, crossed>>
feedVars == <<unionVars, sockVars, viewVars, req, creds, feedHistory>>

Steps == {"idle", "release", "drop", "gather", "start", "send", "dial", "snap", "initial"}
Idle == [at |-> "idle", removed |-> {}, groups |-> {}, then |-> "idle", seen |-> None]

FeedTypeOK ==
  /\ UnionTypeOK
  /\ conn \in Sockets \cup {None}
  /\ sock \in [Sockets -> {"unused", "open", "dead"}]
  /\ reading \subseteq Sockets
  /\ told \in [Sockets -> SUBSET Tokens]
  /\ req \in [Requests -> [at : Steps, removed : SUBSET Tokens, groups : SUBSET Tokens,
                           then : Steps, seen : Sockets \cup {None}]]
  /\ creds \in BOOLEAN
  /\ viewers \subseteq Viewers
  /\ leaving \subseteq Viewers
  /\ rivalled \subseteq Sockets /\ crossed \subseteq Tokens

FeedInit ==
  /\ UnionInit
  /\ conn = None /\ sock = [n \in Sockets |-> "unused"] /\ reading = {}
  /\ told = [n \in Sockets |-> {}]
  /\ req = [r \in Requests |-> Idle]
  /\ creds = FALSE /\ viewers = {} /\ leaving = {}
  /\ rivalled = {} /\ crossed = {}

At(r, step) == req[r].at = step
Done(r) == req' = [req EXCEPT ![r] = Idle]
MovesTo(r, step, groups, n) ==
  req' = [req EXCEPT ![r] = [Idle EXCEPT !.at = step, !.groups = groups, !.seen = n]]
GoesOn(r) == MovesTo(r, req[r].then, req[r].groups, None)

\* The tokens that handlers still have frames to write about.
InHands(R) == UNION {req[r].removed \cup req[r].groups : r \in R}

\* Handler r has left its first critical section with this much to do.
Begins(r, removed, added, then) ==
  /\ req' = [req EXCEPT ![r] = [at |-> "release", removed |-> removed, groups |-> added,
                                then |-> then, seen |-> None]]
  /\ crossed' = crossed \cup ((removed \cup added) \cap InHands(Requests \ {r}))
  /\ UNCHANGED rivalled

Subscribe(r, S) ==
  LET removed == ChainLeaves(S) IN
  /\ At(r, "idle") /\ S # {}
  /\ ChainSync(S)
  /\ creds' = TRUE
  /\ Begins(r, removed, tokens' \ (tokens \ removed), "start")
  /\ UNCHANGED <<sockVars, viewVars>>

\* A basket that adds nothing starts the feed only if there is no socket.
SetBasketTokens(r, S, given) ==
  LET removed == BasketLeaves(S)
      added == tokens' \ (tokens \ removed) IN
  /\ At(r, "idle") /\ (given \/ creds)
  /\ BasketSync(S)
  /\ creds' = TRUE
  /\ Begins(r, removed, added,
       CASE added # {} -> "start" [] added = {} /\ conn = None -> "gather" [] OTHER -> "idle")
  /\ UNCHANGED <<sockVars, viewVars>>

\* unsubscribe: read the socket, then write to it if it is still the current one.
ReadsToRelease(r) ==
  /\ At(r, "release")
  /\ IF req[r].removed # {} /\ conn # None
       THEN req' = [req EXCEPT ![r].seen = conn, ![r].at = "drop"]
       ELSE GoesOn(r)
  /\ UNCHANGED <<unionVars, sockVars, viewVars, creds, feedHistory>>

WritesOn(r, n) == n = conn /\ sock[n] = "open"

Releases(r) ==
  LET n == req[r].seen IN
  /\ At(r, "drop")
  /\ told' = IF WritesOn(r, n) THEN [told EXCEPT ![n] = @ \ req[r].removed] ELSE told
  /\ GoesOn(r)
  /\ UNCHANGED <<unionVars, conn, sock, reading, viewVars, creds, feedHistory>>

\* The snapshot a basket without additions starts the feed with.
Gathers(r) ==
  /\ At(r, "gather")
  /\ MovesTo(r, "start", tokens, None)
  /\ UNCHANGED <<unionVars, sockVars, viewVars, creds, feedHistory>>

\* startOrResubscribe: the socket is read, and the mutex released.
Starts(r) ==
  /\ At(r, "start")
  /\ IF conn = None THEN MovesTo(r, "dial", {}, None) ELSE MovesTo(r, "send", req[r].groups, conn)
  /\ UNCHANGED <<unionVars, sockVars, viewVars, creds, feedHistory>>

\* sendSubscribe, of the additions or of the snapshot.
Sends(r) ==
  LET n == req[r].seen IN
  /\ At(r, "send") \/ At(r, "initial")
  /\ told' = IF WritesOn(r, n) THEN [told EXCEPT ![n] = @ \cup req[r].groups] ELSE told
  /\ reading' = IF At(r, "initial") THEN reading \cup {n} ELSE reading
  /\ Done(r)
  /\ UNCHANGED <<unionVars, conn, sock, viewVars, creds, feedHistory>>

\* connect: the dial is made without the mutex, and its socket installed.
Dialed(r, n) ==
  /\ At(r, "dial") /\ sock[n] = "unused"
  /\ sock' = [sock EXCEPT ![n] = "open"]
  /\ conn' = n
  /\ MovesTo(r, "snap", {}, n)
  /\ rivalled' = IF \E q \in Requests \ {r} : At(q, "dial") THEN rivalled \cup {n} ELSE rivalled
  /\ crossed' = crossed \cap InHands(Requests \ {r})   \* n starts anew, from a snapshot
  /\ UNCHANGED <<unionVars, reading, told, viewVars, creds>>

DialFailed(r) ==
  /\ At(r, "dial")
  /\ Done(r)
  /\ UNCHANGED <<unionVars, sockVars, viewVars, creds, feedHistory>>

Snaps(r) ==
  /\ At(r, "snap")
  /\ MovesTo(r, "initial", tokens, req[r].seen)
  /\ UNCHANGED <<unionVars, sockVars, viewVars, creds, feedHistory>>

AddClient(v) ==
  /\ v \notin viewers \cup leaving
  /\ viewers' = viewers \cup {v}
  /\ UNCHANGED <<unionVars, sockVars, req, creds, leaving, feedHistory>>

\* RemoveClient's critical section finds out whether v was the last.
RemoveClient(v) ==
  /\ v \in viewers
  /\ viewers' = viewers \ {v}
  /\ leaving' = IF viewers' = {} THEN leaving \cup {v} ELSE leaving
  /\ UNCHANGED <<unionVars, sockVars, req, creds, feedHistory>>

\* closeUpstream(true), in a critical section of its own.
CloseUpstream(v) ==
  /\ v \in leaving
  /\ leaving' = leaving \ {v}
  /\ Forget /\ creds' = FALSE
  /\ conn' = None
  /\ sock' = IF conn = None THEN sock ELSE [sock EXCEPT ![conn] = "dead"]
  /\ told' = IF conn = None THEN told ELSE [told EXCEPT ![conn] = {}]
  /\ crossed' = InHands(Requests)   \* and nothing streams
  /\ UNCHANGED <<reading, viewers, req, rivalled>>

\* The peer, or the network, ends a socket.
SocketDies(n) ==
  /\ sock[n] = "open"
  /\ sock' = [sock EXCEPT ![n] = "dead"]
  /\ told' = [told EXCEPT ![n] = {}]
  /\ UNCHANGED <<unionVars, conn, reading, viewVars, req, creds, feedHistory>>

\* fault: a read loop clears the feed's socket whichever it is
ReadLoopClearsAny(n) ==
  /\ n \in reading /\ sock[n] = "dead"
  /\ reading' = reading \ {n}
  /\ conn' = None
  /\ UNCHANGED <<unionVars, sock, told, viewVars, req, creds, feedHistory>>

\* readLoop notices, and clears the feed's socket if it is still this one.
ReadLoopEnds(n) ==
  /\ n \in reading /\ sock[n] = "dead"
  /\ reading' = reading \ {n}
  /\ conn' = IF conn = n THEN None ELSE conn
  /\ UNCHANGED <<unionVars, sock, told, viewVars, req, creds, feedHistory>>

HandlerNext(r) ==
  \/ \E S \in SUBSET Tokens :
       Subscribe(r, S) \/ \E given \in BOOLEAN : SetBasketTokens(r, S, given)
  \/ ReadsToRelease(r) \/ Releases(r) \/ Gathers(r) \/ Starts(r) \/ Sends(r)
  \/ (\E n \in Sockets : Dialed(r, n)) \/ DialFailed(r) \/ Snaps(r)

FeedNext ==
  \/ \E r \in Requests : HandlerNext(r)
  \/ \E v \in Viewers : AddClient(v) \/ RemoveClient(v) \/ CloseUpstream(v)
  \/ \E n \in Sockets : SocketDies(n) \/ ReadLoopEnds(n)

FeedSpec == FeedInit /\ [][FeedNext]_feedVars

-----------------------------------------------------------------------------
\* "Feed owns the single upstream Angel WebSocket": a socket that is open is the feed's
\* own, so that closeUpstream can close it and Angel counts one session, unless it was
\* dialed while another handler was dialing (both found none, feed.go:356).  Once no
\* handler is running it streams exactly the union: nothing less, and nothing a chain or a
\* basket has released, "otherwise the old expiry keeps streaming and keeps counting
\* against Angel's 1000-token session cap"; except for the tokens that a request or the
\* last viewer changed while another request still had frames to write about them.
OneSocketOneUnion ==
  /\ \A n \in Sockets : sock[n] = "open" => n = conn \/ n \in rivalled
  /\ (conn # None /\ sock[conn] = "open" /\ \A r \in Requests : At(r, "idle"))
       => (told[conn] \ tokens) \cup (tokens \ told[conn]) \subseteq crossed
=============================================================================
