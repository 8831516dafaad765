------------------------------ MODULE AngelFeed -------------------------------
(***************************************************************************)
(* The trade panel's live feed in the Node backend (angel/feed.js): one    *)
(* upstream socket, the token union, and the event-stream listeners whose  *)
(* absence closes it.  Every method runs in one turn of the event loop;    *)
(* what interleaves is the requests, the listeners coming and going, the   *)
(* socket's events and the idle timer.                                     *)
(***************************************************************************)
EXTENDS TokenUnion

CONSTANT Listeners

VARIABLES
  conn,       \* "none", "dialing", "open" or "closing": the peer has closed it
  told,       \* what the upstream socket has been asked to stream
  creds,      \* does the feed remember credentials?
  listeners,  \* the connected event-stream clients
  idle        \* is the idle timer set?

socketVars == <<conn, told, creds, listeners, idle>>
feedVars == <<unionVars, socketVars>>

FeedTypeOK ==
  /\ UnionTypeOK
  /\ conn \in {"none", "dialing", "open", "closing"}
  /\ told \subseteq Tokens
  /\ creds \in BOOLEAN
  /\ listeners \subseteq Listeners
  /\ idle \in BOOLEAN

FeedInit ==
  /\ UnionInit
  /\ conn = "none" /\ told = {} /\ creds = FALSE
  /\ listeners = {} /\ idle = FALSE

SentWithoutRelease(removed, added) == told \cup added   \* fault: no unsubscribe frame

\* unsubscribe and sendSubscribe, on an open socket only.
Sent(removed, added) == (told \ removed) \cup added

\* startOrResubscribe: an open socket is told, an absent one is opened, a
\* socket being opened will be told everything when it is, and one that is
\* closing swallows the request.
Push(removed, added) ==
  /\ told' = IF conn = "open" THEN Sent(removed, added) ELSE told
  /\ conn' = IF conn = "none" THEN "dialing" ELSE conn

SubscribeItems(S) ==
  LET removed == ChainLeaves(S) IN
  /\ S # {}
  /\ ChainSync(S)
  /\ Push(removed, tokens' \ (tokens \ removed))
  /\ creds' = TRUE
  /\ UNCHANGED <<listeners, idle>>

\* With credentials of its own or remembered ones; even a basket that adds
\* nothing opens a missing socket.
SetBasketTokensItems(S, given) ==
  LET removed == BasketLeaves(S) IN
  /\ given \/ creds
  /\ BasketSync(S)
  /\ Push(removed, tokens' \ (tokens \ removed))
  /\ creds' = TRUE
  /\ UNCHANGED <<listeners, idle>>

AddClient(c) ==
  /\ c \notin listeners
  /\ listeners' = listeners \cup {c}
  /\ idle' = FALSE
  /\ UNCHANGED <<unionVars, conn, told, creds>>

IdleAfter(left) == left = {} \/ idle

RemoveClient(c) ==
  /\ c \in listeners
  /\ listeners' = listeners \ {c}
  /\ idle' = IdleAfter(listeners')
  /\ UNCHANGED <<unionVars, conn, told, creds>>

\* The idle timer, 5 s after the last listener left.
IdleClose ==
  /\ idle
  /\ idle' = FALSE
  /\ IF listeners = {}
       THEN Forget /\ conn' = "none" /\ told' = {} /\ creds' = FALSE
       ELSE UNCHANGED <<unionVars, conn, told, creds>>
  /\ UNCHANGED listeners

\* The open handler sends the snapshot of the union.
Snapshot == tokens

FeedOpened ==
  /\ conn = "dialing"
  /\ conn' = "open"
  /\ told' = Snapshot
  /\ UNCHANGED <<unionVars, creds, listeners, idle>>

\* The peer's close is known to the socket before the close event is delivered.
PeerCloses ==
  /\ conn = "open"
  /\ conn' = "closing"
  /\ told' = {}
  /\ UNCHANGED <<unionVars, creds, listeners, idle>>

\* close or error; nobody reconnects until the next request.
FeedDown ==
  /\ conn # "none"
  /\ conn' = "none"
  /\ told' = {}
  /\ UNCHANGED <<unionVars, creds, listeners, idle>>

FeedNext ==
  \/ \E S \in SUBSET Tokens :
       SubscribeItems(S) \/ \E given \in BOOLEAN : SetBasketTokensItems(S, given)
  \/ \E c \in Listeners : AddClient(c) \/ RemoveClient(c)
  \/ IdleClose \/ FeedOpened \/ PeerCloses \/ FeedDown

\* The idle timer fires, a dialed socket opens or fails, a closing one closes.
FeedSpec ==
  /\ FeedInit /\ [][FeedNext]_feedVars
  /\ WF_feedVars(IdleClose)
  /\ WF_feedVars(conn \in {"dialing", "closing"} /\ (FeedOpened \/ FeedDown))

-----------------------------------------------------------------------------
\* An open socket streams exactly the union, through chain and basket changes
\* made while it was being opened, closed or lost.
UpstreamIsUnion == conn = "open" => told = tokens
=============================================================================
