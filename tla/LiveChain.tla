------------------------------- MODULE LiveChain -------------------------------
(***************************************************************************)
(* The option chain that streams over /ws/feed (OptionChain.jsx) and its   *)
(* pop-out window (useMiniChainFeed.js).  Both load a chain under a        *)
(* sequence number, ask for the Upstox tokens of its options, and point    *)
(* one WebSocket at the tokens of every broker whose adapter runs.  The    *)
(* page loads on a button and hydrates the chain further; the window loads *)
(* whatever is picked.                                                     *)
(*                                                                         *)
(* A chain stands for an underlying, an expiry and their tokens; what is   *)
(* subscribed for it is one item per broker.                               *)
(***************************************************************************)
EXTENDS Naturals, FiniteSets

CONSTANTS
    Ladders, NoLadder,  \* the chains
    SegmentOf,          \* chain -> exchange segment of its options
    Conns, NoConn,      \* identities of WebSockets
    MaxPicks,           \* bound: picks and loads of the user, adapters that change
    MaxDrops            \* bound: sockets the server closes

ASSUME LiveChainAssumption ==
    /\ Ladders # {} /\ NoLadder \notin Ladders /\ NoConn \notin Conns
    /\ DOMAIN SegmentOf = Ladders /\ {MaxPicks, MaxDrops} \subseteq Nat

VARIABLES
    view,               \* "page" or "window"; "left" once the page is unmounted
    picked, pickedSince,\* the chain selected; and those selected since the last load began
                        \* (history, for StreamFollows)
    loadSeq, chainLoads,\* loadSeqRef; loads under way
    onScreen,           \* the chain shown
    upTokens, extra,    \* the chains whose Upstox tokens and whose greeks are shown
    adapters,           \* wsBrokers: the adapters the last status poll named as running
    conn, wsRef,        \* sockets: "unused", "connecting", "open", "closing"; the current one
    subTokens,          \* subTokensRef: items [broker, of, segment]
    served,             \* socket -> items the server streams to it
    picks, drops

liveVars == <<view, picked, pickedSince, loadSeq, chainLoads, onScreen, upTokens, extra, adapters,
              conn, wsRef, subTokens, served, picks, drops>>
picking == <<picked, pickedSince>>
wire == <<conn, wsRef, subTokens, served>>
Feeding == {"angel", "upstox"}

LiveInit ==
    /\ view \in {"page", "window"} /\ picked = CHOOSE c \in Ladders : TRUE
    /\ pickedSince = {picked} /\ loadSeq = 0 /\ chainLoads = {} /\ onScreen = NoLadder /\ upTokens = NoLadder /\ extra = NoLadder
    /\ adapters = {} /\ conn = [n \in Conns |-> "unused"] /\ wsRef = NoConn
    /\ subTokens = {} /\ served = [n \in Conns |-> {}] /\ picks = 0 /\ drops = 0

\* What is subscribed for a chain: Angel's tokens when its adapter runs, Upstox's own
\* when its adapter runs and they have been mapped.  The page sends Angel's under the
\* segment of the symbol picked at the time, the window under the chain's own.
Segment(c, pick) == IF view = "window" THEN SegmentOf[c] ELSE SegmentOf[pick]
Subscribes(c, up, run, pick) ==
    {[broker |-> "angel", of |-> c, segment |-> Segment(c, pick)] : b \in run \cap {"angel"}}
    \cup {[broker |-> "upstox", of |-> up, segment |-> SegmentOf[up]] :
            b \in (run \cap {"upstox"}) \ {x \in Feeding : up = NoLadder}}

\* subscribeLive: a socket if the current one is not usable; the old items go and the
\* new ones come in frames on it, which a connecting socket sends on its opening.
Usable == wsRef # NoConn /\ conn[wsRef] \in {"connecting", "open"}
SubscribeLive(items) ==
    /\ subTokens' = items
    /\ IF Usable
       THEN /\ served' = IF conn[wsRef] = "open"
                           THEN [served EXCEPT ![wsRef] = (@ \ subTokens) \cup items] ELSE served
            /\ UNCHANGED <<conn, wsRef>>
       ELSE \E n \in Conns : /\ conn[n] = "unused"
                             /\ conn' = [conn EXCEPT ![n] = "connecting"] /\ wsRef' = n
                             /\ UNCHANGED served

\* The effect of a commit that changes the chain, the tokens or the adapters; it comes
\* after any call with the values of an older render and replaces what that one sent.
Resubscribe(c, up, run, pick) ==
    IF c = NoLadder THEN UNCHANGED wire ELSE SubscribeLive(Subscribes(c, up, run, pick))

Pick == picks < MaxPicks /\ picks' = picks + 1
StartLoad(c) ==
    /\ loadSeq' = loadSeq + 1
    /\ chainLoads' = chainLoads \cup {[seq |-> loadSeq + 1, of |-> c, stage |-> "chain"]}
    /\ onScreen' = NoLadder /\ upTokens' = NoLadder /\ extra' = NoLadder
    /\ pickedSince' = {c}

\* The page's symbol and expiry pickers and its LOAD button, which is disabled while
\* loading; an expiry picked loads at once, whatever is under way.
PickSymbol(c) ==
    /\ view = "page" /\ Pick /\ c # picked /\ picked' = c /\ pickedSince' = pickedSince \cup {c}
    /\ UNCHANGED <<view, loadSeq, chainLoads, onScreen, upTokens, extra,
                   adapters, wire, drops>>
LoadingChain == \E r \in chainLoads : r.stage = "chain" /\ r.seq = loadSeq
LoadChain ==
    /\ view = "page" /\ Pick /\ ~LoadingChain /\ StartLoad(picked)
    /\ UNCHANGED <<view, picked, adapters, wire, drops>>
PickExpiry(c) ==
    /\ view = "page" /\ Pick /\ picked' = c /\ SegmentOf[c] = SegmentOf[picked] /\ StartLoad(c)
    /\ UNCHANGED <<view, adapters, wire, drops>>
\* The window's effect of a symbol and an expiry.
PickInWindow(c) ==
    /\ view = "window" /\ Pick /\ (c # picked \/ loadSeq = 0) /\ picked' = c /\ StartLoad(c)
    /\ UNCHANGED <<view, adapters, wire, drops>>

CurrentAny(r) == TRUE     \* fault: an overtaken load goes on
Current(r) == r.seq = loadSeq
AfterLoad(r, stages) == (chainLoads \ {r}) \cup {[r EXCEPT !.stage = s] : s \in stages}

\* The chain's answer shows it, subscribes its Angel tokens and asks for the Upstox
\* tokens (and, on the page, for the greeks).  A page that was left subscribes all the
\* same, on a socket that nothing closes.
ChainAnswered(r) ==
    /\ r \in chainLoads /\ r.stage = "chain"
    /\ IF ~Current(r) THEN chainLoads' = chainLoads \ {r} /\ UNCHANGED <<onScreen, wire>>
       ELSE IF view = "left" THEN /\ chainLoads' = AfterLoad(r, {"map"}) /\ UNCHANGED onScreen
                                  /\ SubscribeLive(Subscribes(r.of, NoLadder, adapters, r.of))
       ELSE /\ chainLoads' = AfterLoad(r, {"map"}) /\ onScreen' = r.of
            /\ Resubscribe(r.of, upTokens, adapters, picked)
    /\ UNCHANGED <<view, picking, loadSeq, upTokens, extra, adapters, picks, drops>>
ChainRefused(r) ==
    /\ r \in chainLoads /\ r.stage = "chain" /\ chainLoads' = chainLoads \ {r}
    /\ UNCHANGED <<view, picking, loadSeq, onScreen, upTokens, extra, adapters,
                   wire, picks, drops>>

\* hydrateChain: the Upstox tokens, or none when the mapping fails, then the greeks.
TokensMapped(r) ==
    /\ r \in chainLoads /\ r.stage = "map"
    /\ chainLoads' = AfterLoad(r, IF view = "page" /\ Current(r) THEN {"extra"} ELSE {})
    /\ \E up \in {r.of, NoLadder} :
        IF ~Current(r) THEN UNCHANGED <<upTokens, wire>>
        ELSE IF view = "left"
          THEN UNCHANGED upTokens /\ SubscribeLive(Subscribes(r.of, up, adapters, r.of))
        ELSE upTokens' = up /\ Resubscribe(onScreen, up, adapters, picked)
    /\ UNCHANGED <<view, picking, loadSeq, onScreen, extra, adapters, picks, drops>>
ExtraAnswered(r) ==
    /\ r \in chainLoads /\ r.stage = "extra" /\ chainLoads' = chainLoads \ {r}
    /\ IF Current(r) /\ onScreen = r.of /\ view = "page"
       THEN extra' = r.of /\ Resubscribe(onScreen, upTokens, adapters, picked)
       ELSE UNCHANGED <<extra, wire>>
    /\ UNCHANGED <<view, picking, loadSeq, onScreen, upTokens, adapters, picks, drops>>

\* Every five seconds the adapters that run.  The page subscribes again only when they
\* have changed, the window every time.
PollsOnChange(run) == view # "left" /\ run # adapters     \* fault: the window's effect too
Polls(run) == view = "window" \/ (view = "page" /\ run # adapters)
StatusPolled(run) ==
    /\ Polls(run) /\ adapters' = run
    /\ IF run = adapters THEN UNCHANGED picks ELSE Pick
    /\ Resubscribe(onScreen, upTokens, run, picked)
    /\ UNCHANGED <<view, picking, loadSeq, chainLoads, onScreen, upTokens, extra, drops>>

\* The page's LIVE FEED chips: another broker's price is preferred, and the effect of the
\* running brokers runs again.
PreferFeed ==
    /\ view = "page" /\ Pick /\ Resubscribe(onScreen, upTokens, adapters, picked)
    /\ UNCHANGED <<view, picking, loadSeq, chainLoads, onScreen, upTokens, extra, adapters, drops>>

\* onopen subscribes what is wanted by then.
NothingOnOpen == {}     \* fault: what was asked for while connecting is not sent
SentOnOpen == subTokens
SocketOpened(n) ==
    /\ conn[n] = "connecting" /\ conn' = [conn EXCEPT ![n] = "open"]
    /\ served' = [served EXCEPT ![n] = SentOnOpen]
    /\ UNCHANGED <<view, picking, loadSeq, chainLoads, onScreen, upTokens, extra,
                   adapters, wsRef, subTokens, picks, drops>>

\* The server closes a socket, at once or with a closing handshake; the close event
\* clears the reference, also when it is to another socket by then.
Drop == drops < MaxDrops /\ drops' = drops + 1
SocketCloses(n) ==
    /\ Drop /\ conn[n] = "open" /\ conn' = [conn EXCEPT ![n] = "closing"]
    /\ served' = [served EXCEPT ![n] = {}]
    /\ UNCHANGED <<view, picking, loadSeq, chainLoads, onScreen, upTokens, extra,
                   adapters, wsRef, subTokens, picks>>
SocketClosed(n) ==
    /\ \/ conn[n] = "closing" /\ UNCHANGED drops
       \/ conn[n] \in {"connecting", "open"} /\ Drop
    /\ conn' = [conn EXCEPT ![n] = "unused"] /\ served' = [served EXCEPT ![n] = {}]
    /\ wsRef' = NoConn
    /\ UNCHANGED <<view, picking, loadSeq, chainLoads, onScreen, upTokens, extra,
                   adapters, subTokens, picks>>

\* Leaving the page closes the current socket; requests under way are not cancelled.
Unmount ==
    /\ view = "page" /\ Pick /\ view' = "left"
    /\ onScreen' = NoLadder /\ upTokens' = NoLadder /\ extra' = NoLadder
    /\ IF Usable THEN /\ conn' = [conn EXCEPT ![wsRef] = "closing"]
                      /\ served' = [served EXCEPT ![wsRef] = {}]
       ELSE UNCHANGED <<conn, served>>
    /\ UNCHANGED <<picking, loadSeq, chainLoads, adapters, wsRef, subTokens, drops>>

LiveNext ==
    \/ \E c \in Ladders : PickSymbol(c) \/ PickExpiry(c) \/ PickInWindow(c)
    \/ LoadChain \/ Unmount \/ PreferFeed
    \/ \E r \in chainLoads : ChainAnswered(r) \/ ChainRefused(r) \/ TokensMapped(r) \/ ExtraAnswered(r)
    \/ \E run \in SUBSET Feeding : StatusPolled(run)
    \/ \E n \in Conns : SocketOpened(n) \/ SocketCloses(n) \/ SocketClosed(n)

\* Status polls go on, and sockets open and close in the end.
PollsAgain == StatusPolled(adapters)
LiveSpec == LiveInit /\ [][LiveNext]_liveVars /\ WF_liveVars(PollsAgain)
    /\ \A n \in Conns : /\ WF_liveVars(SocketOpened(n))
                        /\ WF_liveVars(conn[n] = "closing" /\ SocketClosed(n))

-----------------------------------------------------------------------------
(* Properties *)

\* "each broker MUST get ITS OWN tokens": the Upstox tokens and the greeks, which are
\* read by row number, are those of the chain on screen, whatever load they came from.
TokensAreTheChains == {upTokens, extra} \subseteq {NoLadder, onScreen}

\* The current socket, once open, is streamed what was asked for last, through reconnects
\* and whatever was asked before it opened; and with a chain on screen that is the chain, of
\* every adapter that runs and has its tokens, and nothing else.  Upstox is asked for it
\* under its own segment.  Angel is too, unless the user of the page has picked a symbol of
\* another segment since the chain was asked for (OptionChain.jsx:471).
StreamFollows ==
    wsRef # NoConn /\ conn[wsRef] = "open" =>
        /\ served[wsRef] = subTokens
        /\ onScreen # NoLadder =>
             \E own \in {SegmentOf[onScreen]}
                        \cup (IF view = "window" THEN {} ELSE {SegmentOf[c] : c \in pickedSince}) :
               subTokens = [broker : adapters \cap {"angel"}, of : {onScreen}, segment : {own}]
                 \cup [broker : adapters \cap {"upstox"}, of : {onScreen} \cap {upTokens},
                        segment : {SegmentOf[onScreen]}]

\* The window comes back from a lost socket by its next status poll.
WindowRecovers ==
    \A c \in Ladders :
        <>[](view = "window" /\ onScreen = c) => <>[](wsRef # NoConn /\ conn[wsRef] = "open")
=============================================================================
