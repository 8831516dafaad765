----------------------------- MODULE AccountPanel -----------------------------
(***************************************************************************)
(* The account pickers behind the Positions, Order Book and Trade Book     *)
(* panels of the admin console (src/src/admin/tradepanel).  A panel        *)
(* fetches the accounts of a user, hydrates the chosen account into a      *)
(* client (its credentials and the session saved in the browser), loads    *)
(* the account's book from the broker once on its own, and then on the     *)
(* button, after a push and on a background timer.                         *)
(*                                                                         *)
(* React runs the effects of a state change after the render that made it: *)
(* an action below is a handler or an answer together with those effects,  *)
(* in their order of declaration, and an effect reads the values of that   *)
(* render, not the ones an earlier effect of the same commit has queued.   *)
(***************************************************************************)
EXTENDS Naturals, FiniteSets, Sequences, Functions

CONSTANTS
    Users, Accounts, None,
    ConfigsOf,          \* user -> sequence of the accounts configured for it
    Kind,               \* account -> its broker: "angel", "zerodha", "kotak" or another
    Panels,             \* the panels to look at: subset of {"positions", "orders", "trades"}
    MaxVer, MaxLoads    \* bounds: versions of a broker's book, loads in flight

ASSUME PanelAssumption ==
    /\ ConfigsOf \in [Users -> Seq(Accounts)] /\ None \notin Accounts \cup Users
    /\ DOMAIN Kind = Accounts /\ MaxVer \in Nat /\ MaxLoads \in Nat \ {0}
    /\ Panels \subseteq {"positions", "orders", "trades"}

VARIABLES
    panel,          \* which of the three panels this is
    user, listed, listing,   \* chosen user; accounts listed for it; is a list on its way
    cfg, client,    \* chosen account (configId); its hydrated client
    saved,          \* localStorage: account -> whose session is saved under its key
    rows,           \* where the rows on screen come from: [acct, ver]
    loading, autoLoaded,     \* the Loading state; autoLoadedAccountRef
    requests,       \* answers still to come that nothing has cancelled
    due,            \* silent refreshes scheduled by a push
    hidden,         \* document.hidden
    book            \* at the brokers: version of each account's book

panelVars == <<panel, user, listed, listing, cfg, client, saved, rows, loading,
               autoLoaded, requests, due, hidden, book>>

Supported(c) == Kind[c] \in {"angel", "zerodha", "kotak"}

\* A session of one broker does not carry the token another broker's calls need.
SessionReady(cl, c) == cl # None /\ cl.session # None /\ Kind[cl.session] = Kind[c]

\* the early returns of load
CanLoad(cl, c) == c \in listed /\ Supported(c) /\ SessionReady(cl, c)

LoadsInFlight == {r \in requests : r.what = "load"}
Load(c, cl, quiet) ==
    [what |-> "load", cfg |-> c, creds |-> cl.cfg, acct |-> cl.session, quiet |-> quiet, ver |-> None]

\* The auto-load effect of a commit that leaves account c, client cl, the loading
\* flag and the ref as given: it loads a ready account once.
AutoLoad(c, cl, ls, busy, done, reqs) ==
    LET starts == /\ c # None /\ c \in ls /\ Supported(c) /\ SessionReady(cl, c)
                  /\ ~busy /\ done # c
    IN  /\ autoLoaded' = IF starts THEN c ELSE done
        /\ loading' = (busy \/ starts)
        /\ requests' = reqs \cup IF starts THEN {Load(c, cl, FALSE)} ELSE {}

\* The effects of a new configId: the rows and the client are cleared and the new
\* account's credentials requested; the request for the old one is cancelled.  The
\* auto-load effect of the same commit still sees the old client.
GetKept(c, reqs) == reqs \cup {[what |-> "get", cfg |-> c]}   \* fault: the old request lives on
Get(c, reqs) ==
    {r \in reqs : r.what # "get"} \cup
    IF c # None /\ Supported(c) THEN {[what |-> "get", cfg |-> c]} ELSE {}
Hydrate(c, ls, reqs) ==
    /\ cfg' = c /\ rows' = {} /\ client' = None
    /\ AutoLoad(c, client, ls, loading, None, Get(c, reqs))

PanelInit ==
    /\ panel \in Panels
    /\ user \in Users /\ listed = {} /\ listing = TRUE
    /\ cfg = None /\ client = None /\ rows = {}
    /\ saved \in [Accounts -> Accounts \cup {None}]
    /\ \A c \in Accounts : saved[c] \in {c, None}
    /\ loading = FALSE /\ autoLoaded = None
    /\ requests = {[what |-> "list", user |-> user]}
    /\ due = 0 /\ hidden = FALSE
    /\ book = [c \in Accounts |-> 0]

\* Another user: its accounts are requested, the rows and the client cleared; the
\* chosen account stays until the list arrives.
ChooseUser(u) ==
    /\ u # user /\ user' = u
    /\ listing' = TRUE /\ rows' = {} /\ client' = None
    /\ requests' = {r \in requests : r.what # "list"} \cup {[what |-> "list", user |-> u]}
    /\ UNCHANGED <<panel, listed, cfg, saved, loading, autoLoaded, due, hidden, book>>

\* The list arrives: its first account is chosen, which is a new account only if it
\* was not the chosen one already.
Listed(r) ==
    /\ r \in requests /\ r.what = "list"
    /\ listed' = Range(ConfigsOf[r.user]) /\ listing' = FALSE
    /\ LET first == IF ConfigsOf[r.user] = <<>> THEN None ELSE Head(ConfigsOf[r.user])
       IN IF first # cfg THEN Hydrate(first, listed', requests \ {r})
          ELSE /\ AutoLoad(cfg, client, listed', loading, autoLoaded, requests \ {r})
               /\ UNCHANGED <<cfg, client, rows>>
    /\ UNCHANGED <<panel, user, saved, due, hidden, book>>

ListFailed(r) ==
    /\ r \in requests /\ r.what = "list"
    /\ requests' = requests \ {r} /\ listing' = FALSE
    /\ UNCHANGED <<panel, user, listed, cfg, client, saved, rows, loading,
                   autoLoaded, due, hidden, book>>

\* The account picker, disabled while a list is on its way.
ChooseAccount(c) ==
    /\ c \in listed /\ c # cfg /\ ~listing
    /\ Hydrate(c, listed, requests)
    /\ UNCHANGED <<panel, user, listed, listing, saved, due, hidden, book>>

\* The credentials arrive: the client is built with the session saved for the account.
Hydrated(r) ==
    /\ r \in requests /\ r.what = "get"
    /\ client' = [cfg |-> r.cfg, session |-> saved[r.cfg]]
    /\ AutoLoad(cfg, client', listed, loading, autoLoaded, requests \ {r})
    /\ UNCHANGED <<panel, user, listed, listing, cfg, saved, rows, due, hidden, book>>

\* The request fails, or the account misses a credential its broker needs.
NotHydrated(r) ==
    /\ r \in requests /\ r.what = "get"
    /\ requests' = requests \ {r}
    /\ UNCHANGED <<panel, user, listed, listing, cfg, client, saved, rows,
                   loading, autoLoaded, due, hidden, book>>

\* Get Positions, Get Orderbook, Get TradeBook and the empty table's button.
ButtonOn == ~loading /\ cfg \in listed /\ (Supported(cfg) => client # None)
PressLoad ==
    /\ ButtonOn /\ CanLoad(client, cfg)
    /\ Cardinality(LoadsInFlight) < MaxLoads
    /\ loading' = TRUE /\ requests' = requests \cup {Load(cfg, client, FALSE)}
    /\ UNCHANGED <<panel, user, listed, listing, cfg, client, saved, rows,
                   autoLoaded, due, hidden, book>>

\* loadRef.current({ silent: true })
SilentLoad ==
    requests' = requests \cup
        IF cfg # None /\ CanLoad(client, cfg) THEN {Load(cfg, client, TRUE)} ELSE {}

\* The backend reads the book of the account the session belongs to; Angel's logs in
\* with the client's credentials when the session is refused.
Serve(r) ==
    /\ r \in LoadsInFlight /\ r.ver = None
    /\ \E a \in {r.acct} \cup {x \in {r.creds} : Kind[x] = "angel" /\ Kind[r.acct] = "angel"} :
          requests' = (requests \ {r}) \cup {[r EXCEPT !.acct = a, !.ver = book[a]]}
    /\ UNCHANGED <<panel, user, listed, listing, cfg, client, saved, rows,
                   loading, autoLoaded, due, hidden, book>>

\* The answer of a load: the session is saved under the account the load was made
\* for, put into whatever client the panel has now, and the rows replace the rows.
BusyAfter(r) == loading /\ r.quiet
Landed(r) ==
    /\ r \in LoadsInFlight /\ r.ver # None
    /\ saved' = [saved EXCEPT ![r.cfg] = r.acct]
    /\ client' = IF client = None THEN None ELSE [client EXCEPT !.session = r.acct]
    /\ rows' = {[acct |-> r.acct, ver |-> r.ver]}
    /\ AutoLoad(cfg, client', listed, BusyAfter(r), autoLoaded, requests \ {r})
    /\ UNCHANGED <<panel, user, listed, listing, cfg, due, hidden, book>>

LoadFailed(r) ==
    /\ r \in LoadsInFlight
    /\ AutoLoad(cfg, client, listed, BusyAfter(r), autoLoaded, requests \ {r})
    /\ UNCHANGED <<panel, user, listed, listing, cfg, client, saved, rows, due,
                   hidden, book>>

\* The account trades: its book changes at the broker.
Trade(a) ==
    /\ book[a] < MaxVer /\ book' = [book EXCEPT ![a] = @ + 1]
    /\ UNCHANGED <<panel, user, listed, listing, cfg, client, saved, rows,
                   loading, autoLoaded, requests, due, hidden>>

\* Kotak's private stream runs on the client's session.  A filled order schedules
\* refreshes: two for positions, one for the books, each push restarting the timers.
Streaming == cfg \in listed /\ Kind[cfg] = "kotak" /\ SessionReady(client, cfg)
Timers == IF panel = "positions" THEN 2 ELSE 1
FillPushed ==
    /\ Streaming /\ due' = Timers
    /\ UNCHANGED <<panel, user, listed, listing, cfg, client, saved, rows,
                   loading, autoLoaded, requests, hidden, book>>

\* A position or an order on the stream is merged into the rows (positions, orders).
RowPushed ==
    /\ Streaming /\ panel # "trades"
    /\ rows' = rows \cup {[acct |-> client.session, ver |-> book[client.session]]}
    /\ due' = Timers
    /\ UNCHANGED <<panel, user, listed, listing, cfg, client, saved, loading,
                   autoLoaded, requests, hidden, book>>

\* A scheduled refresh, or the resync after the stream has reconnected.
Refresh ==
    /\ due > 0 \/ Streaming
    /\ Cardinality(LoadsInFlight) < MaxLoads
    /\ due' = IF due > 0 THEN due - 1 ELSE 0
    /\ SilentLoad
    /\ UNCHANGED <<panel, user, listed, listing, cfg, client, saved, rows,
                   loading, autoLoaded, hidden, book>>

\* Zerodha's order stream replaces the orders with those of the session's user.
OrdersPushed ==
    /\ panel = "orders" /\ cfg \in listed /\ Kind[cfg] = "zerodha" /\ SessionReady(client, cfg)
    /\ rows' = {[acct |-> client.session, ver |-> book[client.session]]}
    /\ UNCHANGED <<panel, user, listed, listing, cfg, client, saved, loading,
                   autoLoaded, requests, due, hidden, book>>

\* The background re-read of the two books, skipped while the tab is hidden.
BackgroundNever == FALSE      \* fault: the interval is never armed
BackgroundReads == hidden = FALSE
BackgroundTick ==
    /\ panel # "positions" /\ cfg \in listed /\ Supported(cfg) /\ BackgroundReads
    /\ Cardinality(LoadsInFlight) < MaxLoads
    /\ SilentLoad
    /\ UNCHANGED <<panel, user, listed, listing, cfg, client, saved, rows,
                   loading, autoLoaded, due, hidden, book>>

\* The tab is hidden, or shown again, which re-reads a book at once.
VisibilityChanged ==
    /\ hidden' = ~hidden
    /\ IF hidden /\ panel # "positions" THEN SilentLoad ELSE requests' = requests
    /\ Cardinality({r \in requests' : r.what = "load"}) <= MaxLoads
    /\ UNCHANGED <<panel, user, listed, listing, cfg, client, saved, rows,
                   loading, autoLoaded, due, book>>

Answered == \E r \in requests : Listed(r) \/ ListFailed(r) \/ Hydrated(r) \/ NotHydrated(r)
PanelNext ==
    \/ \E u \in Users : ChooseUser(u)
    \/ \E c \in Accounts : ChooseAccount(c) \/ Trade(c)
    \/ Answered
    \/ \E r \in requests : Serve(r) \/ Landed(r) \/ LoadFailed(r)
    \/ PressLoad \/ FillPushed \/ RowPushed \/ Refresh \/ OrdersPushed
    \/ BackgroundTick \/ VisibilityChanged

\* The interval fires, every request is answered in the end and not always by an error.
Served == \E r \in requests : Serve(r)
LoadLanded == \E r \in requests : Landed(r)
PanelSpec == PanelInit /\ [][PanelNext]_panelVars
    /\ WF_panelVars(BackgroundTick) /\ WF_panelVars(Answered)
    /\ SF_panelVars(Served) /\ SF_panelVars(LoadLanded)

-----------------------------------------------------------------------------
(* Properties *)

\* The client on the panel was built from the chosen account's credentials: what a
\* late answer for another account or another user brings is dropped (the cancelled
\* flags of the hydration effect).
CredsOfChosen == client # None => client.cfg = cfg

\* With no answer to come, the rows are the chosen account's: "the selected account's
\* positions", as the head of GetPositions.jsx says.
RowsAreChosens == requests = {} => \A x \in rows : x.acct = cfg

\* An order book or a trade book that stays on one logged-in account, in a visible
\* tab, shows the account's current book again and again, however loads overlap.
OnBook == panel # "positions" /\ ~hidden /\ cfg \in listed /\ CanLoad(client, cfg)
BookCatchesUp ==
    \A c \in Accounts :
        <>[](OnBook /\ cfg = c) => []<>(\E x \in rows : x.ver = book[x.acct])
=============================================================================
