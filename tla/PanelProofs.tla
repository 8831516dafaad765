----------------------------- MODULE PanelProofs -----------------------------
(***************************************************************************)
(* What holds of the account panels of the admin console, of their tables  *)
(* and of the older page's account table whatever the accounts, the users, *)
(* the orders and the positions: the client of a panel is the chosen       *)
(* account's and its loads never get stuck (AccountPanel), no order has    *)
(* two rows and fills add up (OrderTables), no leg is a position nobody    *)
(* ticked and groups add up (PositionsTable), a login is requested for     *)
(* every account enabled in the shared table (ClientTable), and no refresh *)
(* of the older page's books is refused for ever (LegacyBooks).            *)
(*                                                                         *)
(* TableCore says what ticked keys name, NeverStuck and RefreshGoesOn what *)
(* a flag that is up waits for, HandsFree follows a login that is owed to  *)
(* the run that will make it.                                              *)
(***************************************************************************)
EXTENDS AccountPanel, PositionsTable, OrderTables, LegacyBooks, ClientTable, FiniteSetTheorems,
        SequenceTheorems, NaturalsInduction, WellFoundedInduction, TLAPS

(* The client on the panel *)

Clients == [cfg: Accounts, session: Accounts \cup {None}]
ListRequests == [what: {"list"}, user: Users]
GetRequests == [what: {"get"}, cfg: Accounts]
LoadRequests ==
    [what: {"load"}, cfg: Accounts, creds: Accounts, acct: Accounts, quiet: BOOLEAN,
     ver: Nat \cup {None}]
PanelRequests == ListRequests \cup GetRequests \cup LoadRequests

PanelTypes ==
    /\ user \in Users /\ listed \subseteq Accounts
    /\ cfg \in Accounts \cup {None} /\ client \in Clients \cup {None}
    /\ saved \in [Accounts -> Accounts \cup {None}]
    /\ requests \subseteq PanelRequests
    /\ book \in [Accounts -> Nat]

\* A request for credentials that nothing has cancelled is for the chosen account.
GetsOfChosen == \A r \in requests : r.what = "get" => r.cfg = cfg

PanelCore == PanelTypes /\ GetsOfChosen /\ CredsOfChosen

\* The configurations of a user are accounts, the first of them included.
LEMMA FirstListed ==
    ASSUME NEW u \in Users
    PROVE  /\ Range(ConfigsOf[u]) \subseteq Accounts
           /\ ConfigsOf[u] # <<>> => Head(ConfigsOf[u]) \in Accounts
<1>1. ConfigsOf[u] \in Seq(Accounts)
  BY PanelAssumption
<1>2. Range(ConfigsOf[u]) \subseteq Accounts
  BY <1>1 DEF Range
<1>3. ConfigsOf[u] # <<>> => Head(ConfigsOf[u]) \in Accounts
  BY <1>1
<1> QED  BY <1>2, <1>3

\* The auto-load effect adds at most a load.
LEMMA AutoLoadAdds ==
    ASSUME NEW c, NEW cl \in Clients \cup {None}, NEW ls \in SUBSET Accounts, NEW busy, NEW done,
           NEW reqs \in SUBSET PanelRequests, AutoLoad(c, cl, ls, busy, done, reqs)
    PROVE  requests' \subseteq PanelRequests /\ requests' \subseteq reqs \cup LoadRequests
<1>1. ASSUME c \in ls, SessionReady(cl, c) PROVE Load(c, cl, FALSE) \in LoadRequests
  BY <1>1 DEF SessionReady, Load, LoadRequests, Clients
<1> QED  BY <1>1 DEF AutoLoad, PanelRequests

\* A silent refresh adds at most a load.
LEMMA QuietLoadAdds ==
    ASSUME PanelTypes, SilentLoad
    PROVE  requests' \subseteq PanelRequests /\ requests' \subseteq requests \cup LoadRequests
<1>1. ASSUME CanLoad(client, cfg) PROVE Load(cfg, client, TRUE) \in LoadRequests
  BY <1>1 DEF PanelTypes, CanLoad, SessionReady, Load, LoadRequests, Clients
<1> QED  BY <1>1 DEF SilentLoad, PanelTypes, PanelRequests

\* A load is no request for credentials.
LEMMA LoadsAskForNothing == \A r \in LoadRequests : r.what = "load"
BY DEF LoadRequests

\* The panel opens with no account and no client.
LEMMA PanelBegins == PanelInit => PanelCore
<1> SUFFICES ASSUME PanelInit PROVE PanelCore
  OBVIOUS
<1>1. saved \in [Accounts -> Accounts \cup {None}]
  BY DEF PanelInit
<1>2. requests \subseteq PanelRequests /\ \A r \in requests : r.what = "list"
  BY DEF PanelInit, PanelRequests, ListRequests
<1>3. book \in [Accounts -> Nat]
  BY DEF PanelInit
<1> QED  BY <1>1, <1>2, <1>3 DEF PanelInit, PanelCore, PanelTypes, GetsOfChosen, CredsOfChosen

\* Every handler and every answer, with its effects, keeps PanelCore.
LEMMA PanelStays == PanelCore /\ [PanelNext]_panelVars => PanelCore'
<1> SUFFICES ASSUME PanelCore, [PanelNext]_panelVars PROVE PanelCore'
  OBVIOUS
<1> USE DEF PanelCore
\* Requests that ask for no other credentials than before.
<1>1. ASSUME requests' \subseteq PanelRequests, requests' \subseteq requests \cup LoadRequests,
             UNCHANGED <<user, listed, cfg, client, saved, book>>
      PROVE  PanelCore'
  BY <1>1, LoadsAskForNothing DEF PanelTypes, GetsOfChosen, CredsOfChosen
<1>2. ASSUME NEW u \in Users, ChooseUser(u) PROVE PanelCore'
  <2>1. [what |-> "list", user |-> u] \in ListRequests
    BY DEF ListRequests
  <2>2. requests' \subseteq PanelRequests /\ \A r \in requests' : r.what = "get" => r \in requests
    BY <1>2, <2>1 DEF ChooseUser, PanelTypes, PanelRequests
  <2> QED  BY <1>2, <2>2 DEF ChooseUser, PanelTypes, GetsOfChosen, CredsOfChosen
\* A new account: its credentials are the only ones asked for.
<1>3. ASSUME NEW c \in Accounts \cup {None}, NEW ls \in SUBSET Accounts,
             NEW reqs \in SUBSET PanelRequests, Hydrate(c, ls, reqs),
             user' \in Users, listed' \subseteq Accounts, UNCHANGED <<saved, book>>
      PROVE  PanelCore'
  <2>1. c # None => [what |-> "get", cfg |-> c] \in GetRequests
    BY DEF GetRequests
  <2>2. Get(c, reqs) \subseteq PanelRequests /\ \A r \in Get(c, reqs) : r.what = "get" => r.cfg = c
    BY <2>1 DEF Get, PanelRequests
  <2>3. requests' \subseteq PanelRequests /\ requests' \subseteq Get(c, reqs) \cup LoadRequests
    BY <1>3, <2>2, AutoLoadAdds DEF Hydrate, PanelTypes
  <2> QED  BY <1>3, <2>2, <2>3, LoadsAskForNothing
           DEF Hydrate, PanelTypes, GetsOfChosen, CredsOfChosen
<1>4. ASSUME NEW r \in requests, Listed(r) PROVE PanelCore'
  <2>1. r \in ListRequests
    BY <1>4 DEF Listed, PanelTypes, PanelRequests, GetRequests, LoadRequests
  <2>2. r.user \in Users
    BY <2>1 DEF ListRequests
  <2> DEFINE first == IF ConfigsOf[r.user] = <<>> THEN None ELSE Head(ConfigsOf[r.user])
  <2>3. first \in Accounts \cup {None} /\ listed' \subseteq Accounts
    <3>1. listed' = Range(ConfigsOf[r.user])
      BY <1>4 DEF Listed
    <3>2. Range(ConfigsOf[r.user]) \subseteq Accounts
      BY <2>2, FirstListed
    <3>3. ConfigsOf[r.user] # <<>> => Head(ConfigsOf[r.user]) \in Accounts
      BY <2>2, FirstListed
    <3> QED  BY <3>1, <3>2, <3>3
  <2>4. requests \ {r} \subseteq PanelRequests /\ user' \in Users /\ UNCHANGED <<saved, book>>
    BY <1>4 DEF Listed, PanelTypes
  <2>5. CASE first # cfg
    <3>1. Hydrate(first, listed', requests \ {r})
      BY <1>4, <2>5 DEF Listed
    <3> HIDE DEF first
    <3> QED  BY <1>3, <2>3, <2>4, <3>1
  <2>6. CASE first = cfg
    <3>1. AutoLoad(cfg, client, listed', loading, autoLoaded, requests \ {r})
          /\ UNCHANGED <<cfg, client>>
      BY <1>4, <2>6 DEF Listed
    <3>2. requests' \subseteq PanelRequests /\ requests' \subseteq (requests \ {r}) \cup LoadRequests
      BY <2>3, <2>4, <3>1, AutoLoadAdds DEF PanelTypes
    <3> QED  BY <2>3, <2>4, <3>1, <3>2, LoadsAskForNothing
             DEF PanelTypes, GetsOfChosen, CredsOfChosen
  <2> QED  BY <2>5, <2>6
<1>5. ASSUME NEW r \in requests, ListFailed(r) \/ NotHydrated(r) PROVE PanelCore'
  BY <1>1, <1>5 DEF ListFailed, NotHydrated, PanelTypes
<1>6. ASSUME NEW c \in Accounts, ChooseAccount(c) PROVE PanelCore'
  BY <1>3, <1>6 DEF ChooseAccount, PanelTypes
<1>7. ASSUME NEW r \in requests, Hydrated(r) PROVE PanelCore'
  <2>1. r \in GetRequests /\ r.cfg = cfg
    BY <1>7 DEF Hydrated, PanelTypes, PanelRequests, ListRequests, LoadRequests, GetsOfChosen
  <2>2. client' \in Clients /\ client'.cfg = cfg
    BY <1>7, <2>1 DEF Hydrated, PanelTypes, GetRequests, Clients
  <2>3. requests' \subseteq PanelRequests /\ requests' \subseteq (requests \ {r}) \cup LoadRequests
    BY <1>7, <2>2, AutoLoadAdds DEF Hydrated, PanelTypes
  <2> QED  BY <1>7, <2>2, <2>3, LoadsAskForNothing
           DEF Hydrated, PanelTypes, GetsOfChosen, CredsOfChosen
<1>8. ASSUME NEW c \in Accounts, Trade(c) PROVE PanelCore'
  BY <1>8 DEF Trade, PanelTypes, GetsOfChosen, CredsOfChosen
<1>9. ASSUME NEW r \in requests, Serve(r) PROVE PanelCore'
  <2>1. r \in LoadRequests
    BY <1>9 DEF Serve, LoadsInFlight, PanelTypes, PanelRequests, ListRequests, GetRequests
  <2>2. PICK a \in Accounts : requests' = (requests \ {r}) \cup {[r EXCEPT !.acct = a, !.ver = book[a]]}
    BY <1>9, <2>1 DEF Serve, LoadRequests
  <2>3. [r EXCEPT !.acct = a, !.ver = book[a]] \in LoadRequests
    BY <2>1 DEF LoadRequests, PanelTypes
  <2> QED  BY <1>1, <1>9, <2>2, <2>3 DEF Serve, PanelTypes, PanelRequests
<1>10. ASSUME NEW r \in requests, Landed(r) PROVE PanelCore'
  <2>1. r \in LoadRequests
    BY <1>10 DEF Landed, LoadsInFlight, PanelTypes, PanelRequests, ListRequests, GetRequests
  <2>2. r.cfg \in Accounts /\ r.acct \in Accounts
    BY <2>1 DEF LoadRequests
  <2>3. client' \in Clients \cup {None} /\ (client' # None => client # None /\ client'.cfg = client.cfg)
    BY <1>10, <2>2 DEF Landed, PanelTypes, Clients
  <2>4. saved' \in [Accounts -> Accounts \cup {None}]
    BY <1>10, <2>2 DEF Landed, PanelTypes
  <2>5. requests' \subseteq PanelRequests /\ requests' \subseteq (requests \ {r}) \cup LoadRequests
    BY <1>10, <2>3, AutoLoadAdds DEF Landed, PanelTypes
  <2> QED  BY <1>10, <2>3, <2>4, <2>5, LoadsAskForNothing
           DEF Landed, PanelTypes, GetsOfChosen, CredsOfChosen
<1>11. ASSUME NEW r \in requests, LoadFailed(r) PROVE PanelCore'
  <2>1. requests' \subseteq PanelRequests /\ requests' \subseteq (requests \ {r}) \cup LoadRequests
    BY <1>11, AutoLoadAdds DEF LoadFailed, PanelTypes
  <2> QED  BY <1>1, <1>11, <2>1 DEF LoadFailed
<1>12. CASE PressLoad
  <2>1. Load(cfg, client, FALSE) \in LoadRequests
    BY <1>12 DEF PressLoad, CanLoad, SessionReady, Load, LoadRequests, PanelTypes, Clients
  <2> QED  BY <1>1, <1>12, <2>1 DEF PressLoad, PanelTypes, PanelRequests
<1>13. CASE FillPushed \/ RowPushed \/ OrdersPushed
  BY <1>13 DEF FillPushed, RowPushed, OrdersPushed, PanelTypes, GetsOfChosen, CredsOfChosen
<1>14. CASE Refresh \/ BackgroundTick
  BY <1>1, <1>14, QuietLoadAdds DEF Refresh, BackgroundTick
<1>15. CASE VisibilityChanged
  <2>1. requests' \subseteq PanelRequests /\ requests' \subseteq requests \cup LoadRequests
    BY <1>15, QuietLoadAdds DEF VisibilityChanged, PanelTypes
  <2> QED  BY <1>1, <1>15, <2>1 DEF VisibilityChanged
<1>16. CASE UNCHANGED panelVars
  BY <1>16 DEF panelVars, PanelTypes, GetsOfChosen, CredsOfChosen
<1> QED  BY <1>2, <1>4, <1>5, <1>6, <1>7, <1>8, <1>9, <1>10, <1>11, <1>12, <1>13, <1>14, <1>15,
            <1>16 DEF PanelNext, Answered

\* The client on a panel was built from the credentials of the account that is chosen,
\* whatever users, accounts and answers come in whatever order: a request for another
\* account's is cancelled with the choice that made it.
THEOREM ClientsAreTheChosens == PanelSpec => []CredsOfChosen
<1>1. PanelCore => CredsOfChosen
  BY DEF PanelCore
<1> QED  BY <1>1, PanelBegins, PanelStays, PTL DEF PanelSpec

-----------------------------------------------------------------------------
(* The loads of a panel *)

\* The loads that show Loading.
Louds(reqs) == {r \in reqs : r.what = "load" /\ ~r.quiet}

\* The flag is up exactly while a load that shows Loading is under way, and no two are.
Told(reqs, busy) ==
    /\ busy = (Louds(reqs) # {})
    /\ \A r, s \in Louds(reqs) : r = s

\* A panel is never stuck: Loading, which disables its button and holds back the effect
\* that loads on its own, goes with the answer it waits for; and when it is not up, an
\* account that is ready has been loaded without the button (autoLoadedAccountRef), after
\* whatever choices, lists and answers (GetPositions.jsx, GetOrderBook.jsx, GetTradeBook.jsx).
NeverStuck ==
    /\ Told(requests, loading)
    /\ cfg # None /\ CanLoad(client, cfg) /\ ~loading => autoLoaded = cfg

\* The auto-load effect starts a load only if none shows Loading, and tells so.
LEMMA AutoLoadTells ==
    ASSUME NEW c, NEW cl, NEW ls, NEW busy, NEW done, NEW reqs,
           Told(reqs, busy), AutoLoad(c, cl, ls, busy, done, reqs)
    PROVE  /\ Told(requests', loading')
           /\ c # None /\ c \in ls /\ Supported(c) /\ SessionReady(cl, c) /\ ~loading' => autoLoaded' = c
<1> DEFINE starts == /\ c # None /\ c \in ls /\ Supported(c) /\ SessionReady(cl, c)
                     /\ ~busy /\ done # c
           new == Load(c, cl, FALSE)
<1>1. /\ autoLoaded' = (IF starts THEN c ELSE done) /\ loading' = (busy \/ starts)
      /\ requests' = reqs \cup (IF starts THEN {new} ELSE {})
  BY DEF AutoLoad
<1>2. new.what = "load" /\ ~new.quiet
  BY DEF Load
<1>3. CASE starts
  <2>1. requests' = reqs \cup {new} /\ loading' = TRUE /\ autoLoaded' = c /\ Louds(reqs) = {}
    BY <1>1, <1>3 DEF Told
  <2> HIDE DEF new, starts
  <2>2. Louds(requests') = {new}
    BY <1>2, <2>1 DEF Louds
  <2> QED  BY <2>1, <2>2 DEF Told
<1>4. CASE ~starts
  <2>1. requests' = reqs /\ loading' = busy /\ autoLoaded' = done
    BY <1>1, <1>4 DEF Told
  <2> QED  BY <1>4, <2>1
<1> QED  BY <1>3, <1>4

\* An answer that is not a load's, or is a silent one's, leaves the flag true; the answer of
\* the load that shows Loading takes it down.
LEMMA AnswerTells ==
    ASSUME NEW r \in requests, Told(requests, loading)
    PROVE  /\ r.what # "load" => Told(requests \ {r}, loading)
           /\ r.what = "load" /\ r.quiet \in BOOLEAN => Told(requests \ {r}, BusyAfter(r))
<1>1. CASE r \in Louds(requests)
  <2>1. Louds(requests \ {r}) = {} /\ r.what = "load" /\ ~r.quiet
    BY <1>1 DEF Told, Louds
  <2> QED  BY <2>1 DEF Told, BusyAfter
<1>2. CASE r \notin Louds(requests)
  <2>1. Louds(requests \ {r}) = Louds(requests)
    BY <1>2 DEF Louds
  <2>2. loading \in BOOLEAN
    BY DEF Told
  <2> QED  BY <1>2, <2>1, <2>2 DEF Told, BusyAfter, Louds
<1> QED  BY <1>1, <1>2

\* A silent refresh does not show.
LEMMA QuietLoadTells == SilentLoad => Louds(requests') = Louds(requests)
<1> SUFFICES ASSUME SilentLoad PROVE Louds(requests') = Louds(requests)
  OBVIOUS
<1> DEFINE new == Load(cfg, client, TRUE)
<1>1. new.quiet = TRUE
  BY DEF Load
<1>2. requests' = requests \/ requests' = requests \cup {new}
  BY DEF SilentLoad
<1> HIDE DEF new
<1> QED  BY <1>1, <1>2 DEF Louds

\* Every handler and every answer, with its effects, keeps a panel from being stuck.
LEMMA LoadsStay == PanelCore /\ NeverStuck /\ [PanelNext]_panelVars => NeverStuck'
<1> SUFFICES ASSUME PanelCore, NeverStuck, [PanelNext]_panelVars PROVE NeverStuck'
  OBVIOUS
<1>0. Told(requests, loading) /\ requests \subseteq PanelRequests
  BY DEF NeverStuck, PanelCore, PanelTypes
<1>1. ASSUME Louds(requests') = Louds(requests), UNCHANGED <<listed, cfg, client, loading, autoLoaded>>
      PROVE  NeverStuck'
  BY <1>0, <1>1 DEF NeverStuck, Told, CanLoad
<1>2. ASSUME NEW c, NEW cl, NEW ls, NEW busy, NEW done, NEW reqs, Told(reqs, busy),
             AutoLoad(c, cl, ls, busy, done, reqs), cfg' = c, listed' = ls, client' \in {cl, None}
      PROVE  NeverStuck'
  <2>1. /\ Told(requests', loading')
        /\ c # None /\ c \in ls /\ Supported(c) /\ SessionReady(cl, c) /\ ~loading' => autoLoaded' = c
    BY <1>2, AutoLoadTells
  <2>2. CanLoad(client, cfg)' => c \in ls /\ Supported(c) /\ SessionReady(cl, c)
    BY <1>2 DEF CanLoad, SessionReady
  <2> QED  BY <1>2, <2>1, <2>2 DEF NeverStuck
<1>3. ASSUME NEW u \in Users, ChooseUser(u) PROVE NeverStuck'
  <2>1. /\ Louds(requests') = Louds(requests) /\ client' = None /\ UNCHANGED loading
    <3> DEFINE new == [what |-> "list", user |-> u]
    <3>1. new.what = "list" /\ requests' = {r \in requests : r.what # "list"} \cup {new}
      BY <1>3 DEF ChooseUser
    <3> HIDE DEF new
    <3> QED  BY <1>3, <3>1 DEF ChooseUser, Louds
  <2> QED  BY <1>0, <2>1 DEF NeverStuck, Told, CanLoad, SessionReady
<1>4. ASSUME NEW c, NEW reqs, Told(reqs, loading), Hydrate(c, listed', reqs) PROVE NeverStuck'
  <2> DEFINE new == [what |-> "get", cfg |-> c]
  <2>1. new.what = "get" /\ Get(c, reqs) \subseteq {r \in reqs : r.what # "get"} \cup {new}
    BY DEF Get
  <2>2. {r \in reqs : r.what # "get"} \subseteq Get(c, reqs)
    BY DEF Get
  <2> HIDE DEF new
  <2>3. Louds(Get(c, reqs)) = Louds(reqs)
    BY <2>1, <2>2 DEF Louds
  <2>4. Told(Get(c, reqs), loading)
    BY <1>4, <2>3 DEF Told
  <2> QED  BY <1>2, <1>4, <2>4 DEF Hydrate
<1>5. ASSUME NEW r \in requests, Listed(r) PROVE NeverStuck'
  <2>1. Told(requests \ {r}, loading)
    BY <1>0, <1>5, AnswerTells DEF Listed
  <2> DEFINE first == IF ConfigsOf[r.user] = <<>> THEN None ELSE Head(ConfigsOf[r.user])
  <2>2. CASE first # cfg
    <3>1. Hydrate(first, listed', requests \ {r})
      BY <1>5, <2>2 DEF Listed
    <3> HIDE DEF first
    <3> QED  BY <1>4, <2>1, <3>1
  <2>3. CASE first = cfg
    <3>1. AutoLoad(cfg, client, listed', loading, autoLoaded, requests \ {r})
          /\ UNCHANGED <<cfg, client>>
      BY <1>5, <2>3 DEF Listed
    <3> QED  BY <1>2, <2>1, <3>1
  <2> QED  BY <2>2, <2>3
<1>6. ASSUME NEW r \in requests, ListFailed(r) \/ NotHydrated(r) PROVE NeverStuck'
  <2>1. Louds(requests') = Louds(requests)
    BY <1>6 DEF ListFailed, NotHydrated, Louds
  <2> QED  BY <1>1, <1>6, <2>1 DEF ListFailed, NotHydrated
<1>7. ASSUME NEW c \in Accounts, ChooseAccount(c) PROVE NeverStuck'
  <2>1. Hydrate(c, listed', requests)
    BY <1>7 DEF ChooseAccount
  <2> QED  BY <1>0, <1>4, <2>1
<1>8. ASSUME NEW r \in requests, Hydrated(r) PROVE NeverStuck'
  <2>1. Told(requests \ {r}, loading)
    BY <1>0, <1>8, AnswerTells DEF Hydrated
  <2>2. /\ AutoLoad(cfg, client', listed, loading, autoLoaded, requests \ {r})
        /\ UNCHANGED <<listed, cfg>>
    BY <1>8 DEF Hydrated
  <2> QED  BY <1>2, <2>1, <2>2
<1>9. ASSUME NEW c \in Accounts, Trade(c) PROVE NeverStuck'
  BY <1>1, <1>9 DEF Trade
<1>10. ASSUME NEW r \in LoadsInFlight
       PROVE  r \in requests /\ r \in LoadRequests /\ Told(requests \ {r}, BusyAfter(r))
  <2>1. r \in requests /\ r.what = "load"
    BY <1>10 DEF LoadsInFlight
  <2>2. r \in LoadRequests
    BY <1>0, <2>1 DEF PanelRequests, ListRequests, GetRequests
  <2>3. r.quiet \in BOOLEAN
    BY <2>2 DEF LoadRequests
  <2> QED  BY <1>0, <2>1, <2>2, <2>3, AnswerTells
<1>11. ASSUME NEW r \in requests, Serve(r) PROVE NeverStuck'
  <2>1. r \in LoadsInFlight /\ r \in LoadRequests
    BY <1>10, <1>11 DEF Serve
  <2>2. PICK a : requests' = (requests \ {r}) \cup {[r EXCEPT !.acct = a, !.ver = book[a]]}
    BY <1>11 DEF Serve
  <2> DEFINE new == [r EXCEPT !.acct = a, !.ver = book[a]]
  <2>3. new.what = "load" /\ r.what = "load" /\ new.quiet = r.quiet
    BY <2>1 DEF LoadRequests
  <2> HIDE DEF new
  <2>4. Told(requests', loading)
    <3>1. CASE r.quiet
      <4>1. Louds(requests') = Louds(requests)
        BY <2>2, <2>3, <3>1 DEF Louds, new
      <4> QED  BY <1>0, <4>1 DEF Told
    <3>2. CASE ~r.quiet
      <4>1. \A s \in Louds(requests) : s = r
        BY <1>0, <2>3, <3>2 DEF Told, Louds
      <4>2. loading = TRUE
        BY <1>0, <2>3, <3>2 DEF Told, Louds
      <4>3. Louds(requests') = {new}
        BY <2>2, <2>3, <3>2, <4>1 DEF Louds, new
      <4> QED  BY <4>2, <4>3 DEF Told
    <3> QED  BY <3>1, <3>2
  <2> QED  BY <1>11, <2>4 DEF Serve, NeverStuck, CanLoad
<1>12. ASSUME NEW r \in requests, Landed(r) PROVE NeverStuck'
  <2>1. /\ r \in LoadsInFlight
        /\ AutoLoad(cfg, client', listed, BusyAfter(r), autoLoaded, requests \ {r})
        /\ UNCHANGED <<listed, cfg>>
    BY <1>12 DEF Landed
  <2> QED  BY <1>2, <1>10, <2>1
<1>13. ASSUME NEW r \in requests, LoadFailed(r) PROVE NeverStuck'
  <2>1. /\ r \in LoadsInFlight
        /\ AutoLoad(cfg, client, listed, BusyAfter(r), autoLoaded, requests \ {r})
        /\ UNCHANGED <<listed, cfg, client>>
    BY <1>13 DEF LoadFailed
  <2> QED  BY <1>2, <1>10, <2>1
<1>14. CASE PressLoad
  <2> DEFINE new == Load(cfg, client, FALSE)
  <2>1. ~loading /\ loading' = TRUE /\ requests' = requests \cup {new}
    BY <1>14 DEF PressLoad, ButtonOn
  <2>2. new.what = "load" /\ ~new.quiet
    BY DEF Load
  <2> HIDE DEF new
  <2>3. Louds(requests') = {new}
    BY <1>0, <2>1, <2>2 DEF Told, Louds
  <2> QED  BY <2>1, <2>3 DEF NeverStuck, Told
<1>15. CASE FillPushed \/ RowPushed \/ OrdersPushed
  BY <1>1, <1>15 DEF FillPushed, RowPushed, OrdersPushed
<1>16. CASE Refresh \/ BackgroundTick
  BY <1>1, <1>16, QuietLoadTells DEF Refresh, BackgroundTick
<1>17. CASE VisibilityChanged
  <2>1. Louds(requests') = Louds(requests)
    BY <1>17, QuietLoadTells DEF VisibilityChanged
  <2> QED  BY <1>1, <1>17, <2>1 DEF VisibilityChanged
<1>18. CASE UNCHANGED panelVars
  BY <1>1, <1>18 DEF panelVars
<1> QED  BY <1>3, <1>5, <1>6, <1>7, <1>8, <1>9, <1>11, <1>12, <1>13, <1>14, <1>15, <1>16, <1>17,
            <1>18 DEF PanelNext, Answered

\* No panel is ever stuck in Loading, nor on a ready account it has not loaded.
THEOREM PanelsAreNeverStuck == PanelSpec => []NeverStuck
<1>1. PanelInit => NeverStuck
  <2> SUFFICES ASSUME PanelInit PROVE NeverStuck
    OBVIOUS
  <2>1. \A r \in requests : r.what = "list"
    BY DEF PanelInit
  <2>2. Louds(requests) = {} /\ loading = FALSE /\ client = None
    BY <2>1 DEF PanelInit, Louds
  <2> QED  BY <2>2 DEF NeverStuck, Told, CanLoad, SessionReady
<1> QED  BY <1>1, PanelBegins, PanelStays, LoadsStay, PTL DEF PanelSpec

-----------------------------------------------------------------------------
(* Sums over the rows of a table *)

\* A set of numbers with 0 and, with any of them, the next has them all.
LEMMA AllNaturals ==
    ASSUME NEW N \in SUBSET Nat, 0 \in N, \A n \in N : n + 1 \in N
    PROVE  N = Nat
<1> SUFFICES ASSUME Nat \ N # {} PROVE FALSE
  OBVIOUS
<1>1. PICK x \in Nat \ N : \A y \in Nat \ N : <<y, x>> \notin OpToRel(<, Nat)
  <2>1. Nat \ N \subseteq Nat
    OBVIOUS
  <2> QED  BY <2>1, NatLessThanWellFounded, WFMin
<1>2. x # 0 /\ x \in Nat /\ x - 1 \in Nat /\ x - 1 < x
  OBVIOUS
<1>3. x - 1 \in N
  BY <1>1, <1>2 DEF OpToRel
<1> QED  BY <1>2, <1>3

\* The member that the library's sum takes out first.
Pick(t) == CHOOSE x \in t : TRUE

\* Partial sums over the subsets of S: what the library's sum iterates.
Sums(it, f, S) ==
    it = [t \in SUBSET S |-> IF t = {} THEN 0 ELSE f[Pick(t)] + it[t \ {Pick(t)}]]

\* The library's sum is the last of its partial sums.
LEMMA SumIs ==
    ASSUME NEW f, NEW S
    PROVE  SumFunctionOnSet(f, S) = (CHOOSE it : Sums(it, f, S))[S]
BY Zenon DEF SumFunctionOnSet, FoldFunctionOnSet, MapThenFoldSet, Sums, Pick

\* A finite set, less a member of it.
LEMMA OneLess ==
    ASSUME NEW t, IsFiniteSet(t), NEW x \in t
    PROVE  /\ IsFiniteSet(t \ {x}) /\ Cardinality(t \ {x}) = Cardinality(t) - 1
           /\ Cardinality(t) \in Nat \ {0} /\ Cardinality(t \ {x}) \in Nat
<1>1. IsFiniteSet(t \ {x}) /\ Cardinality(t \ {x}) = Cardinality(t) - 1
  BY FS_RemoveElement
<1> QED  BY <1>1, FS_CardinalityType, FS_EmptySet

\* There are such partial sums: those of the small sets give those of larger ones.
LEMMA SumsExist ==
    ASSUME NEW f, NEW S, IsFiniteSet(S)
    PROVE  \E it : Sums(it, f, S)
<1> DEFINE small(n) == {t \in SUBSET S : Cardinality(t) <= n}
           upTo(g, n) == g = [t \in small(n) |-> IF t = {} THEN 0 ELSE f[Pick(t)] + g[t \ {Pick(t)}]]
           N == {n \in Nat : \E g : upTo(g, n)}
<1>1. \A t \in SUBSET S : IsFiniteSet(t) /\ Cardinality(t) \in Nat
  BY FS_Subset, FS_CardinalityType
<1>2. \A t \in SUBSET S : t # {} => Pick(t) \in t
  BY DEF Pick
<1>3. 0 \in N
  <2> DEFINE g == [t \in small(0) |-> 0]
  <2>1. \A t \in small(0) : t = {}
    BY <1>1, FS_EmptySet
  <2>2. upTo(g, 0)
    BY <2>1
  <2> QED  BY <2>2
<1>4. ASSUME NEW n \in N PROVE n + 1 \in N
  <2>1. PICK g : upTo(g, n)
    OBVIOUS
  <2> DEFINE h == [t \in small(n + 1) |-> IF t = {} THEN 0 ELSE f[Pick(t)] + g[t \ {Pick(t)}]]
  <2>2. \A t \in small(n) : t \in small(n + 1) /\ h[t] = g[t]
    <3>1. \A t \in small(n) : g[t] = IF t = {} THEN 0 ELSE f[Pick(t)] + g[t \ {Pick(t)}]
      BY <2>1
    <3>2. \A t \in small(n) : t \in small(n + 1)
      BY <1>1
    <3> QED  BY <3>1, <3>2
  <2>3. \A t \in small(n + 1) : t # {} => t \ {Pick(t)} \in small(n)
    <3> SUFFICES ASSUME NEW t \in small(n + 1), t # {} PROVE t \ {Pick(t)} \in small(n)
      OBVIOUS
    <3>1. Cardinality(t \ {Pick(t)}) = Cardinality(t) - 1 /\ Cardinality(t) \in Nat
      BY <1>1, <1>2, OneLess
    <3>2. Cardinality(t) - 1 <= n
      BY <1>1
    <3> QED  BY <3>1, <3>2
  <2>4. \A t \in small(n + 1) : h[t] = IF t = {} THEN 0 ELSE f[Pick(t)] + h[t \ {Pick(t)}]
    BY <2>2, <2>3
  <2>5. upTo(h, n + 1)
    BY <2>4
  <2>6. n + 1 \in Nat
    OBVIOUS
  <2> QED  BY <2>5, <2>6
<1> HIDE DEF N
<1>5. N = Nat
  <2>1. N \in SUBSET Nat
    BY DEF N
  <2> QED  BY <1>3, <1>4, <2>1, AllNaturals
<1>6. PICK g : upTo(g, Cardinality(S))
  <2>1. Cardinality(S) \in N
    BY <1>1, <1>5
  <2> QED  BY <2>1 DEF N
<1>7. small(Cardinality(S)) = SUBSET S
  BY FS_Subset
<1>8. Sums(g, f, S)
  BY <1>6, <1>7 DEF Sums
<1> QED  BY <1>8

\* Partial sums of integers are integers, whichever member is taken out first.
LEMMA SumsTakeOut ==
    ASSUME NEW f, NEW S, IsFiniteSet(S), \A x \in S : f[x] \in Int, NEW it, Sums(it, f, S)
    PROVE  /\ it[{}] = 0
           /\ \A t \in SUBSET S : it[t] \in Int /\ \A x \in t : it[t] = f[x] + it[t \ {x}]
<1> DEFINE good(t) == it[t] \in Int /\ \A x \in t : it[t] = f[x] + it[t \ {x}]
           N == {n \in Nat : \A t \in SUBSET S : Cardinality(t) <= n => good(t)}
<1>1. \A t \in SUBSET S : IsFiniteSet(t) /\ Cardinality(t) \in Nat
  BY FS_Subset, FS_CardinalityType
<1>2. \A t \in SUBSET S : t # {} => Pick(t) \in t
  BY DEF Pick
<1>3. it[{}] = 0 /\ \A t \in SUBSET S : t # {} => it[t] = f[Pick(t)] + it[t \ {Pick(t)}]
  BY DEF Sums
<1>4. 0 \in N
  <2>1. \A t \in SUBSET S : Cardinality(t) <= 0 => t = {}
    BY <1>1, FS_EmptySet
  <2>2. good({})
    BY <1>3
  <2> HIDE DEF good
  <2> QED  BY <2>1, <2>2
<1>5. ASSUME NEW n \in N PROVE n + 1 \in N
  <2> SUFFICES ASSUME NEW t \in SUBSET S, Cardinality(t) <= n + 1, t # {} PROVE good(t)
    <3>1. n + 1 \in Nat /\ good({})
      BY <1>3
    <3> HIDE DEF good
    <3> QED  BY <3>1
  <2> DEFINE p == Pick(t)
  <2>1. p \in t /\ it[t] = f[p] + it[t \ {p}]
    BY <1>2, <1>3
  <2> HIDE DEF p
  <2>2. \A u \in SUBSET S : Cardinality(u) <= n => good(u)
    OBVIOUS
  <2> HIDE DEF good, N
  <2>3. ASSUME NEW x \in t PROVE good(t \ {x}) /\ \A y \in t \ {x} : good((t \ {x}) \ {y})
    <3>1. IsFiniteSet(t) /\ Cardinality(t) \in Nat
      BY <1>1
    <3>2. IsFiniteSet(t \ {x}) /\ Cardinality(t \ {x}) = Cardinality(t) - 1
      BY <3>1, OneLess
    <3>3. ASSUME NEW y \in t \ {x} PROVE Cardinality((t \ {x}) \ {y}) = Cardinality(t) - 2
      <4>1. Cardinality((t \ {x}) \ {y}) = Cardinality(t \ {x}) - 1
        BY <3>2, OneLess
      <4> QED  BY <3>1, <3>2, <4>1
    <3>4. n \in Nat
      BY DEF N
    <3> QED  BY <2>2, <3>1, <3>2, <3>3, <3>4
  <2>4. ASSUME NEW x \in t PROVE it[t] = f[x] + it[t \ {x}]
    <3>1. CASE x = p
      BY <2>1, <3>1
    <3>2. CASE x # p
      <4>1. it[t \ {p}] = f[x] + it[(t \ {p}) \ {x}] /\ it[(t \ {p}) \ {x}] \in Int
        BY <2>1, <2>3, <3>2 DEF good
      <4>2. it[t \ {x}] = f[p] + it[(t \ {x}) \ {p}]
        BY <2>1, <2>3, <3>2 DEF good
      <4>3. (t \ {p}) \ {x} = (t \ {x}) \ {p}
        OBVIOUS
      <4>4. f[x] \in Int /\ f[p] \in Int
        BY <2>1
      <4>5. it[t \ {x}] = f[p] + it[(t \ {p}) \ {x}]
        BY <4>2, <4>3
      <4> DEFINE rest == it[(t \ {p}) \ {x}]
      <4>6. rest \in Int /\ it[t] = f[p] + (f[x] + rest) /\ it[t \ {x}] = f[p] + rest
        BY <2>1, <4>1, <4>5
      <4> HIDE DEF rest
      <4>7. f[p] + (f[x] + rest) = f[x] + (f[p] + rest)
        BY <4>4, <4>6
      <4> QED  BY <4>6, <4>7
    <3> QED  BY <3>1, <3>2
  <2>5. it[t] \in Int
    <3>1. it[t \ {p}] \in Int /\ f[p] \in Int
      BY <2>1, <2>3 DEF good
    <3> QED  BY <2>1, <3>1
  <2> QED  BY <2>4, <2>5 DEF good
<1> HIDE DEF N
<1>6. N = Nat
  <2>1. N \in SUBSET Nat
    BY DEF N
  <2> QED  BY <1>4, <1>5, <2>1, AllNaturals
<1>7. \A t \in SUBSET S : good(t)
  <2> TAKE t \in SUBSET S
  <2>1. Cardinality(t) \in N /\ Cardinality(t) <= Cardinality(t)
    BY <1>1, <1>6
  <2> QED  BY <2>1 DEF N
<1> QED  BY <1>3, <1>7

\* Whatever holds of no rows, and of some if of all of them but one, holds of all.
LEMMA OneByOne ==
    ASSUME NEW S, IsFiniteSet(S), NEW Q, {} \in Q,
           \A t \in SUBSET S : \A x \in t : t \ {x} \in Q => t \in Q
    PROVE  S \in Q
<1> DEFINE N == {n \in Nat : \A t \in SUBSET S : Cardinality(t) = n => t \in Q}
<1>1. \A t \in SUBSET S : IsFiniteSet(t) /\ Cardinality(t) \in Nat
  BY FS_Subset, FS_CardinalityType
<1>2. 0 \in N
  <2>1. \A t \in SUBSET S : Cardinality(t) = 0 => t = {}
    BY <1>1, FS_EmptySet
  <2> QED  BY <2>1
<1>3. ASSUME NEW n \in N PROVE n + 1 \in N
  <2> SUFFICES ASSUME NEW t \in SUBSET S, Cardinality(t) = n + 1 PROVE t \in Q
    OBVIOUS
  <2>1. PICK x \in t : TRUE
    <3>1. Cardinality(t) # 0
      OBVIOUS
    <3> QED  BY <3>1, FS_EmptySet
  <2>2. Cardinality(t \ {x}) = n
    BY <1>1, <2>1, OneLess
  <2> QED  BY <2>1, <2>2
<1> HIDE DEF N
<1>4. N = Nat
  <2>1. N \in SUBSET Nat
    BY DEF N
  <2> QED  BY <1>2, <1>3, <2>1, AllNaturals
<1>5. Cardinality(S) \in N
  BY <1>1, <1>4
<1> QED  BY <1>5 DEF N

\* A sum over no rows is 0; over some it is an integer, and any of them can be taken out.
LEMMA SumTakesOut ==
    ASSUME NEW f, NEW S, IsFiniteSet(S), \A x \in S : f[x] \in Int
    PROVE  /\ SumFunctionOnSet(f, {}) = 0
           /\ SumFunctionOnSet(f, S) \in Int
           /\ \A x \in S : SumFunctionOnSet(f, S) = f[x] + SumFunctionOnSet(f, S \ {x})
<1> DEFINE sums(t) == CHOOSE it : Sums(it, f, t)
<1>1. \A t \in SUBSET S : IsFiniteSet(t)
  BY FS_Subset
<1>2. \A t \in SUBSET S : Sums(sums(t), f, t) /\ SumFunctionOnSet(f, t) = sums(t)[t]
  BY <1>1, SumsExist, SumIs
<1> HIDE DEF sums
<1>3. \A t \in SUBSET S : sums(t)[{}] = 0 /\ \A u \in SUBSET t :
        sums(t)[u] \in Int /\ \A x \in u : sums(t)[u] = f[x] + sums(t)[u \ {x}]
  <2> TAKE t \in SUBSET S
  <2>1. \A x \in t : f[x] \in Int
    OBVIOUS
  <2>2. IsFiniteSet(t) /\ Sums(sums(t), f, t)
    BY <1>1, <1>2
  <2> QED  BY <2>1, <2>2, SumsTakeOut
\* The partial sums of a set and of a part of it are the same.
<1>4. ASSUME NEW x \in S PROVE sums(S)[S \ {x}] = sums(S \ {x})[S \ {x}]
  <2> DEFINE R == S \ {x}
             Q == {t \in SUBSET R : sums(S)[t] = sums(R)[t]}
  <2>1. R \in SUBSET S
    OBVIOUS
  <2> HIDE DEF R
  <2>2. {} \in Q
    BY <1>3, <2>1
  <2>3. ASSUME NEW t \in SUBSET R, NEW y \in t, t \ {y} \in Q PROVE t \in Q
    <3>1. sums(S)[t] = f[y] + sums(S)[t \ {y}] /\ sums(R)[t] = f[y] + sums(R)[t \ {y}]
      BY <1>3, <2>1
    <3> QED  BY <2>3, <3>1
  <2> HIDE DEF Q
  <2>4. R \in Q
    BY <1>1, <2>1, <2>2, <2>3, OneByOne
  <2> QED  BY <2>4 DEF Q, R
<1>5. SumFunctionOnSet(f, {}) = 0 /\ SumFunctionOnSet(f, S) = sums(S)[S]
  BY <1>2, <1>3
<1>6. \A x \in S : SumFunctionOnSet(f, S \ {x}) = sums(S)[S \ {x}]
  BY <1>2, <1>4
<1>7. sums(S)[S] \in Int /\ \A x \in S : sums(S)[S] = f[x] + sums(S)[S \ {x}]
  BY <1>3
<1> QED  BY <1>5, <1>6, <1>7

\* Sums over rows that lie apart add up.
LEMMA SumsAddUp ==
    ASSUME NEW f, NEW S, NEW T, IsFiniteSet(S), IsFiniteSet(T), S \cap T = {},
           \A x \in S \cup T : f[x] \in Int
    PROVE  SumFunctionOnSet(f, S \cup T) = SumFunctionOnSet(f, S) + SumFunctionOnSet(f, T)
<1> DEFINE sum(t) == SumFunctionOnSet(f, t)
           Q == {t \in SUBSET T : sum(S \cup t) = sum(S) + sum(t)}
<1>1. \A t \in SUBSET T : IsFiniteSet(t) /\ IsFiniteSet(S \cup t)
  BY FS_Subset, FS_Union
<1>2. sum({}) = 0 /\ sum(S) \in Int
  BY SumTakesOut
<1>3. \A t \in SUBSET T : \A x \in t :
        sum(t) = f[x] + sum(t \ {x}) /\ sum(S \cup t) = f[x] + sum((S \cup t) \ {x})
  <2> TAKE t \in SUBSET T
  <2> TAKE x \in t
  <2>1. sum(t) = f[x] + sum(t \ {x})
    <3>1. \A y \in t : f[y] \in Int
      OBVIOUS
    <3>2. IsFiniteSet(t)
      BY <1>1
    <3>3. SumFunctionOnSet(f, t) = f[x] + SumFunctionOnSet(f, t \ {x})
      BY <3>1, <3>2, SumTakesOut
    <3> QED  BY <3>3
  <2>2. (\A y \in S \cup t : f[y] \in Int) /\ x \in S \cup t
    OBVIOUS
  <2>3. sum(S \cup t) = f[x] + sum((S \cup t) \ {x})
    BY <1>1, <2>2, SumTakesOut
  <2> QED  BY <2>1, <2>3
<1>4. \A t \in SUBSET T : sum(t) \in Int
  BY <1>1, SumTakesOut
<1> HIDE DEF sum
<1>5. {} \in Q
  BY <1>2
<1>6. ASSUME NEW t \in SUBSET T, NEW x \in t, t \ {x} \in Q PROVE t \in Q
  <2>1. (S \cup t) \ {x} = S \cup (t \ {x})
    OBVIOUS
  <2> DEFINE rest == sum(t \ {x})
  <2>2. sum(t) = f[x] + rest /\ sum(S \cup t) = f[x] + (sum(S) + rest)
    BY <1>3, <1>6, <2>1
  <2>3. rest \in Int /\ f[x] \in Int
    BY <1>4
  <2> HIDE DEF rest
  <2>4. sum(S \cup t) = sum(S) + sum(t)
    BY <1>2, <2>2, <2>3
  <2> QED  BY <2>4
<1> HIDE DEF Q
<1>7. T \in Q
  BY <1>5, <1>6, OneByOne
<1> QED  BY <1>7 DEF Q, sum

\* Grouped any way, the sums of the groups add up to the sum of all.
LEMMA GroupsAddUp ==
    ASSUME NEW f, NEW S, NEW G, IsFiniteSet(S), IsFiniteSet(G), \A x \in S : f[x] \in Int,
           NEW groupOf, \A x \in S : groupOf[x] \in G
    PROVE  SumFunctionOnSet(f, S)
             = SumFunction([g \in G |-> SumFunctionOnSet(f, {x \in S : groupOf[x] = g})])
<1> DEFINE within(T) == {x \in S : groupOf[x] \in T}
           h == [g \in G |-> SumFunctionOnSet(f, {x \in S : groupOf[x] = g})]
           Q == {T \in SUBSET G : SumFunctionOnSet(f, within(T)) = SumFunctionOnSet(h, T)}
<1>1. \A g \in G : IsFiniteSet({x \in S : groupOf[x] = g})
  <2> TAKE g \in G
  <2>1. {x \in S : groupOf[x] = g} \subseteq S
    OBVIOUS
  <2> QED  BY <2>1, FS_Subset
<1>2. \A g \in G : h[g] \in Int /\ h[g] = SumFunctionOnSet(f, {x \in S : groupOf[x] = g})
  <2> TAKE g \in G
  <2>1. \A x \in {y \in S : groupOf[y] = g} : f[x] \in Int
    OBVIOUS
  <2>2. SumFunctionOnSet(f, {x \in S : groupOf[x] = g}) \in Int
    BY <1>1, <2>1, SumTakesOut
  <2> QED  BY <2>2
<1> HIDE DEF h
<1>3. {} \in Q
  <2>1. within({}) = {}
    OBVIOUS
  <2>2. SumFunctionOnSet(f, {}) = 0 /\ SumFunctionOnSet(h, {}) = 0
    BY FS_EmptySet, SumTakesOut
  <2> QED  BY <2>1, <2>2
<1>4. ASSUME NEW T \in SUBSET G, NEW g \in T, T \ {g} \in Q PROVE T \in Q
  <2> DEFINE mine == {x \in S : groupOf[x] = g}
  <2>1. within(T) = within(T \ {g}) \cup mine /\ within(T \ {g}) \cap mine = {}
    OBVIOUS
  <2>2. IsFiniteSet(within(T \ {g})) /\ IsFiniteSet(mine)
        /\ \A x \in within(T \ {g}) \cup mine : f[x] \in Int
    BY FS_Subset
  <2> HIDE DEF mine, within
  <2>3. SumFunctionOnSet(f, within(T))
          = SumFunctionOnSet(f, within(T \ {g})) + SumFunctionOnSet(f, mine)
    <3> DEFINE others == within(T \ {g})
    <3>1. IsFiniteSet(others) /\ others \cap mine = {} /\ \A x \in others \cup mine : f[x] \in Int
      BY <2>1, <2>2
    <3>2. SumFunctionOnSet(f, others \cup mine) = SumFunctionOnSet(f, others) + SumFunctionOnSet(f, mine)
      <4> HIDE DEF others
      <4> QED  BY <2>2, <3>1, SumsAddUp
    <3> QED  BY <2>1, <3>2
  <2>4. SumFunctionOnSet(f, mine) = h[g]
    BY <1>2 DEF mine
  <2>5. IsFiniteSet(T) /\ IsFiniteSet(T \ {g}) /\ \A x \in T : h[x] \in Int
    BY <1>2, FS_Subset
  <2>6. SumFunctionOnSet(h, T) = h[g] + SumFunctionOnSet(h, T \ {g})
    BY <2>5, SumTakesOut
  <2>7. h[g] \in Int /\ SumFunctionOnSet(h, T \ {g}) \in Int
    BY <1>2, <2>5, SumTakesOut
  <2>8. SumFunctionOnSet(f, within(T)) = SumFunctionOnSet(h, T)
    BY <1>4, <2>3, <2>4, <2>6, <2>7
  <2> QED  BY <2>8
<1>5. G \in Q
  <2> HIDE DEF Q
  <2> QED  BY <1>3, <1>4, OneByOne
<1>6. within(G) = S
  OBVIOUS
<1>7. SumFunctionOnSet(f, S) = SumFunctionOnSet(h, G)
  BY <1>5, <1>6
<1>8. DOMAIN h = G
  BY DEF h
<1>9. SumFunctionOnSet(f, S) = SumFunction(h)
  BY <1>7, <1>8 DEF SumFunction
<1> QED  BY <1>9 DEF h

-----------------------------------------------------------------------------
(* The rows of the order tables *)

OrderRow == [id: OrderIds, status: Statuses]

OrdersCore ==
    /\ placed \in [OrderIds -> Statuses \cup {"none"}]
    /\ stream \in Seq(OrderRow)
    /\ table \in Seq(OrderRow) /\ OneRowEach(table)
    /\ \A read \in reading : read \in Seq(OrderRow) /\ OneRowEach(read)

\* The library's enumeration of a finite set names every member once.
LEMMA Enumerated ==
    ASSUME NEW S, IsFiniteSet(S)
    PROVE  SetToSeq(S) \in [1..Cardinality(S) -> S] /\ IsInjective(SetToSeq(S))
<1>1. PICK f \in Bijection(1..Cardinality(S), S) : TRUE
  BY FS_CardinalityType DEF ExistsBijection
<1>2. f \in [1..Cardinality(S) -> S] /\ IsInjective(f)
  BY <1>1 DEF Bijection, Injection
<1> QED  BY <1>2 DEF SetToSeq

\* An answer has one row for every order that was placed.
LEMMA BookHasOneEach ==
    ASSUME OrdersCore
    PROVE  BookAtBroker \in Seq(OrderRow) /\ OneRowEach(BookAtBroker)
<1> DEFINE known == {o \in OrderIds : placed[o] # "none"}
           ids == SetToSeq(known)
           n == Cardinality(known)
<1>1. IsFiniteSet(known)
  <2>1. known \subseteq OrderIds
    OBVIOUS
  <2> HIDE DEF known
  <2> QED  BY <2>1, FS_Subset, OrdersAssumption
<1>2. \A o \in known : o \in OrderIds /\ placed[o] \in Statuses
  BY DEF OrdersCore
<1>3. BookAtBroker = [i \in DOMAIN ids |-> [id |-> ids[i], status |-> placed[ids[i]]]]
  BY DEF BookAtBroker
<1> HIDE DEF known
<1>4. n \in Nat /\ ids \in [1..n -> known] /\ IsInjective(ids)
  BY <1>1, Enumerated, FS_CardinalityType
<1> HIDE DEF ids, n
<1>5. DOMAIN BookAtBroker = 1..n
  BY <1>3, <1>4
<1>6. ASSUME NEW i \in 1..n
      PROVE  BookAtBroker[i] \in OrderRow /\ BookAtBroker[i].id = ids[i]
  BY <1>2, <1>3, <1>4 DEF OrderRow
<1>7. BookAtBroker \in [1..n -> OrderRow]
  BY <1>3, <1>4, <1>6
<1>8. BookAtBroker \in Seq(OrderRow)
  BY <1>4, <1>7
<1> QED  BY <1>4, <1>5, <1>6, <1>8 DEF OneRowEach, IsInjective

\* A push patches the row of its order, or puts it on top if there is none.
LEMMA MergeKeepsOneEach ==
    ASSUME NEW read \in Seq(OrderRow), OneRowEach(read), NEW o \in OrderRow
    PROVE  Merged(read, o) \in Seq(OrderRow) /\ OneRowEach(Merged(read, o))
<1>1. CASE \E i \in DOMAIN read : read[i].id = o.id
  <2> DEFINE patched == [i \in DOMAIN read |-> IF read[i].id = o.id THEN o ELSE read[i]]
  <2>1. Merged(read, o) = patched
    BY <1>1 DEF Merged
  <2>2. DOMAIN read = 1..Len(read) /\ Len(read) \in Nat
    OBVIOUS
  <2>3. \A i \in DOMAIN read : patched[i] \in OrderRow /\ patched[i].id = read[i].id
    BY <2>2
  <2>4. patched \in [1..Len(read) -> OrderRow]
    BY <2>2, <2>3
  <2>5. patched \in Seq(OrderRow) /\ DOMAIN patched = DOMAIN read
    BY <2>2, <2>4
  <2> HIDE DEF patched
  <2> QED  BY <2>1, <2>3, <2>5 DEF OneRowEach
<1>2. CASE ~ \E i \in DOMAIN read : read[i].id = o.id
  <2> DEFINE put == <<o>> \o read
  <2>1. Merged(read, o) = put
    BY <1>2 DEF Merged
  <2>2. put \in Seq(OrderRow) /\ Len(put) = Len(read) + 1 /\ Len(read) \in Nat
        /\ DOMAIN put = 1..Len(put) /\ DOMAIN read = 1..Len(read)
    OBVIOUS
  <2>3. put[1] = o /\ \A i \in 2..Len(put) : put[i] = read[i - 1] /\ i - 1 \in DOMAIN read
    BY <2>2
  <2> HIDE DEF put
  <2>4. ASSUME NEW i \in DOMAIN put, NEW j \in DOMAIN put, put[i].id = put[j].id PROVE i = j
    <3>1. CASE i = 1 \/ j = 1
      BY <1>2, <2>2, <2>3, <2>4, <3>1
    <3>2. CASE i # 1 /\ j # 1
      <4>1. i \in 2..Len(put) /\ j \in 2..Len(put) /\ i \in Nat /\ j \in Nat
        BY <2>2, <3>2
      <4>2. read[i - 1].id = read[j - 1].id
        BY <2>3, <2>4, <4>1
      <4>3. i - 1 = j - 1
        BY <2>3, <4>1, <4>2 DEF OneRowEach
      <4> QED  BY <4>1, <4>3
    <3> QED  BY <3>1, <3>2
  <2> QED  BY <2>1, <2>2, <2>4 DEF OneRowEach
<1> QED  BY <1>1, <1>2

\* The table starts empty.
LEMMA OrdersBegin == OrderTablesInit => OrdersCore
BY DEF OrderTablesInit, OrdersCore, OneRowEach

\* Pushes, reads and what the broker does keep the rows of the orders apart.
LEMMA OrdersStay == OrdersCore /\ [OrderTablesNext]_orderTableVars => OrdersCore'
<1> SUFFICES ASSUME OrdersCore, [OrderTablesNext]_orderTableVars PROVE OrdersCore'
  OBVIOUS
<1>1. ASSUME NEW o \in OrderIds, NEW status \in Statuses, Moves(o, status) PROVE OrdersCore'
  <2>1. [id |-> o, status |-> status] \in OrderRow
    BY DEF OrderRow
  <2>2. stream' \in Seq(OrderRow)
    BY <1>1, <2>1 DEF Moves, OrdersCore
  <2>3. placed' \in [OrderIds -> Statuses \cup {"none"}]
    BY <1>1 DEF Moves, OrdersCore
  <2> QED  BY <1>1, <2>2, <2>3 DEF Moves, OrdersCore
<1>2. CASE OrderPushed
  <2>1. Head(stream) \in OrderRow /\ Tail(stream) \in Seq(OrderRow)
    BY <1>2 DEF OrderPushed, OrdersCore
  <2>2. table' \in Seq(OrderRow) /\ OneRowEach(table')
    BY <1>2, <2>1, MergeKeepsOneEach DEF OrderPushed, OrdersCore
  <2> QED  BY <1>2, <2>1, <2>2 DEF OrderPushed, OrdersCore, OneRowEach
<1>3. CASE StreamDropped
  BY <1>3 DEF StreamDropped, OrdersCore, OneRowEach
<1>4. CASE ReRead \/ Background
  <2>1. \A read \in reading' : read \in Seq(OrderRow) /\ OneRowEach(read)
    BY <1>4, BookHasOneEach DEF ReRead, Background, OrdersCore
  <2> QED  BY <1>4, <2>1 DEF ReRead, Background, OrdersCore, OneRowEach
<1>5. ASSUME NEW read \in reading, Answer(read) PROVE OrdersCore'
  BY <1>5 DEF Answer, OrdersCore, OneRowEach
<1>6. ASSUME NEW q \in Queries, Search(q) PROVE OrdersCore'
  BY <1>6 DEF Search, OrdersCore, OneRowEach
<1>7. CASE UNCHANGED orderTableVars
  BY <1>7 DEF orderTableVars, OrdersCore, OneRowEach
<1> QED  BY <1>1, <1>2, <1>3, <1>4, <1>5, <1>6, <1>7 DEF OrderTablesNext

\* No order has two rows in an order or trade book, however its pushes, the answers of
\* re-reads and the background reads fall: the first part of RowsAddUp.
THEOREM OrdersHaveOneRow == OrderTablesSpec => []OneRowEach(table)
<1>1. OrdersCore => OneRowEach(table)
  BY DEF OrdersCore
<1> QED  BY <1>1, OrdersBegin, OrdersStay, PTL DEF OrderTablesSpec

\* The fills of a table are finitely many and have integer values.
LEMMA FillsHaveValues ==
    ASSUME OrdersCore
    PROVE  /\ IsFiniteSet(Trades) /\ Trades \subseteq DOMAIN table
           /\ \A i \in DOMAIN table : TradeValue(table[i].id) \in Int
<1>1. Len(table) \in Nat /\ DOMAIN table = 1..Len(table) /\ IsFiniteSet(DOMAIN table)
  BY FS_Interval DEF OrdersCore
<1>2. Trades \subseteq DOMAIN table
  BY DEF Trades, Shown
<1>3. \A i \in DOMAIN table : TradeValue(table[i].id) \in Int
  <2> TAKE i \in DOMAIN table
  <2>1. table[i].id \in OrderIds
    <3>1. table \in Seq(OrderRow) /\ i \in 1..Len(table)
      BY <1>1 DEF OrdersCore
    <3>2. table[i] \in OrderRow
      BY <3>1
    <3> QED  BY <3>2 DEF OrderRow
  <2> DEFINE o == table[i].id
  <2>2. Value[o] \in Nat /\ PriceQty[o][1] \in Nat /\ PriceQty[o][2] \in Nat
    BY <2>1, OrdersAssumption
  <2> HIDE DEF o
  <2>3. TradeValue(o) \in Int
    BY <2>2 DEF TradeValue
  <2> QED  BY <2>3 DEF o
<1> QED  BY <1>1, <1>2, <1>3, FS_Subset

\* The turnover of all fills shown is that of their groups together.
LEMMA GroupsOfFillsAddUp ==
    ASSUME OrdersCore
    PROVE  Turnover(Trades)
             = SumFunction([label \in DOMAIN TradeGroups |-> Turnover(TradeGroups[label])])
<1> DEFINE f == [i \in DOMAIN table |-> TradeValue(table[i].id)]
           expiryOf == [i \in Trades |-> Expiry[table[i].id]]
           labels == {expiryOf[i] : i \in Trades}
           group(label) == {i \in Trades : expiryOf[i] = label}
<1>1. IsFiniteSet(Trades) /\ \A i \in Trades : f[i] \in Int
  BY FillsHaveValues
<1>2. IsFiniteSet(labels)
  <2>1. expiryOf \in Surjection(Trades, labels)
    BY DEF Surjection
  <2> QED  BY <1>1, <2>1, FS_Surjection
<1>3. \A i \in Trades : expiryOf[i] \in labels
  OBVIOUS
<1>4. TradeGroups = [label \in labels |-> group(label)]
  BY DEF TradeGroups
<1>5. \A S : Turnover(S) = SumFunctionOnSet(f, S)
  BY DEF Turnover
<1> HIDE DEF f, expiryOf, labels
<1>6. SumFunctionOnSet(f, Trades)
        = SumFunction([label \in labels |-> SumFunctionOnSet(f, group(label))])
  BY <1>1, <1>2, <1>3, GroupsAddUp
<1> HIDE DEF group
<1>7. [label \in DOMAIN TradeGroups |-> Turnover(TradeGroups[label])]
        = [label \in labels |-> SumFunctionOnSet(f, group(label))]
  BY <1>4, <1>5
<1> QED  BY <1>5, <1>6, <1>7

\* However pushes and re-reads fall, no order has two rows, the tag of open orders counts
\* their section, and the groups of fills add up to the turnover of all that are shown.
THEOREM OrderRowsAddUp == OrderTablesSpec => []RowsAddUp
<1>1. ASSUME OrdersCore PROVE RowsAddUp
  <2>1. OneRowEach(table)
    BY <1>1 DEF OrdersCore
  <2>2. ASSUME query = OrderIds PROVE Summary.open = Cardinality(Section(TRUE))
    <3>1. \A i \in DOMAIN table : table[i].id \in OrderIds
      <4> TAKE i \in DOMAIN table
      <4>1. table \in Seq(OrderRow) /\ i \in 1..Len(table)
        BY <1>1 DEF OrdersCore
      <4>2. table[i] \in OrderRow
        BY <4>1
      <4> QED  BY <4>2 DEF OrderRow
    <3>2. {i \in DOMAIN table : StatusKind(table[i].status) \in {"open"}} = Section(TRUE)
      BY <2>2, <3>1 DEF Section, Shown
    <3> QED  BY <3>2 DEF Summary
  <2> QED  BY <1>1, <2>1, <2>2, GroupsOfFillsAddUp DEF RowsAddUp
<1> QED  BY <1>1, OrdersBegin, OrdersStay, PTL DEF OrderTablesSpec

-----------------------------------------------------------------------------
(* The rows of the positions table *)

Tuples(n) == [1..n -> Int]

\* Comparing one value after the other orders tuples of numbers one way or the other.
LEMMA TuplesAreOrdered ==
    ASSUME NEW n \in Nat
    PROVE  /\ \A v, w \in Tuples(n) : v = w \/ FirstDiffers(v, w) \/ FirstDiffers(w, v)
           /\ \A v, w \in Tuples(n) : FirstDiffers(v, w) => ~FirstDiffers(w, v) /\ v # w
           /\ \A u, v, w \in Tuples(n) :
                FirstDiffers(u, v) /\ FirstDiffers(v, w) => FirstDiffers(u, w)
<1>1. ASSUME NEW v \in Tuples(n), NEW w \in Tuples(n), v # w
      PROVE  FirstDiffers(v, w) \/ FirstDiffers(w, v)
  <2> DEFINE D == {i \in 1..n : v[i] # w[i]}
  <2>1. D # {} /\ D \in SUBSET Nat
    BY <1>1 DEF Tuples
  <2>2. PICK i \in D : \A j \in D : <<j, i>> \notin OpToRel(<, Nat)
    BY <2>1, NatLessThanWellFounded, WFMin
  <2>3. \A j \in 1..(i - 1) : v[j] = w[j]
    <3> SUFFICES ASSUME NEW j \in 1..(i - 1), v[j] # w[j] PROVE FALSE
      OBVIOUS
    <3>1. j \in D /\ j < i /\ j \in Nat /\ i \in Nat
      OBVIOUS
    <3> QED  BY <2>2, <3>1 DEF OpToRel
  <2>4. v[i] < w[i] \/ w[i] < v[i]
    BY DEF Tuples
  <2>5. i \in DOMAIN v /\ i \in DOMAIN w
    BY DEF Tuples
  <2> HIDE DEF D
  <2> QED  BY <2>3, <2>4, <2>5 DEF FirstDiffers
<1>2. ASSUME NEW v \in Tuples(n), NEW w \in Tuples(n), FirstDiffers(v, w)
      PROVE  ~FirstDiffers(w, v) /\ v # w
  <2>1. PICK i \in 1..n : v[i] < w[i] /\ \A j \in 1..(i - 1) : v[j] = w[j]
    BY <1>2 DEF FirstDiffers, Tuples
  <2>2. v[i] \in Int /\ w[i] \in Int
    BY DEF Tuples
  <2>3. ASSUME FirstDiffers(w, v) PROVE FALSE
    <3>1. PICK k \in 1..n : w[k] < v[k] /\ \A j \in 1..(k - 1) : w[j] = v[j]
      BY <2>3 DEF FirstDiffers, Tuples
    <3>2. v[k] \in Int /\ w[k] \in Int
      BY DEF Tuples
    <3>3. CASE k < i
      BY <2>1, <3>1, <3>2, <3>3
    <3>4. CASE i < k
      BY <2>1, <2>2, <3>1, <3>4
    <3>5. CASE i = k
      BY <2>1, <2>2, <3>1, <3>5
    <3> QED  BY <3>3, <3>4, <3>5
  <2>4. v # w
    BY <2>1, <2>2
  <2> QED  BY <2>3, <2>4
<1>3. ASSUME NEW u \in Tuples(n), NEW v \in Tuples(n), NEW w \in Tuples(n),
             FirstDiffers(u, v), FirstDiffers(v, w)
      PROVE  FirstDiffers(u, w)
  <2>1. PICK i \in 1..n : u[i] < v[i] /\ \A j \in 1..(i - 1) : u[j] = v[j]
    BY <1>3 DEF FirstDiffers, Tuples
  <2>2. PICK k \in 1..n : v[k] < w[k] /\ \A j \in 1..(k - 1) : v[j] = w[j]
    BY <1>3 DEF FirstDiffers, Tuples
  <2>3. \A j \in 1..n : u[j] \in Int /\ v[j] \in Int /\ w[j] \in Int
    BY DEF Tuples
  <2> DEFINE m == IF i <= k THEN i ELSE k
  <2>4. m \in 1..n /\ u[m] < w[m] /\ \A j \in 1..(m - 1) : u[j] = w[j]
    <3>1. CASE i < k
      BY <2>1, <2>2, <2>3, <3>1
    <3>2. CASE k < i
      BY <2>1, <2>2, <2>3, <3>2
    <3>3. CASE i = k
      BY <2>1, <2>2, <2>3, <3>3
    <3> QED  BY <3>1, <3>2, <3>3
  <2>5. m \in DOMAIN u
    BY <2>4 DEF Tuples
  <2> HIDE DEF m
  <2> QED  BY <2>4, <2>5 DEF FirstDiffers
<1> QED  BY <1>1, <1>2, <1>3

\* R puts the members of S in one order.
Orders(R, S) ==
    /\ \A i, j \in S : <<i, j>> \in R \/ <<j, i>> \in R
    /\ \A i, j \in S : <<i, j>> \in R /\ <<j, i>> \in R => i = j
    /\ \A i, j, k \in S : <<i, j>> \in R /\ <<j, k>> \in R => <<i, k>> \in R

\* Counted from the front, every place in an order is taken by one member, later ones by
\* later members.
LEMMA PlacesInOrder ==
    ASSUME NEW S, IsFiniteSet(S), NEW R, Orders(R, S),
           NEW place, place = [i \in S |-> Cardinality({j \in S : <<j, i>> \in R})]
    PROVE  /\ place \in Bijection(S, 1..Cardinality(S))
           /\ \A i, j \in S : place[i] <= place[j] => <<i, j>> \in R
<1> DEFINE upTo(i) == {j \in S : <<j, i>> \in R}
<1>1. \A i \in S : IsFiniteSet(upTo(i)) /\ i \in upTo(i) /\ upTo(i) \subseteq S
  <2> TAKE i \in S
  <2>1. i \in upTo(i) /\ upTo(i) \subseteq S
    BY DEF Orders
  <2> HIDE DEF upTo
  <2> QED  BY <2>1, FS_Subset
<1>2. \A i \in S : place[i] = Cardinality(upTo(i))
  OBVIOUS
<1>3. ASSUME NEW i \in S, NEW j \in S, <<i, j>> \in R, i # j PROVE place[i] < place[j]
  <2>1. upTo(i) \subseteq upTo(j) /\ j \notin upTo(i)
    BY <1>3 DEF Orders
  <2> HIDE DEF upTo
  <2>2. upTo(i) \subseteq upTo(j) \ {j} /\ IsFiniteSet(upTo(j) \ {j})
        /\ Cardinality(upTo(j) \ {j}) = Cardinality(upTo(j)) - 1
    BY <1>1, <2>1, OneLess
  <2>3. Cardinality(upTo(i)) <= Cardinality(upTo(j) \ {j})
    BY <2>2, FS_Subset
  <2>4. Cardinality(upTo(i)) \in Nat /\ Cardinality(upTo(j)) \in Nat
    BY <1>1, FS_CardinalityType
  <2> QED  BY <1>2, <2>2, <2>3, <2>4
<1>4. \A i \in S : place[i] \in 1..Cardinality(S)
  <2> TAKE i \in S
  <2> HIDE DEF upTo
  <2>1. Cardinality(upTo(i)) <= Cardinality(S) /\ Cardinality(upTo(i)) \in Nat
        /\ Cardinality(S) \in Nat
    BY <1>1, FS_Subset, FS_CardinalityType
  <2>2. Cardinality(upTo(i)) # 0
    BY <1>1, FS_EmptySet
  <2> QED  BY <1>2, <2>1, <2>2
<1>5. Cardinality(S) \in Nat
  BY FS_CardinalityType
<1>6. ASSUME NEW i \in S, NEW j \in S, place[i] <= place[j] PROVE <<i, j>> \in R
  <2>1. place[i] \in Nat /\ place[j] \in Nat
    BY <1>4, <1>5
  <2>2. CASE <<j, i>> \in R /\ i # j
    <3>1. place[j] < place[i]
      BY <1>3, <2>2
    <3> QED  BY <1>6, <2>1, <3>1
  <2>3. <<i, j>> \in R \/ (<<j, i>> \in R /\ i # j)
    BY DEF Orders
  <2> QED  BY <2>2, <2>3
<1>7. place \in Injection(S, 1..Cardinality(S))
  <2>1. \A i, j \in S : place[i] = place[j] => i = j
    <3> SUFFICES ASSUME NEW i \in S, NEW j \in S, place[i] = place[j] PROVE i = j
      OBVIOUS
    <3>1. place[i] \in Nat /\ place[j] \in Nat
      BY <1>4, <1>5
    <3>2. <<i, j>> \in R /\ <<j, i>> \in R
      BY <1>6, <3>1
    <3> QED  BY <3>2 DEF Orders
  <2>2. place \in [S -> 1..Cardinality(S)]
    BY <1>4
  <2> QED  BY <2>1, <2>2 DEF Injection, IsInjective
<1>8. place \in Surjection(S, 1..Cardinality(S))
  <2>1. IsFiniteSet(1..Cardinality(S)) /\ Cardinality(1..Cardinality(S)) = Cardinality(S)
    BY <1>5, FS_Interval
  <2> QED  BY <1>7, <2>1, FS_Injection
<1> QED  BY <1>6, <1>7, <1>8 DEF Bijection

SortOrder == [key: {"instrument", "product", "qty", "ltp", "pnl"}, dir: {"asc", "desc"}]

\* The rows of a table are ordered by what their column compares, equals by their number.
LEMMA RowsAreOrdered ==
    ASSUME NEW rs \in Seq(Position), NEW s \in SortOrder, NEW S \in SUBSET DOMAIN rs,
           NEW R, R = {p \in S \X S : Precedes(rs, s, p[1], p[2])}
    PROVE  Orders(R, S) /\ IsFiniteSet(S)
<1> DEFINE n == IF s.key = "instrument" THEN 4 ELSE 1
           val(i) == SortValues(rs[i], s.key)
           less(v, w) == IF s.dir = "desc" THEN FirstDiffers(w, v) ELSE FirstDiffers(v, w)
<1>1. Len(rs) \in Nat /\ DOMAIN rs = 1..Len(rs) /\ \A i \in DOMAIN rs : rs[i] \in Position
  BY LenProperties, ElementOfSeq
<1>2. n \in Nat
  OBVIOUS
<1>3. \A i \in S : val(i) \in Tuples(n)
  <2> SUFFICES ASSUME NEW i \in S PROVE val(i) \in Tuples(n)
    OBVIOUS
  <2> DEFINE r == rs[i]
  <2>1. /\ DayOf[r.label] \in Int /\ r.exch \in Int /\ r.strike \in Int /\ r.sym \in Int
        /\ r.product \in Int /\ r.qty \in Int /\ r.ltp \in Int /\ r.pnl \in Int
    <3>1. r \in Position
      BY <1>1
    <3> HIDE DEF r
    <3> QED  BY <3>1, NettedAssumption DEF Position
  <2> HIDE DEF r
  <2>2. CASE s.key = "instrument"
    <3>1. SortValues(r, s.key) = <<DayOf[r.label], r.exch, r.strike, r.sym>>
      BY <2>2 DEF SortValues, ExpirySortValue
    <3>2. <<DayOf[r.label], r.exch, r.strike, r.sym>> \in [1..4 -> Int]
      BY <2>1
    <3> QED  BY <2>2, <3>1, <3>2 DEF Tuples, r
  <2>3. CASE s.key # "instrument"
    <3>1. \E x \in Int : SortValues(r, s.key) = <<x>>
      BY <2>1, <2>3 DEF SortValues, SortOrder
    <3>2. \A x \in Int : <<x>> \in [1..1 -> Int]
      OBVIOUS
    <3> QED  BY <2>3, <3>1, <3>2 DEF Tuples, r
  <2> QED  BY <2>2, <2>3
<1> HIDE DEF n, val
<1>4. /\ \A i, j \in S : val(i) = val(j) \/ less(val(i), val(j)) \/ less(val(j), val(i))
      /\ \A i, j \in S : less(val(i), val(j)) => ~less(val(j), val(i)) /\ val(i) # val(j)
      /\ \A i, j, k \in S : less(val(i), val(j)) /\ less(val(j), val(k)) => less(val(i), val(k))
  <2> DEFINE T == Tuples(n)
  <2>1. /\ \A v, w \in T : v = w \/ FirstDiffers(v, w) \/ FirstDiffers(w, v)
        /\ \A v, w \in T : FirstDiffers(v, w) => ~FirstDiffers(w, v) /\ v # w
        /\ \A u, v, w \in T : FirstDiffers(u, v) /\ FirstDiffers(v, w) => FirstDiffers(u, w)
    BY <1>2, TuplesAreOrdered
  <2> HIDE DEF T
  <2>2. \A i \in S : val(i) \in T
    BY <1>3 DEF T
  <2>3. CASE s.dir = "desc"
    BY <2>1, <2>2, <2>3
  <2>4. CASE s.dir # "desc"
    BY <2>1, <2>2, <2>4
  <2> QED  BY <2>3, <2>4
<1>5. \A i, j \in S : Before(rs[i], rs[j], s) <=> less(val(i), val(j))
  BY DEF Before, val
<1> HIDE DEF less
<1>6. \A i, j \in S : <<i, j>> \in R <=> less(val(i), val(j)) \/ (val(i) = val(j) /\ i <= j)
  <2> TAKE i, j \in S
  <2>1. <<i, j>> \in R <=> Precedes(rs, s, i, j)
    OBVIOUS
  <2>2. Precedes(rs, s, i, j) <=> less(val(i), val(j)) \/ (~less(val(j), val(i)) /\ i <= j)
    BY <1>5 DEF Precedes
  <2>3. less(val(i), val(j)) \/ (~less(val(j), val(i)) /\ i <= j)
          <=> less(val(i), val(j)) \/ (val(i) = val(j) /\ i <= j)
    BY <1>4
  <2> QED  BY <2>1, <2>2, <2>3
<1>7. \A i \in S : i \in Nat
  BY <1>1
<1>8. Orders(R, S)
  <2>1. ASSUME NEW i \in S, NEW j \in S PROVE <<i, j>> \in R \/ <<j, i>> \in R
    <3>1. CASE val(i) = val(j)
      <4>1. i <= j \/ j <= i
        BY <1>7
      <4> QED  BY <1>6, <3>1, <4>1
    <3>2. CASE val(i) # val(j)
      BY <1>4, <1>6, <3>2
    <3> QED  BY <3>1, <3>2
  <2>2. \A i, j \in S : <<i, j>> \in R /\ <<j, i>> \in R => i = j
    BY <1>4, <1>6, <1>7
  <2>3. \A i, j, k \in S : <<i, j>> \in R /\ <<j, k>> \in R => <<i, k>> \in R
    BY <1>4, <1>6, <1>7
  <2> QED  BY <2>1, <2>2, <2>3 DEF Orders
<1>9. IsFiniteSet(DOMAIN rs)
  BY <1>1, FS_Interval
<1> QED  BY <1>8, <1>9, FS_Subset

\* Sorting leaves the rows it was given, each once, and every row precedes those below it.
LEMMA SortedRows ==
    ASSUME NEW rs \in Seq(Position), NEW s \in SortOrder, NEW S \in SUBSET DOMAIN rs
    PROVE  \E at \in [1..Cardinality(S) -> S] :
             /\ Sorted(rs, S, s) = [k \in 1..Cardinality(S) |-> rs[at[k]]]
             /\ \A k, l \in 1..Cardinality(S) : k <= l => Precedes(rs, s, at[k], at[l])
<1> DEFINE R == {p \in S \X S : Precedes(rs, s, p[1], p[2])}
           place == [i \in S |-> Cardinality({j \in S : <<j, i>> \in R})]
           n == Cardinality(S)
           at == [k \in 1..n |-> CHOOSE i \in S : Place(rs, S, s, i) = k]
<1>1. Orders(R, S) /\ IsFiniteSet(S)
  BY RowsAreOrdered
<1>2. \A i, j \in S : <<i, j>> \in R <=> Precedes(rs, s, i, j)
  OBVIOUS
<1> HIDE DEF R
<1>3. place \in Bijection(S, 1..n) /\ \A i, j \in S : place[i] <= place[j] => <<i, j>> \in R
  BY <1>1, PlacesInOrder
<1>4. \A i \in S : place[i] = Place(rs, S, s, i)
  BY <1>2 DEF Place
<1> HIDE DEF place
<1>5. \A k \in 1..n : at[k] \in S /\ place[at[k]] = k
  <2> TAKE k \in 1..n
  <2>1. PICK i \in S : Place(rs, S, s, i) = k
    BY <1>3, <1>4 DEF Bijection, Surjection
  <2>2. at[k] \in S /\ Place(rs, S, s, at[k]) = k
    BY <2>1
  <2> QED  BY <1>4, <2>2
<1>6. at \in [1..n -> S]
  BY <1>5
<1>7. Sorted(rs, S, s) = [k \in 1..n |-> rs[at[k]]]
  <2> DEFINE seats == {[place |-> Place(rs, S, s, i), row |-> rs[i]] : i \in S}
  <2>1. ASSUME NEW k \in 1..n PROVE (CHOOSE p \in seats : p.place = k).row = rs[at[k]]
    <3>1. at[k] \in S /\ Place(rs, S, s, at[k]) = k
      BY <1>4, <1>5, <2>1
    <3>2. \A i \in S : Place(rs, S, s, i) = k => i = at[k]
      BY <1>3, <1>4, <3>1 DEF Bijection, Injection, IsInjective
    <3> HIDE DEF at
    <3>3. \E p \in seats : p.place = k
      <4>1. [place |-> Place(rs, S, s, at[k]), row |-> rs[at[k]]] \in seats
        BY <3>1
      <4> QED  BY <3>1, <4>1
    <3>4. \A p \in seats : p.place = k => p.row = rs[at[k]]
      BY <3>2
    <3> HIDE DEF seats
    <3> QED  BY <3>3, <3>4
  <2> HIDE DEF at
  <2> QED  BY <2>1 DEF Sorted
<1> HIDE DEF at
<1>8. \A k, l \in 1..n : k <= l => Precedes(rs, s, at[k], at[l])
  BY <1>2, <1>3, <1>5
<1> QED  BY <1>6, <1>7, <1>8

\* Rows of a group are together, but for labels of its exchange that sort as the same day.
Together(rs) ==
    \A k, m, l \in DOMAIN rs :
        k <= m /\ m <= l /\ GroupKey(rs[k]) = GroupKey(rs[l])
            => GroupKey(rs[m]) = GroupKey(rs[k]) \/ Mingles(rs, GroupKey(rs[k]))

\* Sorted by instrument, either way, only such labels take turns.
LEMMA GroupsTogether ==
    ASSUME NEW rs \in Seq(Position), NEW s \in SortOrder, s.key = "instrument",
           NEW S \in SUBSET DOMAIN rs
    PROVE  Together(Sorted(rs, S, s))
<1> DEFINE n == Cardinality(S)
           val(r) == <<DayOf[r.label], r.exch, r.strike, r.sym>>
           day(r) == DayOf[r.label]
<1>1. PICK at \in [1..n -> S] :
         /\ Sorted(rs, S, s) = [k \in 1..n |-> rs[at[k]]]
         /\ \A k, l \in 1..n : k <= l => Precedes(rs, s, at[k], at[l])
  BY SortedRows
<1> HIDE DEF n
<1>2. \A i \in S : rs[i] \in Position
  BY ElementOfSeq, LenProperties
<1>3. \A r \in Position : SortValues(r, s.key) = val(r) /\ val(r) \in Tuples(4)
  <2> TAKE r \in Position
  <2>1. SortValues(r, s.key) = val(r)
    BY DEF SortValues, ExpirySortValue
  <2>2. DayOf[r.label] \in Int /\ r.exch \in Int /\ r.strike \in Int /\ r.sym \in Int
    BY NettedAssumption DEF Position
  <2>3. val(r) \in [1..4 -> Int]
    BY <2>2
  <2> QED  BY <2>1, <2>3 DEF Tuples
<1>4. \A r, q \in Position : Before(r, q, s) => ~Before(q, r, s)
  <2> TAKE r, q \in Position
  <2>1. FirstDiffers(val(r), val(q)) => ~FirstDiffers(val(q), val(r))
    BY <1>3, TuplesAreOrdered
  <2>2. FirstDiffers(val(q), val(r)) => ~FirstDiffers(val(r), val(q))
    BY <1>3, TuplesAreOrdered
  <2> HIDE DEF val
  <2> QED  BY <1>3, <2>1, <2>2 DEF Before
\* A row of an earlier day, or of an exchange before, is compared so.
<1>5. ASSUME NEW r \in Position, NEW q \in Position,
             day(r) < day(q) \/ (day(r) = day(q) /\ r.exch < q.exch)
      PROVE  FirstDiffers(val(r), val(q))
  <2>1. DOMAIN val(r) = 1..4
    OBVIOUS
  <2>2. CASE day(r) < day(q)
    <3>1. val(r)[1] < val(q)[1] /\ \A j \in 1..(1 - 1) : val(r)[j] = val(q)[j]
      BY <2>2
    <3> HIDE DEF val
    <3> QED  BY <2>1, <3>1 DEF FirstDiffers
  <2>3. CASE day(r) = day(q) /\ r.exch < q.exch
    <3>1. val(r)[2] < val(q)[2] /\ \A j \in 1..(2 - 1) : val(r)[j] = val(q)[j]
      BY <2>3
    <3> HIDE DEF val
    <3> QED  BY <2>1, <3>1 DEF FirstDiffers
  <2> QED  BY <1>5, <2>2, <2>3
<1> DEFINE notAfter(r, q) ==
             IF s.dir = "desc"
             THEN day(r) >= day(q) /\ (day(r) = day(q) => r.exch >= q.exch)
             ELSE day(r) <= day(q) /\ (day(r) = day(q) => r.exch <= q.exch)
<1>6. ASSUME NEW k \in 1..n, NEW l \in 1..n, k <= l PROVE notAfter(rs[at[k]], rs[at[l]])
  <2> DEFINE r == rs[at[k]]
             q == rs[at[l]]
  <2>1. r \in Position /\ q \in Position
    BY <1>2
  <2>2. ~Before(q, r, s)
    <3>1. Precedes(rs, s, at[k], at[l])
      BY <1>1, <1>6
    <3>2. Before(r, q, s) \/ ~Before(q, r, s)
      BY <3>1 DEF Precedes
    <3> HIDE DEF r, q
    <3> QED  BY <1>4, <2>1, <3>2
  <2> HIDE DEF r, q
  <2>3. day(r) \in Int /\ r.exch \in Int /\ day(q) \in Int /\ q.exch \in Int
    BY <2>1, NettedAssumption DEF Position
  <2> HIDE DEF val
  <2>4. CASE s.dir = "desc"
    <3>1. ~FirstDiffers(val(r), val(q))
      BY <1>3, <2>1, <2>2, <2>4 DEF Before
    <3>2. ~(day(r) < day(q)) /\ ~(day(r) = day(q) /\ r.exch < q.exch)
      BY <1>5, <2>1, <3>1
    <3>3. notAfter(r, q)
      BY <2>3, <2>4, <3>2
    <3> QED  BY <3>3 DEF r, q
  <2>5. CASE s.dir # "desc"
    <3>1. ~FirstDiffers(val(q), val(r))
      BY <1>3, <2>1, <2>2, <2>5 DEF Before
    <3>2. ~(day(q) < day(r)) /\ ~(day(q) = day(r) /\ q.exch < r.exch)
      BY <1>5, <2>1, <3>1
    <3>3. notAfter(r, q)
      BY <2>3, <2>5, <3>2
    <3> QED  BY <3>3 DEF r, q
  <2> QED  BY <2>4, <2>5
<1> DEFINE t == Sorted(rs, S, s)
<1>7. DOMAIN t = 1..n /\ \A k \in 1..n : t[k] = rs[at[k]] /\ t[k] \in Position
  BY <1>1, <1>2
<1>8. \A k, l \in 1..n : k <= l => notAfter(t[k], t[l])
  BY <1>6, <1>7
<1> HIDE DEF t
<1>9. ASSUME NEW k \in 1..n, NEW m \in 1..n, NEW l \in 1..n, k <= m, m <= l,
             GroupKey(t[k]) = GroupKey(t[l])
      PROVE  GroupKey(t[m]) = GroupKey(t[k]) \/ Mingles(t, GroupKey(t[k]))
  <2>1. notAfter(t[k], t[m]) /\ notAfter(t[m], t[l])
    BY <1>8, <1>9
  <2>2. t[k].label = t[l].label /\ t[k].exch = t[l].exch
    BY <1>9 DEF GroupKey
  <2>3. /\ day(t[k]) \in Int /\ t[k].exch \in Int /\ day(t[m]) \in Int /\ t[m].exch \in Int
        /\ day(t[l]) \in Int /\ t[l].exch \in Int
    BY <1>7, NettedAssumption DEF Position
  <2>4. day(t[k]) = day(t[l])
    BY <2>2
  <2> HIDE DEF day
  <2>5. day(t[m]) = day(t[k]) /\ t[m].exch = t[k].exch
    BY <2>1, <2>2, <2>3, <2>4
  <2>6. CASE t[m].label # t[k].label
    <3>1. m \in DOMAIN t /\ ExpirySortValue(t[m].label) = ExpirySortValue(t[k].label)
      BY <1>7, <2>5 DEF ExpirySortValue, day
    <3> QED  BY <2>5, <2>6, <3>1 DEF Mingles, GroupKey
  <2> QED  BY <2>5, <2>6 DEF GroupKey
<1>10. Together(t)
  BY <1>7, <1>9 DEF Together
<1> QED  BY <1>10 DEF t

\* What can be drawn of rows: each of them, and a header for the group of each.
Items(rs) ==
    {Item(rs[j]) : j \in DOMAIN rs} \cup {Header(rs, GroupKey(rs[j])) : j \in DOMAIN rs}

\* Drawing one row after the other comes to an end, with a table of items.
LEMMA TableIsDrawn ==
    ASSUME NEW S, NEW rs \in Seq(S)
    PROVE  \E out \in [0..Len(rs) -> Seq(Items(rs))] :
             /\ out[0] = <<>> /\ Grouped(rs) = out[Len(rs)]
             /\ \A k \in 1..Len(rs) : out[k] = Drawn(out[k - 1], rs, k)
<1> DEFINE n == Len(rs)
           draws(out, m) == out = [k \in 0..m |-> IF k = 0 THEN <<>> ELSE Drawn(out[k - 1], rs, k)]
           N == {m \in Nat : \E out : draws(out, m)}
<1>1. n \in Nat /\ DOMAIN rs = 1..n
  OBVIOUS
<1>2. 0 \in N
  <2> DEFINE out == [k \in 0..0 |-> <<>>]
  <2>1. \A k \in 0..0 : k = 0
    OBVIOUS
  <2>2. draws(out, 0)
    BY <2>1
  <2> QED  BY <2>2
<1>3. ASSUME NEW m \in N PROVE m + 1 \in N
  <2>1. PICK g : draws(g, m)
    OBVIOUS
  <2> DEFINE h == [k \in 0..(m + 1) |-> IF k = 0 THEN <<>> ELSE Drawn(g[k - 1], rs, k)]
  <2>2. m \in Nat /\ m + 1 \in Nat
    OBVIOUS
  <2>3. \A k \in 0..m : k \in 0..(m + 1) /\ h[k] = g[k]
    <3>1. \A k \in 0..m : g[k] = IF k = 0 THEN <<>> ELSE Drawn(g[k - 1], rs, k)
      BY <2>1
    <3>2. \A k \in 0..m : k \in 0..(m + 1)
      BY <2>2
    <3> QED  BY <3>1, <3>2
  <2>4. \A k \in 0..(m + 1) : k # 0 => k - 1 \in 0..m
    BY <2>2
  <2>5. \A k \in 0..(m + 1) : h[k] = IF k = 0 THEN <<>> ELSE Drawn(h[k - 1], rs, k)
    BY <2>3, <2>4
  <2>6. draws(h, m + 1)
    BY <2>5
  <2> QED  BY <2>2, <2>6
<1>4. PICK out : draws(out, n)
  <2> HIDE DEF N
  <2>1. N = Nat
    <3>1. N \in SUBSET Nat
      BY DEF N
    <3> QED  BY <1>2, <1>3, <3>1, AllNaturals
  <2>2. n \in N
    BY <1>1, <2>1
  <2> QED  BY <2>2 DEF N
<1> DEFINE last == CHOOSE x : draws(x, n)
<1>5. draws(last, n) /\ Grouped(rs) = last[n]
  <2>1. draws(last, n)
    BY <1>4
  <2>2. Grouped(rs) = last[n]
    BY DEF Grouped
  <2> QED  BY <2>1, <2>2
<1> HIDE DEF last
<1>6. DOMAIN last = 0..n /\ last[0] = <<>> /\ \A k \in 1..n : last[k] = Drawn(last[k - 1], rs, k)
  <2>1. DOMAIN last = 0..n /\ \A k \in 0..n : last[k] = IF k = 0 THEN <<>> ELSE Drawn(last[k - 1], rs, k)
    BY <1>5
  <2>2. 0 \in 0..n /\ \A k \in 1..n : k \in 0..n /\ k # 0
    BY <1>1
  <2> QED  BY <2>1, <2>2
<1>7. \A k \in 0..n : last[k] \in Seq(Items(rs))
  <2> DEFINE M == {k \in Nat : k <= n => last[k] \in Seq(Items(rs))}
  <2>1. 0 \in M
    <3>1. <<>> \in Seq(Items(rs))
      OBVIOUS
    <3> QED  BY <1>6, <3>1
  <2>2. ASSUME NEW k \in M, k + 1 <= n PROVE last[k + 1] \in Seq(Items(rs))
    <3>1. k \in Nat /\ k + 1 \in 1..n /\ last[k] \in Seq(Items(rs)) /\ last[k + 1] = Drawn(last[k], rs, k + 1)
      <4>1. k \in Nat /\ k <= n /\ k + 1 \in 1..n /\ (k + 1) - 1 = k
        BY <1>1, <2>2
      <4> QED  BY <1>6, <4>1
    <3> DEFINE r == rs[k + 1]
    <3>2. Item(r) \in Items(rs) /\ Header(rs, GroupKey(r)) \in Items(rs)
      BY <1>1, <3>1 DEF Items
    <3> HIDE DEF r
    <3>3. Append(last[k], Item(r)) \in Seq(Items(rs))
      BY <3>1, <3>2
    <3>4. last[k] \o <<Header(rs, GroupKey(r)), Item(r)>> \in Seq(Items(rs))
      BY <3>1, <3>2
    <3> QED  BY <3>1, <3>3, <3>4 DEF Drawn, r
  <2>3. \A k \in M : k + 1 \in M
    BY <2>2
  <2> HIDE DEF M
  <2>4. M = Nat
    <3>1. M \in SUBSET Nat
      BY DEF M
    <3> QED  BY <2>1, <2>3, <3>1, AllNaturals
  <2> QED  BY <1>1, <2>4 DEF M
<1>8. last \in [0..n -> Seq(Items(rs))]
  <2>1. last = [k \in 0..n |-> last[k]]
    BY <1>5, <1>6
  <2> QED  BY <1>7, <2>1
<1> QED  BY <1>5, <1>6, <1>8

\* The items drawn are rows of the table and headers; if only labels of one day take turns,
\* every group of the rows has a header, and one alone unless its rows take turns.
LEMMA HeadsOfGroups ==
    ASSUME NEW S, NEW rs \in Seq(S)
    PROVE  LET items == Grouped(rs)
           IN  /\ items \in Seq(Items(rs))
               /\ Together(rs) =>
                    /\ \A i, j \in Heads(items) : items[i].key = items[j].key
                         => i = j \/ Mingles(rs, items[i].key)
                    /\ \A i \in Heads(items) : items[i] = Header(rs, items[i].key)
                    /\ \A k \in DOMAIN rs : \E i \in Heads(items) : items[i].key = GroupKey(rs[k])
<1> DEFINE n == Len(rs)
<1>1. PICK out \in [0..n -> Seq(Items(rs))] :
         /\ out[0] = <<>> /\ Grouped(rs) = out[n]
         /\ \A k \in 1..n : out[k] = Drawn(out[k - 1], rs, k)
  BY TableIsDrawn
<1>2. n \in Nat /\ DOMAIN rs = 1..n
  OBVIOUS
<1> DEFINE one(x) == \A i, j \in Heads(x) : x[i].key = x[j].key => i = j \/ Mingles(rs, x[i].key)
           of(x, m) == \A i \in Heads(x) : \E j \in 1..m : x[i] = Header(rs, GroupKey(rs[j]))
           all(x, m) == \A k \in 1..m : \E i \in Heads(x) : x[i].key = GroupKey(rs[k])
           N == {m \in Nat : m <= n => one(out[m]) /\ of(out[m], m) /\ all(out[m], m)}
<1>3. \A g : Header(rs, g).key = g /\ Header(rs, g).type = "group"
  BY DEF Header
<1>4. \A r : Item(r).type = "row" /\ Item(r).row = r
  BY DEF Item
<1> SUFFICES ASSUME Together(rs) PROVE n \in N
  <2>1. ASSUME NEW x, of(x, n) PROVE \A i \in Heads(x) : x[i] = Header(rs, x[i].key)
    BY <1>3, <2>1
  <2> HIDE DEF N
  <2>2. CASE n \in N
    <3> DEFINE x == Grouped(rs)
    <3>1. one(x) /\ of(x, n) /\ all(x, n)
      <4>1. one(out[n]) /\ of(out[n], n) /\ all(out[n], n)
        <5> HIDE DEF one, of, all
        <5> QED  BY <1>2, <2>2 DEF N
      <4> HIDE DEF one, of, all
      <4> QED  BY <1>1, <4>1
    <3>2. x \in Seq(Items(rs))
      BY <1>1, <1>2
    <3> HIDE DEF x
    <3>3. \A i \in Heads(x) : x[i] = Header(rs, x[i].key)
      BY <2>1, <3>1
    <3>4. \A k \in DOMAIN rs : \E i \in Heads(x) : x[i].key = GroupKey(rs[k])
      BY <1>2, <3>1
    <3> QED  BY <3>1, <3>2, <3>3, <3>4 DEF x
  <2>3. CASE ~Together(rs)
    <3>1. out[n] \in Seq(Items(rs))
      BY <1>1, <1>2
    <3> QED  BY <1>1, <2>3, <3>1
  <2> QED  BY <2>2, <2>3
<1>5. 0 \in N
  <2>1. Heads(<<>>) = {}
    BY DEF Heads
  <2> QED  BY <1>1, <2>1
<1>6. ASSUME NEW m \in N PROVE m + 1 \in N
  <2> SUFFICES ASSUME m + 1 <= n
               PROVE  one(out[m + 1]) /\ of(out[m + 1], m + 1) /\ all(out[m + 1], m + 1)
    OBVIOUS
  <2> DEFINE x == out[m]
             y == out[m + 1]
             r == rs[m + 1]
             g == GroupKey(r)
  <2>1. m \in Nat /\ m + 1 \in 1..n /\ m \in 0..n /\ m + 1 \in 0..n /\ (m + 1) - 1 = m
    BY <1>2
  <2>2. x \in Seq(Items(rs)) /\ one(x) /\ of(x, m) /\ all(x, m)
    <3>1. x \in Seq(Items(rs))
      BY <1>1, <2>1
    <3>2. m <= n
      BY <1>2, <2>1
    <3> HIDE DEF one, of, all, x
    <3> QED  BY <3>1, <3>2 DEF x
  <2>3. y = Drawn(x, rs, m + 1)
    BY <1>1, <2>1
  <2> HIDE DEF N, x, y
  <2>4. Len(x) \in Nat /\ DOMAIN x = 1..Len(x)
    BY <2>2
  <2>5. CASE m + 1 > 1 /\ GroupKey(rs[m]) = g
    <3>1. y = Append(x, Item(r))
      BY <2>1, <2>3, <2>5 DEF Drawn
    <3>2. DOMAIN y = 1..(Len(x) + 1) /\ y[Len(x) + 1] = Item(r) /\ \A i \in DOMAIN x : y[i] = x[i]
      BY <2>2, <2>4, <3>1
    <3>3. Heads(y) = Heads(x) /\ \A i \in Heads(x) : y[i] = x[i]
      BY <1>4, <2>4, <3>2 DEF Heads
    <3>4. one(y)
      BY <2>2, <3>3
    <3>5. of(y, m + 1)
      <4>1. \A j \in 1..m : j \in 1..(m + 1)
        BY <2>1
      <4> QED  BY <2>2, <3>3, <4>1
    <3>6. all(y, m + 1)
      <4> SUFFICES ASSUME NEW k \in 1..(m + 1)
                   PROVE  \E i \in Heads(y) : y[i].key = GroupKey(rs[k])
        OBVIOUS
      <4>1. CASE k \in 1..m
        BY <2>2, <3>3, <4>1
      <4>2. CASE k = m + 1
        <5>1. m \in 1..m
          BY <2>1, <2>5
        <5>2. \E i \in Heads(x) : x[i].key = GroupKey(rs[m])
          BY <2>2, <5>1
        <5> QED  BY <2>5, <3>3, <4>2, <5>2
      <4> QED  BY <2>1, <4>1, <4>2
    <3> QED  BY <3>4, <3>5, <3>6 DEF x, y
  <2>6. CASE ~(m + 1 > 1 /\ GroupKey(rs[m]) = g)
    <3> DEFINE h == Header(rs, g)
               p == Len(x) + 1
    <3>1. y = x \o <<h, Item(r)>>
      BY <2>1, <2>3, <2>6 DEF Drawn
    <3> HIDE DEF h
    <3>2. DOMAIN y = 1..(Len(x) + 2) /\ y[p] = h /\ y[p + 1] = Item(r) /\ \A i \in DOMAIN x : y[i] = x[i]
      BY <2>2, <2>4, <3>1
    <3>3. h.key = g /\ h.type = "group"
      BY <1>3 DEF h
    <3>4. Heads(y) = Heads(x) \cup {p} /\ p \notin Heads(x) /\ \A i \in Heads(x) : y[i] = x[i]
      BY <1>4, <2>4, <3>2, <3>3 DEF Heads
    <3> HIDE DEF p
    <3>5. \A j \in 1..m : GroupKey(rs[j]) = g => Mingles(rs, g)
      <4> SUFFICES ASSUME NEW j \in 1..m, GroupKey(rs[j]) = g, ~Mingles(rs, g) PROVE FALSE
        OBVIOUS
      <4>1. j <= m /\ m <= m + 1 /\ j \in DOMAIN rs /\ m \in DOMAIN rs /\ m + 1 \in DOMAIN rs /\ m + 1 > 1
        BY <1>2, <2>1
      <4>2. GroupKey(rs[m]) = GroupKey(rs[j])
        BY <4>1 DEF Together
      <4> QED  BY <2>6, <4>1, <4>2
    <3>6. \A i \in Heads(x) : x[i].key = g => Mingles(rs, g)
      BY <1>3, <2>2, <3>5
    <3>7. one(y)
      BY <2>2, <3>2, <3>3, <3>4, <3>6
    <3>8. of(y, m + 1)
      <4>1. (\A j \in 1..m : j \in 1..(m + 1)) /\ m + 1 \in 1..(m + 1)
        BY <2>1
      <4>2. y[p] = Header(rs, GroupKey(rs[m + 1]))
        BY <3>2 DEF h
      <4> QED  BY <2>2, <3>4, <4>1, <4>2
    <3>9. all(y, m + 1)
      <4> SUFFICES ASSUME NEW k \in 1..(m + 1)
                   PROVE  \E i \in Heads(y) : y[i].key = GroupKey(rs[k])
        OBVIOUS
      <4>1. CASE k \in 1..m
        BY <2>2, <3>4, <4>1
      <4>2. CASE k = m + 1
        BY <3>2, <3>3, <3>4, <4>2
      <4> QED  BY <2>1, <4>1, <4>2
    <3> QED  BY <3>7, <3>8, <3>9 DEF x, y
  <2> QED  BY <2>5, <2>6
<1> QED
  <2> HIDE DEF N
  <2>1. N = Nat
    <3>1. N \in SUBSET Nat
      BY DEF N
    <3> QED  BY <1>5, <1>6, <3>1, AllNaturals
  <2> QED  BY <1>2, <2>1

\* The first headers of the groups add up to the total of the rows.
LEMMA HeadsAddUp ==
    ASSUME NEW rs \in Seq(Position), Together(rs)
    PROVE  LET items == Grouped(rs)
               heads == Heads(items)
               firsts == {i \in heads : \A j \in heads : items[j].key = items[i].key => i <= j}
           IN  SumFunction([i \in firsts |-> items[i].pnl]) = Total(rs)
<1> DEFINE x == Grouped(rs)
           f == PnlOf(rs)
           S == DOMAIN rs
           G == {i \in Heads(x) : \A j \in Heads(x) : x[j].key = x[i].key => i <= j}
           headOf == [k \in S |-> CHOOSE i \in G : x[i].key = GroupKey(rs[k])]
<1>1. x \in Seq(Items(rs))
      /\ (\A i, j \in G : x[i].key = x[j].key => i = j)
      /\ (\A i \in G : x[i] = Header(rs, x[i].key))
      /\ (\A k \in S : \E i \in G : x[i].key = GroupKey(rs[k]))
  <2>1. /\ x \in Seq(Items(rs))
        /\ \A i \in Heads(x) : x[i] = Header(rs, x[i].key)
        /\ \A k \in S : \E i \in Heads(x) : x[i].key = GroupKey(rs[k])
    BY HeadsOfGroups
  <2> HIDE DEF x
  <2>2. Heads(x) \subseteq Nat
    BY <2>1 DEF Heads
  <2>3. \A i, j \in G : x[i].key = x[j].key => i = j
    BY <2>2
  <2>4. ASSUME NEW k \in S PROVE \E i \in G : x[i].key = GroupKey(rs[k])
    <3> DEFINE mine == {i \in Heads(x) : x[i].key = GroupKey(rs[k])}
    <3>1. mine \subseteq Nat /\ mine # {}
      BY <2>1, <2>2, <2>4
    <3>2. PICK i \in mine : \A j \in mine : <<j, i>> \notin OpToRel(<, Nat)
      BY <3>1, NatLessThanWellFounded, WFMin
    <3>3. \A j \in mine : i <= j
      <4> TAKE j \in mine
      <4>1. i \in Nat /\ j \in Nat
        BY <3>1
      <4>2. ~(j < i)
        BY <3>2, <4>1 DEF OpToRel
      <4> HIDE DEF mine
      <4> QED  BY <4>1, <4>2
    <3> QED  BY <3>2, <3>3
  <2> QED  BY <2>1, <2>3, <2>4
<1> HIDE DEF x
<1>2. IsFiniteSet(S) /\ IsFiniteSet(G)
  <2>1. S = 1..Len(rs) /\ Len(rs) \in Nat /\ DOMAIN x = 1..Len(x) /\ Len(x) \in Nat
    BY <1>1
  <2>2. IsFiniteSet(S) /\ IsFiniteSet(DOMAIN x)
    BY <2>1, FS_Interval
  <2>3. G \subseteq DOMAIN x
    BY DEF Heads
  <2> QED  BY <2>2, <2>3, FS_Subset
<1>3. DOMAIN f = S /\ \A k \in S : f[k] \in Int
  <2>1. \A k \in S : rs[k] \in Position
    BY LenProperties, ElementOfSeq
  <2> QED  BY <2>1 DEF PnlOf, Position
<1>4. \A k \in S : headOf[k] \in G /\ x[headOf[k]].key = GroupKey(rs[k])
  BY <1>1
<1> HIDE DEF headOf, G
<1>5. \A i \in G : {k \in S : headOf[k] = i} = {k \in S : GroupKey(rs[k]) = x[i].key}
  BY <1>1, <1>4
<1>6. \A i \in G : x[i].pnl = SumFunctionOnSet(f, {k \in S : headOf[k] = i})
  <2> TAKE i \in G
  <2>1. Header(rs, x[i].key).pnl = SumFunctionOnSet(f, {k \in S : GroupKey(rs[k]) = x[i].key})
    BY DEF Header
  <2>2. x[i].pnl = Header(rs, x[i].key).pnl
    BY <1>1
  <2> QED  BY <1>5, <2>1, <2>2
<1> HIDE DEF f, S
<1>7. SumFunctionOnSet(f, S)
        = SumFunction([i \in G |-> SumFunctionOnSet(f, {k \in S : headOf[k] = i})])
  BY <1>2, <1>3, <1>4, GroupsAddUp
<1>8. [i \in G |-> SumFunctionOnSet(f, {k \in S : headOf[k] = i})] = [i \in G |-> x[i].pnl]
  BY <1>6
<1>9. Total(rs) = SumFunctionOnSet(f, S)
  BY <1>3 DEF Total, SumFunction, f
<1> QED  BY <1>7, <1>8, <1>9 DEF x, G

\* A ticked key names a position whose box was ticked.
KeyOf(key, r) == key[1] = r.sym /\ key[2] = r.exch /\ key[3] = r.product /\ key[4] = r.qty

TableTypes ==
    /\ positions \in Seq(Position)
    /\ ticks \in [DOMAIN Lots -> Int]
    /\ sort \in SortOrder
    /\ DOMAIN lotCache \subseteq DOMAIN Lots /\ \A s \in DOMAIN lotCache : lotCache[s] \in Nat

TableCore ==
    /\ TableTypes /\ Netted(positions)
    /\ \A key \in selected :
         \E i \in DOMAIN positions : positions[i].id \in checked /\ KeyOf(key, positions[i])

\* A tick moves prices, never what a row is of.
LEMMA TicksKeepRows ==
    ASSUME TableTypes
    PROVE  LET live == LiveRows(positions, ticks)
           IN  /\ live \in Seq(Position) /\ DOMAIN live = DOMAIN positions
               /\ \A i \in DOMAIN positions :
                    live[i].id = positions[i].id /\ Alike(live[i], positions[i])
<1>1. Len(positions) \in Nat /\ DOMAIN positions = 1..Len(positions)
      /\ \A i \in DOMAIN positions : positions[i] \in Position
  BY LenProperties, ElementOfSeq DEF TableTypes
<1>2. ASSUME NEW r \in Position
      PROVE  /\ WithLiveTick(r, ticks) \in Position
             /\ WithLiveTick(r, ticks).id = r.id /\ Alike(WithLiveTick(r, ticks), r)
  <2>1. CASE r.qty = 0 \/ ticks[r.sym] = 0
    BY <2>1 DEF WithLiveTick, Alike
  <2>2. CASE ~(r.qty = 0 \/ ticks[r.sym] = 0)
    <3> DEFINE t == ticks[r.sym]
               q == [r EXCEPT !.ltp = t, !.pnl = r.realised + (t - r.avg) * r.qty]
    <3>1. WithLiveTick(r, ticks) = q
      BY <2>2 DEF WithLiveTick
    <3>2. t \in Int /\ r.realised + (t - r.avg) * r.qty \in Int
      <4>1. t \in Int /\ r.realised \in Int /\ r.avg \in Int /\ r.qty \in Int
        BY DEF TableTypes, Position
      <4> QED  BY <4>1
    <3> HIDE DEF t
    <3>3. q \in Position
      BY <3>2 DEF Position
    <3>4. q.id = r.id /\ Alike(q, r)
      BY DEF Position, Alike
    <3> QED  BY <3>1, <3>3, <3>4
  <2> QED  BY <2>1, <2>2
<1> DEFINE live == LiveRows(positions, ticks)
<1>3. DOMAIN live = DOMAIN positions /\ \A i \in DOMAIN positions : live[i] = WithLiveTick(positions[i], ticks)
  BY DEF LiveRows
<1>4. live \in [1..Len(positions) -> Position]
  <2>1. live = [i \in DOMAIN positions |-> live[i]]
    BY DEF LiveRows
  <2> HIDE DEF live
  <2> QED  BY <1>1, <1>2, <1>3, <2>1
<1> HIDE DEF live
<1>5. live \in Seq(Position)
  BY <1>1, <1>4
<1>6. \A i \in DOMAIN positions : live[i].id = positions[i].id /\ Alike(live[i], positions[i])
  BY <1>1, <1>2, <1>3
<1> QED  BY <1>3, <1>5, <1>6 DEF live

\* What is shown is of the account's positions, in groups if sorted by instrument.
LEMMA VisibleRowsAre ==
    ASSUME TableTypes
    PROVE  /\ VisibleRows \in Seq(Position)
           /\ \A k \in DOMAIN VisibleRows : \E i \in DOMAIN positions :
                VisibleRows[k].id = positions[i].id /\ Alike(VisibleRows[k], positions[i])
           /\ sort.key = "instrument" => Together(VisibleRows)
<1> DEFINE live == LiveRows(positions, ticks)
           S == {i \in DOMAIN live : Passes(live[i], filters)}
           n == Cardinality(S)
<1>1. /\ live \in Seq(Position) /\ DOMAIN live = DOMAIN positions
      /\ \A i \in DOMAIN positions : live[i].id = positions[i].id /\ Alike(live[i], positions[i])
  BY TicksKeepRows
<1>2. sort \in SortOrder /\ S \in SUBSET DOMAIN live /\ VisibleRows = Sorted(live, S, sort)
  BY DEF TableTypes, VisibleRows
<1> HIDE DEF live
<1>3. IsFiniteSet(S)
  <2>1. DOMAIN live = 1..Len(live) /\ Len(live) \in Nat
    BY <1>1
  <2>2. IsFiniteSet(DOMAIN live)
    BY <2>1, FS_Interval
  <2> QED  BY <1>2, <2>2, FS_Subset
<1> HIDE DEF S
<1>4. PICK at \in [1..n -> S] : VisibleRows = [k \in 1..n |-> live[at[k]]]
  BY <1>1, <1>2, SortedRows
<1>5. n \in Nat
  BY <1>3, FS_CardinalityType
<1> HIDE DEF n
<1>6. \A k \in 1..n : at[k] \in DOMAIN positions /\ live[at[k]] \in Position
  <2> TAKE k \in 1..n
  <2>1. at[k] \in DOMAIN live
    BY <1>2
  <2> QED  BY <1>1, <2>1, LenProperties, ElementOfSeq
<1>7. VisibleRows \in [1..n -> Position] /\ DOMAIN VisibleRows = 1..n
  BY <1>4, <1>6
<1>8. VisibleRows \in Seq(Position)
  BY <1>5, <1>7
<1>9. \A k \in 1..n : VisibleRows[k].id = positions[at[k]].id /\ Alike(VisibleRows[k], positions[at[k]])
  BY <1>1, <1>4, <1>6
<1>10. sort.key = "instrument" => Together(VisibleRows)
  BY <1>1, <1>2, GroupsTogether
<1> QED  BY <1>6, <1>7, <1>8, <1>9, <1>10

\* Every row on screen is a position of the account.
LEMMA RowsOfTable ==
    ASSUME TableTypes, NEW j \in Rows(TableRows)
    PROVE  \E i \in DOMAIN positions :
             TableRows[j].row.id = positions[i].id /\ Alike(TableRows[j].row, positions[i])
<1> DEFINE vis == VisibleRows
<1>1. vis \in Seq(Position)
      /\ \A k \in DOMAIN vis : \E i \in DOMAIN positions :
           vis[k].id = positions[i].id /\ Alike(vis[k], positions[i])
  BY VisibleRowsAre
<1>2. \E k \in DOMAIN vis : TableRows[j].row = vis[k]
  <2>1. CASE sort.key = "instrument"
    <3>1. TableRows = Grouped(vis)
      BY <2>1 DEF TableRows
    <3> HIDE DEF vis
    <3>2. Grouped(vis) \in Seq(Items(vis))
      BY <1>1, HeadsOfGroups
    <3>3. j \in DOMAIN TableRows /\ TableRows[j].type = "row"
      BY DEF Rows
    <3>4. TableRows[j] \in Items(vis)
      BY <3>1, <3>2, <3>3, LenProperties, ElementOfSeq
    <3>5. \A g : Header(vis, g).type # "row"
      BY DEF Header
    <3>6. \E k \in DOMAIN vis : TableRows[j] = Item(vis[k])
      BY <3>3, <3>4, <3>5 DEF Items
    <3> QED  BY <3>6 DEF Item
  <2>2. CASE sort.key # "instrument"
    <3>1. TableRows = [i \in DOMAIN vis |-> [type |-> "row", key |-> <<>>, row |-> vis[i]]]
      BY <2>2 DEF TableRows
    <3>2. j \in DOMAIN vis
      BY <3>1 DEF Rows
    <3> QED  BY <3>1, <3>2
  <2> QED  BY <2>1, <2>2
<1> QED  BY <1>1, <1>2

\* The panel opens with an empty table.
LEMMA TableBegins == TableInit => TableCore
<1> SUFFICES ASSUME TableInit PROVE TableCore
  OBVIOUS
<1>1. positions \in Seq(Position) /\ Netted(positions)
  BY DEF TableInit, Netted
<1>2. ticks \in [DOMAIN Lots -> Int]
  BY DEF TableInit
<1>3. sort \in SortOrder
  BY DEF TableInit, SortOrder
<1>4. DOMAIN lotCache = {}
  BY DEF TableInit
<1> QED  BY <1>1, <1>2, <1>3, <1>4 DEF TableInit, TableCore, TableTypes

\* New rows get their lot sizes and stay what they are of.
LEMMA NewRowsKeep ==
    ASSUME TableCore, NEW rs \in Books, NewRows(rs)
    PROVE  TableCore'
<1>1. rs \in Seq(Position) /\ Netted(rs)
  BY NettedAssumption
<1>2. Len(rs) \in Nat /\ DOMAIN rs = 1..Len(rs) /\ \A i \in DOMAIN rs : rs[i] \in Position
  BY <1>1, LenProperties, ElementOfSeq
<1> DEFINE asked == {rs[i].sym : i \in {j \in DOMAIN rs : rs[j].lot = 0}} \ DOMAIN lotCache
<1>3. asked \subseteq DOMAIN Lots
  BY <1>2 DEF Position
<1>4. lotCache' = [s \in DOMAIN lotCache \cup asked |-> IF s \in DOMAIN lotCache THEN lotCache[s] ELSE Lots[s]]
  BY DEF NewRows, Searched
<1>5. \A i \in DOMAIN rs : rs[i].lot = 0 => rs[i].sym \in DOMAIN lotCache \cup asked
  OBVIOUS
<1> HIDE DEF asked
<1>6. DOMAIN lotCache' \subseteq DOMAIN Lots /\ \A s \in DOMAIN lotCache' : lotCache'[s] \in Nat
  BY <1>3, <1>4, NettedAssumption DEF TableCore, TableTypes
<1>7. ASSUME NEW i \in DOMAIN rs
      PROVE  Enriched(rs[i], lotCache') \in Position /\ Alike(Enriched(rs[i], lotCache'), rs[i])
  <2> DEFINE r == rs[i]
             c == lotCache'
  <2>1. r \in Position /\ (r.lot = 0 => c[r.sym] \in Nat)
    BY <1>2, <1>4, <1>5, <1>6
  <2> HIDE DEF r, c
  <2>2. CASE r.lot > 0
    BY <2>1, <2>2 DEF Enriched, Alike, r, c
  <2>3. CASE ~(r.lot > 0)
    <3> DEFINE q == [r EXCEPT !.lot = c[r.sym]]
    <3>1. r.lot = 0 /\ Enriched(r, c) = q
      BY <2>1, <2>3 DEF Position, Enriched
    <3>2. q \in Position /\ Alike(q, r)
      BY <2>1, <3>1 DEF Position, Alike
    <3> QED  BY <3>1, <3>2 DEF r, c
  <2> QED  BY <2>2, <2>3
<1>8. positions' = [i \in DOMAIN rs |-> Enriched(rs[i], lotCache')]
  BY DEF NewRows
<1>9. positions' \in [1..Len(rs) -> Position] /\ DOMAIN positions' = DOMAIN rs
  BY <1>2, <1>7, <1>8
<1>10. positions' \in Seq(Position)
  BY <1>2, <1>9
<1>11. Netted(positions')
  <2>1. \A i \in DOMAIN rs : Alike(positions'[i], rs[i])
    BY <1>7, <1>8
  <2> QED  BY <1>1, <1>9, <2>1 DEF Netted, Alike
<1>12. selected' = {} /\ UNCHANGED <<ticks, sort>>
  BY DEF NewRows, Deselect
<1> QED  BY <1>6, <1>10, <1>11, <1>12 DEF TableCore, TableTypes

\* Ticking a box adds the key of its row.
LEMMA ToggleRowKeeps ==
    ASSUME TableCore, ToggleRow
    PROVE  TableCore'
<1>1. PICK j \in OnScreen(TableRows) :
         LET key == RowKey(TableRows[j].row, j)
         IN  IF key \in selected THEN selected' = selected \ {key} /\ checked' = checked
             ELSE selected' = selected \cup {key} /\ checked' = checked \cup {TableRows[j].row.id}
  <2>1. PICK box \in Boxes :
          IF box.key \in selected THEN selected' = selected \ {box.key} /\ checked' = checked
          ELSE selected' = selected \cup {box.key} /\ checked' = checked \cup {box.id}
    BY DEF ToggleRow
  <2>2. PICK j \in OnScreen(TableRows) :
          box = [key |-> RowKey(TableRows[j].row, j), id |-> TableRows[j].row.id]
    BY DEF Boxes
  <2>3. box.key = RowKey(TableRows[j].row, j) /\ box.id = TableRows[j].row.id
    BY <2>2
  <2> QED  BY <2>1, <2>3
<1> DEFINE r == TableRows[j].row
<1>2. PICK i \in DOMAIN positions : r.id = positions[i].id /\ Alike(r, positions[i])
  BY RowsOfTable DEF OnScreen, TableCore
<1>3. KeyOf(RowKey(r, j), positions[i])
  BY <1>2 DEF RowKey, KeyOf, Alike
<1> HIDE DEF r
<1>4. \A key \in selected' :
        \E k \in DOMAIN positions : positions[k].id \in checked' /\ KeyOf(key, positions[k])
  BY <1>1, <1>2, <1>3 DEF TableCore, r
<1>5. UNCHANGED <<positions, ticks, sort, lotCache>>
  BY DEF ToggleRow
<1> QED  BY <1>4, <1>5 DEF TableCore, TableTypes

\* Everything the user and the feeds do keeps the keys those of positions ticked.
LEMMA TableStays == TableCore /\ [TableNext]_tableVars => TableCore'
<1> SUFFICES ASSUME TableCore, [TableNext]_tableVars PROVE TableCore'
  OBVIOUS
\* What leaves the rows, and what is ticked or more of it.
<1>1. ASSUME UNCHANGED <<positions, selected, checked, lotCache>>, ticks' \in [DOMAIN Lots -> Int],
             sort' \in SortOrder
      PROVE  TableCore'
  BY <1>1 DEF TableCore, TableTypes
<1>2. ticks \in [DOMAIN Lots -> Int] /\ sort \in SortOrder
  BY DEF TableCore, TableTypes
<1>3. ASSUME NEW rs \in Books, NewRows(rs) PROVE TableCore'
  BY <1>3, NewRowsKeep
<1>4. ASSUME NEW s \in DOMAIN Lots, LiveTick(s, 2) PROVE TableCore'
  BY <1>1, <1>2, <1>4 DEF LiveTick
<1>5. ASSUME NEW key \in DOMAIN FilterValues, NEW v \in FilterValues[key], PickFilter(key, v)
      PROVE  TableCore'
  BY <1>1, <1>2, <1>5 DEF PickFilter
<1>6. ASSUME NEW column \in SortKeys, ResetColumn(column) \/ SortBy(column) PROVE TableCore'
  <2>1. CASE ResetColumn(column)
    BY <1>1, <1>2, <2>1 DEF ResetColumn
  <2>2. CASE SortBy(column)
    <3>1. sort' \in SortOrder
      BY <2>2, TableAssumption DEF SortBy, SortOrder
    <3> QED  BY <1>1, <1>2, <2>2, <3>1 DEF SortBy
  <2> QED  BY <1>6, <2>1, <2>2
<1>7. CASE ClearFilters \/ CollapseAll \/ ToggleGroup \/ OpenDialog \/ Dialog
  BY <1>1, <1>2, <1>7 DEF ClearFilters, CollapseAll, ToggleGroup, OpenDialog, Dialog
<1>8. CASE ClearSelection
  BY <1>8 DEF ClearSelection, TableCore, TableTypes
<1>9. CASE ToggleRow
  BY <1>9, ToggleRowKeeps
<1>10. CASE UNCHANGED tableVars
  BY <1>1, <1>2, <1>10 DEF tableVars
<1> QED  BY <1>3, <1>4, <1>5, <1>6, <1>7, <1>8, <1>9, <1>10 DEF TableNext

\* No leg of a strategy is a row the user has not ticked, and a header carries the P&L of
\* its group.
LEMMA CoreMakesRowsTheirOwn == TableCore => RowsAreTheirOwn
<1> SUFFICES ASSUME TableCore PROVE RowsAreTheirOwn
  OBVIOUS
<1>1. SelectedLegs \subseteq checked
  <2> SUFFICES ASSUME NEW j \in Rows(TableRows), RowKey(TableRows[j].row, j) \in selected
               PROVE  TableRows[j].row.id \in checked
    BY DEF SelectedLegs
  <2> DEFINE r == TableRows[j].row
  <2>1. PICK i \in DOMAIN positions : r.id = positions[i].id /\ Alike(r, positions[i])
    BY RowsOfTable DEF TableCore
  <2> HIDE DEF r
  <2>2. PICK k \in DOMAIN positions :
           positions[k].id \in checked /\ KeyOf(RowKey(r, j), positions[k])
    BY DEF TableCore, r
  <2>3. Alike(positions[i], positions[k])
    BY <2>1, <2>2 DEF KeyOf, RowKey, Alike
  <2>4. i = k
    BY <2>3 DEF TableCore, Netted
  <2> QED  BY <2>1, <2>2, <2>4 DEF r
<1>2. ASSUME sort.key = "instrument"
      PROVE  LET items == TableRows
                 heads == Heads(items)
                 firsts == {i \in heads : \A j \in heads : items[j].key = items[i].key => i <= j}
             IN  /\ \A i, j \in heads :
                       items[i].key = items[j].key => i = j \/ Mingles(VisibleRows, items[i].key)
                 /\ SumFunction([i \in firsts |-> items[i].pnl]) = Total(VisibleRows)
  <2> DEFINE vis == VisibleRows
  <2>1. vis \in Seq(Position) /\ Together(vis)
    BY <1>2, VisibleRowsAre DEF TableCore
  <2>2. TableRows = Grouped(vis)
    BY <1>2 DEF TableRows
  <2> HIDE DEF vis
  <2> DEFINE items == Grouped(vis)
             heads == Heads(items)
             firsts == {i \in heads : \A j \in heads : items[j].key = items[i].key => i <= j}
  <2>3. \A i, j \in heads : items[i].key = items[j].key => i = j \/ Mingles(vis, items[i].key)
    BY <2>1, HeadsOfGroups
  <2>4. SumFunction([i \in firsts |-> items[i].pnl]) = Total(vis)
    BY <2>1, HeadsAddUp
  <2> HIDE DEF items
  <2> QED  BY <2>2, <2>3, <2>4 DEF vis, items
<1> QED  BY <1>1, <1>2 DEF RowsAreTheirOwn

\* However rows, ticks, filters, sorts and boxes come, a leg of the strategy is a position
\* whose box the user ticked, and sorted by instrument no group is headed twice unless
\* another label of its exchange sorts as the same day, and one header of each group adds
\* up to the rows shown.
THEOREM PositionRowsAreTheirOwn == TableSpec => []RowsAreTheirOwn
BY TableBegins, TableStays, CoreMakesRowsTheirOwn, PTL DEF TableSpec

-----------------------------------------------------------------------------
(* The automatic login of the older page *)

AnyRow == (Codes \cup {Example}) \X BOOLEAN \X BOOLEAN
StoredRow == (Codes \cup {Example}) \X BOOLEAN

Names(of, todo) == {of[i][1] : i \in todo}

RunFine(run, wanted) ==
    \/ run = IdleRun
    \/ run.at = "reload" /\ run.of \in Seq(AnyRow) /\ (run.ticks = {} \/ wanted = {})
    \/ run.at = "login" /\ run.of \in Seq(AnyRow) /\ run.todo \subseteq DOMAIN run.of

\* The logins that are wanted are among those the run is still to make.
Covers(run, wanted) ==
    \/ run.at = "reload" /\ wanted \subseteq Names(run.of, Targets(run.of, {}))
    \/ run.at = "login" /\ wanted \subseteq Names(run.of, run.todo \ {Min(run.todo)})

HandsFree ==
    /\ clients \in Seq(AnyRow) /\ shared \in Seq(StoredRow) /\ browserStore \in Seq(AnyRow)
    /\ \A s \in saves : s.of \in Seq(StoredRow)
    /\ ticked = {} \/ owed = {}
    /\ owed \subseteq EnabledIn(shared)
    /\ autoLoginFired => supabaseLoaded
    /\ supabaseLoaded \in BOOLEAN /\ autoLoginFired \in BOOLEAN
    /\ loginRuns = [r \in Runs |-> loginRuns[r]]
    /\ \A r \in Runs : RunFine(loginRuns[r], owed)
    /\ supabaseLoaded /\ owed # {} => \E r \in Runs : Covers(loginRuns[r], owed)

\* The least number of a set of row numbers is one of them.
LEMMA FirstRow ==
    ASSUME NEW T \in SUBSET Nat, T # {}
    PROVE  Min(T) \in T
<1>1. \E x \in T : \A y \in T : <<y, x>> \notin OpToRel(<, Nat)
  BY NatLessThanWellFounded, WFMin
<1>2. \A x, y \in Nat : <<y, x>> \notin OpToRel(<, Nat) => x <= y
  BY DEF OpToRel
<1>3. \E x \in T : \A y \in T : x <= y
  BY <1>1, <1>2
<1> QED  BY <1>3 DEF Min

\* What the page makes of stored rows, and the other way round.
LEMMA StoredRows ==
    /\ \A t \in Seq(StoredRow) :
         /\ Off(t) \in Seq(AnyRow) /\ EnabledIn(Off(t)) = EnabledIn(t)
         /\ EnabledIn(t) = Names(Off(t), Targets(Off(t), {}))
    /\ \A t \in Seq(AnyRow) : accountPayloads(t) \in Seq(StoredRow)
<1>1. ASSUME NEW t \in Seq(StoredRow)
      PROVE  /\ Off(t) \in Seq(AnyRow) /\ EnabledIn(Off(t)) = EnabledIn(t)
             /\ EnabledIn(t) = Names(Off(t), Targets(Off(t), {}))
  <2>1. Len(t) \in Nat /\ DOMAIN t = 1..Len(t) /\ \A i \in 1..Len(t) : t[i] \in StoredRow
    BY LenProperties, ElementOfSeq
  <2>2. \A i \in 1..Len(t) : <<t[i][1], t[i][2], FALSE>> \in AnyRow
    BY <2>1 DEF StoredRow, AnyRow
  <2>3. Off(t) \in [1..Len(t) -> AnyRow]
    BY <2>1, <2>2 DEF Off
  <2>4. Off(t) \in Seq(AnyRow) /\ DOMAIN Off(t) = DOMAIN t
    BY <2>1, <2>3
  <2>5. \A i \in DOMAIN t : Off(t)[i][1] = t[i][1] /\ Off(t)[i][2] = t[i][2] /\ Off(t)[i][3] = FALSE
    BY DEF Off
  <2>6. EnabledIn(Off(t)) = EnabledIn(t)
    BY <2>4, <2>5 DEF EnabledIn
  <2>7. Targets(Off(t), {}) = {j \in DOMAIN t : t[j][2]}
    BY <2>4, <2>5 DEF Targets
  <2>8. EnabledIn(t) = Names(Off(t), Targets(Off(t), {}))
    BY <2>5, <2>7 DEF EnabledIn, Names
  <2> QED  BY <2>4, <2>6, <2>8
<1>2. ASSUME NEW t \in Seq(AnyRow) PROVE accountPayloads(t) \in Seq(StoredRow)
  <2>1. Len(t) \in Nat /\ DOMAIN t = 1..Len(t) /\ \A i \in 1..Len(t) : t[i] \in AnyRow
    BY LenProperties, ElementOfSeq
  <2>2. \A i \in 1..Len(t) : <<t[i][1], t[i][2]>> \in StoredRow
    BY <2>1 DEF StoredRow, AnyRow
  <2>3. accountPayloads(t) \in [1..Len(t) -> StoredRow]
    BY <2>1, <2>2 DEF accountPayloads
  <2> QED  BY <2>1, <2>3
<1> QED  BY <1>1, <1>2

\* Patching a row leaves rows, whatever the number.
LEMMA PatchedRows ==
    ASSUME NEW t \in Seq(AnyRow), NEW i, NEW in \in BOOLEAN
    PROVE  updateClient(t, i, in) \in Seq(AnyRow)
<1>1. Len(t) \in Nat /\ DOMAIN t = 1..Len(t) /\ \A j \in 1..Len(t) : t[j] \in AnyRow
  BY LenProperties, ElementOfSeq
<1>2. CASE i \in DOMAIN t
  <2>1. <<t[i][1], t[i][2], in>> \in AnyRow
    BY <1>1, <1>2 DEF AnyRow
  <2>2. [t EXCEPT ![i] = <<@[1], @[2], in>>] \in [1..Len(t) -> AnyRow]
    BY <1>1, <1>2, <2>1
  <2> QED  BY <1>1, <1>2, <2>2 DEF updateClient
<1>3. CASE i \notin DOMAIN t
  BY <1>3 DEF updateClient
<1> QED  BY <1>2, <1>3

\* A run that has not begun is idle.
LEMMA StartsIdle == IdleRun.at = "idle"
BY DEF IdleRun

\* What covers some logins covers fewer, and what is fine stays so.
LEMMA CoversLess ==
    ASSUME NEW run, NEW wanted, NEW less \in SUBSET wanted
    PROVE  (Covers(run, wanted) => Covers(run, less)) /\ (RunFine(run, wanted) => RunFine(run, less))
BY DEF Covers, RunFine

\* A change of the rows leaves things right if the runs it leaves cover what is wanted, or if
\* it is the first table from Supabase: then it starts a run that does.
LEMMA RowsBecomeKeeps ==
    ASSUME HandsFree, NEW t \in Seq(AnyRow), NEW marked, NEW runs, NEW loaded \in BOOLEAN,
           NEW ready, RowsBecome(t, marked, runs, loaded, ready),
           runs = [r \in Runs |-> runs[r]],
           owed' \subseteq owed, shared' = shared, ticked = {} => ticked' = {},
           \A s \in saves' : s.of \in Seq(StoredRow),
           marked = {} \/ owed' = {},
           \A r \in Runs : RunFine(runs[r], owed'),
           supabaseLoaded => loaded,
           loaded /\ owed' # {} =>
             \/ \E r \in Runs : Covers(runs[r], owed')
             \/ ~autoLoginFired /\ t = Off(shared)
    PROVE  HandsFree'
<1> DEFINE new == [at |-> "reload", of |-> t, ticks |-> marked]
<1>1. new.at = "reload" /\ new.of = t /\ new.ticks = marked
  OBVIOUS
<1> HIDE DEF new
<1>2. RunFine(new, owed')
  BY <1>1 DEF RunFine
<1>3. clients' = t /\ supabaseLoaded' = loaded /\ browserStore' \in Seq(AnyRow)
      /\ autoLoginFired' = FiredAfter(t, loaded)
  BY DEF RowsBecome, HandsFree
<1>4. autoLoginFired' \in BOOLEAN /\ (autoLoginFired' => supabaseLoaded')
  BY <1>3 DEF FiredAfter, HandsFree, SomeEnabled
<1>5. owed' \subseteq EnabledIn(shared') /\ (ticked' = {} \/ owed' = {})
  BY DEF HandsFree
<1>6. CASE FiresNow(t, loaded)
  <2>1. PICK x \in Runs : runs[x].at = "idle" /\ loginRuns' = [runs EXCEPT ![x] = new]
    BY <1>6 DEF RowsBecome, new
  <2>2. loginRuns'[x] = new /\ \A r \in Runs \ {x} : loginRuns'[r] = runs[r]
    BY <2>1
  <2>3. loginRuns' = [r \in Runs |-> loginRuns'[r]]
    BY <2>1
  <2>4. \A r \in Runs : RunFine(loginRuns'[r], owed')
    BY <1>2, <2>2
  <2>5. loaded /\ owed' # {} => \E r \in Runs : Covers(loginRuns'[r], owed')
    <3> SUFFICES ASSUME loaded, owed' # {} PROVE \E r \in Runs : Covers(loginRuns'[r], owed')
      OBVIOUS
    <3>1. CASE \E r \in Runs : Covers(runs[r], owed')
      <4>1. PICK r \in Runs : Covers(runs[r], owed')
        BY <3>1
      <4>2. r # x
        BY <2>1, <4>1 DEF Covers
      <4> QED  BY <2>2, <4>1, <4>2
    <3>2. CASE t = Off(shared)
      <4>1. owed' \subseteq Names(t, Targets(t, {}))
        BY <3>2, StoredRows DEF HandsFree
      <4>2. Covers(new, owed')
        BY <1>1, <4>1 DEF Covers
      <4> QED  BY <2>2, <4>2
    <3> QED  BY <3>1, <3>2
  <2> HIDE DEF Covers, RunFine
  <2> QED  BY <1>3, <1>4, <1>5, <2>3, <2>4, <2>5 DEF HandsFree, RunFine, Covers, Names, Targets
<1>7. CASE ~FiresNow(t, loaded)
  <2>1. loginRuns' = runs
    BY <1>7 DEF RowsBecome
  <2>2. loaded /\ owed' # {} => \E r \in Runs : Covers(loginRuns'[r], owed')
    <3> SUFFICES ASSUME loaded, owed' # {}, ~autoLoginFired, t = Off(shared) PROVE FALSE
      BY <2>1
    <3>1. EnabledIn(t) # {}
      BY StoredRows DEF HandsFree
    <3> QED  BY <1>7, <3>1 DEF FiresNow, FiredAfter, SomeEnabled
  <2> QED  BY <1>3, <1>4, <1>5, <2>1, <2>2 DEF HandsFree, RunFine, Covers, Names, Targets
<1> QED  BY <1>6, <1>7

\* The rows are edited while the runs stand.
LEMMA RowsEditedKeeps ==
    ASSUME HandsFree, NEW t \in Seq(AnyRow), NEW marked, RowsEdited(t, marked),
           UNCHANGED <<owed, shared, saves>>, ticked = {} => ticked' = {}, marked = {} \/ owed = {}
    PROVE  HandsFree'
<1>1. /\ loginRuns = [r \in Runs |-> loginRuns[r]] /\ supabaseLoaded \in BOOLEAN
      /\ \A r \in Runs : RunFine(loginRuns[r], owed')
      /\ supabaseLoaded /\ owed' # {} => \E r \in Runs : Covers(loginRuns[r], owed')
      /\ \A s \in saves' : s.of \in Seq(StoredRow)
      /\ owed' \subseteq owed /\ shared' = shared /\ (marked = {} \/ owed' = {})
  BY DEF HandsFree
<1>2. RowsBecome(t, marked, loginRuns, supabaseLoaded, hydrated)
  BY DEF RowsEdited
<1> QED  BY <1>1, <1>2, RowsBecomeKeeps

\* A run goes on with what it has to do, and that or another run covers what is wanted.
LEMMA LoginNextKeeps ==
    ASSUME HandsFree, NEW r \in Runs, NEW of \in Seq(AnyRow), NEW todo \in SUBSET DOMAIN of,
           NEW t \in Seq(AnyRow), NEW loaded \in BOOLEAN, LoginNext(r, of, todo, t, loaded),
           shared' = shared, ticked' = ticked, \A s \in saves' : s.of \in Seq(StoredRow),
           supabaseLoaded => loaded,
           loaded /\ owed # {} =>
             \/ owed \subseteq Names(of, todo)
             \/ \E x \in Runs \ {r} : Covers(loginRuns[x], owed)
    PROVE  HandsFree'
<1>1. loginRuns = [x \in Runs |-> loginRuns[x]] /\ \A x \in Runs : RunFine(loginRuns[x], owed)
      /\ (ticked = {} \/ owed = {})
  BY DEF HandsFree
<1>2. CASE todo = {}
  <2> DEFINE runs == [loginRuns EXCEPT ![r] = IdleRun]
  <2>1. RowsBecome(t, ticked, runs, loaded, hydrated) /\ owed' = owed
    BY <1>2 DEF LoginNext
  <2>2. /\ runs = [x \in Runs |-> runs[x]] /\ runs[r] = IdleRun
        /\ \A x \in Runs \ {r} : runs[x] = loginRuns[x]
    BY <1>1
  <2> HIDE DEF runs
  <2>3. \A x \in Runs : RunFine(runs[x], owed')
    BY <1>1, <2>1, <2>2 DEF RunFine
  <2>4. Names(of, todo) = {}
    BY <1>2 DEF Names
  <2>5. loaded /\ owed' # {} => \E x \in Runs : Covers(runs[x], owed')
    BY <2>1, <2>2, <2>4
  <2> QED  BY <1>1, <2>1, <2>2, <2>3, <2>5, RowsBecomeKeeps
<1>3. CASE todo # {}
  <2> DEFINE row == Min(todo)
             new == [at |-> "login", of |-> of, todo |-> todo]
             runs == [loginRuns EXCEPT ![r] = new]
             less == updateClient(t, row, FALSE)
  <2>1. RowsBecome(less, ticked, runs, loaded, hydrated) /\ owed' = owed \ {of[row][1]}
    BY <1>3 DEF LoginNext
  <2>2. less \in Seq(AnyRow)
    BY PatchedRows
  <2>3. new.at = "login" /\ new.of = of /\ new.todo = todo
    OBVIOUS
  <2> HIDE DEF less, new, row
  <2>4. /\ runs = [x \in Runs |-> runs[x]] /\ runs[r] = new
        /\ \A x \in Runs \ {r} : runs[x] = loginRuns[x]
    BY <1>1
  <2> HIDE DEF runs
  <2>5. owed' \subseteq owed
    BY <2>1
  <2>6. \A x \in Runs : RunFine(runs[x], owed')
    <3>1. RunFine(new, owed')
      BY <2>3 DEF RunFine
    <3> QED  BY <1>1, <2>4, <2>5, <3>1, CoversLess
  <2>7. loaded /\ owed' # {} => \E x \in Runs : Covers(runs[x], owed')
    <3> SUFFICES ASSUME loaded, owed' # {} PROVE \E x \in Runs : Covers(runs[x], owed')
      OBVIOUS
    <3>1. CASE owed \subseteq Names(of, todo)
      <4>1. owed' \subseteq Names(of, todo \ {row})
        BY <2>1, <3>1 DEF Names
      <4>2. Covers(new, owed')
        BY <2>3, <4>1 DEF Covers, row
      <4> QED  BY <2>4, <4>2
    <3>2. CASE \E x \in Runs \ {r} : Covers(loginRuns[x], owed)
      BY <2>4, <2>5, <3>2, CoversLess
    <3> QED  BY <2>5, <3>1, <3>2
  <2>8. (ticked = {} \/ owed' = {}) /\ (ticked = {} => ticked' = {})
    BY <1>1, <2>5
  <2>9. runs = [x \in Runs |-> runs[x]] /\ RowsBecome(less, ticked, runs, loaded, hydrated)
    BY <2>1, <2>4
  <2> QED  BY <2>2, <2>5, <2>6, <2>7, <2>8, <2>9, RowsBecomeKeeps
<1> QED  BY <1>2, <1>3

\* The load of the opening page.
LEMMA MountKeeps == ASSUME HandsFree, MountEnds PROVE HandsFree'
<1>0. /\ loginRuns = [r \in Runs |-> loginRuns[r]] /\ supabaseLoaded \in BOOLEAN
      /\ \A r \in Runs : RunFine(loginRuns[r], owed)
      /\ supabaseLoaded /\ owed # {} => \E r \in Runs : Covers(loginRuns[r], owed)
      /\ \A s \in saves : s.of \in Seq(StoredRow)
      /\ ticked = {} \/ owed = {}
      /\ autoLoginFired => supabaseLoaded
      /\ shared \in Seq(StoredRow) /\ browserStore \in Seq(AnyRow)
  BY DEF HandsFree
<1>1. CASE MountAnswered
  <2>1. /\ RowsBecome(Off(shared), ticked, loginRuns, TRUE, TRUE)
        /\ UNCHANGED <<ticked, saves, shared, owed>>
    BY <1>1 DEF MountAnswered
  <2>2. Off(shared) \in Seq(AnyRow)
    BY <1>0, StoredRows
  <2> QED  BY <1>0, <2>1, <2>2, RowsBecomeKeeps
<1>2. CASE MountFailed
  BY <1>2 DEF MountFailed, HandsFree
<1>3. CASE MountFromBrowser
  <2>1. UNCHANGED <<ticked, saves, shared, owed>>
    BY <1>3 DEF MountFromBrowser
  <2>2. PICK found \in {browserStore, <<>>} :
          IF found # <<>> THEN RowsBecome(found, ticked, loginRuns, supabaseLoaded, TRUE)
          ELSE UNCHANGED <<clients, supabaseLoaded, autoLoginFired, loginRuns, browserStore>>
    BY <1>3 DEF MountFromBrowser
  <2>3. CASE found # <<>>
    <3>1. found \in Seq(AnyRow) /\ RowsBecome(found, ticked, loginRuns, supabaseLoaded, TRUE)
      BY <1>0, <2>2, <2>3
    <3> QED  BY <1>0, <2>1, <3>1, RowsBecomeKeeps
  <2>4. CASE found = <<>>
    BY <2>1, <2>2, <2>4 DEF HandsFree
  <2> QED  BY <2>3, <2>4
<1> QED  BY <1>1, <1>2, <1>3 DEF MountEnds

\* A run reads the table again, fails to, or ends a login.
LEMMA RunKeeps ==
    ASSUME HandsFree, NEW r \in Runs,
           \/ Reloads(r) \/ ReloadFails(r)
           \/ \E in \in BOOLEAN, setup \in BOOLEAN : LoginEnds(r, in, setup)
    PROVE  HandsFree'
<1> DEFINE run == loginRuns[r]
<1>0. /\ supabaseLoaded \in BOOLEAN /\ \A s \in saves : s.of \in Seq(StoredRow)
      /\ ticked = {} \/ owed = {}
      /\ shared \in Seq(StoredRow) /\ clients \in Seq(AnyRow)
      /\ owed \subseteq EnabledIn(shared)
      /\ supabaseLoaded /\ owed # {} =>
           Covers(run, owed) \/ \E x \in Runs \ {r} : Covers(loginRuns[x], owed)
      /\ RunFine(run, owed)
  BY DEF HandsFree
<1>1. CASE Reloads(r)
  <2> DEFINE t == Off(shared)
             todo == Targets(t, run.ticks)
  <2>1. /\ run.at = "reload" /\ LoginNext(r, t, todo, t, TRUE)
        /\ UNCHANGED <<ticked, saves, shared>>
    BY <1>1 DEF Reloads
  <2>2. t \in Seq(AnyRow) /\ owed \subseteq Names(t, Targets(t, {}))
    BY <1>0, StoredRows
  <2>3. run.ticks = {} \/ owed = {}
    BY <1>0, <2>1, StartsIdle DEF RunFine
  <2>4. todo \subseteq DOMAIN t /\ owed \subseteq Names(t, todo)
    <3>1. todo \subseteq DOMAIN t
      BY DEF Targets
    <3> HIDE DEF t
    <3> QED  BY <2>2, <2>3, <3>1
  <2> HIDE DEF t, todo
  <2> QED  BY <1>0, <2>1, <2>2, <2>4, LoginNextKeeps
<1>2. CASE ReloadFails(r)
  <2> DEFINE todo == Targets(run.of, run.ticks)
  <2>1. /\ run.at = "reload" /\ UNCHANGED <<ticked, saves, shared>>
        /\ IF todo # {} THEN LoginNext(r, run.of, todo, clients, supabaseLoaded)
           ELSE /\ loginRuns' = [loginRuns EXCEPT ![r] = IdleRun]
                /\ UNCHANGED <<clients, supabaseLoaded, autoLoginFired, browserStore, owed>>
    BY <1>2 DEF ReloadFails
  <2>2. run.of \in Seq(AnyRow) /\ (run.ticks = {} \/ owed = {}) /\ todo \subseteq DOMAIN run.of
    BY <1>0, <2>1, StartsIdle DEF RunFine, Targets
  <2>3. Covers(run, owed) => owed \subseteq Names(run.of, todo)
    BY <2>1, <2>2 DEF Covers
  <2> HIDE DEF todo
  <2>4. CASE todo # {}
    BY <1>0, <2>1, <2>2, <2>3, <2>4, LoginNextKeeps
  <2>5. CASE todo = {}
    <3>1. /\ loginRuns' = [loginRuns EXCEPT ![r] = IdleRun]
          /\ UNCHANGED <<clients, supabaseLoaded, autoLoginFired, browserStore, owed>>
      BY <2>1, <2>5
    <3>2. loginRuns = [x \in Runs |-> loginRuns[x]]
      BY DEF HandsFree
    <3>3. /\ loginRuns' = [x \in Runs |-> loginRuns'[x]] /\ loginRuns'[r] = IdleRun
          /\ \A x \in Runs \ {r} : loginRuns'[x] = loginRuns[x]
      BY <3>1, <3>2
    <3>4. Covers(run, owed) => owed = {}
      BY <2>3, <2>5 DEF Names
    <3>5. supabaseLoaded /\ owed # {} => \E x \in Runs : Covers(loginRuns'[x], owed)
      BY <1>0, <3>3, <3>4
    <3>6. \A x \in Runs : RunFine(loginRuns'[x], owed)
      BY <3>3 DEF HandsFree, RunFine
    <3> QED  BY <2>1, <3>1, <3>3, <3>5, <3>6 DEF HandsFree
  <2> QED  BY <2>4, <2>5
<1>3. ASSUME NEW in \in BOOLEAN, NEW setup \in BOOLEAN, LoginEnds(r, in, setup) PROVE HandsFree'
  <2> DEFINE row == Min(run.todo)
             t == updateClient(clients, row, in)
  <2>1. /\ run.at = "login" /\ UNCHANGED <<ticked, shared>>
        /\ LoginNext(r, run.of, run.todo \ {row}, t, supabaseLoaded)
    BY <1>3 DEF LoginEnds
  <2>2. run.of \in Seq(AnyRow) /\ run.todo \subseteq DOMAIN run.of
    BY <1>0, <2>1, StartsIdle DEF RunFine
  <2>3. \A s \in saves' : s.of \in Seq(StoredRow)
    <3>1. saves' \subseteq saves \cup {[at |-> "delete", of |-> accountPayloads(run.of)]}
      BY <1>3 DEF LoginEnds
    <3> QED  BY <1>0, <2>2, <3>1, StoredRows
  <2>4. t \in Seq(AnyRow)
    BY <1>0, PatchedRows
  <2>5. Covers(run, owed) => owed \subseteq Names(run.of, run.todo \ {row})
    BY <2>1 DEF Covers
  <2> HIDE DEF row, t
  <2>6. run.todo \ {row} \in SUBSET DOMAIN run.of
    BY <2>2
  <2> QED  BY <1>0, <2>1, <2>2, <2>3, <2>4, <2>5, <2>6, LoginNextKeeps
<1> QED  BY <1>1, <1>2, <1>3

\* The user presses the button, ticks, edits, logs out and saves.
LEMMA UserKeeps ==
    ASSUME HandsFree,
           \/ \E r \in Runs : PressAutoLogin(r)
           \/ AddRow \/ SaveToSupabase
           \/ \E i \in 1..MaxRows : DeleteClient(i) \/ ToggleTick(i) \/ LogoutClient(i) \/ LogoutEnds(i)
           \/ \E i \in 1..MaxRows, code \in Codes, on \in BOOLEAN : EditClient(i, code, on)
    PROVE  HandsFree'
<1>0. /\ clients \in Seq(AnyRow) /\ (ticked = {} \/ owed = {})
      /\ Len(clients) \in Nat /\ DOMAIN clients = 1..Len(clients)
      /\ \A j \in 1..Len(clients) : clients[j] \in AnyRow
  BY LenProperties, ElementOfSeq DEF HandsFree
<1>1. ASSUME NEW r \in Runs, PressAutoLogin(r) PROVE HandsFree'
  <2> DEFINE new == [at |-> "reload", of |-> clients, ticks |-> ticked]
  <2>1. /\ loginRuns[r].at = "idle" /\ loginRuns' = [loginRuns EXCEPT ![r] = new]
        /\ UNCHANGED <<clients, ticked, supabaseLoaded, autoLoginFired, saves, shared,
                       browserStore, owed>>
    BY <1>1 DEF PressAutoLogin
  <2>2. RunFine(new, owed)
    BY <1>0 DEF RunFine
  <2> HIDE DEF new
  <2>3. loginRuns = [x \in Runs |-> loginRuns[x]]
    BY DEF HandsFree
  <2>4. /\ loginRuns' = [x \in Runs |-> loginRuns'[x]] /\ loginRuns'[r] = new
        /\ \A x \in Runs \ {r} : loginRuns'[x] = loginRuns[x]
    BY <2>1, <2>3
  <2>5. ~Covers(loginRuns[r], owed)
    BY <2>1 DEF Covers
  <2>6. supabaseLoaded /\ owed # {} => \E x \in Runs : Covers(loginRuns'[x], owed)
    BY <2>4, <2>5 DEF HandsFree
  <2>7. \A x \in Runs : RunFine(loginRuns'[x], owed)
    <3> HIDE DEF RunFine
    <3> QED  BY <2>2, <2>4 DEF HandsFree
  <2> QED  BY <2>1, <2>4, <2>6, <2>7 DEF HandsFree
<1>2. CASE AddRow
  <2> DEFINE t == Append(clients, <<Example, TRUE, FALSE>>)
  <2>1. RowsEdited(t, ticked) /\ UNCHANGED <<ticked, saves, shared, owed>>
    BY <1>2 DEF AddRow
  <2>2. <<Example, TRUE, FALSE>> \in AnyRow
    BY DEF AnyRow
  <2>3. t \in Seq(AnyRow)
    BY <1>0, <2>2
  <2> HIDE DEF t
  <2> QED  BY <1>0, <2>1, <2>3, RowsEditedKeeps
<1>3. CASE SaveToSupabase
  <2>1. accountPayloads(clients) \in Seq(StoredRow)
    BY <1>0, StoredRows
  <2>2. \A s \in saves' : s.of \in Seq(StoredRow)
    BY <1>3, <2>1 DEF SaveToSupabase, HandsFree
  <2> QED  BY <1>3, <2>2 DEF SaveToSupabase, HandsFree
<1>4. ASSUME NEW i \in 1..MaxRows, DeleteClient(i) PROVE HandsFree'
  <2> DEFINE t == RemoveAt(clients, i)
  <2>1. /\ i \in DOMAIN clients /\ RowsEdited(t, ticked') /\ UNCHANGED <<saves, shared, owed>>
        /\ ticked' = {j \in ticked : j < i} \cup {j - 1 : j \in {k \in ticked : k > i}}
    BY <1>4 DEF DeleteClient
  <2>2. ticked = {} => ticked' = {}
    BY <2>1
  <2>3. t \in Seq(AnyRow)
    <3>1. i \in Int /\ 1 <= i /\ i <= Len(clients)
      BY <1>0, <2>1
    <3>2. SubSeq(clients, 1, i - 1) \in Seq(AnyRow)
      <4>1. \A j \in 1..(i - 1) : clients[j] \in AnyRow
        BY <1>0, <3>1
      <4> QED  BY <3>1, <4>1, SubSeqProperties
    <3>3. SubSeq(clients, i + 1, Len(clients)) \in Seq(AnyRow)
      <4>1. \A j \in (i + 1)..Len(clients) : clients[j] \in AnyRow
        BY <1>0, <3>1
      <4> QED  BY <1>0, <3>1, <4>1, SubSeqProperties
    <3> QED  BY <3>2, <3>3, ConcatProperties DEF RemoveAt
  <2> HIDE DEF t
  <2> DEFINE marked == ticked'
  <2>4. RowsEdited(t, marked) /\ (marked = {} \/ owed = {})
    BY <1>0, <2>1, <2>2
  <2> HIDE DEF marked
  <2> QED  BY <2>1, <2>2, <2>3, <2>4, RowsEditedKeeps
<1>5. ASSUME NEW i \in 1..MaxRows, ToggleTick(i) PROVE HandsFree'
  <2>1. owed' = {} /\ UNCHANGED <<clients, supabaseLoaded, autoLoginFired, loginRuns, saves,
                                  shared, browserStore>>
    BY <1>5 DEF ToggleTick
  <2>2. \A r \in Runs : RunFine(loginRuns[r], owed')
    BY <2>1 DEF HandsFree, RunFine
  <2> QED  BY <2>1, <2>2 DEF HandsFree
<1>6. ASSUME NEW i \in 1..MaxRows, LogoutClient(i) PROVE HandsFree'
  BY <1>6 DEF LogoutClient, HandsFree
<1>7. ASSUME NEW i \in 1..MaxRows, LogoutEnds(i) PROVE HandsFree'
  <2> DEFINE t == updateClient(clients, i, FALSE)
  <2>1. RowsEdited(t, ticked) /\ UNCHANGED <<ticked, saves, shared, owed>>
    BY <1>7 DEF LogoutEnds
  <2>2. t \in Seq(AnyRow)
    BY <1>0, PatchedRows
  <2> HIDE DEF t
  <2> QED  BY <1>0, <2>1, <2>2, RowsEditedKeeps
<1>8. ASSUME NEW i \in 1..MaxRows, NEW code \in Codes, NEW on \in BOOLEAN, EditClient(i, code, on)
      PROVE  HandsFree'
  <2> DEFINE t == [clients EXCEPT ![i] = <<code, on, @[3]>>]
  <2>1. /\ i \in DOMAIN clients /\ RowsEdited(t, ticked)
        /\ UNCHANGED <<ticked, saves, shared, owed>>
    BY <1>8 DEF EditClient
  <2>2. <<code, on, clients[i][3]>> \in AnyRow
    BY <1>0, <2>1 DEF AnyRow
  <2>3. t \in [1..Len(clients) -> AnyRow]
    BY <1>0, <2>1, <2>2
  <2>4. t \in Seq(AnyRow)
    BY <1>0, <2>3
  <2> HIDE DEF t
  <2> QED  BY <1>0, <2>1, <2>4, RowsEditedKeeps
<1> QED  BY <1>1, <1>2, <1>3, <1>4, <1>5, <1>6, <1>7, <1>8

\* The two requests of a save.
LEMMA SaveKeeps ==
    ASSUME HandsFree, NEW s \in saves, RowsDeleted(s) \/ RowsInserted(s) \/ SaveFails(s)
    PROVE  HandsFree'
<1>1. CASE RowsDeleted(s)
  <2>1. /\ shared' = <<>> /\ owed' = {}
        /\ UNCHANGED <<clients, supabaseLoaded, autoLoginFired, loginRuns, browserStore>>
        /\ saves' \subseteq saves \cup {[s EXCEPT !.at = "insert"]}
    BY <1>1 DEF RowsDeleted
  <2>2. [s EXCEPT !.at = "insert"].of = s.of
    OBVIOUS
  <2>3. \A x \in saves' : x.of \in Seq(StoredRow)
    BY <2>1, <2>2 DEF HandsFree
  <2>4. \A r \in Runs : RunFine(loginRuns[r], owed')
    BY <2>1 DEF HandsFree, RunFine
  <2> QED  BY <2>1, <2>3, <2>4 DEF HandsFree
<1>2. CASE RowsInserted(s)
  <2>1. /\ shared' = shared \o s.of /\ saves' = saves \ {s}
        /\ UNCHANGED <<clients, ticked, supabaseLoaded, autoLoginFired, loginRuns, browserStore, owed>>
    BY <1>2 DEF RowsInserted
  <2>2. shared \in Seq(StoredRow) /\ s.of \in Seq(StoredRow)
    BY DEF HandsFree
  <2>3. /\ shared' \in Seq(StoredRow) /\ DOMAIN shared \subseteq DOMAIN shared'
        /\ \A i \in DOMAIN shared : shared'[i] = shared[i]
    <3> DEFINE all == shared \o s.of
    <3>1. /\ all \in Seq(StoredRow) /\ Len(all) = Len(shared) + Len(s.of)
          /\ \A i \in 1..(Len(shared) + Len(s.of)) :
               all[i] = IF i <= Len(shared) THEN shared[i] ELSE s.of[i - Len(shared)]
      BY <2>2, ConcatProperties
    <3>2. Len(shared) \in Nat /\ Len(s.of) \in Nat /\ DOMAIN shared = 1..Len(shared)
      BY <2>2, LenProperties
    <3> HIDE DEF all
    <3>3. DOMAIN all = 1..Len(all)
      BY <3>1, LenProperties
    <3> QED  BY <2>1, <3>1, <3>2, <3>3 DEF all
  <2>4. EnabledIn(shared) \subseteq EnabledIn(shared')
    BY <2>3 DEF EnabledIn
  <2>5. owed' \subseteq EnabledIn(shared')
    BY <2>1, <2>4 DEF HandsFree
  <2> QED  BY <2>1, <2>3, <2>5 DEF HandsFree
<1>3. CASE SaveFails(s)
  BY <1>3 DEF SaveFails, HandsFree
<1> QED  BY <1>1, <1>2, <1>3

\* Every step of the page and of its runs keeps HandsFree.
LEMMA ClientsStay == HandsFree /\ [ClientTableNext]_clientTableVars => HandsFree'
<1> SUFFICES ASSUME HandsFree, [ClientTableNext]_clientTableVars PROVE HandsFree'
  OBVIOUS
<1>1. CASE ClientTableNext
  <2>1. CASE MountEnds
    BY <2>1, MountKeeps
  <2>2. ASSUME NEW r \in Runs, PressAutoLogin(r) \/ RunGoesOn(r) \/ LoginEnds(r, TRUE, TRUE)
        PROVE  HandsFree'
    BY <2>2, RunKeeps, UserKeeps DEF RunGoesOn
  <2>3. ASSUME NEW s \in saves, RowsDeleted(s) \/ RowsInserted(s) \/ SaveFails(s) PROVE HandsFree'
    BY <2>3, SaveKeeps
  <2> QED  BY <1>1, <2>1, <2>2, <2>3, UserKeeps DEF ClientTableNext
<1>2. CASE UNCHANGED clientTableVars
  BY <1>2 DEF clientTableVars, HandsFree
<1> QED  BY <1>1, <1>2

\* "Opening the app in the browser restores creds and logs in hands-free": once the page
\* has the shared table and no run of logins is under way, a login was requested for every
\* account that was enabled there throughout, for any tables, any number of runs and
\* whatever is edited, saved, logged out or pressed meanwhile, as long as no row is ticked.
THEOREM LoginsAreHandsFree == ClientTableSpec => []LogsInHandsFree
<1>1. ClientTableInit => HandsFree
  <2> SUFFICES ASSUME ClientTableInit PROVE HandsFree
    OBVIOUS
  <2>1. clients \in Seq(AnyRow)
    <3>1. <<Example, TRUE, FALSE>> \in AnyRow
      BY DEF AnyRow
    <3> HIDE DEF AnyRow
    <3> QED  BY <3>1 DEF ClientTableInit, defaultClients
  <2>2. shared \in Seq(StoredRow)
    <3>1. shared \in Seq(Codes \X BOOLEAN) /\ Codes \X BOOLEAN \subseteq StoredRow
      BY ClientAssumption DEF ClientTableInit, StoredRow
    <3> HIDE DEF StoredRow
    <3> QED  BY <3>1
  <2>3. browserStore \in Seq(AnyRow)
    <3>1. browserStore \in Seq(Codes \X BOOLEAN \X BOOLEAN)
      BY ClientAssumption DEF ClientTableInit
    <3>2. Codes \X BOOLEAN \X BOOLEAN \subseteq AnyRow
      BY DEF AnyRow
    <3> HIDE DEF AnyRow
    <3> QED  BY <3>1, <3>2
  <2>4. \A r \in Runs : RunFine(loginRuns[r], owed)
    BY DEF ClientTableInit, RunFine
  <2> QED  BY <2>1, <2>2, <2>3, <2>4 DEF ClientTableInit, HandsFree
<1>2. HandsFree => LogsInHandsFree
  BY StartsIdle DEF HandsFree, LogsInHandsFree, Covers
<1> QED  BY <1>1, <1>2, ClientsStay, PTL DEF ClientTableSpec

-----------------------------------------------------------------------------
(* The refreshes of the older page's books (LegacyBooks) *)

\* A read under way, and those a refresh has started.
IsFetch(f) ==
    /\ f = [which |-> f.which, row |-> f.row, acct |-> f.acct, silent |-> f.silent,
            polls |-> f.polls, ver |-> f.ver]
    /\ f.silent \in BOOLEAN /\ f.polls \in BOOLEAN
Polling(fs) == {f \in fs : f.polls}
Announced(fs) == {f \in fs : ~f.silent}

\* The refreshing effect is the one of the row and the book in front; its flag, which lets
\* one refresh at a time through, is up exactly while that refresh is under way, and the
\* button is off only while a read it belongs to is: whatever renders, deletions and answers
\* come, no refresh is refused for ever (refresh and pollingRef of main.jsx).
RefreshGoesOn ==
    /\ watch = IF active /\ inAs[clientIndex] # Nobody
                 THEN [which |-> BookOf(bookTab), row |-> clientIndex, acct |-> inAs[clientIndex]]
                 ELSE NoWatch
    /\ pollingRef = (Polling(fetches) # {})
    /\ \A f, g \in Polling(fetches) : f = g
    /\ booksLoading => Announced(fetches) # {}

RefreshCore == RefreshGoesOn /\ booksLoading \in BOOLEAN /\ \A f \in fetches : IsFetch(f)

\* A read of the page is a read.
LEMMA FetchIs ==
    ASSUME NEW which, NEW row, NEW acct, NEW silent \in BOOLEAN, NEW polls \in BOOLEAN
    PROVE  /\ IsFetch(Fetch(which, row, acct, silent, polls))
           /\ Fetch(which, row, acct, silent, polls).silent = silent
           /\ Fetch(which, row, acct, silent, polls).polls = polls
BY DEF IsFetch, Fetch

\* A render whose reads are counted right leaves the effect and its flags right.
LEMMA RenderKeeps ==
    ASSUME RefreshCore, NEW ins, NEW front, NEW t, NEW index, NEW rowsNow, NEW loadedNow,
           NEW fetchesNow, NEW busyNow \in BOOLEAN,
           Rendered(ins, front, t, index, rowsNow, loadedNow, fetchesNow, busyNow),
           \A f \in fetchesNow : IsFetch(f), pollingRef' = (Polling(fetchesNow) # {}),
           \A f, g \in Polling(fetchesNow) : f = g, busyNow => Announced(fetchesNow) # {}
    PROVE  RefreshCore'
<1> DEFINE at == Corrected(ins, index)
           loaded == IF at # clientIndex THEN NotLoaded ELSE loadedNow
           runs == front /\ ins[at] # Nobody
           again == <<front, t, at, ins[at]>> # <<active, bookTab, clientIndex, inAs[clientIndex]>>
           first == again /\ runs /\ ~loaded[BookOf(t)]
           new == Fetch(BookOf(t), at, ins[at], FALSE, FALSE)
<1>1. /\ inAs' = ins /\ active' = front /\ bookTab' = t /\ clientIndex' = at
      /\ watch' = IF ~again THEN watch
                  ELSE IF runs THEN [which |-> BookOf(t), row |-> at, acct |-> ins[at]]
                  ELSE NoWatch
      /\ fetches' = fetchesNow \cup (IF first THEN {new} ELSE {})
      /\ booksLoading' = (busyNow \/ first)
  BY DEF Rendered
<1>2. IsFetch(new) /\ ~new.silent /\ ~new.polls
  BY FetchIs
<1> HIDE DEF at, new, loaded
<1>3. watch' = IF active' /\ inAs'[clientIndex'] # Nobody
                 THEN [which |-> BookOf(bookTab'), row |-> clientIndex', acct |-> inAs'[clientIndex']]
                 ELSE NoWatch
  <2>1. CASE again
    BY <1>1, <2>1
  <2>2. CASE ~again
    <3>1. active' = active /\ bookTab' = bookTab /\ clientIndex' = clientIndex
          /\ inAs'[clientIndex'] = inAs[clientIndex] /\ watch' = watch
      BY <1>1, <2>2
    <3> QED  BY <3>1 DEF RefreshCore, RefreshGoesOn
  <2> QED  BY <2>1, <2>2
<1> HIDE DEF first
<1>4. Polling(fetches') = Polling(fetchesNow)
  BY <1>1, <1>2 DEF Polling
<1>5. booksLoading' => Announced(fetches') # {}
  <2>1. CASE first
    <3>1. new \in Announced(fetches')
      BY <1>1, <1>2, <2>1 DEF Announced
    <3> QED  BY <3>1
  <2>2. CASE ~first
    BY <1>1, <2>2
  <2> QED  BY <2>1, <2>2
<1>6. booksLoading' \in BOOLEAN /\ \A f \in fetches' : IsFetch(f)
  BY <1>1, <1>2
<1> QED  BY <1>3, <1>4, <1>5, <1>6 DEF RefreshCore, RefreshGoesOn

\* An answer that ends a read leaves the flags right for the reads that go on.
LEMMA ReadEnds ==
    ASSUME RefreshCore, NEW f \in fetches
    PROVE  /\ PollingAfter(f) = (Polling(fetches \ {f}) # {})
           /\ \A g, h \in Polling(fetches \ {f}) : g = h
           /\ booksLoading /\ f.silent => Announced(fetches \ {f}) # {}
<1>1. IsFetch(f) /\ f.polls \in BOOLEAN /\ f.silent \in BOOLEAN
  BY DEF RefreshCore, IsFetch
<1>2. PollingAfter(f) = (Polling(fetches \ {f}) # {})
  <2>1. CASE f.polls
    <3>1. Polling(fetches \ {f}) = {}
      BY <2>1 DEF RefreshCore, RefreshGoesOn, Polling
    <3> QED  BY <2>1, <3>1 DEF PollingAfter
  <2>2. CASE ~f.polls
    <3>1. Polling(fetches \ {f}) = Polling(fetches)
      BY <2>2 DEF Polling
    <3> QED  BY <2>2, <3>1 DEF PollingAfter, RefreshCore, RefreshGoesOn
  <2> QED  BY <2>1, <2>2
<1>3. \A g, h \in Polling(fetches \ {f}) : g = h
  BY DEF RefreshCore, RefreshGoesOn, Polling
<1>4. ASSUME booksLoading, f.silent PROVE Announced(fetches \ {f}) # {}
  BY <1>4 DEF RefreshCore, RefreshGoesOn, Announced
<1> QED  BY <1>2, <1>3, <1>4

\* Every step of the page keeps RefreshCore.
LEMMA RefreshStays == RefreshCore /\ [BooksNext]_booksVars => RefreshCore'
<1> SUFFICES ASSUME RefreshCore, [BooksNext]_booksVars PROVE RefreshCore'
  OBVIOUS
<1>0. /\ \A f \in fetches : IsFetch(f)
      /\ pollingRef = (Polling(fetches) # {}) /\ booksLoading \in BOOLEAN
      /\ \A f, g \in Polling(fetches) : f = g
      /\ booksLoading => Announced(fetches) # {}
  BY DEF RefreshCore, RefreshGoesOn
<1>1. ASSUME NEW ins, NEW front, NEW t, NEW index,
             Rendered(ins, front, t, index, shownRows, loadedRef, fetches, booksLoading),
             pollingRef' = pollingRef
      PROVE  RefreshCore'
  BY <1>0, <1>1, RenderKeeps
<1>2. ASSUME NEW i \in IndexRange, NEW a \in Logins, LogsRowIn(i, a) PROVE RefreshCore'
  BY <1>1, <1>2 DEF LogsRowIn, RowsChange
<1>3. ASSUME NEW i \in IndexRange, LogsRowOut(i) \/ DeletesRow(i) \/ PicksRow(i) PROVE RefreshCore'
  BY <1>1, <1>3 DEF LogsRowOut, DeletesRow, PicksRow, RowsChange
<1>4. ASSUME NEW t \in {"open", "history", "trades"}, PicksTab(t) PROVE RefreshCore'
  BY <1>1, <1>4 DEF PicksTab
<1>5. CASE LeavesOrComes
  BY <1>1, <1>5 DEF LeavesOrComes
<1>6. CASE PressesRefresh
  <2> DEFINE new == Fetch(BookOf(bookTab), clientIndex, inAs[clientIndex], FALSE, FALSE)
  <2>1. /\ fetches' = fetches \cup {new} /\ booksLoading' = TRUE
        /\ UNCHANGED <<inAs, active, bookTab, clientIndex, pollingRef, watch>>
    BY <1>6 DEF PressesRefresh
  <2>2. IsFetch(new) /\ ~new.silent /\ ~new.polls
    BY FetchIs
  <2> HIDE DEF new
  <2>3. Polling(fetches') = Polling(fetches) /\ new \in Announced(fetches')
    BY <2>1, <2>2 DEF Polling, Announced
  <2> QED  BY <2>1, <2>2, <2>3 DEF RefreshCore, RefreshGoesOn
<1>7. CASE refresh
  <2> DEFINE new == Fetch(watch.which, watch.row, watch.acct, TRUE, TRUE)
  <2>1. /\ ~pollingRef /\ pollingRef' = TRUE /\ fetches' = fetches \cup {new}
        /\ UNCHANGED <<inAs, active, bookTab, clientIndex, booksLoading, watch>>
    BY <1>7 DEF refresh
  <2>2. IsFetch(new) /\ new.silent /\ new.polls
    BY FetchIs
  <2> HIDE DEF new
  <2>3. Polling(fetches') = {new} /\ Announced(fetches') = Announced(fetches)
    BY <1>0, <2>1, <2>2 DEF Polling, Announced
  <2> QED  BY <2>1, <2>2, <2>3 DEF RefreshCore, RefreshGoesOn
<1>8. ASSUME UNCHANGED <<inAs, active, bookTab, clientIndex, pollingRef, booksLoading, watch, fetches>>
      PROVE  RefreshCore'
  BY <1>8 DEF RefreshCore, RefreshGoesOn, Polling, Announced
<1>9. CASE SafetyRefresh \/ OrderEvent \/ DebounceEnds
  BY <1>7, <1>8, <1>9 DEF SafetyRefresh, OrderEvent, DebounceEnds
<1>10. ASSUME NEW a \in Logins, AccountTrades(a) PROVE RefreshCore'
  BY <1>8, <1>10 DEF AccountTrades
<1>11. ASSUME NEW f \in fetches, BookServed(f) PROVE RefreshCore'
  <2> DEFINE new == [f EXCEPT !.ver = booksAtBroker[f.acct]]
  <2>1. /\ fetches' = (fetches \ {f}) \cup {new}
        /\ UNCHANGED <<inAs, active, bookTab, clientIndex, pollingRef, booksLoading, watch>>
    BY <1>11 DEF BookServed
  <2>2. IsFetch(new) /\ new.silent = f.silent /\ new.polls = f.polls
    BY <1>0 DEF IsFetch
  <2> HIDE DEF new
  <2>3. /\ (Polling(fetches') # {}) = (Polling(fetches) # {})
        /\ \A g, h \in Polling(fetches') : g = h
    BY <1>0, <2>1, <2>2 DEF Polling
  <2>4. Announced(fetches) # {} => Announced(fetches') # {}
    BY <2>1, <2>2 DEF Announced
  <2>5. \A g \in fetches' : IsFetch(g)
    BY <1>0, <2>1, <2>2
  <2> QED  BY <2>1, <2>3, <2>4, <2>5 DEF RefreshCore, RefreshGoesOn
<1>12. ASSUME NEW f \in fetches, BookLanded(f) PROVE RefreshCore'
  <2> DEFINE ins == [inAs EXCEPT ![f.row] = f.acct]
             rowsNow == [shownRows EXCEPT ![f.which] = [acct |-> f.acct, ver |-> f.ver]]
             loadedNow == [loadedRef EXCEPT ![f.which] = TRUE]
  <2>1. /\ pollingRef' = PollingAfter(f)
        /\ Rendered(ins, active, bookTab, clientIndex, rowsNow, loadedNow,
                    fetches \ {f}, booksLoading /\ f.silent)
    BY <1>12 DEF BookLanded
  <2> HIDE DEF ins, rowsNow, loadedNow
  <2> DEFINE busyNow == booksLoading /\ f.silent
             fetchesNow == fetches \ {f}
  <2>2. /\ busyNow \in BOOLEAN /\ \A g \in fetchesNow : IsFetch(g)
        /\ pollingRef' = (Polling(fetchesNow) # {})
        /\ \A g, h \in Polling(fetchesNow) : g = h
        /\ busyNow => Announced(fetchesNow) # {}
    BY <1>0, <2>1, ReadEnds
  <2>3. Rendered(ins, active, bookTab, clientIndex, rowsNow, loadedNow, fetchesNow, busyNow)
    BY <2>1
  <2> HIDE DEF busyNow, fetchesNow
  <2> QED  BY <2>2, <2>3, RenderKeeps
<1>13. ASSUME NEW f \in fetches, BookLost(f) PROVE RefreshCore'
  <2>1. /\ pollingRef' = PollingAfter(f) /\ fetches' = fetches \ {f}
        /\ booksLoading' = (booksLoading /\ f.silent)
        /\ UNCHANGED <<inAs, active, bookTab, clientIndex, watch>>
    BY <1>13 DEF BookLost
  <2> QED  BY <1>0, <2>1, ReadEnds DEF RefreshCore, RefreshGoesOn
<1>14. CASE UNCHANGED booksVars
  BY <1>8, <1>14 DEF booksVars
<1> QED  BY <1>2, <1>3, <1>4, <1>5, <1>6, <1>9, <1>10, <1>11, <1>12, <1>13, <1>14
         DEF BooksNext, BookReads, BookLands

\* No refresh of the older page's books is refused for ever, for any accounts and rows.
THEOREM RefreshesGoOn == BooksSpec => []RefreshGoesOn
<1>1. BooksInit => RefreshCore
  BY DEF BooksInit, RefreshCore, RefreshGoesOn, Polling, Announced
<1>2. RefreshCore => RefreshGoesOn
  BY DEF RefreshCore
<1> QED  BY <1>1, <1>2, RefreshStays, PTL DEF BooksSpec

=============================================================================
