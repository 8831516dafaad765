----------------------------- MODULE ZerodhaDesk -----------------------------
(***************************************************************************)
(* Zerodha accounts: the rows that name them, the sessions the browser     *)
(* saves on the rows and the backend keeps by Kite user id                 *)
(* (brokers/zerodha.js, routes/zerodha.js), and the pages that log rows in *)
(* (BrokerConfigDialog.jsx, Feedmaster.jsx, StartupGate.jsx,               *)
(* feedMasterStore.js): a stored session is probed, a headless login posts *)
(* the account's credentials, and a popup, of which the browser has one,   *)
(* signs in whoever its user is.  Then a basket of orders goes out with    *)
(* the session a row has saved.                                            *)
(***************************************************************************)
EXTENDS Integers, Sequences

CONSTANTS
  Rows,
  KiteUsers,  \* Kite user ids
  Blank,      \* the name of a row that has none yet
  Named,      \* the account each row names at first
  Ticked,     \* the rows with a password, a TOTP secret and Auto Login
  Flows,      \* the logins the pages start
  MaxMinted,  \* bound: the access tokens Kite issues
  Items,      \* the number of legs in the basket
  Unfit       \* those orderForm refuses

ASSUME DeskAssumption ==
  /\ Blank \notin KiteUsers /\ Named \in [Rows -> KiteUsers \cup {Blank}]
  /\ Ticked \subseteq Rows
  /\ MaxMinted \in Nat /\ Items \in Nat \ {0} /\ Unfit \subseteq 1 .. Items

VARIABLES
  named,      \* account_id of each row
  saved,      \* the session token the browser holds for each row, 0 for none
  sessions,   \* the token the backend holds for each user, 0 for none
  pendingCreds,    \* the logins whose state and credentials are kept
  owners,     \* the tokens Kite has issued, as the sequence of their owners
  alive,      \* those it honours
  consented,  \* the users who have authorised the app
  flow,       \* the logins
  window,     \* the login whose page the popup shows, Closed if it is closed
  redirect,   \* the callback of each login
  basket,     \* the request that places the orders
  orders      \* the orders placed: a leg, and the account it was placed in

Closed == "closed"
desk == <<named, saved, sessions, pendingCreds>>
kite == <<owners, alive, consented>>
popups == <<window, redirect>>
dealing == <<basket, orders>>
deskVars == <<desk, kite, flow, popups, dealing>>

\* What a page does: Browser Login, Test Login, the Feed Master page, and the
\* pages that log in without a popup (the startup gate, the order panels).
Pages == {"browser", "dialog", "master", "gate"}
SendsSaved(page) == page \in {"master", "gate"}
OpensPopup(page) == page # "gate"
Guarded(page) == page \in {"browser", "dialog"}

DeskInit ==
  /\ named = Named /\ saved = [r \in Rows |-> 0] /\ sessions = [u \in KiteUsers |-> 0]
  /\ pendingCreds = {} /\ owners = << >> /\ alive = {} /\ consented \in SUBSET KiteUsers
  /\ flow = [f \in Flows |-> [at |-> "idle"]]
  /\ window = Closed /\ redirect = [f \in Flows |-> [at |-> "none"]]
  /\ basket = [at |-> "idle"] /\ orders = << >>

Owner(t) == owners[t]
InStage(f, stage) == flow[f].at = stage
Stage(f, stage) == flow' = [flow EXCEPT ![f].at = stage]

\* missingForHeadless, behind the manual flag.
NextStep(page, row, user) ==
  IF page = "browser" THEN "popup"
  ELSE IF user # Blank /\ row \in Ticked THEN "headless" ELSE "done"

\* The auto-login route for a client that names this account: a session the page
\* sends is restored first, and the one stored then is probed.
Asks(f, row, page, asked, name, again) ==
  LET sent == IF SendsSaved(page) THEN saved[row] ELSE 0
      user == IF sent # 0 THEN Owner(sent) ELSE name
      store == IF sent # 0 THEN [sessions EXCEPT ![user] = sent] ELSE sessions
      existing == IF user = Blank THEN 0 ELSE store[user]
      next == NextStep(page, row, IF name # Blank THEN name ELSE user) IN
  /\ sessions' = store /\ pendingCreds' = pendingCreds \cup {f}
  /\ flow' = [flow EXCEPT ![f] =
       [at |-> IF existing # 0 THEN "probe" ELSE next,
        row |-> row, page |-> page, asked |-> asked, name |-> name, user |-> user,
        held |-> existing, again |-> again]]
  /\ UNCHANGED <<named, saved, kite, popups, dealing>>

LogsIn(f, row, page) == InStage(f, "idle") /\ Asks(f, row, page, named[row], named[row], FALSE)

\* After the popup the page asks again, for the account the popup has reported.
AsksAgain(f) ==
  /\ InStage(f, "heard")
  /\ Asks(f, flow[f].row, flow[f].page, flow[f].asked, flow[f].name, TRUE)

\* The page has its answer: the dialogs refuse the session of an account other
\* than the one their row names, the other pages save what they get.
Accepts(f, t) == ~Guarded(flow[f].page) \/ flow[f].asked \in {Blank, Owner(t)}
Lands(f, t) ==
  /\ saved' = IF Accepts(f, t) THEN [saved EXCEPT ![flow[f].row] = t] ELSE saved
  /\ Stage(f, "done")

ProbeAnswers(f) ==
  /\ InStage(f, "probe") /\ flow[f].held \in alive
  /\ Lands(f, flow[f].held)
  /\ UNCHANGED <<named, sessions, pendingCreds, kite, popups, dealing>>

\* Any failure of the probe drops whatever session is stored by then.
ProbeFails(f) ==
  /\ InStage(f, "probe")
  /\ sessions' = [sessions EXCEPT ![flow[f].user] = 0]
  /\ LET login == flow[f] IN
     Stage(f, NextStep(login.page, login.row,
                       IF login.name # Blank THEN login.name ELSE login.user))
  /\ UNCHANGED <<named, saved, pendingCreds, kite, popups, dealing>>

Issues(user) ==
  /\ Len(owners) < MaxMinted
  /\ owners' = Append(owners, user) /\ alive' = alive \cup {Len(owners) + 1}

\* headlessLogin posts the user id the request names; it stops at the consent
\* screen until the user has authorised the app once.
HeadlessLogin(f) ==
  /\ InStage(f, "headless")
  /\ LET user == IF flow[f].name # Blank THEN flow[f].name ELSE flow[f].user IN
     \/ /\ user \in consented /\ Issues(user)
        /\ flow' = [flow EXCEPT ![f].at = "store", ![f].held = Len(owners')]
     \/ /\ Stage(f, IF user \notin consented /\ OpensPopup(flow[f].page) /\ ~flow[f].again
                      THEN "popup" ELSE "done")
        /\ UNCHANGED <<owners, alive>>
  /\ UNCHANGED <<desk, consented, popups, dealing>>

\* fault: the session is kept under the account the row names
ExchangedAsNamed(t, row) ==
  /\ sessions' = [sessions EXCEPT ![IF named[row] # Blank THEN named[row] ELSE Owner(t)] = t]
  /\ named' = [named EXCEPT ![row] = Owner(t)]

\* The tail of exchangeRequestToken: the session is kept under the id Kite has
\* returned, and the row takes that id for its name.
Exchanged(t, row) ==
  /\ sessions' = [sessions EXCEPT ![Owner(t)] = t]
  /\ named' = [named EXCEPT ![row] = Owner(t)]

StoresToken(f) ==
  /\ InStage(f, "store")
  /\ Exchanged(flow[f].held, flow[f].row)
  /\ Lands(f, flow[f].held)
  /\ UNCHANGED <<pendingCreds, kite, popups, dealing>>

\* openBrokerOAuthPopup: a window of this name that is open shows the new page.
OpensWindow(f) ==
  /\ InStage(f, "popup")
  /\ window' = f /\ Stage(f, "wait")
  /\ UNCHANGED <<desk, kite, redirect, dealing>>

\* Whoever the user of the popup is: Kite redirects it to the callback.
SignsIn(user) ==
  /\ window # Closed /\ redirect[window].at = "none"
  /\ redirect' = [redirect EXCEPT ![window] = [at |-> "arrived", user |-> user]]
  /\ consented' = consented \cup {user}
  /\ UNCHANGED <<desk, owners, alive, flow, window, dealing>>

CallbackMints(f) ==
  /\ redirect[f].at = "arrived" /\ f \in pendingCreds
  /\ Issues(redirect[f].user)
  /\ redirect' = [redirect EXCEPT ![f] = [at |-> "minted", token |-> Len(owners')]]
  /\ UNCHANGED <<desk, consented, flow, window, dealing>>

\* The popup's message names no login: every page that waits takes it for its own.
Tells(f, stage, account) ==
  /\ flow' = IF window # f THEN flow ELSE
       [g \in Flows |-> IF ~InStage(g, "wait") THEN flow[g]
          ELSE [flow[g] EXCEPT !.at = stage, !.name = IF account # Blank THEN account ELSE @]]
  /\ window' = IF window = f THEN Closed ELSE window

CallbackStores(f) ==
  /\ redirect[f].at = "minted"
  /\ Exchanged(redirect[f].token, flow[f].row)
  /\ pendingCreds' = pendingCreds \ {f}
  /\ redirect' = [redirect EXCEPT ![f] = [at |-> "done"]]
  /\ Tells(f, "heard", Owner(redirect[f].token))
  /\ UNCHANGED <<saved, kite, dealing>>

CallbackFails(f) ==
  /\ redirect[f].at = "arrived"
  /\ redirect' = [redirect EXCEPT ![f] = [at |-> "done"]]
  /\ Tells(f, "done", Blank)
  /\ UNCHANGED <<desk, kite, dealing>>

TimesOut(f) ==
  /\ InStage(f, "wait") /\ Stage(f, "done")
  /\ UNCHANGED <<desk, kite, popups, dealing>>

\* sessionFromClient: every request that carries a session puts it (back) in the
\* store.  The order book, trades, positions, holdings and margins of a row.
Reads(row) ==
  /\ saved[row] # 0
  /\ sessions' = [sessions EXCEPT ![Owner(saved[row])] = saved[row]]
  /\ UNCHANGED <<named, saved, pendingCreds, kite, flow, popups, dealing>>

\* Kite ends a session.
Revokes(t) ==
  /\ alive' = alive \ {t}
  /\ UNCHANGED <<desk, owners, consented, flow, popups, dealing>>

\* The place-basket route; the instrument master is loaded before the legs are
\* looked up in it.
AsksBasket(row) ==
  /\ basket.at = "idle" /\ saved[row] # 0
  /\ sessions' = [sessions EXCEPT ![Owner(saved[row])] = saved[row]]
  /\ basket' = [at |-> "resolve", token |-> saved[row], found |-> {}, leg |-> 1,
                 rows |-> << >>]
  /\ UNCHANGED <<named, saved, pendingCreds, kite, flow, popups, orders>>

\* resolveOrderBasket: one leg the master does not have and none is placed.
Resolves(found) ==
  /\ basket.at = "resolve"
  /\ IF found = 1 .. Items
       THEN /\ basket' = [basket EXCEPT !.at = "place", !.found = found]
            /\ sessions' = [sessions EXCEPT ![Owner(basket.token)] = basket.token]
       ELSE basket' = [basket EXCEPT !.at = "refused", !.found = found] /\ UNCHANGED sessions
  /\ UNCHANGED <<named, saved, pendingCreds, kite, flow, popups, orders>>

Row(placed) == basket' = [basket EXCEPT !.leg = @ + 1, !.rows = Append(@, placed)]

\* placeBasket tries each leg once; an order whose answer is lost is reported as
\* one that failed.
PlacesLeg ==
  /\ basket.at = "place" /\ basket.leg <= Items
  /\ \/ /\ basket.leg \notin Unfit /\ basket.token \in alive
        /\ orders' = Append(orders, [leg |-> basket.leg, account |-> Owner(basket.token)])
        /\ \E answered \in BOOLEAN : Row(answered)
     \/ Row(FALSE) /\ UNCHANGED orders
  /\ UNCHANGED <<desk, kite, flow, popups>>

BasketAnswers ==
  /\ basket.at = "place" /\ basket.leg > Items
  /\ basket' = [basket EXCEPT !.at = "answered"]
  /\ UNCHANGED <<desk, kite, flow, popups, orders>>

DeskNext ==
  \/ \E f \in Flows :
       \/ \E row \in Rows, page \in Pages : LogsIn(f, row, page)
       \/ AsksAgain(f) \/ ProbeAnswers(f) \/ ProbeFails(f) \/ HeadlessLogin(f) \/ StoresToken(f)
       \/ OpensWindow(f) \/ TimesOut(f)
       \/ CallbackMints(f) \/ CallbackStores(f) \/ CallbackFails(f)
  \/ \E user \in KiteUsers : SignsIn(user)
  \/ \E row \in Rows : Reads(row) \/ AsksBasket(row)
  \/ \E t \in alive : Revokes(t)
  \/ \E found \in SUBSET (1 .. Items) : Resolves(found)
  \/ PlacesLeg \/ BasketAnswers

DeskSpec == DeskInit /\ [][DeskNext]_deskVars

-----------------------------------------------------------------------------
\* No order goes astray: what is stored for a user is a session of that user,
\* whoever signed in where and whatever late answer or callback came last; a basket
\* sends one order per leg at most, "if one mapping is absent, zero live orders are
\* sent", and an answer reports as placed only what was.
OrdersGoHome ==
  /\ \A u \in KiteUsers : sessions[u] # 0 => Owner(sessions[u]) = u
  /\ \A i, j \in DOMAIN orders : orders[i].leg = orders[j].leg => i = j
  /\ orders # << >> => basket.found = 1 .. Items
  /\ basket.at = "answered" =>
       \A l \in 1 .. Items : basket.rows[l] => \E i \in DOMAIN orders : orders[i].leg = l

\* "A login as the wrong Kite user is refused rather than saved to this row": a
\* row that names an account keeps naming it.
RowKeepsItsAccount == \A r \in Rows : Named[r] # Blank => named[r] = Named[r]
=============================================================================
