------------------------------ MODULE UpstoxLogin ------------------------------
(***************************************************************************)
(* Logging in to Upstox (brokers/upstox.js, routes/upstox.js) for one      *)
(* user: requests that reuse the stored session or start a headless or a   *)
(* popup login, and the redirects that bring each login's one-time code to *)
(* the callback route.  A login's code is named after the login.           *)
(***************************************************************************)
EXTENDS Integers, FiniteSets

CONSTANTS
  Logins,    \* the auto-login requests that are made
  StateOf,   \* the OAuth state each of them carries
  Headless,  \* those for a row that is ticked for the headless login
  EnvKeys,   \* does the environment hold an API key and secret?
  Saved,     \* may the browser hand in a session it has saved?
  Flaky      \* may a call to Upstox fail, whatever it is sent?

\* Every state is made with the time.  The older page asks once more under the state
\* of a popup that has been served; that request opens no window and is left out.
ASSUME UpstoxAssumption ==
  /\ DOMAIN StateOf = Logins
  /\ \A k, l \in Logins : StateOf[k] = StateOf[l] => k = l
  /\ Headless \subseteq Logins /\ {EnvKeys, Saved, Flaky} \subseteq BOOLEAN

VARIABLES
  session,   \* sessions.get(userId): a token, 0 when there is none
  pending,   \* the states whose credentials are kept
  claimed,   \* seleniumStates
  login,     \* where each request is
  callback,  \* where the redirect of each login is
  held,      \* the token a request has read or been given
  got,       \* the token a callback has been given
  minted,    \* the tokens Upstox has issued: 1 .. minted
  live,      \* those it honours
  used       \* the codes that have been exchanged

requests == <<login, held>>
redirects == <<callback, got>>
store == <<session, pending, claimed>>
upstox == <<minted, live, used>>
upstoxVars == <<store, requests, redirects, upstox>>

InFlow == {"browser", "exchange", "profile", "funds"}
Running == InFlow \cup {"probe"}

UpstoxTypeOK ==
  /\ minted \in Nat /\ live \subseteq 1 .. minted /\ session \in 0 .. minted
  /\ used \subseteq Logins
  /\ {pending, claimed} \subseteq SUBSET {StateOf[l] : l \in Logins}
  /\ login \in [Logins -> Running \cup {"idle", "popup", "done", "failed"}]
  /\ callback \in [Logins -> {"idle", "arrived", "exchange", "profile", "done", "failed"}]
  /\ held \in [Logins -> 0 .. minted] /\ got \in [Logins -> 0 .. minted]

UpstoxInit ==
  /\ session \in {0, 1} /\ minted = 1 /\ live \in SUBSET {1}
  /\ pending = {} /\ claimed = {} /\ used = {}
  /\ login = [l \in Logins |-> "idle"] /\ held = [l \in Logins |-> 0]
  /\ callback = [l \in Logins |-> "idle"] /\ got = [l \in Logins |-> 0]

FreshUnclaimed(l) ==                  \* fault: the state is not claimed
  login' = [login EXCEPT ![l] = "browser"] /\ UNCHANGED claimed

\* autoLogin past the stored session: the headless flow claims the state, the
\* popup is left to the user.
Fresh(l) ==
  IF l \in Headless
    THEN /\ claimed' = claimed \cup {StateOf[l]}
         /\ login' = [login EXCEPT ![l] = "browser"]
    ELSE /\ login' = [login EXCEPT ![l] = "popup"] /\ UNCHANGED claimed

Remembers(l) == pending \cup {StateOf[l]}

\* The route restores a session the browser has saved, and autoLogin probes the
\* one that is stored then.
Begin(l) ==
  /\ login[l] = "idle"
  /\ pending' = Remembers(l)
  /\ \E s \in {0} \cup (IF Saved THEN 1 .. minted ELSE {}) :
       LET existing == IF s # 0 THEN s ELSE session IN
       /\ session' = existing
       /\ held' = [held EXCEPT ![l] = existing]
       /\ IF existing = 0 THEN Fresh(l)
            ELSE login' = [login EXCEPT ![l] = "probe"] /\ UNCHANGED claimed
  /\ UNCHANGED <<redirects, upstox>>

\* The probe failed: whatever session is stored now is dropped.
Forgets(l) == session' = 0 /\ Fresh(l)

ProbeOK(l) ==
  /\ held[l] \in live
  /\ login' = [login EXCEPT ![l] = "done"] /\ UNCHANGED <<session, claimed>>

Probed(l) ==
  /\ login[l] = "probe"
  /\ \/ ProbeOK(l)
     \/ (held[l] \notin live \/ Flaky) /\ Forgets(l)
  /\ UNCHANGED <<pending, held, redirects, upstox>>

\* Upstox redirects the browser, the script's or the user's, to the callback.
Authorizes(l) ==
  /\ login[l] \in {"browser", "popup"} /\ callback[l] = "idle"
  /\ callback' = [callback EXCEPT ![l] = "arrived"]
  /\ UNCHANGED <<store, requests, got, upstox>>

ScriptReturns(l) ==
  /\ login[l] = "browser" /\ callback[l] # "idle"
  /\ login' = [login EXCEPT ![l] = "exchange"]
  /\ UNCHANGED <<store, held, redirects, upstox>>

\* autoLoginSelenium's finally.
Finally(l, outcome) ==
  /\ login' = [login EXCEPT ![l] = outcome]
  /\ claimed' = claimed \ {StateOf[l]} /\ pending' = pending \ {StateOf[l]}

\* The script fails or times out.
ScriptFails(l) ==
  /\ login[l] = "browser"
  /\ Finally(l, "failed")
  /\ UNCHANGED <<session, held, redirects, upstox>>

\* The code buys a token, once.
Mint(l) == used' = used \cup {l} /\ minted' = minted + 1 /\ live' = live \cup {minted + 1}

Exchange(l) ==
  /\ login[l] = "exchange"
  /\ \/ /\ l \notin used /\ Mint(l)
        /\ held' = [held EXCEPT ![l] = minted']
        /\ login' = [login EXCEPT ![l] = "profile"] /\ UNCHANGED <<pending, claimed>>
     \/ (l \in used \/ Flaky) /\ Finally(l, "failed") /\ UNCHANGED <<held, upstox>>
  /\ UNCHANGED <<session, redirects>>

Stores(l) == session' = held[l]

\* exchangeCode stores the session when the profile call has answered.
ProfileAnswers(l) ==
  /\ login[l] = "profile"
  /\ \/ /\ held[l] \in live /\ Stores(l)
        /\ login' = [login EXCEPT ![l] = "funds"] /\ UNCHANGED <<pending, claimed>>
     \/ (held[l] \notin live \/ Flaky) /\ Finally(l, "failed") /\ UNCHANGED session
  /\ UNCHANGED <<held, redirects, upstox>>

\* The funds call of a headless login may fail: "login still succeeded".
FundsAnswer(l) ==
  /\ login[l] = "funds"
  /\ Finally(l, "done")
  /\ UNCHANGED <<session, held, redirects, upstox>>

\* handleCallback: a claimed code is left alone; another is exchanged, with the
\* credentials kept for the state or those of the environment.
Callback(l) ==
  /\ callback[l] = "arrived"
  /\ callback' = [callback EXCEPT ![l] =
       IF StateOf[l] \in claimed THEN "done"
       ELSE IF StateOf[l] \in pending \/ EnvKeys THEN "exchange" ELSE "failed"]
  /\ UNCHANGED <<store, requests, got, upstox>>

CallbackExchanges(l) ==
  /\ callback[l] = "exchange"
  /\ \/ /\ l \notin used /\ Mint(l)
        /\ got' = [got EXCEPT ![l] = minted']
        /\ callback' = [callback EXCEPT ![l] = "profile"]
     \/ /\ l \in used \/ Flaky
        /\ callback' = [callback EXCEPT ![l] = "failed"] /\ UNCHANGED <<got, upstox>>
  /\ UNCHANGED <<store, requests>>

CallbackEnds(l) ==
  /\ callback[l] = "profile"
  /\ \/ /\ got[l] \in live /\ session' = got[l]
        /\ pending' = pending \ {StateOf[l]}
        /\ callback' = [callback EXCEPT ![l] = "done"]
     \/ /\ got[l] \notin live \/ Flaky
        /\ callback' = [callback EXCEPT ![l] = "failed"] /\ UNCHANGED <<session, pending>>
  /\ UNCHANGED <<claimed, requests, got, upstox>>

\* A token reaches the end of its day, or is revoked.
Expire(t) ==
  /\ t \in live /\ live' = live \ {t}
  /\ UNCHANGED <<store, requests, redirects, minted, used>>

UpstoxNext ==
  \/ \E l \in Logins :
       \/ Begin(l) \/ Probed(l) \/ Authorizes(l)
       \/ ScriptReturns(l) \/ ScriptFails(l) \/ Exchange(l)
       \/ ProfileAnswers(l) \/ FundsAnswer(l)
       \/ Callback(l) \/ CallbackExchanges(l) \/ CallbackEnds(l)
  \/ \E t \in live : Expire(t)

UpstoxSpec == UpstoxInit /\ [][UpstoxNext]_upstoxVars

-----------------------------------------------------------------------------
\* A redirect serves the login it is for: the callback route never burns the
\* single-use code of a headless login that is about to exchange it, and when a
\* popup's redirect arrives the credentials of its login are still kept.
RedirectsAreServed ==
  \A l \in Logins :
    /\ login[l] = "exchange" => l \notin used
    /\ login[l] = "popup" /\ callback[l] = "arrived" => StateOf[l] \in pending
=============================================================================
