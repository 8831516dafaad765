----------------------------- MODULE NubraSetup ------------------------------
(***************************************************************************)
(* The authenticator secret of a Nubra account: the row it is stored in,   *)
(* the secret the broker honours, and the requests that log in with it,    *)
(* wipe it when it looks dead and enrol a new one with an SMS code         *)
(* (brokers/nubra.js, loginAll.js, routes/nubra.js, lib/supabase.js).      *)
(* Requests run at once, each with the secret it has been given or read.   *)
(***************************************************************************)
EXTENDS Integers

CONSTANTS
  Askers,      \* the requests that are made
  MaxSecrets,  \* bound: the secrets the broker ever generates
  Stale        \* may a page hand in a secret it has read earlier?

ASSUME NubraAssumption == MaxSecrets \in Nat \ {0} /\ Stale \in BOOLEAN

NoSecret == 0

VARIABLES
  stored,   \* totp_secret of the account's row
  known,    \* what the row has held
  enabled,  \* the secret the broker honours
  ever,     \* those it has honoured
  drawn,    \* the secrets generated
  tempTokens,   \* temp tokens sent out with an SMS code and not used yet
  asks      \* the requests: where they are and the secret they hold

rowVars == <<stored, known>>
account == <<enabled, ever, drawn, tempTokens>>
nubraVars == <<rowVars, account, asks>>

\* The account may have been set up; its secret may have been reset since.
NubraInit ==
  /\ drawn = 1 /\ stored \in {NoSecret, 1} /\ known = {stored}
  /\ ever = {1} /\ enabled \in {NoSecret, 1}
  /\ tempTokens = 0
  /\ asks = [q \in Askers |-> [at |-> "idle", secret |-> NoSecret]]

Is(q, at) == asks[q].at = at
Goes(q, at) == asks' = [asks EXCEPT ![q].at = at]
Writes(secret) == stored' = secret /\ known' = known \cup {secret}

\* The auto-login: a row without a secret is wiped and enrolled at once.
AutoLogin(q) ==
  /\ Is(q, "idle")
  /\ \E secret \in {stored} \cup (IF Stale THEN known ELSE {}) :
       asks' = [asks EXCEPT ![q] = [at |-> IF secret = NoSecret THEN "heal" ELSE "login",
                                    secret |-> secret]]
  /\ UNCHANGED <<rowVars, account>>

\* isTOTPError looks for "totp" in the message, and so takes the missing
\* auth_token of "Nubra TOTP login returned no auth_token" for a dead secret.
LooksDead(failure) == failure \in {"refused", "no auth_token"}

LoginAnswers(q) ==
  /\ Is(q, "login")
  /\ \/ asks[q].secret = enabled /\ Goes(q, "in")
     \/ \E failure \in {"no auth_token", "transient"}
                         \cup (IF asks[q].secret = enabled THEN {} ELSE {"refused"}) :
          Goes(q, IF LooksDead(failure) THEN "heal" ELSE "failed")
  /\ UNCHANGED <<rowVars, account>>

\* startHeal, or the route's own copy of it: the row is wiped by its id.
Wipes(q) ==
  /\ Is(q, "heal")
  /\ \/ Writes(NoSecret) /\ Goes(q, "send")
     \/ Goes(q, "failed") /\ UNCHANGED rowVars
  /\ UNCHANGED account

\* The generate-secret route and setup/start send an SMS code without a wipe.
StartSetup(q) ==
  /\ Is(q, "idle") /\ Goes(q, "send")
  /\ UNCHANGED <<rowVars, account>>

SendOtp(q) ==
  /\ Is(q, "send")
  /\ \/ tempTokens' = tempTokens + 1 /\ Goes(q, "otp")
     \/ Goes(q, "failed") /\ UNCHANGED tempTokens
  /\ UNCHANGED <<rowVars, enabled, ever, drawn>>

\* The user types the SMS code: finishSetup verifies it and the PIN, and has a
\* secret generated.
Generates(q) ==
  /\ Is(q, "otp") /\ tempTokens > 0 /\ drawn < MaxSecrets
  /\ tempTokens' = tempTokens - 1
  /\ \/ /\ drawn' = drawn + 1
        /\ asks' = [asks EXCEPT ![q] = [at |-> "enable", secret |-> drawn + 1]]
     \/ Goes(q, "failed") /\ UNCHANGED drawn
  /\ UNCHANGED <<rowVars, enabled, ever>>

\* fault: the secret is saved as soon as it has been generated
EnablesAfterSaving(q) ==
  /\ Is(q, "enable") /\ Writes(asks[q].secret)
  /\ \/ /\ enabled' = asks[q].secret /\ ever' = ever \cup {asks[q].secret}
        /\ Goes(q, "save")
     \/ Goes(q, "failed") /\ UNCHANGED <<enabled, ever>>
  /\ UNCHANGED <<drawn, tempTokens>>

Enables(q) ==
  /\ Is(q, "enable")
  /\ \/ /\ enabled' = asks[q].secret /\ ever' = ever \cup {asks[q].secret}
        /\ Goes(q, "save")
     \/ Goes(q, "failed") /\ UNCHANGED <<enabled, ever>>
  /\ UNCHANGED <<rowVars, drawn, tempTokens>>

\* A save that fails loses the only copy of an enabled secret.
Saves(q) ==
  /\ Is(q, "save")
  /\ \/ Writes(asks[q].secret) /\ Goes(q, "last")
     \/ Goes(q, "failed") /\ UNCHANGED rowVars
  /\ UNCHANGED account

\* The login after the setup wipes nothing, whatever its answer.
LastLogin(q) ==
  /\ Is(q, "last")
  /\ \/ asks[q].secret = enabled /\ Goes(q, "in")
     \/ Goes(q, "failed")
  /\ UNCHANGED <<rowVars, account>>

\* The user gives up, or resets the authenticator in Nubra's own app.
GivesUp(q) == Is(q, "otp") /\ Goes(q, "failed") /\ UNCHANGED <<rowVars, account>>
Reset ==
  /\ enabled' = NoSecret /\ enabled # NoSecret
  /\ UNCHANGED <<rowVars, ever, drawn, tempTokens, asks>>

NubraNext ==
  \/ Reset
  \/ \E q \in Askers :
       \/ AutoLogin(q) \/ LoginAnswers(q) \/ Wipes(q) \/ StartSetup(q) \/ SendOtp(q)
       \/ Generates(q) \/ Enables(q) \/ Saves(q) \/ LastLogin(q) \/ GivesUp(q)

NubraSpec == NubraInit /\ [][NubraNext]_nubraVars

-----------------------------------------------------------------------------
\* A setup that is refused, abandoned or cut short at any step, with others going
\* on, leaves no secret in the row that the broker has never honoured: "enables
\* TOTP, SAVES the secret to that Supabase row, then logs in".
SavedWasEnabled == stored \in ever \cup {NoSecret}

\* isTOTPError leaves out failures "that should NOT cause us to throw away an
\* otherwise-good secret": no request has wiped the row over a secret that the
\* broker honours.
GoodSecretsKept ==
  \A q \in Askers : Is(q, "send") => asks[q].secret = NoSecret \/ asks[q].secret # enabled
=============================================================================
