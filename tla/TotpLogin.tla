------------------------------ MODULE TotpLogin ------------------------------
(***************************************************************************)
(* One-time codes (lib/totp.js) and the headless logins that send them:    *)
(* Kite's submitTOTP, Nubra's login and the enabling of a new Nubra        *)
(* secret, which try once more when the first code may have died on its    *)
(* way, and Kotak's autoLogin, which does not.  The broker takes a code    *)
(* only in the window it is the code of; clocks agree.                     *)
(***************************************************************************)
EXTENDS Integers

CONSTANTS
  Window,     \* the life of a code, WINDOW_MS
  Edge,       \* the end of a window in which a refusal is tried again, edgeMs
  Slack,      \* how far into the next window the second try starts
  MaxFlight   \* the time a call may take, its timeout

ASSUME TotpAssumption ==
  /\ {Window, Edge, Slack, MaxFlight} \subseteq Nat
  /\ 0 < Slack /\ Edge + Slack + MaxFlight < Window

VARIABLES
  adapter,   \* who logs in
  good,      \* is the secret the one the broker knows?
  clock,
  gen,       \* the time the code in flight was made for, genMs
  step,      \* where the login is
  tries,     \* codes sent
  refused,   \* the window of a code that was refused, -1 if none was
  slow,      \* has a code been on its way for longer than Edge?
  broken     \* has another call of the login failed?

totpVars == <<adapter, good, clock, gen, step, tries, refused, slow, broken>>

TotpInit ==
  /\ adapter \in {"zerodha", "nubra", "enable", "kotak"} /\ good \in BOOLEAN
  /\ clock \in 0 .. Window - 1 /\ gen = 0 /\ step = "start" /\ tries = 0
  /\ refused = -1 /\ slow = FALSE /\ broken = FALSE

CodeOf(time) == time \div Window
NearEdge(time) == Window - (time % Window) <= Edge
UntilNext(time) == Window - (time % Window) + Slack

\* A code is made for the time it is now, and sent.
SendsCode ==
  /\ step = "start"
  /\ gen' = clock /\ tries' = tries + 1 /\ step' = "code"
  /\ UNCHANGED <<adapter, good, clock, refused, slow, broken>>

\* fault: the edge is looked for when the answer comes
TriesAgainByNow == adapter # "kotak" /\ tries = 1 /\ NearEdge(clock')

TriesAgain == adapter # "kotak" /\ tries = 1 /\ NearEdge(gen)

Fails == step' = (IF TriesAgain THEN "sleep" ELSE "failed")

Takes(time) == clock' = clock + time

\* The broker looks at the code; the calls after it are the adapter's own.
Answered(time) ==
  /\ step = "code" /\ Takes(time)
  /\ slow' = (slow \/ time > Edge)
  /\ IF good /\ CodeOf(clock') = CodeOf(gen)
       THEN /\ step' = (IF adapter \in {"nubra", "kotak"} THEN "pin" ELSE "in")
            /\ UNCHANGED refused
       ELSE Fails /\ refused' = CodeOf(gen)
  /\ UNCHANGED <<adapter, good, gen, tries, broken>>

\* A call fails whatever it carries.
Breaks(time) ==
  /\ step \in {"code", "pin"} /\ Takes(time)
  /\ broken' = TRUE
  /\ Fails
  /\ UNCHANGED <<adapter, good, gen, tries, refused, slow>>

\* verifyPin, or tradeApiValidate.
PinTaken(time) ==
  /\ step = "pin" /\ Takes(time)
  /\ step' = "in"
  /\ UNCHANGED <<adapter, good, gen, tries, refused, slow, broken>>

Sleeps ==
  /\ step = "sleep" /\ Takes(UntilNext(gen))
  /\ step' = "start"
  /\ UNCHANGED <<adapter, good, gen, tries, refused, slow, broken>>

TotpNext ==
  \/ SendsCode \/ Sleeps
  \/ \E time \in 1 .. MaxFlight : Answered(time) \/ Breaks(time) \/ PinTaken(time)

TotpSpec == TotpInit /\ [][TotpNext]_totpVars

-----------------------------------------------------------------------------
\* "A TOTP is valid only for its 30s window, so if the first attempt fails right
\* at a window edge we wait for the next window and retry once": a login that
\* tries again fails with a good secret only if a code was on its way for longer
\* than the edge or another call failed, and no second code is the one refused.
CodesInTime ==
  /\ step = "failed" /\ adapter # "kotak" /\ good => slow \/ broken
  /\ step = "code" /\ tries = 2 => CodeOf(gen) # refused
=============================================================================
