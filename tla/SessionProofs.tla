----------------------------- MODULE SessionProofs -----------------------------
(***************************************************************************)
(* Proofs about requests that race and what they leave behind: redirects of *)
(* Upstox logins (UpstoxLogin), the secret of a Nubra row (NubraSetup),    *)
(* shared flights (SharedFlights), one-time codes (TotpLogin), histories   *)
(* put together from pages (CandleHistory), and the Go feed (GoFeed): its  *)
(* socket with one request handler at a time, its union with any number.   *)
(*                                                                         *)
(* Each part has an inductive invariant (LoginsKept, NubraCore, FlightsCore, *)
(* TotpCore, CandleCore with CacheCore, GoCore, GoTyped) that says what a  *)
(* request under way still relies on and has still to do.                  *)
(***************************************************************************)
EXTENDS GoFeed, UpstoxLogin, NubraSetup, SharedFlights, TotpLogin, CandleHistory,
        TokenUnionProofs, NaturalsInduction, WellFoundedInduction, SequenceTheorems
-----------------------------------------------------------------------------
(* Upstox: redirects (UpstoxLogin) *)

Scripted == {"browser", "exchange"}

\* What is kept of a login while it goes on: until the script has returned its
\* code the state of a headless login is claimed, and nothing but the login
\* itself exchanges the code; the credentials of a popup are kept until its
\* redirect has been taken.
LoginKept(l) ==
  /\ login[l] \in InFlow => l \in Headless
  /\ login[l] = "popup" => l \notin Headless
  /\ login[l] \in {"idle", "probe"} => callback[l] = "idle" /\ l \notin used
  /\ login[l] = "probe" => StateOf[l] \in pending
  /\ login[l] \in Scripted =>
       StateOf[l] \in claimed /\ l \notin used /\ callback[l] \notin {"exchange", "profile"}
  /\ login[l] = "popup" /\ callback[l] \in {"idle", "arrived"} => StateOf[l] \in pending

LoginsKept == UpstoxTypeOK /\ \A l \in Logins : LoginKept(l)

\* A token that is issued leaves what has been issued in range.
LEMMA MintGrows ==
  ASSUME UpstoxTypeOK, NEW l \in Logins, Mint(l)
  PROVE  /\ minted' \in Nat /\ minted' \in 0 .. minted' /\ live' \subseteq 1 .. minted'
         /\ 0 .. minted \subseteq 0 .. minted'
<1>1. minted' = minted + 1 /\ live' = live \cup {minted'}
  BY DEF Mint
<1> QED  BY <1>1 DEF UpstoxTypeOK

\* The types hold after every step.
LEMMA UpstoxTyped == UpstoxTypeOK /\ [UpstoxNext]_upstoxVars => UpstoxTypeOK'
<1> SUFFICES ASSUME UpstoxTypeOK, [UpstoxNext]_upstoxVars PROVE UpstoxTypeOK'
  OBVIOUS
<1> USE DEF UpstoxTypeOK, store, requests, redirects, upstox, Running, InFlow
<1>1. ASSUME NEW l \in Logins, Begin(l) PROVE UpstoxTypeOK'
  BY <1>1 DEF Begin, Fresh, Remembers
<1>2. ASSUME NEW l \in Logins, Probed(l) PROVE UpstoxTypeOK'
  BY <1>2 DEF Probed, ProbeOK, Forgets, Fresh
<1>3. ASSUME NEW l \in Logins, Authorizes(l) \/ ScriptReturns(l) \/ Callback(l) PROVE UpstoxTypeOK'
  BY <1>3 DEF Authorizes, ScriptReturns, Callback
<1>4. ASSUME NEW l \in Logins, ScriptFails(l) \/ FundsAnswer(l) PROVE UpstoxTypeOK'
  BY <1>4 DEF ScriptFails, FundsAnswer, Finally
<1>5. ASSUME NEW l \in Logins, Exchange(l) PROVE UpstoxTypeOK'
  <2>1. CASE Mint(l) /\ held' = [held EXCEPT ![l] = minted']
             /\ login' = [login EXCEPT ![l] = "profile"] /\ UNCHANGED <<pending, claimed>>
    BY <1>5, <2>1, MintGrows DEF Exchange, Mint
  <2>2. CASE Finally(l, "failed") /\ UNCHANGED <<held, upstox>>
    BY <1>5, <2>2 DEF Exchange, Finally
  <2> QED  BY <1>5, <2>1, <2>2 DEF Exchange
<1>6. ASSUME NEW l \in Logins, ProfileAnswers(l) PROVE UpstoxTypeOK'
  BY <1>6 DEF ProfileAnswers, Stores, Finally
<1>7. ASSUME NEW l \in Logins, CallbackExchanges(l) PROVE UpstoxTypeOK'
  <2>1. CASE Mint(l) /\ got' = [got EXCEPT ![l] = minted']
             /\ callback' = [callback EXCEPT ![l] = "profile"]
    BY <1>7, <2>1, MintGrows DEF CallbackExchanges, Mint
  <2>2. CASE callback' = [callback EXCEPT ![l] = "failed"] /\ UNCHANGED <<got, upstox>>
    BY <1>7, <2>2 DEF CallbackExchanges
  <2> QED  BY <1>7, <2>1, <2>2 DEF CallbackExchanges
<1>8. ASSUME NEW l \in Logins, CallbackEnds(l) PROVE UpstoxTypeOK'
  BY <1>8 DEF CallbackEnds
<1>9. ASSUME NEW t \in live, Expire(t) PROVE UpstoxTypeOK'
  BY <1>9 DEF Expire
<1>10. CASE UNCHANGED upstoxVars
  BY <1>10 DEF upstoxVars
<1> QED  BY <1>1, <1>2, <1>3, <1>4, <1>5, <1>6, <1>7, <1>8, <1>9, <1>10 DEF UpstoxNext

\* A step of one login disturbs what is kept of no login, its own included: what
\* the end of a login forgets is its own state, and no two logins share one.
LEMMA LoginsStayKept == LoginsKept /\ [UpstoxNext]_upstoxVars => LoginsKept'
<1> SUFFICES ASSUME LoginsKept, [UpstoxNext]_upstoxVars, NEW l \in Logins PROVE LoginKept(l)'
  BY UpstoxTyped DEF LoginsKept
<1> USE DEF LoginKept, InFlow, Scripted
<1>0. UpstoxTypeOK /\ LoginKept(l) /\ \A k \in Logins : StateOf[k] = StateOf[l] => k = l
  BY UpstoxAssumption DEF LoginsKept
<1>1. ASSUME NEW k \in Logins, Begin(k) PROVE LoginKept(l)'
  <2>0. LoginKept(k)
    BY DEF LoginsKept
  <2>1. CASE k = l
    BY <1>0, <1>1, <2>1 DEF Begin, Fresh, Remembers, redirects, upstox, UpstoxTypeOK
  <2>2. CASE k # l
    BY <1>0, <1>1, <2>2 DEF Begin, Fresh, Remembers, redirects, upstox, UpstoxTypeOK
  <2> QED  BY <2>1, <2>2
<1>2. ASSUME NEW k \in Logins, Probed(k) PROVE LoginKept(l)'
  <2>1. CASE k = l
    BY <1>0, <1>2, <2>1 DEF Probed, ProbeOK, Forgets, Fresh, redirects, upstox, UpstoxTypeOK
  <2>2. CASE k # l
    BY <1>0, <1>2, <2>2 DEF Probed, ProbeOK, Forgets, Fresh, redirects, upstox, UpstoxTypeOK
  <2> QED  BY <2>1, <2>2
<1>3. ASSUME NEW k \in Logins, Authorizes(k) \/ ScriptReturns(k) PROVE LoginKept(l)'
  BY <1>0, <1>3 DEF Authorizes, ScriptReturns, store, requests, redirects, upstox, UpstoxTypeOK
<1>4. ASSUME NEW k \in Logins, Callback(k) PROVE LoginKept(l)'
  BY <1>0, <1>4 DEF Callback, store, requests, upstox, UpstoxTypeOK
<1>5. ASSUME NEW k \in Logins, ScriptFails(k) \/ FundsAnswer(k) PROVE LoginKept(l)'
  <2>0. LoginKept(k)
    BY DEF LoginsKept
  <2> QED  BY <1>0, <1>5, <2>0 DEF ScriptFails, FundsAnswer, Finally, redirects, upstox, UpstoxTypeOK
<1>6. ASSUME NEW k \in Logins, Exchange(k) PROVE LoginKept(l)'
  <2>1. CASE k = l
    BY <1>0, <1>6, <2>1 DEF Exchange, Mint, Finally, redirects, upstox, UpstoxTypeOK
  <2>2. CASE k # l
    BY <1>0, <1>6, <2>2 DEF Exchange, Mint, Finally, redirects, upstox, UpstoxTypeOK
  <2> QED  BY <2>1, <2>2
<1>7. ASSUME NEW k \in Logins, ProfileAnswers(k) PROVE LoginKept(l)'
  <2>1. CASE k = l
    BY <1>0, <1>7, <2>1 DEF ProfileAnswers, Stores, Finally, redirects, upstox, UpstoxTypeOK
  <2>2. CASE k # l
    <3>1. login'[l] = login[l] /\ UNCHANGED <<callback, used>>
      BY <1>7, <2>2 DEF ProfileAnswers, Finally, redirects, upstox, LoginsKept, UpstoxTypeOK
    <3>2. /\ StateOf[l] \in claimed => StateOf[l] \in claimed'
          /\ StateOf[l] \in pending => StateOf[l] \in pending'
      BY <1>0, <1>7, <2>2 DEF ProfileAnswers, Finally
    <3> QED  BY <1>0, <3>1, <3>2
  <2> QED  BY <2>1, <2>2
<1>8. ASSUME NEW k \in Logins, CallbackExchanges(k) PROVE LoginKept(l)'
  BY <1>0, <1>8 DEF CallbackExchanges, Mint, store, requests, upstox, UpstoxTypeOK
<1>9. ASSUME NEW k \in Logins, CallbackEnds(k) PROVE LoginKept(l)'
  BY <1>0, <1>9 DEF CallbackEnds, requests, upstox, UpstoxTypeOK
<1>10. ASSUME NEW t \in live, Expire(t) PROVE LoginKept(l)'
  BY <1>0, <1>10 DEF Expire, store, requests, redirects
<1>11. CASE UNCHANGED upstoxVars
  BY <1>0, <1>11 DEF upstoxVars, store, requests, redirects, upstox
<1> QED  BY <1>1, <1>2, <1>3, <1>4, <1>5, <1>6, <1>7, <1>8, <1>9, <1>10, <1>11 DEF UpstoxNext

\* The callback route never burns the code of a headless login that is about to
\* exchange it, and the credentials of a popup are kept until its redirect has come,
\* however many logins of the user go on at once.
THEOREM RedirectsServed == UpstoxSpec => []RedirectsAreServed
<1>1. UpstoxInit => LoginsKept
  BY DEF UpstoxInit, LoginsKept, LoginKept, UpstoxTypeOK, InFlow, Scripted, Running
<1>2. LoginsKept => RedirectsAreServed
  BY DEF LoginsKept, LoginKept, RedirectsAreServed, Scripted
<1> QED  BY <1>1, <1>2, LoginsStayKept, PTL DEF UpstoxSpec

\* Sessions, tokens and the states of logins and callbacks keep their types.
THEOREM UpstoxTypes == UpstoxSpec => []UpstoxTypeOK
<1>1. UpstoxInit => UpstoxTypeOK
  BY DEF UpstoxInit, UpstoxTypeOK, InFlow, Running
<1> QED  BY <1>1, UpstoxTyped, PTL DEF UpstoxSpec

-----------------------------------------------------------------------------
(* Nubra: the secret of the row (NubraSetup) *)

\* Every secret that the row has held, and every one that is about to be saved,
\* is one that the broker has honoured.
SecretsTried ==
  /\ stored \in known /\ known \subseteq ever \cup {NoSecret}
  /\ \A q \in Askers : Is(q, "save") => asks[q].secret \in ever

\* The requests' records keep their shape.
AsksTyped ==
  asks \in [Askers -> [at : {"idle", "heal", "login", "send", "otp", "enable", "save",
                             "last", "in", "failed"}, secret : Nat]]

NubraCore == AsksTyped /\ known \subseteq Nat /\ drawn \in Nat /\ SecretsTried

\* A step of a request other than a save takes no request to the save.
LEMMA NubraStays == NubraCore /\ [NubraNext]_nubraVars => NubraCore'
<1> SUFFICES ASSUME NubraCore, [NubraNext]_nubraVars PROVE NubraCore'
  OBVIOUS
<1> USE DEF NubraCore, AsksTyped, SecretsTried, Is, Goes, Writes, NoSecret, rowVars, account
<1>1. ASSUME NEW q \in Askers, AutoLogin(q) PROVE NubraCore'
  BY <1>1 DEF AutoLogin
<1>2. ASSUME NEW q \in Askers, LoginAnswers(q) PROVE NubraCore'
  <2>1. PICK at \in {"in", "heal", "failed"} : asks' = [asks EXCEPT ![q].at = at]
    BY <1>2 DEF LoginAnswers
  <2> QED  BY <1>2, <2>1 DEF LoginAnswers
<1>3. ASSUME NEW q \in Askers, Wipes(q) PROVE NubraCore'
  BY <1>3 DEF Wipes
<1>4. ASSUME NEW q \in Askers, StartSetup(q) \/ SendOtp(q) \/ LastLogin(q) \/ GivesUp(q) PROVE NubraCore'
  BY <1>4 DEF StartSetup, SendOtp, LastLogin, GivesUp
<1>5. ASSUME NEW q \in Askers, Generates(q) PROVE NubraCore'
  BY <1>5 DEF Generates
<1>6. ASSUME NEW q \in Askers, Enables(q) PROVE NubraCore'
  BY <1>6 DEF Enables
<1>7. ASSUME NEW q \in Askers, Saves(q) PROVE NubraCore'
  BY <1>7 DEF Saves
<1>8. CASE Reset \/ UNCHANGED nubraVars
  BY <1>8 DEF Reset, nubraVars
<1> QED  BY <1>1, <1>2, <1>3, <1>4, <1>5, <1>6, <1>7, <1>8 DEF NubraNext

\* A setup that is refused, abandoned or cut short at any step leaves no secret in
\* the row that the broker has never honoured, however many setups go on at once.
THEOREM SavedSecretsWereEnabled == NubraSpec => []SavedWasEnabled
<1>1. NubraInit => NubraCore
  BY DEF NubraInit, NubraCore, AsksTyped, SecretsTried, Is, NoSecret
<1>2. NubraCore => SavedWasEnabled
  BY DEF NubraCore, SecretsTried, SavedWasEnabled
<1> QED  BY <1>1, <1>2, NubraStays, PTL DEF NubraSpec

-----------------------------------------------------------------------------
(* The caches of chains and quotes (SharedFlights) *)

Answers == {"good", "bad", "error"}

\* The clock, what is stored, the read that is under way and the callers; nothing
\* is from the future.
FlightsTyped ==
  /\ tick \in Nat
  /\ entry \in {Nobody} \cup [at : {"held"}, came : 0 .. tick, what : Answers]
  /\ flight \in {Nobody} \cup [at : {"up"}, began : 0 .. tick]
  /\ reader \in [Readers -> {Nobody} \cup [at : {"missed", "waits"}, asked : 0 .. tick]
                   \cup [at : {"got"}, asked : 0 .. tick, came : 0 .. tick, what : Answers]]

NotKept(what) == what = "error" \/ (cache = "chain" /\ what = "bad")

\* What is stored was worth keeping, a read began when it was served no more, and
\* what a caller has got is no older than the window.
FlightsCore ==
  /\ FlightsTyped
  /\ entry.at = "held" => ~NotKept(entry.what)
  /\ FlightsAreShared

\* What is stored may be served: it is no older than the window and worth keeping.
LEMMA HitServes ==
  ASSUME FlightsCore, Hit, NEW asked \in 0 .. tick
  PROVE  /\ entry.came \in 0 .. tick /\ entry.what \in Answers /\ ~NotKept(entry.what)
         /\ entry.came + Served >= asked
<1>1. entry \in [at : {"held"}, came : 0 .. tick, what : Answers] /\ ~NotKept(entry.what)
  BY DEF FlightsCore, FlightsTyped, Hit, Nobody
<1>2. Served \in Nat /\ tick \in Nat /\ tick - entry.came <= Served
  BY FlightsAssumption DEF Served, Hit, FlightsCore, FlightsTyped
<1> QED  BY <1>1, <1>2

\* A caller's record may change as long as it is from now or earlier.
LEMMA FlightsStay == FlightsCore /\ [FlightsNext]_flightVars => FlightsCore'
<1> SUFFICES ASSUME FlightsCore, [FlightsNext]_flightVars PROVE FlightsCore'
  OBVIOUS
<1>0. /\ FlightsTyped /\ FlightsAreShared /\ Served \in Nat /\ tick \in 0 .. tick
      /\ \A r \in Readers : reader[r].at = "missed" => reader[r].asked \in 0 .. tick
  BY FlightsAssumption DEF FlightsCore, FlightsTyped, Served, Nobody
\* Boarding: a read begins only when what is stored is served no more.
<1>1. ASSUME NEW r \in Readers, NEW asked \in 0 .. tick, Boards(r, asked),
             flight # Nobody \/ ~Hit, UNCHANGED <<cache, tick, entry>>
      PROVE  FlightsCore'
  <2>1. FlightsTyped'
    BY <1>0, <1>1 DEF Boards, Waits, FlightsTyped
  <2>2. flight' # Nobody /\ entry.at = "held" => flight'.began - entry.came > Served
    <3>1. CASE flight # Nobody
      BY <1>0, <1>1, <3>1 DEF Boards, FlightsAreShared
    <3>2. CASE flight = Nobody
      BY <1>0, <1>1, <3>2 DEF Boards, FlightsTyped, Hit, Nobody
    <3> QED  BY <3>1, <3>2
  <2>3. \A p \in Readers : reader'[p].at = "got" => reader'[p] = reader[p]
    BY <1>0, <1>1 DEF Boards, Waits, FlightsTyped
  <2> QED  BY <1>0, <1>1, <2>1, <2>2, <2>3 DEF FlightsCore, FlightsAreShared, NotKept, Served
\* Being served from what is stored.
<1>2. ASSUME NEW r \in Readers, NEW asked \in 0 .. tick, Hit,
             reader' = Got(r, asked, entry.came, entry.what), UNCHANGED <<cache, tick, entry, flight>>
      PROVE  FlightsCore'
  <2>1. /\ entry.came \in 0 .. tick /\ entry.what \in Answers /\ ~NotKept(entry.what)
        /\ entry.came + Served >= asked
    BY <1>2, HitServes
  <2>2. FlightsTyped'
    BY <1>0, <1>2, <2>1 DEF Got, FlightsTyped
  <2>3. reader'[r] = [at |-> "got", asked |-> asked, came |-> entry.came, what |-> entry.what]
        /\ \A p \in Readers \ {r} : reader'[p] = reader[p]
    BY <1>0, <1>2 DEF Got, FlightsTyped
  <2> QED  BY <1>0, <1>2, <2>1, <2>2, <2>3 DEF FlightsCore, FlightsAreShared, NotKept, Served
<1>3. ASSUME NEW r \in Readers, AsksFor(r) PROVE FlightsCore'
  <2>1. CASE Hit
    BY <1>0, <1>2, <1>3, <2>1 DEF AsksFor
  <2>2. CASE ~Hit /\ cache = "go"
    <3>1. reader' = [reader EXCEPT ![r] = [at |-> "missed", asked |-> tick]]
          /\ UNCHANGED <<cache, tick, entry, flight>>
      BY <1>3, <2>2 DEF AsksFor
    <3>2. FlightsTyped'
      BY <1>0, <3>1 DEF FlightsTyped
    <3>3. \A p \in Readers : reader'[p].at = "got" => reader'[p] = reader[p]
      BY <1>0, <3>1 DEF FlightsTyped
    <3> QED  BY <1>0, <3>1, <3>2, <3>3 DEF FlightsCore, FlightsAreShared, NotKept, Served
  <2>3. CASE ~Hit /\ cache # "go"
    BY <1>0, <1>1, <1>3, <2>3 DEF AsksFor
  <2> QED  BY <2>1, <2>2, <2>3
<1>4. ASSUME NEW r \in Readers, BoardsAgain(r) PROVE FlightsCore'
  <2>1. reader[r].asked \in 0 .. tick
    BY <1>0, <1>4 DEF BoardsAgain
  <2>2. CASE flight = Nobody /\ Hit
    BY <1>2, <1>4, <2>1, <2>2 DEF BoardsAgain
  <2>3. CASE ~(flight = Nobody /\ Hit)
    BY <1>1, <1>4, <2>1, <2>3 DEF BoardsAgain
  <2> QED  BY <2>2, <2>3
<1>5. ASSUME NEW what \in Answers, LandsFlight(what) PROVE FlightsCore'
  <2>1. entry' = IF NotKept(what) THEN entry ELSE [at |-> "held", came |-> tick, what |-> what]
    BY <1>5 DEF LandsFlight, NotKept
  <2>2. UNCHANGED <<cache, tick>> /\ flight' = Nobody
    BY <1>5 DEF LandsFlight
  <2>3. \A r \in Readers : reader'[r] = IF reader[r].at # "waits" THEN reader[r]
             ELSE [at |-> "got", asked |-> reader[r].asked, came |-> tick, what |-> what]
    BY <1>5 DEF LandsFlight
  <2>4. \A r \in Readers : reader[r].at = "waits" => reader[r].asked \in 0 .. tick
    BY <1>0 DEF FlightsTyped, Nobody
  <2>5. FlightsTyped'
    BY <1>0, <1>5, <2>1, <2>2, <2>4 DEF LandsFlight, FlightsTyped
  <2>6. entry'.at = "held" => ~NotKept(entry'.what)
    BY <2>1 DEF FlightsCore
  <2>7. ASSUME NEW r \in Readers, reader'[r].at = "got"
        PROVE  reader'[r].came + (IF NotKept(reader'[r].what) THEN 0 ELSE Served) >= reader'[r].asked
    <3>1. CASE reader[r].at = "waits"
      <4>1. tick \in Nat /\ reader[r].asked \in 0 .. tick
        BY <1>0, <2>4, <3>1 DEF FlightsTyped
      <4>2. reader'[r].what = what /\ reader'[r].came = tick /\ reader'[r].asked = reader[r].asked
        <5>1. reader'[r] = [at |-> "got", asked |-> reader[r].asked, came |-> tick, what |-> what]
          BY <2>3, <3>1
        <5> QED  BY <5>1
      <4> QED  BY <1>0, <4>1, <4>2
    <3>2. CASE reader[r].at # "waits"
      BY <1>0, <2>3, <2>7, <3>2 DEF FlightsAreShared, NotKept
    <3> QED  BY <3>1, <3>2
  <2>8. Served' = Served /\ \A w : NotKept(w)' <=> NotKept(w)
    BY <2>2 DEF Served, NotKept
  <2> QED  BY <2>2, <2>5, <2>6, <2>7, <2>8 DEF FlightsCore, FlightsAreShared, NotKept
<1>6. CASE TickOn
  <2>1. tick' \in Nat /\ 0 .. tick \subseteq 0 .. tick' /\ UNCHANGED <<cache, entry, flight, reader>>
    BY <1>0, <1>6 DEF TickOn, FlightsTyped
  <2>2. FlightsTyped'
    BY <1>0, <2>1 DEF FlightsTyped
  <2> QED  BY <2>1, <2>2 DEF FlightsCore, FlightsAreShared, NotKept, Served
<1>7. CASE UNCHANGED flightVars
  BY <1>0, <1>7 DEF flightVars, FlightsCore, FlightsTyped, FlightsAreShared, NotKept, Served
<1> QED  BY <1>3, <1>4, <1>5, <1>6, <1>7 DEF FlightsNext, Answers

\* One upstream read per key and window, none that is served is older than the
\* window, and failures are never cached: for any callers and any window.
THEOREM FlightsShared == FlightsSpec => []FlightsAreShared
<1>1. FlightsInit => FlightsCore
  BY DEF FlightsInit, FlightsCore, FlightsTyped, FlightsAreShared, Nobody
<1>2. FlightsCore => FlightsAreShared
  BY DEF FlightsCore
<1> QED  BY <1>1, <1>2, FlightsStay, PTL DEF FlightsSpec

-----------------------------------------------------------------------------
(* Codes and windows (TotpLogin) *)

\* A multiple of w is at least w above any smaller one.
LEMMA Multiples ==
  ASSUME NEW p \in Int, NEW q \in Int, NEW w \in Nat, p >= q + 1
  PROVE  p * w >= q * w + w
<1> DEFINE d == p - q - 1
<1>1. d \in Nat
  OBVIOUS
<1>2. d * w >= 0
  BY <1>1
<1>3. d * w = p * w - q * w - w /\ p * w \in Int /\ q * w \in Int
  OBVIOUS
<1> HIDE DEF d
<1> QED  BY <1>2, <1>3

\* Dividing with remainder, in the order of factors used here.
LEMMA Division ==
  ASSUME NEW t \in Nat, NEW w \in Nat \ {0}
  PROVE  t \div w \in Nat /\ t % w \in 0 .. w - 1 /\ t = (t \div w) * w + (t % w)
<1>1. t \div w \in Nat /\ t % w \in 0 .. w - 1
  OBVIOUS
<1>2. t = w * (t \div w) + (t % w)
  OBVIOUS
<1> QED  BY <1>1, <1>2

\* Quotient and remainder are determined by the number.
LEMMA OneQuotient ==
  ASSUME NEW t \in Nat, NEW w \in Nat \ {0}, NEW q \in Int, NEW r \in 0 .. w - 1, t = q * w + r
  PROVE  q = t \div w /\ r = t % w
<1> DEFINE p == t \div w
           s == t % w
<1>1. p \in Nat /\ s \in 0 .. w - 1 /\ t = p * w + s
  BY Division
<1> HIDE DEF p, s
<1>2. p * w \in Int /\ q * w \in Int
  BY <1>1
<1>3. ~(p >= q + 1)
  <2> SUFFICES ASSUME p >= q + 1 PROVE FALSE
    OBVIOUS
  <2>1. p * w >= q * w + w
    BY <1>1, Multiples
  <2> QED  BY <1>1, <1>2, <2>1
<1>4. ~(q >= p + 1)
  <2> SUFFICES ASSUME q >= p + 1 PROVE FALSE
    OBVIOUS
  <2>1. q * w >= p * w + w
    BY <1>1, Multiples
  <2> QED  BY <1>1, <1>2, <2>1
<1>5. p = q
  BY <1>1, <1>3, <1>4
<1> QED  BY <1>1, <1>2, <1>5 DEF p, s

\* A time that the window of t still covers has the code of t.
LEMMA SameWindow ==
  ASSUME NEW t \in Nat, NEW d \in Nat, (t % Window) + d < Window
  PROVE  CodeOf(t + d) = CodeOf(t)
<1> DEFINE q == t \div Window
           r == t % Window
<1>1. Window \in Nat \ {0}
  BY TotpAssumption
<1>2. q \in Nat /\ r \in 0 .. Window - 1 /\ t = q * Window + r
  BY <1>1, Division
<1>3. r + d < Window
  OBVIOUS
<1> HIDE DEF q, r
<1>4. q * Window \in Nat
  BY <1>1, <1>2
<1>5. t + d = q * Window + (r + d) /\ r + d \in 0 .. Window - 1 /\ t + d \in Nat
  BY <1>1, <1>2, <1>3, <1>4
<1>6. q = (t + d) \div Window
  BY <1>1, <1>2, <1>5, OneQuotient
<1> QED  BY <1>6 DEF CodeOf, q

\* d after the end of t's window the next code is the valid one, if not one after it.
LEMMA NextWindow ==
  ASSUME NEW t \in Nat, NEW d \in Nat
  PROVE  LET u == t + (Window - (t % Window)) + d IN
         /\ u \in Nat /\ CodeOf(u) >= CodeOf(t) + 1
         /\ d < Window => u % Window = d
<1> DEFINE q == t \div Window
           r == t % Window
           u == t + (Window - r) + d
           p == u \div Window
           s == u % Window
<1>1. Window \in Nat \ {0}
  BY TotpAssumption
<1>2. q \in Nat /\ r \in 0 .. Window - 1 /\ t = q * Window + r
  BY <1>1, Division
<1> HIDE DEF q, r
<1>3. q * Window \in Nat /\ (q + 1) * Window = q * Window + Window
  BY <1>1, <1>2
<1>4. u = (q + 1) * Window + d /\ u \in Nat
  BY <1>1, <1>2, <1>3
<1> HIDE DEF u
<1>5. p \in Nat /\ s \in 0 .. Window - 1 /\ u = p * Window + s
  BY <1>1, <1>4, Division
<1>6. d < Window => s = d
  BY <1>1, <1>2, <1>4, OneQuotient
<1> HIDE DEF p, s
<1>7. ~(q + 1 >= p + 1)
  <2> SUFFICES ASSUME q + 1 >= p + 1 PROVE FALSE
    OBVIOUS
  <2>1. (q + 1) * Window >= p * Window + Window
    BY <1>1, <1>2, <1>5, Multiples
  <2>2. p * Window \in Nat
    BY <1>1, <1>5
  <2> QED  BY <1>1, <1>3, <1>4, <1>5, <2>1, <2>2
<1> QED  BY <1>2, <1>4, <1>5, <1>6, <1>7 DEF CodeOf, q, r, u, p, s

\* What the second code may rely on when it is made: the clock is in a later window than
\* the code that was refused, and early in it unless something was slow.
Renewed(time) ==
  /\ refused < CodeOf(time)
  /\ slow \/ broken \/ time % Window <= Slack + MaxFlight

TotpTyped ==
  /\ good \in BOOLEAN /\ slow \in BOOLEAN /\ broken \in BOOLEAN
  /\ clock \in Nat /\ gen \in Nat /\ tries \in 0 .. 2 /\ refused \in Int
  /\ step \in {"start", "code", "pin", "sleep", "in", "failed"}

TotpCore ==
  /\ TotpTyped
  /\ step = "start" => (tries = 0 /\ refused = -1) \/ (tries = 1 /\ Renewed(clock))
  /\ step = "code" => clock = gen /\ ((tries = 1 /\ refused = -1) \/ (tries = 2 /\ Renewed(gen)))
  /\ step = "pin" => clock >= gen /\ ((tries = 1 /\ refused = -1) \/ tries = 2)
  /\ step = "sleep" => /\ tries = 1 /\ NearEdge(gen) /\ clock >= gen
                       /\ refused <= CodeOf(gen)
                       /\ broken \/ clock <= gen + MaxFlight
  /\ step = "failed" /\ adapter # "kotak" /\ good => slow \/ broken

\* Every step of a login and of the clock keeps TotpCore.
LEMMA TotpStays == TotpCore /\ [TotpNext]_totpVars => TotpCore'
<1> SUFFICES ASSUME TotpCore, [TotpNext]_totpVars PROVE TotpCore'
  OBVIOUS
<1> USE DEF TotpCore, TotpTyped
<1>0. /\ Window \in Nat \ {0} /\ Edge \in Nat /\ Slack \in Nat /\ MaxFlight \in Nat
      /\ Edge + Slack + MaxFlight < Window
  BY TotpAssumption
<1>1. \A time \in Nat : CodeOf(time) \in Nat /\ time % Window \in 0 .. Window - 1
  BY <1>0, Division DEF CodeOf
<1>2. CASE SendsCode
  <2>1. step = "start" /\ gen' = clock /\ step' = "code" /\ tries' = tries + 1
        /\ UNCHANGED <<adapter, good, clock, refused, slow, broken>>
    BY <1>2 DEF SendsCode
  <2> QED  BY <2>1 DEF Renewed, CodeOf
<1>3. CASE Sleeps
  <2> DEFINE late == clock - gen
  <2>1. /\ step = "sleep" /\ clock' = clock + UntilNext(gen) /\ step' = "start"
        /\ UNCHANGED <<adapter, good, gen, tries, refused, slow, broken>>
    BY <1>3 DEF Sleeps, Takes
  <2>2. gen % Window \in 0 .. Window - 1 /\ late \in Nat /\ clock = gen + late
    BY <1>1, <2>1
  <2>3. clock' = gen + (Window - (gen % Window)) + (Slack + late)
    BY <1>0, <2>1, <2>2 DEF UntilNext
  <2> HIDE DEF late
  <2>4. /\ clock' \in Nat /\ CodeOf(clock') >= CodeOf(gen) + 1
        /\ Slack + late < Window => clock' % Window = Slack + late
    <3>1. gen \in Nat /\ Slack + late \in Nat
      BY <1>0, <2>2
    <3> QED  BY <2>3, <3>1, NextWindow
  <2>5. refused < CodeOf(clock')
    BY <1>1, <2>1, <2>4
  <2>6. broken \/ clock' % Window <= Slack + MaxFlight
    BY <1>0, <2>1, <2>2, <2>4
  <2>7. Renewed(clock)'
    BY <2>1, <2>5, <2>6 DEF Renewed, CodeOf
  <2> QED  BY <2>1, <2>4, <2>7
<1>4. ASSUME NEW time \in 1 .. MaxFlight, Answered(time) PROVE TotpCore'
  <2>1. /\ step = "code" /\ clock' = clock + time /\ slow' = (slow \/ time > Edge)
        /\ UNCHANGED <<adapter, good, gen, tries, broken>> /\ clock = gen
        /\ time \in Nat /\ time <= MaxFlight
    BY <1>0, <1>4 DEF Answered, Takes
  <2>2. CASE good /\ CodeOf(clock') = CodeOf(gen)
    <3>1. step' \in {"pin", "in"} /\ refused' = refused
      BY <1>4, <2>2 DEF Answered
    <3> QED  BY <1>0, <2>1, <3>1
  <2>3. CASE ~(good /\ CodeOf(clock') = CodeOf(gen))
    <3>1. refused' = CodeOf(gen) /\ step' = IF TriesAgain THEN "sleep" ELSE "failed"
      BY <1>4, <2>3 DEF Answered, Fails
    <3>2. CASE TriesAgain
      BY <1>0, <1>1, <2>1, <3>1, <3>2 DEF TriesAgain, NearEdge
    <3>3. CASE ~TriesAgain
      <4>1. ASSUME adapter # "kotak", good, ~slow', ~broken PROVE FALSE
        <5>1. time <= Edge /\ ~slow
          <6>1. ~slow /\ ~(time > Edge)
            BY <2>1, <4>1
          <6> QED  BY <1>0, <2>1, <6>1
        <5>2. (gen % Window) + time < Window
          <6>1. CASE tries = 1
            BY <1>0, <1>1, <2>1, <3>3, <4>1, <5>1, <6>1 DEF TriesAgain, NearEdge
          <6>2. CASE tries = 2
            BY <1>0, <1>1, <2>1, <4>1, <5>1, <6>2 DEF Renewed
          <6> QED  BY <2>1, <6>1, <6>2
        <5>3. CodeOf(gen + time) = CodeOf(gen)
          BY <2>1, <5>2, SameWindow
        <5> QED  BY <2>1, <2>3, <4>1, <5>3
      <4> QED  BY <1>0, <1>1, <2>1, <3>1, <3>3, <4>1
    <3> QED  BY <3>2, <3>3
  <2> QED  BY <2>2, <2>3
<1>5. ASSUME NEW time \in 1 .. MaxFlight, Breaks(time) PROVE TotpCore'
  <2>1. /\ step \in {"code", "pin"} /\ clock' = clock + time /\ broken'
        /\ step' = IF TriesAgain THEN "sleep" ELSE "failed"
        /\ UNCHANGED <<adapter, good, gen, tries, refused, slow>> /\ time \in Nat
    BY <1>0, <1>5 DEF Breaks, Takes, Fails
  <2>2. CASE TriesAgain
    BY <1>1, <2>1, <2>2 DEF TriesAgain, NearEdge
  <2>3. CASE ~TriesAgain
    BY <2>1, <2>3
  <2> QED  BY <2>2, <2>3
<1>6. ASSUME NEW time \in 1 .. MaxFlight, PinTaken(time) PROVE TotpCore'
  <2>1. /\ step = "pin" /\ clock' = clock + time /\ step' = "in" /\ time \in Nat
        /\ UNCHANGED <<adapter, good, gen, tries, refused, slow, broken>>
    BY <1>0, <1>6 DEF PinTaken, Takes
  <2> QED  BY <2>1
<1>7. CASE UNCHANGED totpVars
  BY <1>7 DEF totpVars, Renewed, NearEdge, CodeOf
<1> QED  BY <1>2, <1>3, <1>4, <1>5, <1>6, <1>7 DEF TotpNext

\* A login that tries again fails with a good secret only if a code was long on its way or
\* another call failed, and its second code is never the refused one: for every length of
\* the window, the edge, the slack and a call that leaves room in a window for the three.
THEOREM CodesStayInTime == TotpSpec => []CodesInTime
<1>1. TotpInit => TotpCore
  <2> SUFFICES ASSUME TotpInit PROVE TotpCore
    OBVIOUS
  <2>1. clock \in Nat /\ gen = 0 /\ tries = 0 /\ refused = -1 /\ refused \in Int
    BY TotpAssumption DEF TotpInit
  <2>2. step = "start" /\ good \in BOOLEAN /\ slow \in BOOLEAN /\ broken \in BOOLEAN
    BY DEF TotpInit
  <2>3. TotpTyped
    BY <2>1, <2>2 DEF TotpTyped
  <2> QED  BY <2>1, <2>2, <2>3 DEF TotpCore
<1>2. TotpCore => CodesInTime
  BY DEF TotpCore, TotpTyped, Renewed, CodesInTime
<1> QED  BY <1>1, <1>2, TotpStays, PTL DEF TotpSpec

-----------------------------------------------------------------------------
(* Pages and histories (CandleHistory) *)

\* The span a page answers for.
InPage(s, cursor) == cursor - Limit < s /\ s <= cursor

\* The page has all candles of its span that had appeared at time by.
Covers(candles, cursor, by) == \A s \in traded : InPage(s, cursor) /\ s + Late <= by => s \in candles

WholePages ==
  {p \in [cursor : Int, candles : SUBSET Nat] : \A s \in traded : InPage(s, p.cursor) => s \in p.candles}

PageReads(asked) ==
  {f \in [cursor : Int, page : SUBSET Nat, sent : Nat, tries : Nat] :
     /\ asked <= f.sent /\ f.sent <= second /\ second <= f.sent + MaxWait
     /\ Covers(f.page, f.cursor, f.sent)}

\* A candle that a request without errors still misses is in a page it is to read.
Missing(x) ==
  \A s \in traded :
    x.start <= s /\ s <= x.end /\ s + Late <= x.asked =>
      \/ s \in x.collected
      \/ \E cursor \in x.todo : InPage(s, cursor)
      \/ \E f \in x.flying : InPage(s, f.cursor)

RunningCharts ==
  {x \in [at : {"running"}, start : Nat, end : Nat, asked : Nat, todo : SUBSET Int,
          flying : SUBSET [cursor : Int, page : SUBSET Nat, sent : Nat, tries : Nat],
          collected : SUBSET Nat, failed : BOOLEAN] :
     /\ x.asked <= second /\ \A cursor \in x.todo : cursor <= x.end
     /\ x.flying \subseteq PageReads(x.asked)
     /\ x.failed \/ Missing(x)}

AnsweredCharts ==
  {x \in [at : {"answered"}, start : Nat, end : Nat, asked : Nat, failed : BOOLEAN,
          history : SUBSET Nat] :
     x.failed \/ \A s \in traded :
                   x.start <= s /\ s <= x.end /\ s + Late <= x.asked => s \in x.history}

CandleCore ==
  /\ second \in Nat /\ traded \in SUBSET Nat
  /\ pageCache \in Seq(WholePages)
  /\ chart \in [Charts -> {[at |-> "idle"]} \cup RunningCharts \cup AnsweredCharts]

\* A set of numbers that is not empty has a least one.
LEMMA LeastNumber ==
  ASSUME NEW T \in SUBSET Nat, T # {}
  PROVE  \E x \in T : \A y \in T : x <= y
<1>1. \E x \in T : \A y \in T : <<y, x>> \notin OpToRel(<, Nat)
  BY NatLessThanWellFounded, WFMin
<1>2. \A x, y \in Nat : <<y, x>> \notin OpToRel(<, Nat) => x <= y
  BY DEF OpToRel
<1> QED  BY <1>1, <1>2

\* Numbers with a bound have a greatest one.
LEMMA LatestPage ==
  ASSUME NEW todo \in SUBSET Int, todo # {}, NEW end \in Int, \A y \in todo : y <= end
  PROVE  Max(todo) \in todo
<1> DEFINE gaps == {end - y : y \in todo}
<1>1. gaps \in SUBSET Nat /\ gaps # {}
  <2>1. \A y \in todo : y \in Int /\ end - y \in Nat
    OBVIOUS
  <2> QED  BY <2>1
<1>2. PICK g \in gaps : \A h \in gaps : g <= h
  BY <1>1, LeastNumber
<1>3. PICK y \in todo : g = end - y
  BY <1>2
<1>4. \A z \in todo : y >= z
  <2> SUFFICES ASSUME NEW z \in todo PROVE y >= z
    OBVIOUS
  <2>1. end - z \in gaps
    OBVIOUS
  <2> QED  BY <1>2, <1>3, <2>1
<1> QED  BY <1>3, <1>4 DEF Max

\* Redundant pages may be asked for, but no second of the range is in none.
LEMMA NoSecondIsLeftOut ==
  ASSUME NEW start \in Nat, NEW end \in Nat, NEW s \in Nat, start <= s, s <= end
  PROVE  \E cursor \in PageCursors(start, end) : InPage(s, cursor)
<1> DEFINE k == (end - s) \div Limit
           r == (end - s) % Limit
<1>1. Limit \in Nat \ {0} /\ end - s \in Nat
  BY CandleAssumption
<1>2. k \in Nat /\ r \in 0 .. Limit - 1 /\ end - s = k * Limit + r
  BY <1>1, Division
<1> HIDE DEF k, r
<1>3. k * Limit \in Nat /\ k <= k * Limit
  <2>1. k * (Limit - 1) \in Nat
    BY <1>1, <1>2
  <2>2. k * Limit = k * (Limit - 1) + k
    BY <1>1, <1>2
  <2> QED  BY <1>2, <2>1, <2>2
<1>4. end - k * Limit = s + r /\ k \in 0 .. end
  BY <1>1, <1>2, <1>3
<1>5. end - k * Limit + 1 > start
  BY <1>1, <1>2, <1>4
<1>6. end - k * Limit \in PageCursors(start, end)
  BY <1>4, <1>5 DEF PageCursors
<1>7. InPage(s, end - k * Limit)
  BY <1>1, <1>2, <1>4 DEF InPage
<1> QED  BY <1>6, <1>7

\* The anchors of a range are numbers up to its end.
LEMMA CursorsFit ==
  ASSUME NEW start \in Nat, NEW end \in Nat
  PROVE  PageCursors(start, end) \subseteq Int /\ \A y \in PageCursors(start, end) : y <= end
<1> SUFFICES ASSUME NEW y \in PageCursors(start, end) PROVE y \in Int /\ y <= end
  OBVIOUS
<1>1. PICK k \in 0 .. end : y = end - k * Limit
  BY DEF PageCursors
<1>2. k * Limit \in Nat
  BY CandleAssumption
<1> QED  BY <1>1, <1>2

\* A page of the last Limit candles at or before its anchor covers the Limit seconds there.
LEMMA PageCovers ==
  ASSUME CandleCore, NEW cursor \in Int, NEW v, Visible(v)
  PROVE  PageAt(cursor, v) \subseteq Nat /\ Covers(PageAt(cursor, v), cursor, second)
<1>1. v \subseteq Nat
  BY DEF Visible, CandleCore
<1>2. ASSUME NEW s \in traded, InPage(s, cursor), s + Late <= second PROVE s \in PageAt(cursor, v)
  <2> DEFINE past == {u \in v : u <= cursor}
             later == {u \in past : u > s}
  <2>1. s \in Nat /\ s \in v /\ s <= cursor /\ cursor - s < Limit /\ Limit \in Nat
    BY <1>2, CandleAssumption DEF InPage, Visible, CandleCore
  <2>2. later \subseteq (s + 1) .. cursor
    <3> SUFFICES ASSUME NEW u \in later PROVE u \in (s + 1) .. cursor
      OBVIOUS
    <3>1. u \in Nat /\ u <= cursor /\ u > s
      BY <1>1
    <3> QED  BY <2>1, <3>1
  <2> HIDE DEF later
  <2>3. /\ IsFiniteSet((s + 1) .. cursor)
        /\ Cardinality((s + 1) .. cursor) = IF s + 1 > cursor THEN 0 ELSE cursor - (s + 1) + 1
    BY <2>1, FS_Interval
  <2>4. Cardinality(later) <= Cardinality((s + 1) .. cursor) /\ IsFiniteSet(later)
    BY <2>2, <2>3, FS_Subset
  <2>5. Cardinality(later) \in Nat
    BY <2>4, FS_CardinalityType
  <2>6. Cardinality(later) < Limit
    BY <2>1, <2>3, <2>4, <2>5, CandleAssumption
  <2> QED  BY <2>1, <2>6 DEF PageAt, later
<1>3. PageAt(cursor, v) \subseteq Nat
  BY <1>1 DEF PageAt
<1> QED  BY <1>2, <1>3 DEF Covers

\* What is read now is a read of any request that was made.
LEMMA ReadsNow ==
  ASSUME CandleCore, NEW cursor \in Int, NEW v, Visible(v), NEW asked \in Nat, asked <= second,
         NEW n \in Nat
  PROVE  [cursor |-> cursor, page |-> PageAt(cursor, v), sent |-> second, tries |-> n] \in PageReads(asked)
<1>1. second \in Nat /\ second <= second + MaxWait
  BY CandleAssumption DEF CandleCore
<1> QED  BY <1>1, PageCovers DEF PageReads

\* Storing a whole page and dropping old ones leaves whole pages.
LEMMA PutKeepsWhole ==
  ASSUME CandleCore, NEW cursor, NEW candles, [cursor |-> cursor, candles |-> candles] \in WholePages,
         Put(cursor, candles)
  PROVE  pageCache' \in Seq(WholePages)
<1> DEFINE page == [cursor |-> cursor, candles |-> candles]
           pages == IF Kept(cursor) = {} THEN Append(pageCache, page)
                     ELSE [i \in DOMAIN pageCache |-> IF i \in Kept(cursor) THEN page ELSE pageCache[i]]
           counted == cachedCandles + Cardinality(candles)
           After(n) == counted - Weight(SubSeq(pages, 1, n))
           enough == {n \in 0 .. Len(pages) : After(n) <= MaxCandles \/ n = Len(pages)}
<1>1. pageCache' = SubSeq(pages, Min(enough) + 1, Len(pages))
  BY DEF Put
<1>2. pages \in Seq(WholePages)
  <2> HIDE DEF page
  <2>1. pageCache \in Seq(WholePages) /\ page \in WholePages
    BY DEF CandleCore, page
  <2>2. Append(pageCache, page) \in Seq(WholePages)
    BY <2>1
  <2>3. [i \in DOMAIN pageCache |-> IF i \in Kept(cursor) THEN page ELSE pageCache[i]]
          \in [1 .. Len(pageCache) -> WholePages]
    BY <2>1
  <2>4. Len(pageCache) \in Nat
    BY <2>1
  <2> QED  BY <2>2, <2>3, <2>4
<1> HIDE DEF pages
<1>3. Len(pages) \in enough /\ enough \subseteq Nat
  BY <1>2
<1> HIDE DEF enough
<1>4. Min(enough) \in enough
  BY <1>3, LeastNumber DEF Min
<1>5. Min(enough) \in 0 .. Len(pages) /\ Len(pages) \in Nat
  BY <1>2, <1>4 DEF enough
<1>6. \A i \in (Min(enough) + 1) .. Len(pages) : pages[i] \in WholePages
  BY <1>2, <1>5
<1> QED  BY <1>1, <1>5, <1>6, SubSeqProperties

\* A step at one second that leaves whole pages and one request as it should be.
LEMMA ChartBecomes ==
  ASSUME CandleCore, NEW c \in Charts, NEW x \in RunningCharts \cup AnsweredCharts,
         chart' = [chart EXCEPT ![c] = x], UNCHANGED <<second, traded>>,
         pageCache' \in Seq(WholePages)
  PROVE  CandleCore'
<1>1. WholePages' = WholePages
  BY DEF WholePages, InPage
<1>2. RunningCharts' = RunningCharts
  BY DEF RunningCharts, PageReads, Covers, Missing, InPage
<1>3. AnsweredCharts' = AnsweredCharts
  BY DEF AnsweredCharts
<1>4. chart' \in [Charts -> {[at |-> "idle"]} \cup RunningCharts \cup AnsweredCharts]
  BY DEF CandleCore
<1> QED  BY <1>1, <1>2, <1>3, <1>4 DEF CandleCore

\* A request that is running is one of RunningCharts.
LEMMA RunningOnes ==
  ASSUME CandleCore, NEW c \in Charts, chart[c].at = "running"
  PROVE  chart[c] \in RunningCharts
<1>1. chart[c] \in {[at |-> "idle"]} \cup RunningCharts \cup AnsweredCharts
  BY DEF CandleCore
<1> QED  BY <1>1 DEF AnsweredCharts

\* A new request is to read every page of its range.
LEMMA AskedKeeps ==
  ASSUME CandleCore, NEW c \in Charts, NEW range \in Ranges, Asked(c, range)
  PROVE  CandleCore'
<1> DEFINE x == [at |-> "running", start |-> range[1], end |-> range[2], asked |-> second,
                 todo |-> PageCursors(range[1], range[2]), flying |-> {}, collected |-> {},
                 failed |-> FALSE]
<1>1. range[1] \in Nat /\ range[2] \in Nat /\ second \in Nat /\ traded \subseteq Nat
  BY CandleAssumption DEF CandleCore
<1>2. /\ PageCursors(range[1], range[2]) \subseteq Int
      /\ \A y \in PageCursors(range[1], range[2]) : y <= range[2]
  BY <1>1, CursorsFit
<1>3. ASSUME NEW s \in traded, range[1] <= s, s <= range[2]
      PROVE  \E cursor \in PageCursors(range[1], range[2]) : InPage(s, cursor)
  BY <1>1, <1>3, NoSecondIsLeftOut
<1>4. x \in RunningCharts
  BY <1>1, <1>2, <1>3 DEF RunningCharts, Missing
<1>5. chart' = [chart EXCEPT ![c] = x] /\ UNCHANGED <<second, traded, pageCache>>
  BY DEF Asked
<1>6. pageCache' \in Seq(WholePages)
  BY <1>5 DEF CandleCore
<1> HIDE DEF x
<1> QED  BY <1>4, <1>5, <1>6, ChartBecomes

\* A page taken is read, or served whole from the cache.
LEMMA TakesPageKeeps ==
  ASSUME CandleCore, NEW c \in Charts, NEW v, TakesPage(c, v)
  PROVE  CandleCore'
<1> DEFINE old == chart[c]
           cursor == Max(old.todo)
           rest == [old EXCEPT !.todo = @ \ {cursor}]
<1>1. /\ old \in RunningCharts /\ old.todo # {} /\ UNCHANGED <<second, traded>>
      /\ second \in Nat
  BY RunningOnes DEF TakesPage, CandleCore
<1>2. /\ old.todo \subseteq Int /\ old.end \in Int /\ \A y \in old.todo : y <= old.end
  BY <1>1 DEF RunningCharts
<1>3. cursor \in old.todo /\ cursor \in Int
  BY <1>1, <1>2, LatestPage
<1>4. CASE Kept(cursor) # {}
  <2> DEFINE i == CHOOSE i \in Kept(cursor) : TRUE
             candles == pageCache[i].candles
             x == [rest EXCEPT !.collected = @ \cup candles]
  <2>1. i \in Kept(cursor)
    BY <1>4
  <2>2. pageCache' = Append(RemoveAt(pageCache, i), pageCache[i]) /\ chart' = [chart EXCEPT ![c] = x]
    BY <1>4 DEF TakesPage
  <2> HIDE DEF i
  <2>3. i \in 1 .. Len(pageCache) /\ pageCache[i].cursor = cursor /\ pageCache \in Seq(WholePages)
        /\ Len(pageCache) \in Nat
    BY <2>1 DEF Kept, CandleCore
  <2>4. pageCache[i] \in WholePages
    BY <2>3
  <2>5. candles \subseteq Nat /\ \A s \in traded : InPage(s, cursor) => s \in candles
    BY <2>3, <2>4 DEF WholePages
  <2>6. SubSeq(pageCache, 1, i - 1) \in Seq(WholePages)
    <3>1. \A j \in 1 .. (i - 1) : pageCache[j] \in WholePages
      BY <2>3
    <3> QED  BY <2>3, <3>1, SubSeqProperties
  <2>7. SubSeq(pageCache, i + 1, Len(pageCache)) \in Seq(WholePages)
    <3>1. \A j \in (i + 1) .. Len(pageCache) : pageCache[j] \in WholePages
      BY <2>3
    <3> QED  BY <2>3, <3>1, SubSeqProperties
  <2>8. pageCache' \in Seq(WholePages)
    BY <2>2, <2>4, <2>6, <2>7 DEF RemoveAt
  <2>9. x \in RunningCharts
    <3> HIDE DEF cursor, candles
    <3>1. /\ x.todo = old.todo \ {cursor} /\ x.collected = old.collected \cup candles
          /\ x.flying = old.flying /\ x.failed = old.failed /\ x.asked = old.asked
          /\ x.start = old.start /\ x.end = old.end
      BY <1>1 DEF RunningCharts
    <3>2. x.failed \/ Missing(x)
      BY <1>1, <1>3, <2>5, <3>1 DEF RunningCharts, Missing
    <3> QED  BY <1>1, <2>5, <3>1, <3>2 DEF RunningCharts
  <2> HIDE DEF x
  <2> QED  BY <1>1, <2>2, <2>8, <2>9, ChartBecomes
<1>5. CASE Kept(cursor) = {}
  <2> DEFINE f == [cursor |-> cursor, page |-> PageAt(cursor, v), sent |-> second, tries |-> 1]
             x == [rest EXCEPT !.flying = @ \cup {f}]
  <2>1. Visible(v) /\ chart' = [chart EXCEPT ![c] = x] /\ pageCache' = pageCache
    BY <1>5 DEF TakesPage
  <2>2. old.asked \in Nat /\ old.asked <= second
    BY <1>1 DEF RunningCharts
  <2> HIDE DEF cursor
  <2>3. f \in PageReads(old.asked) /\ f.cursor = cursor
    BY <1>3, <2>1, <2>2, ReadsNow
  <2> HIDE DEF f
  <2>4. /\ x.todo = old.todo \ {cursor} /\ x.collected = old.collected
        /\ x.flying = old.flying \cup {f} /\ x.failed = old.failed /\ x.asked = old.asked
        /\ x.start = old.start /\ x.end = old.end
    BY <1>1 DEF RunningCharts
  <2>5. x.failed \/ Missing(x)
    BY <1>1, <2>3, <2>4 DEF RunningCharts, Missing
  <2>6. x \in RunningCharts
    BY <1>1, <2>3, <2>4, <2>5 DEF RunningCharts, PageReads
  <2>7. pageCache' \in Seq(WholePages)
    BY <2>1 DEF CandleCore
  <2> HIDE DEF x
  <2> QED  BY <1>1, <2>1, <2>6, <2>7, ChartBecomes
<1> QED  BY <1>4, <1>5

\* A page on its way belongs to a request that runs.
LEMMA FlyingOnes ==
  ASSUME CandleCore, NEW c \in Charts, NEW f \in FlyingOf(c)
  PROVE  /\ chart[c] \in RunningCharts /\ f \in chart[c].flying
         /\ f \in PageReads(chart[c].asked) /\ chart[c].asked \in Nat /\ chart[c].asked <= second
<1>1. chart[c].at = "running" /\ f \in chart[c].flying
  BY DEF FlyingOf
<1>2. chart[c] \in RunningCharts
  BY <1>1, RunningOnes
<1> QED  BY <1>1, <1>2 DEF RunningCharts

\* A page that comes has what was visible when it was asked for.
LEMMA PageComesKeeps ==
  ASSUME CandleCore, NEW c \in Charts, NEW f \in FlyingOf(c), PageComes(c, f)
  PROVE  CandleCore'
<1> DEFINE old == chart[c]
           x == [old EXCEPT !.flying = @ \ {f}, !.collected = @ \cup f.page]
<1>1. /\ old \in RunningCharts /\ f \in old.flying /\ f \in PageReads(old.asked)
      /\ old.asked \in Nat /\ UNCHANGED <<second, traded>>
  BY FlyingOnes DEF PageComes
<1>2. chart' = [chart EXCEPT ![c] = x]
  BY DEF PageComes
<1>3. /\ f.cursor \in Int /\ f.page \in SUBSET Nat /\ f.sent \in Nat /\ old.asked <= f.sent
      /\ second <= f.sent + MaxWait /\ Covers(f.page, f.cursor, f.sent)
  BY <1>1 DEF PageReads
<1>4. /\ x.todo = old.todo /\ x.collected = old.collected \cup f.page
      /\ x.flying = old.flying \ {f} /\ x.failed = old.failed /\ x.asked = old.asked
      /\ x.start = old.start /\ x.end = old.end
  BY <1>1 DEF RunningCharts
\* What the request misses had appeared when it was made, and so when the page was read.
<1>5. ASSUME NEW s \in traded, InPage(s, f.cursor), s + Late <= old.asked PROVE s \in f.page
  <2>1. s \in Nat /\ Late \in Nat
    BY CandleAssumption DEF CandleCore
  <2>2. s + Late <= f.sent
    BY <1>1, <1>3, <1>5, <2>1
  <2> QED  BY <1>3, <1>5, <2>2 DEF Covers
<1>6. x \in RunningCharts
  <2>1. x.failed \/ Missing(x)
    BY <1>1, <1>4, <1>5 DEF RunningCharts, Missing
  <2> QED  BY <1>1, <1>3, <1>4, <2>1 DEF RunningCharts
\* A page is stored when all of its span had appeared before it was read.
<1>7. pageCache' \in Seq(WholePages)
  <2>1. CASE f.cursor > second - Settle
    BY <2>1 DEF PageComes, CandleCore
  <2>2. CASE ~(f.cursor > second - Settle)
    <3>1. Put(f.cursor, f.page)
      BY <2>2 DEF PageComes
    <3>2. ASSUME NEW s \in traded, InPage(s, f.cursor) PROVE s \in f.page
      <4>1. s \in Nat /\ s <= f.cursor /\ second \in Nat
        BY <3>2 DEF CandleCore, InPage
      <4>2. Settle \in Nat /\ Late \in Nat /\ MaxWait \in Nat /\ Late + MaxWait <= Settle
        BY CandleAssumption
      <4>3. s + Late <= f.sent
        BY <1>3, <2>2, <4>1, <4>2
      <4> QED  BY <1>3, <3>2, <4>3 DEF Covers
    <3>3. [cursor |-> f.cursor, candles |-> f.page] \in WholePages
      BY <1>3, <3>2 DEF WholePages
    <3> QED  BY <3>1, <3>3, PutKeepsWhole
  <2> QED  BY <2>1, <2>2
<1> HIDE DEF x
<1> QED  BY <1>1, <1>2, <1>6, <1>7, ChartBecomes

\* A page that is asked for again is as of the second attempt.
LEMMA PageRetriesKeeps ==
  ASSUME CandleCore, NEW c \in Charts, NEW f \in FlyingOf(c), NEW v, PageRetries(c, f, v)
  PROVE  CandleCore'
<1> DEFINE old == chart[c]
           n == f.tries + 1
           again == [cursor |-> f.cursor, page |-> PageAt(f.cursor, v), sent |-> second, tries |-> n]
           x == [old EXCEPT !.flying = (@ \ {f}) \cup {again}]
<1>1. /\ old \in RunningCharts /\ f \in old.flying /\ f \in PageReads(old.asked)
      /\ old.asked \in Nat /\ old.asked <= second
      /\ Visible(v) /\ UNCHANGED <<second, traded, pageCache>>
  BY FlyingOnes DEF PageRetries
<1>2. f.cursor \in Int /\ n \in Nat
      /\ f \in [cursor : Int, page : SUBSET Nat, sent : Nat, tries : Nat]
  BY <1>1 DEF PageReads
<1> HIDE DEF n
<1>3. [f EXCEPT !.page = PageAt(f.cursor, v), !.sent = second, !.tries = n] = again
  <2> DEFINE p == PageAt(f.cursor, v)
             g == [f EXCEPT !.page = p, !.sent = second, !.tries = n]
  <2>1. p \in SUBSET Nat /\ second \in Nat
    BY <1>1, <1>2, PageCovers DEF CandleCore
  <2> HIDE DEF p
  <2>2. g \in [cursor : Int, page : SUBSET Nat, sent : Nat, tries : Nat]
    BY <1>2, <2>1
  <2>3. g.cursor = f.cursor /\ g.page = p /\ g.sent = second /\ g.tries = n
    BY <1>2
  <2>4. again \in [cursor : Int, page : SUBSET Nat, sent : Nat, tries : Nat]
    BY <1>2, <2>1 DEF p
  <2>5. again.cursor = f.cursor /\ again.page = p /\ again.sent = second /\ again.tries = n
    BY DEF p
  <2> HIDE DEF g, again
  <2>6. g = again
    BY <2>2, <2>3, <2>4, <2>5
  <2> QED  BY <2>6 DEF g, p
<1>4. chart' = [chart EXCEPT ![c] = x]
  BY <1>3 DEF PageRetries, n
<1>5. again \in PageReads(old.asked) /\ again.cursor = f.cursor
  BY <1>1, <1>2, ReadsNow
<1> HIDE DEF again
<1>6. /\ x.todo = old.todo /\ x.collected = old.collected
      /\ x.flying = (old.flying \ {f}) \cup {again} /\ x.failed = old.failed /\ x.asked = old.asked
      /\ x.start = old.start /\ x.end = old.end
  BY <1>1 DEF RunningCharts
<1>7. x.failed \/ Missing(x)
  BY <1>1, <1>5, <1>6 DEF RunningCharts, Missing
<1>8. x \in RunningCharts
  BY <1>1, <1>5, <1>6, <1>7 DEF RunningCharts, PageReads
<1>9. pageCache' \in Seq(WholePages)
  BY <1>1 DEF CandleCore
<1> HIDE DEF x
<1> QED  BY <1>1, <1>4, <1>8, <1>9, ChartBecomes

\* A page that fails marks its request as failed.
LEMMA PageFailsKeeps ==
  ASSUME CandleCore, NEW c \in Charts, NEW f \in FlyingOf(c), PageFails(c, f)
  PROVE  CandleCore'
<1> DEFINE old == chart[c]
           x == [old EXCEPT !.flying = @ \ {f}, !.failed = TRUE]
<1>1. /\ old \in RunningCharts /\ UNCHANGED <<second, traded, pageCache>>
      /\ chart' = [chart EXCEPT ![c] = x]
  BY FlyingOnes DEF PageFails
<1>2. x \in RunningCharts
  BY <1>1 DEF RunningCharts
<1>3. pageCache' \in Seq(WholePages)
  BY <1>1 DEF CandleCore
<1> HIDE DEF x
<1> QED  BY <1>1, <1>2, <1>3, ChartBecomes

\* A request that has nothing left to read answers what it has collected.
LEMMA HistoryAnswersKeeps ==
  ASSUME CandleCore, NEW c \in Charts, HistoryAnswers(c)
  PROVE  CandleCore'
<1> DEFINE old == chart[c]
           x == [at |-> "answered", start |-> old.start, end |-> old.end, asked |-> old.asked,
                 failed |-> old.failed, history |-> old.collected \cap (old.start .. old.end)]
<1>1. /\ old \in RunningCharts /\ old.todo = {} /\ old.flying = {}
      /\ UNCHANGED <<second, traded, pageCache>> /\ chart' = [chart EXCEPT ![c] = x]
  BY RunningOnes DEF HistoryAnswers
<1>2. /\ old.start \in Nat /\ old.end \in Nat /\ old.asked \in Nat /\ old.failed \in BOOLEAN
      /\ old.collected \in SUBSET Nat /\ traded \in SUBSET Nat
  BY <1>1 DEF RunningCharts, CandleCore
<1>3. ASSUME ~old.failed, NEW s \in traded, old.start <= s, s <= old.end, s + Late <= old.asked
      PROVE  s \in old.collected \cap (old.start .. old.end)
  <2>1. Missing(old)
    BY <1>1, <1>3 DEF RunningCharts
  <2>2. s \in old.collected
    BY <1>1, <1>3, <2>1 DEF Missing
  <2> QED  BY <1>2, <1>3, <2>2
<1>4. x \in AnsweredCharts
  BY <1>2, <1>3 DEF AnsweredCharts
<1>5. pageCache' \in Seq(WholePages)
  BY <1>1 DEF CandleCore
<1> HIDE DEF x
<1> QED  BY <1>1, <1>4, <1>5, ChartBecomes

\* A second passes only while every attempt at a page has time left.
LEMMA SecondPassesKeeps == ASSUME CandleCore, SecondPasses PROVE CandleCore'
<1>1. second' = second + 1 /\ second \in Nat /\ UNCHANGED <<traded, pageCache, chart>>
  BY DEF SecondPasses, CandleCore
<1>2. WholePages' = WholePages /\ AnsweredCharts' = AnsweredCharts
  BY <1>1 DEF WholePages, InPage, AnsweredCharts
<1>3. ASSUME NEW c \in Charts, chart[c] \in RunningCharts PROVE chart[c] \in RunningCharts'
  <2> DEFINE x == chart[c]
  <2>0. x.at = "running" /\ x.asked \in Nat /\ x.asked <= second
    BY <1>3 DEF RunningCharts
  <2>1. ASSUME NEW f \in x.flying PROVE f \in PageReads(x.asked)'
    <3>1. f \in PageReads(x.asked) /\ second - f.sent < MaxWait
      BY <1>3, <2>0, <2>1 DEF RunningCharts, SecondPasses, FlyingOf
    <3>2. f.sent \in Nat /\ f.sent <= second /\ MaxWait \in Nat
      BY <3>1, CandleAssumption DEF PageReads
    <3>3. f.sent <= second' /\ second' <= f.sent + MaxWait
      BY <1>1, <3>1, <3>2
    <3> QED  BY <1>1, <3>1, <3>3 DEF PageReads, Covers, InPage
  <2>2. x.asked <= second'
    BY <1>1, <2>0
  <2> QED  BY <1>1, <1>3, <2>1, <2>2 DEF RunningCharts, Missing, InPage, PageReads
<1>4. chart' \in [Charts -> {[at |-> "idle"]} \cup RunningCharts' \cup AnsweredCharts']
  BY <1>1, <1>2, <1>3 DEF CandleCore
<1> QED  BY <1>1, <1>2, <1>4 DEF CandleCore

\* Every step of the requests and of the clock keeps CandleCore.
LEMMA CandlesStay == CandleCore /\ [CandleNext]_candleVars => CandleCore'
<1> SUFFICES ASSUME CandleCore, [CandleNext]_candleVars PROVE CandleCore'
  OBVIOUS
<1>1. CASE CandleNext
  BY <1>1, AskedKeeps, TakesPageKeeps, HistoryAnswersKeeps, PageComesKeeps, PageFailsKeeps,
     PageRetriesKeeps, SecondPassesKeeps DEF CandleNext
<1>2. CASE UNCHANGED candleVars
  <2>1. WholePages' = WholePages /\ AnsweredCharts' = AnsweredCharts
    BY <1>2 DEF candleVars, WholePages, InPage, AnsweredCharts
  <2>2. RunningCharts' = RunningCharts
    BY <1>2 DEF candleVars, RunningCharts, PageReads, Covers, Missing, InPage
  <2> QED  BY <1>2, <2>1, <2>2 DEF candleVars, CandleCore
<1> QED  BY <1>1, <1>2

\* Pages with candles of the seconds W.
PagesOf(W) == [cursor : Int, candles : SUBSET W]

\* What Stock has, that it is finite and what an empty list weighs.
LEMMA InStock ==
  ASSUME NEW W, IsFiniteSet(W), NEW a \in Seq(PagesOf(W))
  PROVE  /\ \A i, s : <<i, s>> \in Stock(a) <=> i \in 1 .. Len(a) /\ s \in a[i].candles
         /\ Stock(a) \subseteq (1 .. Len(a)) \X W
         /\ IsFiniteSet(Stock(a)) /\ Weight(a) \in Nat
<1>1. Len(a) \in Nat /\ DOMAIN a = 1 .. Len(a) /\ \A i \in 1 .. Len(a) : a[i].candles \subseteq W
  <2>1. Len(a) \in Nat /\ DOMAIN a = 1 .. Len(a)
    BY LenProperties
  <2>2. \A i \in 1 .. Len(a) : a[i] \in PagesOf(W)
    BY ElementOfSeq
  <2>3. \A p \in PagesOf(W) : p.candles \subseteq W
    BY DEF PagesOf
  <2> QED  BY <2>1, <2>2, <2>3
<1>2. \A i, s : <<i, s>> \in Stock(a) <=> i \in 1 .. Len(a) /\ s \in a[i].candles
  BY <1>1 DEF Stock
<1>3. Stock(a) \subseteq (1 .. Len(a)) \X W
  BY <1>1 DEF Stock
<1>4. IsFiniteSet((1 .. Len(a)) \X W)
  <2>1. 1 \in Int /\ Len(a) \in Int
    BY <1>1
  <2>2. IsFiniteSet(1 .. Len(a))
    BY <2>1, FS_Interval
  <2> QED  BY <2>2, FS_Product
<1>5. IsFiniteSet(Stock(a))
  BY <1>3, <1>4, FS_Subset
<1> QED  BY <1>2, <1>3, <1>5, FS_CardinalityType DEF Weight

\* Lists one after the other weigh what they weigh together.
LEMMA WeighsBoth ==
  ASSUME NEW W, IsFiniteSet(W), NEW a \in Seq(PagesOf(W)), NEW b \in Seq(PagesOf(W))
  PROVE  a \o b \in Seq(PagesOf(W)) /\ Weight(a \o b) = Weight(a) + Weight(b)
<1> DEFINE ab == a \o b
           n == Len(a)
           tail == {q \in Stock(ab) : q[1] > n}
           f == [q \in Stock(b) |-> <<q[1] + n, q[2]>>]
<1>1. /\ ab \in Seq(PagesOf(W)) /\ Len(ab) = n + Len(b) /\ n \in Nat /\ Len(b) \in Nat
      /\ \A i \in 1 .. n : ab[i] = a[i]
      /\ \A i \in 1 .. Len(b) : ab[i + n] = b[i]
  BY ConcatProperties
<1> HIDE DEF ab, n
<1>2. /\ \A i, s : <<i, s>> \in Stock(ab) <=> i \in 1 .. (n + Len(b)) /\ s \in ab[i].candles
      /\ Stock(ab) \subseteq (1 .. (n + Len(b))) \X W /\ IsFiniteSet(Stock(ab))
  BY <1>1, InStock
<1>3. /\ \A i, s : <<i, s>> \in Stock(a) <=> i \in 1 .. n /\ s \in a[i].candles
      /\ Stock(a) \subseteq (1 .. n) \X W /\ IsFiniteSet(Stock(a)) /\ Weight(a) \in Nat
  BY InStock DEF n
<1>4. /\ \A i, s : <<i, s>> \in Stock(b) <=> i \in 1 .. Len(b) /\ s \in b[i].candles
      /\ Stock(b) \subseteq (1 .. Len(b)) \X W /\ IsFiniteSet(Stock(b)) /\ Weight(b) \in Nat
  BY InStock
<1>5. Stock(ab) = Stock(a) \cup tail /\ Stock(a) \cap tail = {}
  <2>1. ASSUME NEW i \in Int, NEW s PROVE <<i, s>> \in Stock(a) <=> <<i, s>> \in Stock(ab) /\ i <= n
    BY <1>1, <1>2, <1>3
  <2>2. ASSUME NEW q \in Stock(a) PROVE q \in Stock(ab) /\ ~(q[1] > n)
    <3>1. q = <<q[1], q[2]>> /\ q[1] \in Int
      BY <1>3
    <3> QED  BY <1>1, <2>1, <3>1
  <2>3. ASSUME NEW q \in Stock(ab), ~(q[1] > n) PROVE q \in Stock(a)
    <3>1. q = <<q[1], q[2]>> /\ q[1] \in Int
      BY <1>2
    <3> QED  BY <1>1, <2>1, <2>3, <3>1
  <2> QED  BY <2>2, <2>3
<1>6. f \in Bijection(Stock(b), tail)
  <2>1. ASSUME NEW q \in Stock(b) PROVE f[q] \in tail
    <3>1. q = <<q[1], q[2]>> /\ q[1] \in 1 .. Len(b) /\ q[2] \in b[q[1]].candles
      BY <1>4
    <3>2. <<q[1] + n, q[2]>> \in Stock(ab)
      BY <1>1, <1>2, <3>1
    <3> QED  BY <1>1, <3>1, <3>2
  <2>2. ASSUME NEW p \in Stock(b), NEW q \in Stock(b), f[p] = f[q] PROVE p = q
    <3>1. p = <<p[1], p[2]>> /\ q = <<q[1], q[2]>> /\ p[1] \in Int /\ q[1] \in Int
      BY <1>4
    <3>2. p[1] + n = q[1] + n /\ p[2] = q[2]
      BY <2>2
    <3> QED  BY <1>1, <3>1, <3>2
  <2>3. ASSUME NEW t \in tail PROVE \E q \in Stock(b) : f[q] = t
    <3> DEFINE q == <<t[1] - n, t[2]>>
    <3>1. t = <<t[1], t[2]>> /\ t[1] \in 1 .. (n + Len(b)) /\ t[2] \in ab[t[1]].candles /\ t[1] > n
      BY <1>2
    <3>2. t[1] - n \in 1 .. Len(b) /\ (t[1] - n) + n = t[1]
      BY <1>1, <3>1
    <3>3. q \in Stock(b)
      BY <1>1, <1>4, <3>1, <3>2
    <3>4. f[q] = t
      BY <3>1, <3>2, <3>3
    <3> QED  BY <3>3, <3>4
  <2> HIDE DEF tail
  <2>4. f \in [Stock(b) -> tail]
    BY <2>1
  <2> HIDE DEF f
  <2> QED  BY <2>2, <2>3, <2>4, <2>4 DEF Bijection, Injection, Surjection, IsInjective
<1> HIDE DEF tail, f
<1>7. IsFiniteSet(tail) /\ Cardinality(tail) = Weight(b)
  BY <1>4, <1>6, FS_Bijection DEF ExistsBijection, Weight
<1>8. Cardinality(Stock(ab)) = Cardinality(Stock(a)) + Cardinality(tail) - Cardinality(Stock(a) \cap tail)
  BY <1>3, <1>5, <1>7, FS_Union
<1>9. Cardinality(Stock(a) \cap tail) = 0
  BY <1>5, FS_EmptySet
<1>10. Weight(ab) = Weight(a) + Weight(b)
  BY <1>3, <1>4, <1>7, <1>8, <1>9 DEF Weight
<1> QED  BY <1>1, <1>10 DEF ab

\* One page weighs what it has.
LEMMA WeighsOne ==
  ASSUME NEW W, IsFiniteSet(W), NEW p \in PagesOf(W)
  PROVE  <<p>> \in Seq(PagesOf(W)) /\ Weight(<<p>>) = Cardinality(p.candles) /\ Weight(<<p>>) \in Nat
<1> DEFINE one == <<p>>
           f == [s \in p.candles |-> <<1, s>>]
<1>1. one \in Seq(PagesOf(W)) /\ Len(one) = 1 /\ one[1] = p
  OBVIOUS
<1> HIDE DEF one
<1>2. /\ \A i, s : <<i, s>> \in Stock(one) <=> i \in 1 .. 1 /\ s \in p.candles
      /\ Stock(one) \subseteq (1 .. 1) \X W /\ IsFiniteSet(Stock(one)) /\ Weight(one) \in Nat
  BY <1>1, InStock
<1>3. f \in Bijection(p.candles, Stock(one))
  <2>1. \A s \in p.candles : f[s] \in Stock(one)
    BY <1>2
  <2>2. \A s, t \in p.candles : f[s] = f[t] => s = t
    OBVIOUS
  <2>3. \A q \in Stock(one) : q = <<1, q[2]>> /\ q[2] \in p.candles
    BY <1>2
  <2>4. \A q \in Stock(one) : \E s \in p.candles : f[s] = q
    BY <2>3
  <2>5. f \in [p.candles -> Stock(one)]
    BY <2>1
  <2> HIDE DEF f
  <2> QED  BY <2>2, <2>4, <2>5 DEF Bijection, Injection, Surjection, IsInjective
<1>4. IsFiniteSet(p.candles)
  BY FS_Subset DEF PagesOf
<1> HIDE DEF f
<1>5. Cardinality(Stock(one)) = Cardinality(p.candles)
  BY <1>3, <1>4, FS_Bijection DEF ExistsBijection
<1> QED  BY <1>1, <1>2, <1>5 DEF Weight, one

\* No pages weigh nothing.
LEMMA WeighsNothing == Weight(<<>>) = 0
<1>1. Stock(<<>>) = {}
  BY DEF Stock
<1> QED  BY <1>1, FS_EmptySet DEF Weight

\* No page is in the cache twice.
OneCursorEach(pages) == \A i, j \in DOMAIN pages : pages[i].cursor = pages[j].cursor => i = j

\* A sequence is what is before a place, the place and what comes after it.
LEMMA Around ==
  ASSUME NEW P, NEW s \in Seq(P), NEW i \in 1 .. Len(s)
  PROVE  /\ SubSeq(s, 1, i - 1) \in Seq(P) /\ SubSeq(s, i + 1, Len(s)) \in Seq(P)
         /\ Len(SubSeq(s, 1, i - 1)) = i - 1 /\ Len(SubSeq(s, i + 1, Len(s))) = Len(s) - i
         /\ \A j \in 1 .. (i - 1) : SubSeq(s, 1, i - 1)[j] = s[j]
         /\ \A j \in 1 .. (Len(s) - i) : SubSeq(s, i + 1, Len(s))[j] = s[i + j]
         /\ <<s[i]>> \in Seq(P)
         /\ s = (SubSeq(s, 1, i - 1) \o <<s[i]>>) \o SubSeq(s, i + 1, Len(s))
<1> DEFINE a == SubSeq(s, 1, i - 1)
           b == SubSeq(s, i + 1, Len(s))
           m == SubSeq(s, i, i)
<1>1. Len(s) \in Nat /\ i \in Nat /\ \A j \in 1 .. Len(s) : s[j] \in P
  BY LenProperties, ElementOfSeq
<1>2. <<s[i]>> \in Seq(P) /\ Len(<<s[i]>>) = 1
  BY <1>1
<1>3. /\ a \in Seq(P) /\ Len(a) = i - 1 /\ \A j \in 1 .. (i - 1) : a[j] = s[j]
  <2>1. \A j \in 1 .. (i - 1) : s[j] \in P
    BY <1>1
  <2>2. /\ SubSeq(s, 1, i - 1) \in Seq(P)
        /\ Len(SubSeq(s, 1, i - 1)) = IF 1 <= i - 1 THEN i - 1 - 1 + 1 ELSE 0
        /\ \A j \in 1 .. (i - 1 - 1 + 1) : SubSeq(s, 1, i - 1)[j] = s[1 + j - 1]
    BY <1>1, <2>1, SubSeqProperties
  <2> HIDE DEF a
  <2>3. a \in Seq(P) /\ Len(a) = i - 1
    BY <1>1, <2>2 DEF a
  <2>4. \A j \in 1 .. (i - 1) : j \in 1 .. (i - 1 - 1 + 1) /\ 1 + j - 1 = j
    BY <1>1
  <2>5. \A j \in 1 .. (i - 1) : a[j] = s[j]
    BY <2>2, <2>4 DEF a
  <2> QED  BY <2>3, <2>5
<1>4. /\ b \in Seq(P) /\ Len(b) = Len(s) - i /\ \A j \in 1 .. (Len(s) - i) : b[j] = s[i + j]
  <2>1. \A j \in (i + 1) .. Len(s) : s[j] \in P
    BY <1>1
  <2>2. /\ SubSeq(s, i + 1, Len(s)) \in Seq(P)
        /\ Len(SubSeq(s, i + 1, Len(s))) = IF i + 1 <= Len(s) THEN Len(s) - (i + 1) + 1 ELSE 0
        /\ \A j \in 1 .. (Len(s) - (i + 1) + 1) : SubSeq(s, i + 1, Len(s))[j] = s[i + 1 + j - 1]
    BY <1>1, <2>1, SubSeqProperties
  <2> HIDE DEF b
  <2>3. b \in Seq(P) /\ Len(b) = Len(s) - i
    BY <1>1, <2>2 DEF b
  <2>4. \A j \in 1 .. (Len(s) - i) : j \in 1 .. (Len(s) - (i + 1) + 1) /\ i + 1 + j - 1 = i + j
    BY <1>1
  <2>5. \A j \in 1 .. (Len(s) - i) : b[j] = s[i + j]
    BY <2>2, <2>4 DEF b
  <2> QED  BY <2>3, <2>5
<1>5. m = <<s[i]>>
  <2>1. \A j \in i .. i : s[j] \in P
    BY <1>1
  <2>2. /\ SubSeq(s, i, i) \in Seq(P) /\ Len(SubSeq(s, i, i)) = IF i <= i THEN i - i + 1 ELSE 0
        /\ \A j \in 1 .. (i - i + 1) : SubSeq(s, i, i)[j] = s[i + j - 1]
    BY <1>1, <2>1, SubSeqProperties
  <2> HIDE DEF m
  <2>3. m \in Seq(P) /\ Len(m) = 1
    BY <1>1, <2>2 DEF m
  <2>4. m[1] = s[i]
    <3>1. 1 \in 1 .. (i - i + 1) /\ i + 1 - 1 = i
      BY <1>1
    <3> QED  BY <2>2, <3>1 DEF m
  <2>5. \A j \in 1 .. Len(m) : m[j] = <<s[i]>>[j]
    BY <2>3, <2>4
  <2> QED  BY <1>2, <2>3, <2>5, SeqEqual
<1>6. a \o m = SubSeq(s, 1, i)
  <2>1. 1 \in 1 .. (Len(s) + 1) /\ i - 1 \in 1 - 1 .. Len(s) /\ i \in i - 1 .. Len(s) /\ i - 1 + 1 = i
    BY <1>1
  <2>2. SubSeq(s, 1, i - 1) \o SubSeq(s, i - 1 + 1, i) = SubSeq(s, 1, i)
    BY <2>1, ConcatAdjacentSubSeq
  <2> QED  BY <2>1, <2>2
<1>7. SubSeq(s, 1, i) \o b = SubSeq(s, 1, Len(s))
  <2>1. 1 \in 1 .. (Len(s) + 1) /\ i \in 1 - 1 .. Len(s) /\ Len(s) \in i .. Len(s)
    BY <1>1
  <2> QED  BY <2>1, ConcatAdjacentSubSeq
<1>8. SubSeq(s, 1, Len(s)) = s
  BY SubSeqFull
<1> QED  BY <1>2, <1>3, <1>4, <1>5, <1>6, <1>7, <1>8

\* Dropping what comes first drops its weight.
LEMMA WeighsRest ==
  ASSUME NEW W, IsFiniteSet(W), NEW s \in Seq(PagesOf(W)), NEW n \in 0 .. Len(s)
  PROVE  LET rest == SubSeq(s, n + 1, Len(s)) IN
         /\ rest \in Seq(PagesOf(W)) /\ Weight(s) = Weight(SubSeq(s, 1, n)) + Weight(rest)
         /\ Weight(SubSeq(s, 1, n)) \in Nat /\ Weight(rest) \in Nat
         /\ n = Len(s) => Weight(rest) = 0
         /\ OneCursorEach(s) => OneCursorEach(rest)
<1> DEFINE rest == SubSeq(s, n + 1, Len(s))
           first == SubSeq(s, 1, n)
<1>1. Len(s) \in Nat /\ n \in Nat /\ n <= Len(s) /\ \A j \in 1 .. Len(s) : s[j] \in PagesOf(W)
  BY LenProperties, ElementOfSeq
<1>2. rest \in Seq(PagesOf(W)) /\ Len(rest) = Len(s) - n
      /\ \A j \in 1 .. (Len(s) - n) : rest[j] = s[n + j]
  <2>1. \A j \in (n + 1) .. Len(s) : s[j] \in PagesOf(W)
    BY <1>1
  <2>2. /\ SubSeq(s, n + 1, Len(s)) \in Seq(PagesOf(W))
        /\ Len(SubSeq(s, n + 1, Len(s))) = IF n + 1 <= Len(s) THEN Len(s) - (n + 1) + 1 ELSE 0
        /\ \A j \in 1 .. (Len(s) - (n + 1) + 1) : SubSeq(s, n + 1, Len(s))[j] = s[n + 1 + j - 1]
    BY <1>1, <2>1, SubSeqProperties
  <2> HIDE DEF rest
  <2>3. rest \in Seq(PagesOf(W)) /\ Len(rest) = Len(s) - n
    BY <1>1, <2>2 DEF rest
  <2>4. \A j \in 1 .. (Len(s) - n) : j \in 1 .. (Len(s) - (n + 1) + 1) /\ n + 1 + j - 1 = n + j
    BY <1>1
  <2>5. \A j \in 1 .. (Len(s) - n) : rest[j] = s[n + j]
    BY <2>2, <2>4 DEF rest
  <2> QED  BY <2>3, <2>5
<1>3. first \in Seq(PagesOf(W))
  <2>1. \A j \in 1 .. n : s[j] \in PagesOf(W)
    BY <1>1
  <2> QED  BY <1>1, <2>1, SubSeqProperties
<1>4. first \o rest = s
  <2>1. 1 \in 1 .. (Len(s) + 1) /\ n \in 1 - 1 .. Len(s) /\ Len(s) \in n .. Len(s)
    BY <1>1
  <2>2. SubSeq(s, 1, n) \o SubSeq(s, n + 1, Len(s)) = SubSeq(s, 1, Len(s))
    BY <2>1, ConcatAdjacentSubSeq
  <2> QED  BY <2>2, SubSeqFull
<1>5. n = Len(s) => rest = <<>>
  BY <1>1, SubSeqEmpty
<1> HIDE DEF rest, first
<1>6. Weight(first) \in Nat /\ Weight(rest) \in Nat
  BY <1>2, <1>3, InStock
<1>7. Weight(first \o rest) = Weight(first) + Weight(rest)
  BY <1>2, <1>3, WeighsBoth
<1>8. OneCursorEach(s) => OneCursorEach(rest)
  <2> SUFFICES ASSUME OneCursorEach(s), NEW i \in DOMAIN rest, NEW j \in DOMAIN rest,
                      rest[i].cursor = rest[j].cursor
               PROVE  i = j
    BY DEF OneCursorEach
  <2>1. i \in 1 .. (Len(s) - n) /\ j \in 1 .. (Len(s) - n)
    BY <1>2, LenProperties
  <2>2. n + i \in DOMAIN s /\ n + j \in DOMAIN s
    BY <1>1, <2>1, LenProperties
  <2>3. n + i = n + j
    BY <1>2, <2>1, <2>2 DEF OneCursorEach
  <2> QED  BY <1>1, <2>1, <2>3
<1> QED  BY <1>2, <1>4, <1>5, <1>6, <1>7, <1>8, WeighsNothing DEF rest, first

\* A page used again weighs what it weighed.
LEMMA WeighsUsed ==
  ASSUME NEW W, IsFiniteSet(W), NEW s \in Seq(PagesOf(W)), NEW i \in 1 .. Len(s)
  PROVE  LET t == Append(RemoveAt(s, i), s[i]) IN
         t \in Seq(PagesOf(W)) /\ Weight(t) = Weight(s) /\ (OneCursorEach(s) => OneCursorEach(t))
<1> DEFINE P == PagesOf(W)
           a == SubSeq(s, 1, i - 1)
           b == SubSeq(s, i + 1, Len(s))
           o == <<s[i]>>
           t == (a \o b) \o o
<1>1. /\ a \in Seq(P) /\ b \in Seq(P) /\ o \in Seq(P)
      /\ Len(a) = i - 1 /\ Len(b) = Len(s) - i
      /\ \A j \in 1 .. (i - 1) : a[j] = s[j]
      /\ \A j \in 1 .. (Len(s) - i) : b[j] = s[i + j]
      /\ s = (a \o o) \o b
  BY Around
<1>2. Len(s) \in Nat /\ i \in Nat /\ i <= Len(s) /\ s[i] \in P
  BY LenProperties, ElementOfSeq
<1>3. Append(RemoveAt(s, i), s[i]) = t
  <2>1. a \o b \in Seq(P)
    BY <1>1, ConcatProperties
  <2> QED  BY <1>2, <2>1, AppendIsConcat DEF RemoveAt
<1>4. Len(o) = 1 /\ o[1] = s[i]
  OBVIOUS
<1> HIDE DEF a, b, o
<1>5. /\ a \o o \in Seq(P) /\ Weight(a \o o) = Weight(a) + Weight(o)
      /\ a \o b \in Seq(P) /\ Weight(a \o b) = Weight(a) + Weight(b)
  BY <1>1, WeighsBoth DEF P
<1>6. /\ Weight((a \o o) \o b) = Weight(a \o o) + Weight(b)
      /\ t \in Seq(P) /\ Weight(t) = Weight(a \o b) + Weight(o)
  <2> HIDE DEF P
  <2> DEFINE ab == a \o b
             ao == a \o o
  <2>1. ab \in Seq(P) /\ ao \in Seq(P)
    BY <1>5
  <2> HIDE DEF ab, ao
  <2>2. Weight(ao \o b) = Weight(ao) + Weight(b)
    BY <1>1, <2>1, WeighsBoth DEF P
  <2>3. ab \o o \in Seq(P) /\ Weight(ab \o o) = Weight(ab) + Weight(o)
    BY <1>1, <2>1, WeighsBoth DEF P
  <2> QED  BY <2>2, <2>3 DEF ab, ao
<1>7. Weight(a) \in Nat /\ Weight(b) \in Nat /\ Weight(o) \in Nat
  BY <1>1, InStock DEF P
<1>8. Weight(t) = Weight(s)
  BY <1>1, <1>5, <1>6, <1>7
<1>9. Len(a \o b) = Len(s) - 1 /\ Len(t) = Len(s)
  <2>1. Len(a \o b) = Len(a) + Len(b)
    BY <1>1, ConcatProperties
  <2>2. Len(t) = Len(a \o b) + Len(o)
    BY <1>1, <1>5, ConcatProperties
  <2> QED  BY <1>1, <1>2, <1>4, <2>1, <2>2
\* Where a page of t is in s.
<1> DEFINE g(j) == IF j < i THEN j ELSE IF j < Len(s) THEN j + 1 ELSE i
<1>10. ASSUME NEW j \in 1 .. Len(s) PROVE g(j) \in 1 .. Len(s) /\ t[j] = s[g(j)]
  <2>1. j \in Nat /\ 1 <= j /\ j <= Len(s)
    BY <1>2
  <2>2. g(j) \in 1 .. Len(s)
    BY <1>2, <2>1
  <2>3. t[j] = IF j <= Len(a \o b) THEN (a \o b)[j] ELSE o[j - Len(a \o b)]
    <3>1. j \in 1 .. (Len(a \o b) + Len(o))
      BY <1>2, <1>4, <1>9, <2>1
    <3> QED  BY <1>1, <1>5, <3>1, ConcatProperties
  <2>4. ASSUME j < Len(s) PROVE (a \o b)[j] = IF j <= Len(a) THEN a[j] ELSE b[j - Len(a)]
    <3>1. j \in 1 .. (Len(a) + Len(b))
      BY <1>1, <1>2, <2>1, <2>4
    <3> QED  BY <1>1, <3>1, ConcatProperties
  <2> HIDE DEF t
  <2>5. CASE j < i
    <3>1. j < Len(s) /\ j <= Len(a \o b) /\ j <= Len(a) /\ j \in 1 .. (i - 1)
      BY <1>1, <1>2, <1>9, <2>1, <2>5
    <3>2. t[j] = a[j]
      BY <2>3, <2>4, <3>1
    <3> QED  BY <1>1, <2>2, <2>5, <3>1, <3>2
  <2>6. CASE i <= j /\ j < Len(s)
    <3> DEFINE k == j - Len(a)
    <3>1. j <= Len(a \o b) /\ ~(j <= Len(a)) /\ k \in 1 .. (Len(s) - i) /\ i + k = j + 1 /\ ~(j < i)
      BY <1>1, <1>2, <1>9, <2>1, <2>6
    <3>2. t[j] = b[k]
      BY <2>3, <2>4, <2>6, <3>1
    <3>3. b[k] = s[i + k]
      BY <1>1, <3>1
    <3> QED  BY <2>2, <2>6, <3>1, <3>2, <3>3
  <2>7. CASE j = Len(s)
    <3>1. ~(j <= Len(a \o b)) /\ j - Len(a \o b) = 1 /\ ~(j < Len(s))
      BY <1>2, <1>9, <2>1, <2>7
    <3>2. t[j] = s[i]
      BY <1>4, <2>3, <3>1
    <3>3. g(j) = i
      BY <1>2, <2>1, <2>7, <3>1
    <3> QED  BY <2>2, <3>2, <3>3
  <2> QED  BY <1>2, <2>1, <2>5, <2>6, <2>7
<1> HIDE DEF t
<1>11. OneCursorEach(s) => OneCursorEach(t)
  <2> SUFFICES ASSUME OneCursorEach(s), NEW j \in DOMAIN t, NEW k \in DOMAIN t,
                      t[j].cursor = t[k].cursor
               PROVE  j = k
    BY DEF OneCursorEach
  <2>1. j \in 1 .. Len(s) /\ k \in 1 .. Len(s) /\ DOMAIN s = 1 .. Len(s)
    BY <1>6, <1>9, LenProperties
  <2>2. g(j) \in 1 .. Len(s) /\ t[j] = s[g(j)] /\ g(k) \in 1 .. Len(s) /\ t[k] = s[g(k)]
    BY <1>10, <2>1
  <2>3. g(j) = g(k)
    <3> HIDE DEF g
    <3> QED  BY <2>1, <2>2 DEF OneCursorEach
  <2> QED  BY <1>2, <2>1, <2>3
<1> QED  BY <1>3, <1>6, <1>8, <1>11 DEF P

\* A page that takes the place of another weighs no more than it adds.
LEMMA WeighsReplaced ==
  ASSUME NEW W, IsFiniteSet(W), NEW s \in Seq(PagesOf(W)), NEW i \in 1 .. Len(s),
         NEW p \in PagesOf(W), NEW t \in Seq(PagesOf(W)), Len(t) = Len(s),
         \A j \in 1 .. Len(s) : t[j] = IF j = i THEN p ELSE s[j]
  PROVE  Weight(t) <= Weight(s) + Cardinality(p.candles)
<1> DEFINE P == PagesOf(W)
           a == SubSeq(s, 1, i - 1)
           b == SubSeq(s, i + 1, Len(s))
           c == SubSeq(t, 1, i - 1)
           d == SubSeq(t, i + 1, Len(t))
           o == <<s[i]>>
           q == <<p>>
<1>0. Len(s) \in Nat /\ i \in Nat /\ i <= Len(s) /\ i \in 1 .. Len(t)
  BY LenProperties
<1>1. /\ a \in Seq(P) /\ b \in Seq(P) /\ o \in Seq(P) /\ s = (a \o o) \o b
      /\ Len(a) = i - 1 /\ Len(b) = Len(s) - i
      /\ \A j \in 1 .. (i - 1) : a[j] = s[j]
      /\ \A j \in 1 .. (Len(s) - i) : b[j] = s[i + j]
  BY Around
<1>2. /\ c \in Seq(P) /\ d \in Seq(P) /\ t = (c \o <<t[i]>>) \o d
      /\ Len(c) = i - 1 /\ Len(d) = Len(t) - i
      /\ \A j \in 1 .. (i - 1) : c[j] = t[j]
      /\ \A j \in 1 .. (Len(t) - i) : d[j] = t[i + j]
  BY <1>0, Around
<1>3. t[i] = p
  OBVIOUS
<1> HIDE DEF a, b, c, d, o
<1>4. a = c
  <2>1. \A j \in 1 .. Len(a) : a[j] = c[j]
    <3>1. \A j \in 1 .. (i - 1) : j \in 1 .. Len(s) /\ j # i
      BY <1>0
    <3> QED  BY <1>1, <1>2, <3>1
  <2> QED  BY <1>1, <1>2, <2>1, SeqEqual
<1>5. b = d
  <2>1. \A j \in 1 .. Len(b) : b[j] = d[j]
    <3>1. \A j \in 1 .. (Len(s) - i) : i + j \in 1 .. Len(s) /\ i + j # i
      BY <1>0
    <3> QED  BY <1>1, <1>2, <3>1
  <2>2. Len(b) = Len(d) /\ b \in Seq(P) /\ d \in Seq(P)
    BY <1>1, <1>2
  <2> HIDE DEF P
  <2> QED  BY <2>1, <2>2, SeqEqual
<1>6. q \in Seq(P) /\ Weight(q) = Cardinality(p.candles)
  BY WeighsOne
<1> HIDE DEF q
<1>7. t = (a \o q) \o b
  BY <1>2, <1>3, <1>4, <1>5 DEF q
<1>8. /\ a \o o \in Seq(P) /\ Weight(a \o o) = Weight(a) + Weight(o)
      /\ a \o q \in Seq(P) /\ Weight(a \o q) = Weight(a) + Weight(q)
  BY <1>1, <1>6, WeighsBoth DEF P
<1>9. /\ Weight((a \o o) \o b) = Weight(a \o o) + Weight(b)
      /\ Weight((a \o q) \o b) = Weight(a \o q) + Weight(b)
  BY <1>1, <1>8, WeighsBoth DEF P
<1>10. Weight(a) \in Nat /\ Weight(b) \in Nat /\ Weight(o) \in Nat /\ Weight(q) \in Nat
  BY <1>1, <1>6, InStock DEF P
<1> QED  BY <1>1, <1>6, <1>7, <1>8, <1>9, <1>10

(***************************************************************************)
(* The other half of HistoryIsWhole, CacheCore: no page is kept twice, so  *)
(* that what is kept weighs no more than what the cache believes to keep.  *)
(***************************************************************************)
CacheCore ==
  /\ pageCache \in Seq(PagesOf(0 .. second))
  /\ \A c \in Charts : \A f \in FlyingOf(c) : f.page \subseteq 0 .. second
  /\ OneCursorEach(pageCache)
  /\ cachedCandles \in Int /\ Weight(pageCache) <= cachedCandles
  /\ Weight(pageCache) <= MaxCandles

\* The second in which a page was asked for bounds what it has.
LEMMA PageSeen ==
  ASSUME CandleCore, NEW cursor, NEW v, Visible(v)
  PROVE  PageAt(cursor, v) \subseteq 0 .. second
<1>1. v \subseteq 0 .. second
  BY DEF Visible, CandleCore
<1> QED  BY <1>1 DEF PageAt

\* A change of one request changes what that one is reading.
LEMMA FlyingBecomes ==
  ASSUME CandleCore, NEW c \in Charts, NEW x, chart' = [chart EXCEPT ![c] = x]
  PROVE  /\ FlyingOf(c)' = IF x.at = "running" THEN x.flying ELSE {}
         /\ \A d \in Charts : d # c => FlyingOf(d)' = FlyingOf(d)
<1>1. chart'[c] = x /\ \A d \in Charts : d # c => chart'[d] = chart[d]
  BY DEF CandleCore
<1> QED  BY <1>1 DEF FlyingOf

\* A page that is stored adds its weight to what is kept and to what is counted, and what
\* is dropped is taken from both, until the budget is kept or nothing is left.
LEMMA PutKeepsBudget ==
  ASSUME CandleCore, CacheCore, NEW cursor \in Int, NEW candles \in SUBSET (0 .. second),
         Put(cursor, candles)
  PROVE  /\ pageCache' \in Seq(PagesOf(0 .. second)) /\ OneCursorEach(pageCache')
         /\ cachedCandles' \in Int /\ Weight(pageCache') <= cachedCandles'
         /\ Weight(pageCache') <= MaxCandles
<1> DEFINE W == 0 .. second
           P == PagesOf(W)
           page == [cursor |-> cursor, candles |-> candles]
           pages == IF Kept(cursor) = {} THEN Append(pageCache, page)
                    ELSE [i \in DOMAIN pageCache |-> IF i \in Kept(cursor) THEN page ELSE pageCache[i]]
           counted == cachedCandles + Cardinality(candles)
           After(n) == counted - Weight(SubSeq(pages, 1, n))
           enough == {n \in 0 .. Len(pages) : After(n) <= MaxCandles \/ n = Len(pages)}
           gone == Min(enough)
<1>1. pageCache' = SubSeq(pages, gone + 1, Len(pages)) /\ cachedCandles' = After(gone)
  BY DEF Put
<1>2. /\ pageCache \in Seq(P) /\ OneCursorEach(pageCache)
      /\ cachedCandles \in Int /\ Weight(pageCache) <= cachedCandles
      /\ IsFiniteSet(W) /\ page \in P /\ page.candles = candles /\ page.cursor = cursor
      /\ MaxCandles \in Nat
  <2>1. second \in Int /\ 0 \in Int
    BY DEF CandleCore
  <2>2. IsFiniteSet(W)
    BY <2>1, FS_Interval
  <2> QED  BY <2>2, CandleAssumption DEF CacheCore, PagesOf
<1>3. Cardinality(candles) \in Nat
  BY <1>2, FS_Subset, FS_CardinalityType
<1>4. /\ Len(pageCache) \in Nat /\ DOMAIN pageCache = 1 .. Len(pageCache)
      /\ \A i \in 1 .. Len(pageCache) : pageCache[i] \in P
  BY <1>2, LenProperties, ElementOfSeq
<1> HIDE DEF W, P, page
<1>5. /\ pages \in Seq(P) /\ OneCursorEach(pages)
      /\ Weight(pages) <= Weight(pageCache) + Cardinality(candles)
  <2>1. CASE Kept(cursor) = {}
    <3>1. pages = Append(pageCache, page)
      BY <2>1
    <3>2. pages = pageCache \o <<page>>
      BY <1>2, <3>1, AppendIsConcat
    <3>3. pages \in Seq(P) /\ Len(pages) = Len(pageCache) + 1 /\ pages[Len(pages)] = page
          /\ \A i \in 1 .. Len(pageCache) : pages[i] = pageCache[i]
      <4> DEFINE longer == Append(pageCache, page)
      <4>1. longer \in Seq(P) /\ Len(longer) = Len(pageCache) + 1
        BY <1>2
      <4>2. \A i \in 1 .. Len(pageCache) : longer[i] = pageCache[i]
        BY <1>2
      <4>3. longer[Len(pageCache) + 1] = page
        BY <1>2
      <4> HIDE DEF longer, pages
      <4> QED  BY <3>1, <4>1, <4>2, <4>3 DEF longer
    <3>4. <<page>> \in Seq(P) /\ Weight(<<page>>) = Cardinality(candles)
      BY <1>2, WeighsOne DEF P
    <3>5. Weight(pageCache \o <<page>>) = Weight(pageCache) + Weight(<<page>>)
      BY <1>2, <3>4, WeighsBoth DEF P
    <3>6. Weight(pageCache) \in Nat
      BY <1>2, InStock DEF P
    <3>7. \A i \in 1 .. Len(pageCache) : pageCache[i].cursor # cursor
      BY <1>4, <2>1 DEF Kept
    <3> HIDE DEF pages
    <3>8. OneCursorEach(pages)
      <4> SUFFICES ASSUME NEW i \in DOMAIN pages, NEW j \in DOMAIN pages,
                          pages[i].cursor = pages[j].cursor
                   PROVE  i = j
        BY DEF OneCursorEach
      <4>1. /\ i \in 1 .. Len(pageCache) \/ i = Len(pageCache) + 1
            /\ j \in 1 .. Len(pageCache) \/ j = Len(pageCache) + 1
        BY <1>4, <3>3, LenProperties
      <4>2. CASE i \in 1 .. Len(pageCache) /\ j \in 1 .. Len(pageCache)
        BY <1>2, <1>4, <3>3, <4>2 DEF OneCursorEach
      <4> QED  BY <1>2, <3>3, <3>7, <4>1, <4>2
    <3>9. Weight(pages) = Weight(pageCache) + Cardinality(candles)
      BY <3>2, <3>4, <3>5
    <3> QED  BY <1>3, <3>3, <3>6, <3>8, <3>9
  <2>2. CASE Kept(cursor) # {}
    <3>1. PICK i \in 1 .. Len(pageCache) : pageCache[i].cursor = cursor
      BY <1>4, <2>2 DEF Kept
    <3>2. \A j \in 1 .. Len(pageCache) : j \in Kept(cursor) <=> j = i
      BY <1>2, <1>4, <3>1 DEF Kept, OneCursorEach
    <3>3. pages = [j \in 1 .. Len(pageCache) |-> IF j = i THEN page ELSE pageCache[j]]
      BY <1>4, <2>2, <3>2
    <3>4. pages \in Seq(P) /\ Len(pages) = Len(pageCache)
          /\ \A j \in 1 .. Len(pageCache) : pages[j] = IF j = i THEN page ELSE pageCache[j]
      <4> HIDE DEF pages
      <4>1. pages \in [1 .. Len(pageCache) -> P]
        BY <1>2, <1>4, <3>3
      <4> QED  BY <1>4, <3>3, <4>1
    <3> HIDE DEF pages
    <3>5. Weight(pages) <= Weight(pageCache) + Cardinality(page.candles)
      BY <1>2, <3>4, WeighsReplaced DEF P
    <3>6. OneCursorEach(pages)
      <4>1. \A j \in 1 .. Len(pageCache) : pages[j].cursor = pageCache[j].cursor
        BY <1>2, <3>1, <3>4
      <4>2. DOMAIN pages = DOMAIN pageCache
        BY <1>2, <3>4, LenProperties
      <4> QED  BY <1>2, <1>4, <4>1, <4>2 DEF OneCursorEach
    <3> QED  BY <1>2, <3>4, <3>5, <3>6
  <2> QED  BY <2>1, <2>2
<1> HIDE DEF pages
<1>6. Len(pages) \in enough /\ enough \subseteq Nat
  BY <1>5, LenProperties
<1>7. gone \in enough
  <2> HIDE DEF enough
  <2> QED  BY <1>6, LeastNumber DEF Min
<1>8. gone \in 0 .. Len(pages) /\ (After(gone) <= MaxCandles \/ gone = Len(pages))
  BY <1>7
<1> HIDE DEF gone
<1> DEFINE rest == SubSeq(pages, gone + 1, Len(pages))
           first == SubSeq(pages, 1, gone)
<1>9. /\ rest \in Seq(P) /\ Weight(pages) = Weight(first) + Weight(rest)
      /\ Weight(first) \in Nat /\ Weight(rest) \in Nat
      /\ gone = Len(pages) => Weight(rest) = 0
      /\ OneCursorEach(rest)
  BY <1>2, <1>5, <1>8, WeighsRest DEF P
<1>10. Weight(pageCache) \in Nat
  BY <1>2, InStock DEF P
<1>11. pageCache' = rest /\ cachedCandles' = counted - Weight(first)
  BY <1>1
<1>12. After(gone) = counted - Weight(first)
  OBVIOUS
<1> HIDE DEF rest, first, After
<1>13. /\ counted \in Int /\ Weight(first) + Weight(rest) <= counted
       /\ counted - Weight(first) <= MaxCandles \/ Weight(rest) = 0
  BY <1>2, <1>3, <1>5, <1>8, <1>9, <1>10, <1>12
<1> HIDE DEF counted
<1>14. cachedCandles' \in Int /\ Weight(rest) <= cachedCandles' /\ Weight(rest) <= MaxCandles
  BY <1>2, <1>9, <1>11, <1>13
<1> QED  BY <1>9, <1>11, <1>14 DEF P, W

\* What a cache needs when the clock stands and a request has new pages on their way.
LEMMA CacheBecomes ==
  ASSUME CandleCore, CacheCore, NEW c \in Charts, NEW x, chart' = [chart EXCEPT ![c] = x],
         UNCHANGED second, x.at = "running" => \A f \in x.flying : f.page \subseteq 0 .. second,
         pageCache' \in Seq(PagesOf(0 .. second)), OneCursorEach(pageCache'),
         cachedCandles' \in Int, Weight(pageCache') <= cachedCandles',
         Weight(pageCache') <= MaxCandles
  PROVE  CacheCore'
<1>1. ASSUME NEW d \in Charts, NEW f \in FlyingOf(d)' PROVE f.page \subseteq 0 .. second
  <2>1. CASE d = c
    <3>1. x.at = "running" /\ f \in x.flying
      BY <1>1, <2>1, FlyingBecomes
    <3> QED  BY <3>1
  <2>2. CASE d # c
    <3>1. f \in FlyingOf(d)
      BY <1>1, <2>2, FlyingBecomes
    <3> QED  BY <3>1 DEF CacheCore
  <2> QED  BY <2>1, <2>2
<1> QED  BY <1>1 DEF CacheCore, OneCursorEach, Weight, Stock

\* Every step of the requests and of the clock keeps CacheCore.
LEMMA CacheStays == CandleCore /\ CacheCore /\ [CandleNext]_candleVars => CacheCore'
<1> SUFFICES ASSUME CandleCore, CacheCore, [CandleNext]_candleVars PROVE CacheCore'
  OBVIOUS
<1>1. ASSUME NEW c \in Charts, NEW range \in Ranges, Asked(c, range) PROVE CacheCore'
  <2> DEFINE x == [at |-> "running", start |-> range[1], end |-> range[2], asked |-> second,
                   todo |-> PageCursors(range[1], range[2]), flying |-> {}, collected |-> {},
                   failed |-> FALSE]
  <2>1. /\ chart' = [chart EXCEPT ![c] = x] /\ UNCHANGED <<second, pageCache, cachedCandles>>
        /\ x.flying = {}
    BY <1>1 DEF Asked
  <2> HIDE DEF x
  <2> QED  BY <2>1, CacheBecomes DEF CacheCore
<1>2. ASSUME NEW c \in Charts, NEW v, TakesPage(c, v) PROVE CacheCore'
  <2> DEFINE old == chart[c]
             cursor == Max(old.todo)
             rest == [old EXCEPT !.todo = @ \ {cursor}]
  <2>1. /\ old \in RunningCharts /\ old.at = "running" /\ UNCHANGED <<second, cachedCandles>>
        /\ \A f \in old.flying : f.page \subseteq 0 .. second
    BY <1>2, RunningOnes DEF TakesPage, CacheCore, FlyingOf
  <2>2. CASE Kept(cursor) # {}
    <3> DEFINE i == CHOOSE i \in Kept(cursor) : TRUE
               x == [rest EXCEPT !.collected = @ \cup pageCache[i].candles]
    <3>1. /\ i \in Kept(cursor) /\ chart' = [chart EXCEPT ![c] = x]
          /\ pageCache' = Append(RemoveAt(pageCache, i), pageCache[i])
      BY <1>2, <2>2 DEF TakesPage
    <3>2. x.flying = old.flying
      BY <2>1 DEF RunningCharts
    <3> HIDE DEF i, x
    <3>3. IsFiniteSet(0 .. second)
      <4>1. 0 \in Int /\ second \in Int
        BY DEF CandleCore
      <4> QED  BY <4>1, FS_Interval
    <3>4. i \in 1 .. Len(pageCache) /\ pageCache \in Seq(PagesOf(0 .. second))
      BY <3>1 DEF Kept, CacheCore
    <3>5. /\ pageCache' \in Seq(PagesOf(0 .. second)) /\ Weight(pageCache') = Weight(pageCache)
          /\ OneCursorEach(pageCache) => OneCursorEach(pageCache')
      BY <3>1, <3>3, <3>4, WeighsUsed
    <3> QED  BY <2>1, <3>1, <3>2, <3>5, CacheBecomes DEF CacheCore
  <2>3. CASE Kept(cursor) = {}
    <3> DEFINE f == [cursor |-> cursor, page |-> PageAt(cursor, v), sent |-> second, tries |-> 1]
               x == [rest EXCEPT !.flying = @ \cup {f}]
    <3>1. Visible(v) /\ chart' = [chart EXCEPT ![c] = x] /\ pageCache' = pageCache
      BY <1>2, <2>3 DEF TakesPage
    <3>2. f.page \subseteq 0 .. second
      BY <3>1, PageSeen
    <3> HIDE DEF f
    <3>3. x.flying = old.flying \cup {f}
      BY <2>1 DEF RunningCharts
    <3> HIDE DEF x
    <3> QED  BY <2>1, <3>1, <3>2, <3>3, CacheBecomes DEF CacheCore
  <2> QED  BY <2>2, <2>3
<1>3. ASSUME NEW c \in Charts, NEW f \in FlyingOf(c), PageComes(c, f) PROVE CacheCore'
  <2> DEFINE old == chart[c]
             x == [old EXCEPT !.flying = @ \ {f}, !.collected = @ \cup f.page]
  <2>1. /\ old \in RunningCharts /\ f.cursor \in Int /\ f.page \subseteq 0 .. second
        /\ \A g \in old.flying : g.page \subseteq 0 .. second
    <3>1. old \in RunningCharts /\ f \in PageReads(old.asked) /\ old.at = "running"
      BY FlyingOnes DEF RunningCharts
    <3> QED  BY <3>1 DEF CacheCore, FlyingOf, PageReads
  <2>2. chart' = [chart EXCEPT ![c] = x] /\ UNCHANGED second
    BY <1>3 DEF PageComes
  <2>3. x.flying = old.flying \ {f}
    BY <2>1 DEF RunningCharts
  <2> HIDE DEF x
  <2>4. CASE f.cursor > second - Settle
    <3>1. UNCHANGED <<pageCache, cachedCandles>>
      BY <1>3, <2>4 DEF PageComes
    <3> QED  BY <2>1, <2>2, <2>3, <3>1, CacheBecomes DEF CacheCore
  <2>5. CASE ~(f.cursor > second - Settle)
    <3>1. Put(f.cursor, f.page)
      BY <1>3, <2>5 DEF PageComes
    <3>2. /\ pageCache' \in Seq(PagesOf(0 .. second)) /\ OneCursorEach(pageCache')
          /\ cachedCandles' \in Int /\ Weight(pageCache') <= cachedCandles'
          /\ Weight(pageCache') <= MaxCandles
      BY <2>1, <3>1, PutKeepsBudget
    <3> QED  BY <2>1, <2>2, <2>3, <3>2, CacheBecomes
  <2> QED  BY <2>4, <2>5
<1>4. ASSUME NEW c \in Charts, NEW f \in FlyingOf(c), NEW v, PageRetries(c, f, v) PROVE CacheCore'
  <2> DEFINE old == chart[c]
             again == [f EXCEPT !.page = PageAt(f.cursor, v), !.sent = second, !.tries = @ + 1]
             x == [old EXCEPT !.flying = (@ \ {f}) \cup {again}]
  <2>1. /\ old \in RunningCharts /\ \A g \in old.flying : g.page \subseteq 0 .. second
        /\ f \in [cursor : Int, page : SUBSET Nat, sent : Nat, tries : Nat]
    <3>1. old \in RunningCharts /\ f \in PageReads(old.asked) /\ old.at = "running"
      BY FlyingOnes DEF RunningCharts
    <3> QED  BY <3>1 DEF CacheCore, FlyingOf, PageReads
  <2>2. /\ Visible(v) /\ chart' = [chart EXCEPT ![c] = x]
        /\ UNCHANGED <<second, pageCache, cachedCandles>>
    BY <1>4 DEF PageRetries
  <2>3. again.page \subseteq 0 .. second
    <3>1. again.page = PageAt(f.cursor, v)
      BY <2>1
    <3> QED  BY <2>2, <3>1, PageSeen
  <2> HIDE DEF again
  <2>4. x.flying = (old.flying \ {f}) \cup {again}
    BY <2>1 DEF RunningCharts
  <2> HIDE DEF x
  <2> QED  BY <2>1, <2>2, <2>3, <2>4, CacheBecomes DEF CacheCore
<1>5. ASSUME NEW c \in Charts, NEW f \in FlyingOf(c), PageFails(c, f) PROVE CacheCore'
  <2> DEFINE old == chart[c]
             x == [old EXCEPT !.flying = @ \ {f}, !.failed = TRUE]
  <2>1. old \in RunningCharts /\ \A g \in old.flying : g.page \subseteq 0 .. second
    <3>1. old \in RunningCharts /\ old.at = "running"
      BY FlyingOnes DEF RunningCharts
    <3> QED  BY <3>1 DEF CacheCore, FlyingOf
  <2>2. /\ chart' = [chart EXCEPT ![c] = x] /\ UNCHANGED <<second, pageCache, cachedCandles>>
    BY <1>5 DEF PageFails
  <2>3. x.flying = old.flying \ {f}
    BY <2>1 DEF RunningCharts
  <2> HIDE DEF x
  <2> QED  BY <2>1, <2>2, <2>3, CacheBecomes DEF CacheCore
<1>6. ASSUME NEW c \in Charts, HistoryAnswers(c) PROVE CacheCore'
  <2> DEFINE x == [at |-> "answered", start |-> chart[c].start, end |-> chart[c].end,
                   asked |-> chart[c].asked, failed |-> chart[c].failed,
                   history |-> chart[c].collected \cap (chart[c].start .. chart[c].end)]
  <2>1. /\ chart' = [chart EXCEPT ![c] = x] /\ UNCHANGED <<second, pageCache, cachedCandles>>
        /\ x.at # "running"
    BY <1>6 DEF HistoryAnswers
  <2> HIDE DEF x
  <2> QED  BY <2>1, CacheBecomes DEF CacheCore
<1>7. CASE SecondPasses
  <2>1. second' = second + 1 /\ second \in Nat /\ UNCHANGED <<pageCache, cachedCandles, chart>>
    BY <1>7 DEF SecondPasses, CandleCore
  <2>2. 0 .. second \subseteq (0 .. second)'
    BY <2>1
  <2>3. pageCache \in Seq(PagesOf((0 .. second)'))
    <3> DEFINE V == (0 .. second)'
    <3>1. PagesOf(0 .. second) \subseteq PagesOf(V)
      BY <2>2 DEF PagesOf
    <3> QED  BY <3>1 DEF CacheCore
  <2>4. \A c \in Charts : \A f \in FlyingOf(c)' : f.page \subseteq (0 .. second)'
    BY <2>1, <2>2 DEF CacheCore, FlyingOf
  <2> QED  BY <2>1, <2>3, <2>4 DEF CacheCore, OneCursorEach, Weight, Stock, PagesOf
<1>8. CASE UNCHANGED candleVars
  BY <1>8 DEF candleVars, CacheCore, FlyingOf, OneCursorEach, Weight, Stock, PagesOf
<1> QED  BY <1>1, <1>2, <1>3, <1>4, <1>5, <1>6, <1>7, <1>8 DEF CandleNext

\* "Gaps cannot open up": a history without errors has every candle of its range that had
\* appeared when it was asked for, for any page size, any ranges, any day and any lateness
\* the settling time allows for, wherever its pages came from and whatever was dropped; and
\* the cache keeps within its budget, though a page stored twice is counted twice.
THEOREM HistoriesAreWhole == CandleSpec => []HistoryIsWhole
<1>1. CandleInit => CandleCore /\ CacheCore
  <2> SUFFICES ASSUME CandleInit PROVE CandleCore /\ CacheCore
    OBVIOUS
  <2>1. CandleCore
    BY CandleAssumption DEF CandleInit, CandleCore
  <2>2. /\ pageCache = <<>> /\ cachedCandles = 0 /\ \A c \in Charts : FlyingOf(c) = {}
        /\ MaxCandles \in Nat
    BY CandleAssumption DEF CandleInit, FlyingOf
  <2> QED  BY <2>1, <2>2, WeighsNothing DEF CacheCore, OneCursorEach
<1>2. CandleCore /\ CacheCore => HistoryIsWhole
  <2> SUFFICES ASSUME CandleCore, CacheCore, NEW c \in Charts, chart[c].at = "answered", ~chart[c].failed
               PROVE  \A s \in traded : chart[c].start <= s /\ s <= chart[c].end
                                        /\ s + Late <= chart[c].asked => s \in chart[c].history
    BY DEF HistoryIsWhole, NoGaps, CacheCore
  <2>1. chart[c] \in {[at |-> "idle"]} \cup RunningCharts \cup AnsweredCharts
    BY DEF CandleCore
  <2>2. chart[c] \in AnsweredCharts
    BY <2>1 DEF RunningCharts
  <2> QED  BY <2>2 DEF AnsweredCharts
<1> QED  BY <1>1, <1>2, CandlesStay, CacheStays, PTL DEF CandleSpec

(***************************************************************************)
(* The Go feed (GoFeed), any number of handlers at a time.                 *)
(* OneSocketOneUnion is about handlers at rest; GoCore says of the ones    *)
(* under way who has still to write what to the socket: a token that is    *)
(* needed and not streamed has a handler that brings it, and one that is   *)
(* streamed and not needed a handler that takes it away, unless handlers   *)
(* crossed over it.                                                        *)
(***************************************************************************)
Handlers == [at : Steps, removed : SUBSET Tokens, groups : SUBSET Tokens,
             then : {"idle", "gather", "start"}, seen : Sockets \cup {None}]

Streams == conn # None /\ sock[conn] = "open"

\* Handler h will ask socket c for token t, or tell it to drop t, if nothing happens to c.
Brings(h, c, t) ==
  \/ h.at = "snap" /\ h.seen = c
  \/ h.at \in {"release", "drop"} /\ h.then = "start" /\ t \in h.groups
  \/ h.at = "start" /\ t \in h.groups
  \/ h.at \in {"send", "initial"} /\ h.seen = c /\ t \in h.groups

Sheds(h, c, t) ==
  /\ t \in h.removed
  /\ h.at = "release" \/ (h.at = "drop" /\ h.seen = c)

\* What handlers hold of a token agrees with the union, and what is amiss they will mend.
Orderly(t) ==
  /\ \A r \in Requests : t \in req[r].groups => t \in tokens
  /\ \A r \in Requests : t \in req[r].removed => t \notin tokens
  /\ Streams /\ t \in tokens /\ t \notin told[conn] => \E r \in Requests : Brings(req[r], conn, t)
  /\ Streams /\ t \notin tokens /\ t \in told[conn] => \E r \in Requests : Sheds(req[r], conn, t)

SocketsFine ==
  /\ tokens \subseteq Tokens /\ chainKeys \subseteq Tokens /\ basketKeys \subseteq Tokens
  /\ conn \in Sockets \cup {None}
  /\ sock \in [Sockets -> {"unused", "open", "dead"}]
  /\ told \in [Sockets -> SUBSET Tokens]
  /\ \A n \in Sockets : sock[n] = "unused" => told[n] = {}
  /\ \A n \in Sockets : sock[n] = "open" => n = conn \/ n \in rivalled

\* Who dials while there is a socket is a rival of the one who dialed it.
Rivals == conn # None /\ (\E r \in Requests : req[r].at = "dial") => conn \in rivalled

GoCore ==
  /\ SocketsFine
  /\ req \in [Requests -> Handlers]
  /\ Rivals
  /\ \A t \in Tokens : t \notin crossed => Orderly(t)

\* What MovesTo makes of a handler.
Moved(where, groups, n) == [Idle EXCEPT !.at = where, !.groups = groups, !.seen = n]

LEMMA MovedIs ==
  ASSUME NEW where \in Steps, NEW groups \in SUBSET Tokens, NEW n \in Sockets \cup {None}
  PROVE  LET x == Moved(where, groups, n)
         IN /\ x \in Handlers /\ x.at = where /\ x.groups = groups /\ x.seen = n
            /\ x.removed = {}
BY DEF Moved, Idle, Handlers, Steps

LEMMA IdleIs == Idle \in Handlers /\ Idle.at = "idle" /\ Idle.groups = {} /\ Idle.removed = {}
BY DEF Idle, Handlers, Steps

\* A handler that moves on without changing the union keeps GoCore, if what it holds agrees
\* with the union and it has written what it no longer promises.
LEMMA HandlerMoves ==
  ASSUME GoCore, NEW r \in Requests, NEW x \in Handlers, req' = [req EXCEPT ![r] = x],
         UNCHANGED <<unionVars, conn, sock, feedHistory>>, told' \in [Sockets -> SUBSET Tokens],
         \A n \in Sockets : sock[n] = "unused" => told'[n] = {},
         x.at = "dial" => conn = None,
         \A t \in Tokens : t \notin crossed =>
           /\ t \in x.groups => t \in tokens
           /\ t \in x.removed => t \notin tokens
           /\ Streams /\ t \in tokens /\ t \notin told'[conn] =>
                t \notin told[conn] /\ (Brings(req[r], conn, t) => Brings(x, conn, t))
           /\ Streams /\ t \notin tokens /\ t \in told'[conn] =>
                t \in told[conn] /\ (Sheds(req[r], conn, t) => Sheds(x, conn, t))
  PROVE  GoCore'
<1>1. /\ tokens' = tokens /\ chainKeys' = chainKeys /\ basketKeys' = basketKeys
      /\ conn' = conn /\ sock' = sock /\ rivalled' = rivalled /\ crossed' = crossed
  BY DEF unionVars, feedHistory
<1>2. /\ req' \in [Requests -> Handlers] /\ req'[r] = x
      /\ \A q \in Requests : q # r => req'[q] = req[q]
  <2> HIDE DEF Handlers
  <2> QED  BY DEF GoCore
<1>3. SocketsFine'
  BY <1>1 DEF GoCore, SocketsFine
<1>4. Rivals'
  BY <1>1, <1>2 DEF GoCore, Rivals
<1>5. ASSUME NEW t \in Tokens, t \notin crossed PROVE Orderly(t)'
  <2>1. Orderly(t)
    BY <1>5 DEF GoCore
  <2>2. \A q \in Requests : t \in req'[q].groups => t \in tokens'
    BY <1>1, <1>2, <1>5, <2>1 DEF Orderly
  <2>3. \A q \in Requests : t \in req'[q].removed => t \notin tokens'
    BY <1>1, <1>2, <1>5, <2>1 DEF Orderly
  <2>4. ASSUME Streams', t \in tokens', t \notin told'[conn']
        PROVE  \E q \in Requests : Brings(req'[q], conn', t)
    <3>1. Streams /\ t \in tokens /\ t \notin told[conn]
      BY <1>1, <1>5, <2>4 DEF Streams
    <3>2. PICK q \in Requests : Brings(req[q], conn, t)
      BY <2>1, <3>1 DEF Orderly
    <3>3. q = r => Brings(req'[q], conn, t)
      BY <1>1, <1>2, <1>5, <2>4, <3>1, <3>2
    <3>4. q # r => Brings(req'[q], conn, t)
      BY <1>2, <3>2
    <3> QED  BY <1>1, <3>3, <3>4
  <2>5. ASSUME Streams', t \notin tokens', t \in told'[conn']
        PROVE  \E q \in Requests : Sheds(req'[q], conn', t)
    <3>1. Streams /\ t \notin tokens /\ t \in told[conn]
      BY <1>1, <1>5, <2>5 DEF Streams
    <3>2. PICK q \in Requests : Sheds(req[q], conn, t)
      BY <2>1, <3>1 DEF Orderly
    <3>3. q = r => Sheds(req'[q], conn, t)
      BY <1>1, <1>2, <1>5, <2>5, <3>1, <3>2
    <3>4. q # r => Sheds(req'[q], conn, t)
      BY <1>2, <3>2
    <3> QED  BY <1>1, <3>3, <3>4
  <2> QED  BY <2>2, <2>3, <2>4, <2>5 DEF Orderly
<1> QED  BY <1>1, <1>2, <1>3, <1>4, <1>5 DEF GoCore

\* A handler of the union's two operations starts with what is to be released and added.
LEMMA HandlerBegins ==
  ASSUME GoCore, NEW r \in Requests, At(r, "idle"), NEW L \in SUBSET Tokens,
         NEW S \in SUBSET Tokens, L \cap S = {}, NEW then \in {"idle", "gather", "start"},
         tokens' \in Merged(tokens \ L, S), chainKeys' \subseteq Tokens, basketKeys' \subseteq Tokens,
         Begins(r, L, tokens' \ (tokens \ L), then),
         tokens' \ (tokens \ L) # {} => then = "start", UNCHANGED sockVars
  PROVE  GoCore'
<1> DEFINE added == tokens' \ (tokens \ L)
           x == [at |-> "release", removed |-> L, groups |-> added, then |-> then, seen |-> None]
<1>1. tokens \ L \subseteq tokens' /\ tokens' \subseteq (tokens \ L) \cup S
  BY DEF Merged
<1>2. tokens' \subseteq Tokens /\ added \subseteq Tokens
  BY <1>1 DEF GoCore, SocketsFine
<1>3. /\ x \in Handlers /\ x.at = "release" /\ x.removed = L /\ x.groups = added
      /\ x.then = then
  BY <1>2 DEF Handlers, Steps
<1>4. req' = [req EXCEPT ![r] = x] /\ rivalled' = rivalled
      /\ crossed' = crossed \cup ((L \cup added) \cap InHands(Requests \ {r}))
  BY DEF Begins
<1>5. conn' = conn /\ sock' = sock /\ told' = told
  BY DEF sockVars
<1> HIDE DEF x
<1>6. /\ req' \in [Requests -> Handlers] /\ req'[r] = x
      /\ \A q \in Requests : q # r => req'[q] = req[q]
  <2> HIDE DEF Handlers
  <2> QED  BY <1>3, <1>4 DEF GoCore
<1>7. SocketsFine'
  BY <1>2, <1>4, <1>5 DEF GoCore, SocketsFine
<1>8. Rivals'
  BY <1>3, <1>4, <1>5, <1>6 DEF GoCore, Rivals
<1>9. ASSUME NEW t \in Tokens, t \notin crossed' PROVE Orderly(t)'
  <2>1. Orderly(t) /\ t \notin crossed
    BY <1>4, <1>9 DEF GoCore
  <2>2. t \in L \cup added =>
          \A q \in Requests : q # r => t \notin req[q].groups /\ t \notin req[q].removed
    BY <1>4, <1>9 DEF InHands
  <2>3. /\ t \in L => t \notin tokens' /\ t \notin added
        /\ t \in added => t \in tokens' /\ t \notin L /\ t \notin tokens
        /\ t \notin L \cup added => (t \in tokens' <=> t \in tokens)
    BY <1>1
  <2> HIDE DEF added
  <2>4. \A q \in Requests : t \in req'[q].groups => t \in tokens'
    BY <1>3, <1>6, <2>1, <2>2, <2>3 DEF Orderly
  <2>5. \A q \in Requests : t \in req'[q].removed => t \notin tokens'
    BY <1>3, <1>6, <2>1, <2>2, <2>3 DEF Orderly
  <2>6. ASSUME Streams', t \in tokens', t \notin told'[conn']
        PROVE  \E q \in Requests : Brings(req'[q], conn', t)
    <3>1. CASE t \in added
      <4>1. Brings(x, conn, t)
        BY <1>3, <3>1 DEF Brings, added
      <4> QED  BY <1>5, <1>6, <4>1
    <3>2. CASE t \notin added
      <4>1. t \in tokens /\ Streams /\ t \notin told[conn]
        BY <1>5, <2>3, <2>6, <3>2 DEF Streams
      <4>2. PICK q \in Requests : Brings(req[q], conn, t)
        BY <2>1, <4>1 DEF Orderly
      <4>3. q # r
        BY <4>2 DEF Brings, At
      <4> QED  BY <1>5, <1>6, <4>2, <4>3
    <3> QED  BY <3>1, <3>2
  <2>7. ASSUME Streams', t \notin tokens', t \in told'[conn']
        PROVE  \E q \in Requests : Sheds(req'[q], conn', t)
    <3>1. CASE t \in L
      <4>1. Sheds(x, conn, t)
        BY <1>3, <3>1 DEF Sheds
      <4> QED  BY <1>5, <1>6, <4>1
    <3>2. CASE t \notin L
      <4>1. t \notin tokens /\ Streams /\ t \in told[conn]
        BY <1>5, <2>3, <2>7, <3>2 DEF Streams
      <4>2. PICK q \in Requests : Sheds(req[q], conn, t)
        BY <2>1, <4>1 DEF Orderly
      <4>3. q # r
        BY <4>2 DEF Sheds, At
      <4> QED  BY <1>5, <1>6, <4>2, <4>3
    <3> QED  BY <3>1, <3>2
  <2> QED  BY <2>4, <2>5, <2>6, <2>7 DEF Orderly
<1> QED  BY <1>6, <1>7, <1>8, <1>9 DEF GoCore

\* A handler that has released what it had to goes on to what it planned.
LEMMA HandlerGoesOn ==
  ASSUME GoCore, NEW r \in Requests, req[r].at \in {"release", "drop"}, GoesOn(r),
         UNCHANGED <<unionVars, conn, sock, feedHistory>>, told' \in [Sockets -> SUBSET Tokens],
         \A n \in Sockets : told'[n] \subseteq told[n],
         Streams => \A t \in told[conn] : t \notin told'[conn] => t \in req[r].removed,
         Streams => \A t \in told'[conn] : ~Sheds(req[r], conn, t)
  PROVE  GoCore'
<1> DEFINE old == req[r]
           x == Moved(old.then, old.groups, None)
<1>1. old \in Handlers
  BY DEF GoCore
<1>2. /\ x \in Handlers /\ x.at = old.then /\ x.groups = old.groups /\ x.removed = {}
      /\ old.then \in {"idle", "gather", "start"}
  <2>1. old.then \in Steps /\ old.then \in {"idle", "gather", "start"} /\ old.groups \in SUBSET Tokens
    BY <1>1 DEF Handlers, Steps
  <2>2. ASSUME NEW w \in Steps, NEW g \in SUBSET Tokens
        PROVE  LET y == Moved(w, g, None)
               IN y \in Handlers /\ y.at = w /\ y.groups = g /\ y.removed = {}
    BY MovedIs
  <2> QED  BY <2>1, <2>2
<1>3. req' = [req EXCEPT ![r] = x]
  BY DEF GoesOn, MovesTo, Moved
<1> HIDE DEF x
<1>4. ASSUME NEW t \in Tokens, t \notin crossed
      PROVE  /\ t \in x.groups => t \in tokens
             /\ t \in x.removed => t \notin tokens
             /\ Streams /\ t \in tokens /\ t \notin told'[conn] =>
                  t \notin told[conn] /\ (Brings(old, conn, t) => Brings(x, conn, t))
             /\ Streams /\ t \notin tokens /\ t \in told'[conn] =>
                  t \in told[conn] /\ (Sheds(old, conn, t) => Sheds(x, conn, t))
  <2>1. Orderly(t)
    BY <1>4 DEF GoCore
  <2>2. Brings(old, conn, t) => Brings(x, conn, t)
    BY <1>2 DEF Brings
  <2>3. (t \in old.groups => t \in tokens) /\ (t \in old.removed => t \notin tokens)
    BY <2>1 DEF Orderly
  <2>4. Streams => conn \in Sockets
    BY DEF Streams, GoCore, SocketsFine
  <2> QED  BY <1>2, <2>2, <2>3, <2>4
<1>5. \A n \in Sockets : sock[n] = "unused" => told'[n] = {}
  BY DEF GoCore, SocketsFine
<1>6. x.at # "dial"
  BY <1>2
<1> QED  BY <1>2, <1>3, <1>4, <1>5, <1>6, HandlerMoves

\* Every step of a handler keeps GoCore.
LEMMA HandlerStays ==
  ASSUME GoCore, NEW r \in Requests, HandlerNext(r)
  PROVE  GoCore'
<1> DEFINE old == req[r]
<1>0. /\ old \in Handlers /\ SocketsFine /\ req \in [Requests -> Handlers] /\ Rivals
      /\ old.groups \in SUBSET Tokens /\ old.removed \in SUBSET Tokens
      /\ old.seen \in Sockets \cup {None} /\ tokens \in SUBSET Tokens
      /\ conn \in Sockets \cup {None} /\ told \in [Sockets -> SUBSET Tokens]
      /\ \A n \in Sockets : sock[n] = "unused" => told[n] = {}
  BY DEF GoCore, Handlers, SocketsFine
<1>a. \A t \in Tokens : t \notin crossed => Orderly(t)
  BY DEF GoCore
<1>b. \A t \in Tokens : t \notin crossed =>
        (t \in old.groups => t \in tokens) /\ (t \in old.removed => t \notin tokens)
  BY <1>a DEF Orderly
<1>1. ASSUME NEW S \in SUBSET Tokens, Subscribe(r, S) PROVE GoCore'
  <2> DEFINE L == ChainLeaves(S)
  <2>1. L \in SUBSET Tokens /\ L \cap S = {}
    BY <1>0 DEF ChainLeaves, SocketsFine
  <2>2. /\ tokens' \in Merged(tokens \ L, S) /\ chainKeys' \subseteq Tokens
        /\ basketKeys' \subseteq Tokens
    BY <1>0, <1>1 DEF Subscribe, ChainSync, SocketsFine
  <2>3. /\ At(r, "idle") /\ Begins(r, L, tokens' \ (tokens \ L), "start") /\ UNCHANGED sockVars
    BY <1>1 DEF Subscribe
  <2> HIDE DEF L
  <2> QED  BY <2>1, <2>2, <2>3, HandlerBegins
<1>2. ASSUME NEW S \in SUBSET Tokens, NEW given \in BOOLEAN, SetBasketTokens(r, S, given)
      PROVE  GoCore'
  <2> DEFINE L == BasketLeaves(S)
             added == tokens' \ (tokens \ L)
             then == CASE added # {} -> "start" [] added = {} /\ conn = None -> "gather"
                       [] OTHER -> "idle"
  <2>1. L \in SUBSET Tokens /\ L \cap S = {}
    BY <1>0 DEF BasketLeaves, SocketsFine
  <2>2. /\ tokens' \in Merged(tokens \ L, S) /\ chainKeys' \subseteq Tokens
        /\ basketKeys' \subseteq Tokens
    BY <1>0, <1>2 DEF SetBasketTokens, BasketSync, SocketsFine
  <2>3. /\ At(r, "idle") /\ Begins(r, L, added, then) /\ UNCHANGED sockVars
    BY <1>2 DEF SetBasketTokens
  <2>4. then \in {"idle", "gather", "start"} /\ (added # {} => then = "start")
    <3> HIDE DEF added
    <3>1. CASE added # {}
      BY <3>1
    <3>2. CASE added = {} /\ conn = None
      BY <3>2
    <3>3. CASE added = {} /\ conn # None
      BY <3>3
    <3> QED  BY <3>1, <3>2, <3>3
  <2> HIDE DEF L, then
  <2> QED  BY <2>1, <2>2, <2>3, <2>4, HandlerBegins
<1>3. CASE ReadsToRelease(r)
  <2>1. old.at = "release" /\ UNCHANGED <<unionVars, conn, sock, feedHistory>> /\ told' = told
    BY <1>3 DEF ReadsToRelease, At, sockVars
  <2>2. CASE old.removed # {} /\ conn # None
    <3> DEFINE x == [old EXCEPT !.seen = conn, !.at = "drop"]
    <3>1. req' = [req EXCEPT ![r] = x]
      BY <1>0, <1>3, <2>2 DEF ReadsToRelease
    <3>2. /\ x \in Handlers /\ x.at = "drop" /\ x.seen = conn /\ x.removed = old.removed
          /\ x.groups = old.groups /\ x.then = old.then
      BY <1>0 DEF Handlers, Steps
    <3> HIDE DEF x
    <3>3. \A t \in Tokens : /\ Brings(old, conn, t) => Brings(x, conn, t)
                            /\ Sheds(old, conn, t) => Sheds(x, conn, t)
      BY <2>1, <3>2 DEF Brings, Sheds
    <3> QED  BY <1>0, <1>b, <2>1, <3>1, <3>2, <3>3, HandlerMoves
  <2>3. CASE ~(old.removed # {} /\ conn # None)
    <3>1. GoesOn(r)
      BY <1>3, <2>3 DEF ReadsToRelease
    <3>2. Streams => \A t \in told'[conn] : ~Sheds(old, conn, t)
      BY <2>3 DEF Streams, Sheds
    <3> QED  BY <1>0, <2>1, <3>1, <3>2, HandlerGoesOn
  <2> QED  BY <2>2, <2>3
<1>4. CASE Releases(r)
  <2> DEFINE n == old.seen
  <2>1. /\ old.at = "drop" /\ GoesOn(r) /\ UNCHANGED <<unionVars, conn, sock, feedHistory>>
        /\ told' = IF WritesOn(r, n) THEN [told EXCEPT ![n] = @ \ old.removed] ELSE told
    BY <1>4 DEF Releases, At
  <2> HIDE DEF n
  <2>2. /\ told' \in [Sockets -> SUBSET Tokens]
        /\ \A m \in Sockets : told'[m] \subseteq told[m]
        /\ \A m \in Sockets : \A t \in told[m] : t \notin told'[m] => t \in old.removed
    BY <1>0, <2>1
  <2>3. Streams => conn \in Sockets /\ (n = conn => told'[conn] = told[conn] \ old.removed)
    BY <1>0, <2>1 DEF Streams, WritesOn
  <2>4. Streams => \A t \in told'[conn] : ~Sheds(old, conn, t)
    BY <2>1, <2>3 DEF Sheds, n
  <2>5. Streams => \A t \in told[conn] : t \notin told'[conn] => t \in old.removed
    BY <2>2, <2>3
  <2> QED  BY <2>1, <2>2, <2>4, <2>5, HandlerGoesOn
<1>5. CASE Gathers(r)
  <2> DEFINE x == Moved("start", tokens, None)
  <2>1. /\ old.at = "gather" /\ UNCHANGED <<unionVars, conn, sock, feedHistory>> /\ told' = told
        /\ req' = [req EXCEPT ![r] = x]
    BY <1>5 DEF Gathers, At, MovesTo, Moved, sockVars
  <2>2. x \in Handlers /\ x.at = "start" /\ x.groups = tokens /\ x.removed = {}
    BY <1>0, MovedIs DEF Steps
  <2> HIDE DEF x
  <2>3. \A t \in Tokens : ~Brings(old, conn, t) /\ ~Sheds(old, conn, t)
    BY <2>1 DEF Brings, Sheds
  <2> QED  BY <1>0, <2>1, <2>2, <2>3, HandlerMoves
<1>6. CASE Starts(r)
  <2> DEFINE x == IF conn = None THEN Moved("dial", {}, None) ELSE Moved("send", old.groups, conn)
  <2>1. /\ old.at = "start" /\ UNCHANGED <<unionVars, conn, sock, feedHistory>> /\ told' = told
        /\ req' = [req EXCEPT ![r] = x]
    BY <1>6 DEF Starts, At, MovesTo, Moved, sockVars
  <2>2. /\ x \in Handlers /\ x.removed = {} /\ (x.at = "dial" => conn = None)
        /\ x.groups = {} \/ x.groups = old.groups
        /\ conn # None => x.at = "send" /\ x.groups = old.groups /\ x.seen = conn
    <3>1. CASE conn = None
      <4>1. LET y == Moved("dial", {}, None)
            IN y \in Handlers /\ y.at = "dial" /\ y.groups = {} /\ y.seen = None /\ y.removed = {}
        BY MovedIs DEF Steps
      <4> QED  BY <3>1, <4>1
    <3>2. CASE conn # None
      <4>1. LET y == Moved("send", old.groups, conn)
            IN y \in Handlers /\ y.at = "send" /\ y.groups = old.groups /\ y.seen = conn
               /\ y.removed = {}
        BY <1>0, MovedIs DEF Steps
      <4> QED  BY <3>2, <4>1
    <3> QED  BY <3>1, <3>2
  <2> HIDE DEF x
  <2>3. \A t \in Tokens : ~Sheds(old, conn, t)
    BY <2>1 DEF Sheds
  <2>4. Streams => \A t \in Tokens : Brings(old, conn, t) => Brings(x, conn, t)
    BY <2>1, <2>2 DEF Brings, Streams
  <2> QED  BY <1>0, <1>b, <2>1, <2>2, <2>3, <2>4, HandlerMoves
<1>7. CASE Sends(r)
  <2> DEFINE n == old.seen
  <2>1. /\ old.at \in {"send", "initial"} /\ req' = [req EXCEPT ![r] = Idle]
        /\ UNCHANGED <<unionVars, conn, sock, feedHistory>>
        /\ told' = IF WritesOn(r, n) THEN [told EXCEPT ![n] = @ \cup old.groups] ELSE told
    BY <1>7 DEF Sends, At, Done
  <2> HIDE DEF n
  <2>2. /\ told' \in [Sockets -> SUBSET Tokens]
        /\ \A m \in Sockets : sock[m] = "unused" => told'[m] = {}
        /\ \A m \in Sockets : told[m] \subseteq told'[m] /\ told'[m] \subseteq told[m] \cup old.groups
    BY <1>0, <2>1 DEF WritesOn
  <2>3. Streams => conn \in Sockets /\ (n = conn => told'[conn] = told[conn] \cup old.groups)
    BY <1>0, <2>1 DEF Streams, WritesOn
  <2>4. ASSUME NEW t \in Tokens, t \notin crossed
        PROVE  /\ Streams /\ t \in tokens /\ t \notin told'[conn] =>
                    t \notin told[conn] /\ ~Brings(old, conn, t)
               /\ Streams /\ t \notin tokens /\ t \in told'[conn] =>
                    t \in told[conn] /\ ~Sheds(old, conn, t)
    <3>1. t \in old.groups => t \in tokens
      BY <1>b, <2>4
    <3>2. Streams /\ t \notin told'[conn] => ~Brings(old, conn, t)
      BY <2>1, <2>3 DEF Brings, n
    <3>3. ~Sheds(old, conn, t)
      BY <2>1 DEF Sheds
    <3> QED  BY <2>2, <2>3, <3>1, <3>2, <3>3
  <2> QED  BY <2>1, <2>2, <2>4, IdleIs, HandlerMoves
<1>8. ASSUME NEW n \in Sockets, Dialed(r, n) PROVE GoCore'
  <2> DEFINE x == Moved("snap", {}, n)
  <2>1. /\ old.at = "dial" /\ sock[n] = "unused" /\ sock' = [sock EXCEPT ![n] = "open"] /\ conn' = n
        /\ UNCHANGED <<unionVars, told>> /\ req' = [req EXCEPT ![r] = x]
        /\ rivalled' = IF \E q \in Requests \ {r} : At(q, "dial") THEN rivalled \cup {n} ELSE rivalled
        /\ crossed' = crossed \cap InHands(Requests \ {r})
    BY <1>8 DEF Dialed, At, MovesTo, Moved
  <2>2. /\ x \in Handlers /\ x.at = "snap" /\ x.groups = {} /\ x.seen = n /\ x.removed = {}
    BY MovedIs DEF Steps
  <2> HIDE DEF x
  <2>3. told[n] = {} /\ tokens' = tokens /\ (conn # None => conn \in rivalled)
        /\ chainKeys' = chainKeys /\ basketKeys' = basketKeys
    BY <1>0, <2>1 DEF Rivals, unionVars
  <2>4. /\ req' \in [Requests -> Handlers] /\ req'[r] = x
        /\ \A q \in Requests : q # r => req'[q] = req[q]
    <3> HIDE DEF Handlers
    <3> QED  BY <1>0, <2>1, <2>2
  <2>5. SocketsFine'
    BY <1>0, <2>1, <2>3, FeedAssumption DEF SocketsFine
  <2>6. Rivals'
    BY <2>1, <2>2, <2>4 DEF Rivals, At
  <2>7. ASSUME NEW t \in Tokens, t \notin crossed' PROVE Orderly(t)'
    <3>1. \A q \in Requests : q # r =>
            (t \in req[q].groups => t \in tokens) /\ (t \in req[q].removed => t \notin tokens)
      BY <1>a, <2>1, <2>7 DEF Orderly, InHands
    <3>2. Brings(x, n, t)
      BY <2>2 DEF Brings
    <3> QED  BY <2>1, <2>2, <2>3, <2>4, <3>1, <3>2 DEF Orderly
  <2> QED  BY <2>4, <2>5, <2>6, <2>7 DEF GoCore
<1>9. CASE DialFailed(r)
  <2>1. /\ old.at = "dial" /\ UNCHANGED <<unionVars, conn, sock, feedHistory>> /\ told' = told
        /\ req' = [req EXCEPT ![r] = Idle]
    BY <1>9 DEF DialFailed, At, Done, sockVars
  <2>2. \A t \in Tokens : ~Brings(old, conn, t) /\ ~Sheds(old, conn, t)
    BY <2>1 DEF Brings, Sheds
  <2> QED  BY <1>0, <2>1, <2>2, IdleIs, HandlerMoves
<1>10. CASE Snaps(r)
  <2> DEFINE x == Moved("initial", tokens, old.seen)
  <2>1. /\ old.at = "snap" /\ UNCHANGED <<unionVars, conn, sock, feedHistory>> /\ told' = told
        /\ req' = [req EXCEPT ![r] = x]
    BY <1>10 DEF Snaps, At, MovesTo, Moved, sockVars
  <2>2. x \in Handlers /\ x.at = "initial" /\ x.groups = tokens /\ x.seen = old.seen /\ x.removed = {}
    <3>1. "initial" \in Steps /\ tokens \in SUBSET Tokens /\ old.seen \in Sockets \cup {None}
      BY <1>0 DEF Steps
    <3> HIDE DEF old
    <3> QED  BY <3>1, MovedIs
  <2> HIDE DEF x
  <2>3. \A t \in Tokens : /\ ~Sheds(old, conn, t)
                          /\ Brings(old, conn, t) /\ t \in tokens => Brings(x, conn, t)
    BY <2>1, <2>2 DEF Brings, Sheds
  <2> QED  BY <1>0, <2>1, <2>2, <2>3, HandlerMoves
<1> QED  BY <1>1, <1>2, <1>3, <1>4, <1>5, <1>6, <1>7, <1>8, <1>9, <1>10 DEF HandlerNext

\* Viewers and the network can take the socket away, but give no new one.
LEMMA SocketTaken ==
  ASSUME GoCore, UNCHANGED <<req, rivalled>>, told' \in [Sockets -> SUBSET Tokens],
         \A n \in Sockets : told'[n] = told[n] \/ told'[n] = {},
         \/ UNCHANGED <<unionVars, crossed>>
         \/ Forget /\ crossed' = InHands(Requests) /\ conn' = None,
         conn' \in {conn, None}, sock' \in [Sockets -> {"unused", "open", "dead"}],
         \A n \in Sockets : sock'[n] # sock[n] => sock'[n] = "dead",
         \A n \in Sockets : sock'[n] = "open" => told'[n] = told[n] /\ (n = conn => n = conn')
  PROVE  GoCore'
<1>1. SocketsFine'
  BY DEF GoCore, SocketsFine, unionVars, Forget
<1>2. Rivals'
  BY DEF GoCore, Rivals
<1>3. ASSUME NEW t \in Tokens, t \notin crossed' PROVE Orderly(t)'
  <2>1. CASE UNCHANGED <<unionVars, crossed>>
    <3>1. Orderly(t) /\ tokens' = tokens
      BY <1>3, <2>1 DEF GoCore, unionVars
    <3>2. Streams' => Streams /\ conn' = conn /\ told'[conn] = told[conn]
      BY DEF GoCore, SocketsFine, Streams
    <3> QED  BY <3>1, <3>2 DEF Orderly
  <2>2. CASE crossed' = InHands(Requests) /\ conn' = None
    BY <1>3, <2>2 DEF Orderly, InHands, Streams
  <2> QED  BY <2>1, <2>2
<1> QED  BY <1>1, <1>2, <1>3 DEF GoCore

\* Every step of the feed keeps GoCore.
LEMMA GoStays ==
  ASSUME GoCore, [FeedNext]_feedVars
  PROVE  GoCore'
<1>0. SocketsFine
  BY DEF GoCore
<1>1. ASSUME NEW r \in Requests, HandlerNext(r) PROVE GoCore'
  BY <1>1, HandlerStays
<1>2. ASSUME NEW v \in Viewers, AddClient(v) \/ RemoveClient(v) PROVE GoCore'
  <2>1. UNCHANGED <<unionVars, sockVars, req, feedHistory>>
    BY <1>2 DEF AddClient, RemoveClient
  <2> QED  BY <1>0, <2>1, SocketTaken DEF sockVars, feedHistory, SocketsFine
<1>3. ASSUME NEW v \in Viewers, CloseUpstream(v) PROVE GoCore'
  <2>1. /\ Forget /\ conn' = None /\ UNCHANGED <<req, rivalled>> /\ crossed' = InHands(Requests)
        /\ sock' = IF conn = None THEN sock ELSE [sock EXCEPT ![conn] = "dead"]
        /\ told' = IF conn = None THEN told ELSE [told EXCEPT ![conn] = {}]
    BY <1>3 DEF CloseUpstream
  <2>2. /\ sock' \in [Sockets -> {"unused", "open", "dead"}]
        /\ told' \in [Sockets -> SUBSET Tokens]
        /\ \A n \in Sockets : sock'[n] # sock[n] => sock'[n] = "dead"
        /\ \A n \in Sockets : told'[n] = told[n] \/ told'[n] = {}
        /\ \A n \in Sockets : sock'[n] = "open" => told'[n] = told[n] /\ n # conn
    BY <1>0, <2>1, FeedAssumption DEF SocketsFine
  <2> QED  BY <2>1, <2>2, SocketTaken
<1>4. ASSUME NEW n \in Sockets, SocketDies(n) PROVE GoCore'
  <2>1. /\ UNCHANGED <<unionVars, conn, req, feedHistory>> /\ sock' = [sock EXCEPT ![n] = "dead"]
        /\ told' = [told EXCEPT ![n] = {}]
    BY <1>4 DEF SocketDies
  <2> QED  BY <1>0, <2>1, SocketTaken DEF SocketsFine, feedHistory
<1>5. ASSUME NEW n \in Sockets, ReadLoopEnds(n) PROVE GoCore'
  <2>1. /\ UNCHANGED <<unionVars, sock, told, req, feedHistory>>
        /\ conn' = (IF conn = n THEN None ELSE conn) /\ sock[n] = "dead"
    BY <1>5 DEF ReadLoopEnds
  <2> QED  BY <1>0, <2>1, SocketTaken DEF SocketsFine, feedHistory
<1>6. CASE UNCHANGED feedVars
  <2>1. UNCHANGED <<unionVars, sockVars, req, feedHistory>>
    BY <1>6 DEF feedVars
  <2> QED  BY <1>0, <2>1, SocketTaken DEF sockVars, feedHistory, SocketsFine
<1> QED  BY <1>1, <1>2, <1>3, <1>4, <1>5, <1>6 DEF FeedNext

\* However many requests run at once, and whatever viewers leave, sockets die and read loops
\* notice meanwhile, for any tokens and any cap: a socket that is open is the feed's own, or
\* one of several that handlers dialed over each other; and the feed's own, once no handler
\* is at work, streams exactly the union, but for tokens that handlers crossed over
\* (Subscribe, SetBasketTokens, startOrResubscribe, connect, RemoveClient in feed.go).
THEOREM SocketsFollowTheUnion == FeedSpec => []OneSocketOneUnion
<1>1. FeedInit => GoCore
  <2> SUFFICES ASSUME FeedInit PROVE GoCore
    OBVIOUS
  <2>1. SocketsFine /\ req \in [Requests -> Handlers] /\ conn = None
    BY IdleIs, FeedAssumption DEF FeedInit, UnionInit, SocketsFine
  <2>2. \A r \in Requests : req[r].groups = {} /\ req[r].removed = {}
    BY IdleIs DEF FeedInit
  <2> QED  BY <2>1, <2>2 DEF GoCore, Rivals, Orderly, Streams
<1>2. GoCore => OneSocketOneUnion
  <2> SUFFICES ASSUME GoCore PROVE OneSocketOneUnion
    OBVIOUS
  <2>1. \A n \in Sockets : sock[n] = "open" => n = conn \/ n \in rivalled
    BY DEF GoCore, SocketsFine
  <2>2. ASSUME Streams, \A r \in Requests : At(r, "idle"),
               NEW t \in (told[conn] \ tokens) \cup (tokens \ told[conn])
        PROVE  t \in crossed
    <3>1. t \in Tokens
      BY <2>2 DEF GoCore, SocketsFine, Streams
    <3>2. \A r \in Requests : ~Brings(req[r], conn, t) /\ ~Sheds(req[r], conn, t)
      BY <2>2 DEF At, Brings, Sheds
    <3> QED  BY <2>2, <3>1, <3>2 DEF GoCore, Orderly
  <2> QED  BY <2>1, <2>2 DEF OneSocketOneUnion, Streams
<1>3. GoCore /\ [FeedNext]_feedVars => GoCore'
  BY GoStays
<1> QED  BY <1>1, <1>2, <1>3, PTL DEF FeedSpec

(***************************************************************************)
(* The Go feed (GoFeed) again, any number of handlers.  What they share is *)
(* the union, which changes in one critical section of each: so however    *)
(* they interleave it stays within the cap and keeps what is needed.       *)
(***************************************************************************)

\* Every step of the Go feed is an operation of the union or leaves it alone.
LEMMA GoStepsUnion == [FeedNext]_feedVars => [UnionNext]_unionVars
<1> SUFFICES ASSUME [FeedNext]_feedVars PROVE [UnionNext]_unionVars
  OBVIOUS
<1>1. ASSUME NEW r \in Requests, NEW S \in SUBSET Tokens,
             Subscribe(r, S) \/ \E given \in BOOLEAN : SetBasketTokens(r, S, given)
      PROVE  UnionNext
  BY <1>1 DEF Subscribe, SetBasketTokens, UnionNext
<1>2. ASSUME NEW r \in Requests,
             \/ ReadsToRelease(r) \/ Releases(r) \/ Gathers(r) \/ Starts(r) \/ Sends(r)
             \/ (\E n \in Sockets : Dialed(r, n)) \/ DialFailed(r) \/ Snaps(r)
      PROVE  UNCHANGED unionVars
  BY <1>2 DEF ReadsToRelease, Releases, Gathers, Starts, Sends, Dialed, DialFailed, Snaps
<1>3. ASSUME NEW r \in Requests, HandlerNext(r) PROVE [UnionNext]_unionVars
  BY <1>1, <1>2, <1>3 DEF HandlerNext
<1>4. ASSUME NEW v \in Viewers, AddClient(v) \/ RemoveClient(v) \/ CloseUpstream(v)
      PROVE  [UnionNext]_unionVars
  BY <1>4 DEF AddClient, RemoveClient, CloseUpstream, UnionNext
<1>5. ASSUME NEW n \in Sockets, SocketDies(n) \/ ReadLoopEnds(n) PROVE UNCHANGED unionVars
  BY <1>5 DEF SocketDies, ReadLoopEnds
<1>6. CASE UNCHANGED feedVars
  BY <1>6 DEF feedVars
<1> QED  BY <1>3, <1>4, <1>5, <1>6 DEF FeedNext

\* The Go feed's union is changed by the union's operations and nothing else, although
\* handlers interleave between the union's change and the frames about it (feed.go).
THEOREM GoFeedKeepsUnion == FeedSpec => UnionSpec
<1>1. FeedInit => UnionInit
  BY DEF FeedInit
<1> QED  BY <1>1, GoStepsUnion, PTL DEF FeedSpec, UnionSpec

\* A request drops no streamed token that is needed before and after it, however many
\* requests there are at once (Subscribe, SetBasketTokens).
THEOREM GoNeededTokensStay == FeedSpec => NeededStays
BY GoFeedKeepsUnion, UnionKeepsNeeded, PTL

\* What a handler may be: one that has dialed has a socket.
HandlerType == {h \in Handlers : h.at \in {"snap", "initial"} => h.seen \in Sockets}

\* FeedTypeOK with it: a read loop is started only on a socket.
GoTyped == FeedTypeOK /\ req \in [Requests -> HandlerType]

\* A handler that changes is still one if what it becomes is one.
LEMMA HandlerTyped ==
  ASSUME req \in [Requests -> HandlerType], NEW r \in Requests,
         \/ req' = req
         \/ \E x \in HandlerType : req' = [req EXCEPT ![r] = x]
  PROVE  req' \in [Requests -> HandlerType]
<1> HIDE DEF HandlerType
<1> QED  OBVIOUS

LEMMA MovedTyped ==
  ASSUME NEW where \in Steps, NEW groups \in SUBSET Tokens, NEW n \in Sockets \cup {None},
         where \in {"snap", "initial"} => n \in Sockets
  PROVE  Moved(where, groups, n) \in HandlerType
BY DEF Moved, Idle, HandlerType, Handlers, Steps

\* What handlers have rivalled and crossed over are sockets and tokens.
LEMMA HistoryTyped ==
  ASSUME GoTyped, UnionTypeOK', NEW r \in Requests, HandlerNext(r)
  PROVE  rivalled' \subseteq Sockets /\ crossed' \subseteq Tokens
<1>0. /\ rivalled \subseteq Sockets /\ crossed \subseteq Tokens /\ tokens' \subseteq Tokens
      /\ chainKeys \subseteq Tokens /\ basketKeys \subseteq Tokens
  BY DEF GoTyped, FeedTypeOK, UnionTypeOK
<1>1. ASSUME NEW S \in SUBSET Tokens, Subscribe(r, S) PROVE rivalled' = rivalled /\ crossed' \subseteq Tokens
  BY <1>0, <1>1 DEF Subscribe, Begins, ChainLeaves
<1>2. ASSUME NEW S \in SUBSET Tokens, NEW given \in BOOLEAN, SetBasketTokens(r, S, given)
      PROVE  rivalled' = rivalled /\ crossed' \subseteq Tokens
  <2> DEFINE L == BasketLeaves(S)
             added == tokens' \ (tokens \ L)
  <2>1. rivalled' = rivalled /\ crossed' = crossed \cup ((L \cup added) \cap InHands(Requests \ {r}))
    BY <1>2 DEF SetBasketTokens, Begins
  <2> QED  BY <1>0, <2>1 DEF BasketLeaves
<1>3. ASSUME NEW n \in Sockets, Dialed(r, n)
      PROVE  rivalled' \subseteq rivalled \cup {n} /\ crossed' \subseteq crossed
  BY <1>3 DEF Dialed
<1>4. ASSUME \/ ReadsToRelease(r) \/ Releases(r) \/ Gathers(r) \/ Starts(r) \/ Sends(r)
             \/ DialFailed(r) \/ Snaps(r)
      PROVE  UNCHANGED feedHistory
  BY <1>4 DEF ReadsToRelease, Releases, Gathers, Starts, Sends, DialFailed, Snaps
<1> QED  BY <1>0, <1>1, <1>2, <1>3, <1>4 DEF HandlerNext, feedHistory

\* The steps of one handler keep the types of everything but the union.
LEMMA GoHandlerTyped ==
  ASSUME GoTyped, UnionTypeOK', NEW r \in Requests, HandlerNext(r)
  PROVE  GoTyped'
<1> DEFINE old == req[r]
<1>0. /\ old \in HandlerType /\ req \in [Requests -> HandlerType] /\ tokens' \in SUBSET Tokens
      /\ tokens \in SUBSET Tokens /\ conn \in Sockets \cup {None} /\ creds \in BOOLEAN
      /\ chainKeys \in SUBSET Tokens /\ basketKeys \in SUBSET Tokens
      /\ sock \in [Sockets -> {"unused", "open", "dead"}] /\ told \in [Sockets -> SUBSET Tokens]
      /\ reading \subseteq Sockets /\ viewers \subseteq Viewers /\ leaving \subseteq Viewers
  BY DEF GoTyped, FeedTypeOK, UnionTypeOK
<1>1. Idle \in HandlerType
  BY DEF Idle, HandlerType, Handlers, Steps
<1> SUFFICES /\ \E x \in HandlerType : req' = [req EXCEPT ![r] = x]
             /\ conn' \in Sockets \cup {None} /\ creds' \in BOOLEAN
             /\ sock' \in [Sockets -> {"unused", "open", "dead"}] /\ reading' \subseteq Sockets
             /\ told' \in [Sockets -> SUBSET Tokens] /\ UNCHANGED viewVars
  <2>1. viewers' \subseteq Viewers /\ leaving' \subseteq Viewers
    BY <1>0 DEF viewVars
  <2>2. req' \in [Requests -> HandlerType]
    BY <1>0, HandlerTyped
  <2>3. HandlerType \subseteq [at : Steps, removed : SUBSET Tokens, groups : SUBSET Tokens,
                               then : Steps, seen : Sockets \cup {None}]
    BY DEF HandlerType, Handlers, Steps
  <2>4. req' \in [Requests -> [at : Steps, removed : SUBSET Tokens, groups : SUBSET Tokens,
                              then : Steps, seen : Sockets \cup {None}]]
    <3> HIDE DEF HandlerType
    <3> QED  BY <2>2, <2>3
  <2> QED  BY <2>1, <2>2, <2>4, HistoryTyped DEF GoTyped, FeedTypeOK
<1>a. /\ old.groups \in SUBSET Tokens /\ old.seen \in Sockets \cup {None}
      /\ old.then \in {"idle", "gather", "start"} /\ None \in Sockets \cup {None}
      /\ old.at \in {"snap", "initial"} => old.seen \in Sockets
  BY <1>0 DEF HandlerType, Handlers
<1>b. ASSUME NEW where \in Steps, NEW groups \in SUBSET Tokens, NEW n \in Sockets \cup {None},
             where \in {"snap", "initial"} => n \in Sockets, MovesTo(r, where, groups, n)
      PROVE  \E x \in HandlerType : req' = [req EXCEPT ![r] = x]
  <2>1. req' = [req EXCEPT ![r] = Moved(where, groups, n)]
    BY <1>b DEF MovesTo, Moved
  <2> QED  BY <1>b, <2>1, MovedTyped
<1>2. GoesOn(r) => \E x \in HandlerType : req' = [req EXCEPT ![r] = x]
  <2>1. old.then \in Steps /\ old.then \notin {"snap", "initial"}
    BY <1>a DEF Steps
  <2> QED  BY <1>a, <1>b, <2>1 DEF GoesOn
<1>3. ASSUME NEW L \in SUBSET Tokens, NEW added \in SUBSET Tokens, NEW then \in {"idle", "gather", "start"},
             Begins(r, L, added, then)
      PROVE  \E x \in HandlerType : req' = [req EXCEPT ![r] = x]
  <2>1. [at |-> "release", removed |-> L, groups |-> added, then |-> then, seen |-> None]
          \in HandlerType
    BY DEF HandlerType, Handlers, Steps
  <2> QED  BY <1>3, <2>1 DEF Begins
<1>4. ASSUME NEW S \in SUBSET Tokens, Subscribe(r, S)
      PROVE  \E x \in HandlerType : req' = [req EXCEPT ![r] = x]
  <2>1. /\ ChainLeaves(S) \in SUBSET Tokens
        /\ tokens' \ (tokens \ ChainLeaves(S)) \in SUBSET Tokens 
    BY <1>0 DEF ChainLeaves
  <2> QED  BY <1>3, <1>4, <2>1 DEF Subscribe
<1>5. ASSUME NEW S \in SUBSET Tokens, NEW given \in BOOLEAN, SetBasketTokens(r, S, given)
      PROVE  \E x \in HandlerType : req' = [req EXCEPT ![r] = x]
  <2> DEFINE added == tokens' \ (tokens \ BasketLeaves(S))
             then == CASE added # {} -> "start" [] added = {} /\ conn = None -> "gather"
                       [] OTHER -> "idle"
  <2>1. BasketLeaves(S) \in SUBSET Tokens /\ added \in SUBSET Tokens
    BY <1>0 DEF BasketLeaves
  <2>2. Begins(r, BasketLeaves(S), added, then)
    BY <1>5 DEF SetBasketTokens
  <2> HIDE DEF added
  <2>3. then \in {"idle", "gather", "start"}
    <3>1. CASE added # {}
      BY <3>1
    <3>2. CASE added = {} /\ conn = None
      BY <3>2
    <3>3. CASE added = {} /\ conn # None
      BY <3>3
    <3> QED  BY <3>1, <3>2, <3>3
  <2> HIDE DEF then
  <2> QED  BY <1>3, <2>1, <2>2, <2>3
<1>6. ASSUME NEW S \in SUBSET Tokens,
             Subscribe(r, S) \/ \E given \in BOOLEAN : SetBasketTokens(r, S, given)
      PROVE  UNCHANGED <<sockVars, viewVars>> /\ creds' \in BOOLEAN
  BY <1>6 DEF Subscribe, SetBasketTokens
<1>7. CASE ReadsToRelease(r)
  <2>1. [old EXCEPT !.seen = conn, !.at = "drop"] \in HandlerType
    BY <1>0 DEF HandlerType, Handlers, Steps
  <2>2. /\ UNCHANGED <<sockVars, viewVars, creds>>
        /\ GoesOn(r) \/ req' = [req EXCEPT ![r] = [old EXCEPT !.seen = conn, !.at = "drop"]]
    BY <1>0, <1>7 DEF ReadsToRelease
  <2> QED  BY <1>0, <1>2, <2>1, <2>2 DEF sockVars
<1>8. CASE Releases(r)
  <2>1. /\ UNCHANGED <<conn, sock, reading, viewVars, creds>> /\ GoesOn(r)
        /\ told' = IF WritesOn(r, old.seen) THEN [told EXCEPT ![old.seen] = @ \ old.removed]
                   ELSE told
    BY <1>8 DEF Releases
  <2>2. told' \in [Sockets -> SUBSET Tokens]
    BY <1>0, <2>1
  <2> QED  BY <1>0, <1>2, <2>1, <2>2
<1>9. CASE Gathers(r) \/ Snaps(r)
  <2>1. UNCHANGED <<sockVars, viewVars, creds>>
    BY <1>9 DEF Gathers, Snaps
  <2>2. \/ MovesTo(r, "start", tokens, None)
        \/ old.seen \in Sockets /\ MovesTo(r, "initial", tokens, old.seen)
    BY <1>a, <1>9 DEF Gathers, Snaps, At
  <2>3. "start" \in Steps /\ "initial" \in Steps
    BY DEF Steps
  <2>4. \E x \in HandlerType : req' = [req EXCEPT ![r] = x]
    BY <1>0, <1>a, <1>b, <2>2, <2>3
  <2> QED  BY <1>0, <2>1, <2>4 DEF sockVars
<1>10. CASE Starts(r)
  <2>1. UNCHANGED <<sockVars, viewVars, creds>>
    BY <1>10 DEF Starts
  <2>2. MovesTo(r, "dial", {}, None) \/ MovesTo(r, "send", old.groups, conn)
    BY <1>10 DEF Starts
  <2>3. "dial" \in Steps /\ "send" \in Steps /\ {} \in SUBSET Tokens
    BY DEF Steps
  <2>4. \E x \in HandlerType : req' = [req EXCEPT ![r] = x]
    BY <1>0, <1>a, <1>b, <2>2, <2>3
  <2> QED  BY <1>0, <2>1, <2>4 DEF sockVars
<1>11. CASE Sends(r)
  <2>1. /\ UNCHANGED <<conn, sock, viewVars, creds>> /\ req' = [req EXCEPT ![r] = Idle]
        /\ told' = IF WritesOn(r, old.seen) THEN [told EXCEPT ![old.seen] = @ \cup old.groups]
                   ELSE told
    BY <1>11 DEF Sends, Done
  <2>2. told' \in [Sockets -> SUBSET Tokens]
    BY <1>0, <2>1 DEF HandlerType, Handlers
  <2>3. reading' \subseteq Sockets
    BY <1>0, <1>11 DEF Sends, At, HandlerType, Handlers
  <2> QED  BY <1>0, <1>1, <2>1, <2>2, <2>3
<1>12. ASSUME NEW n \in Sockets, Dialed(r, n)
       PROVE  /\ \E x \in HandlerType : req' = [req EXCEPT ![r] = x]
              /\ conn' = n /\ sock' = [sock EXCEPT ![n] = "open"]
              /\ UNCHANGED <<reading, told, viewVars, creds>>
  <2>1. "snap" \in Steps /\ {} \in SUBSET Tokens /\ n \in Sockets \cup {None}
    BY DEF Steps
  <2>2. MovesTo(r, "snap", {}, n)
    BY <1>12 DEF Dialed
  <2> QED  BY <1>b, <1>12, <2>1, <2>2 DEF Dialed
<1>13. CASE DialFailed(r)
  BY <1>0, <1>1, <1>13 DEF DialFailed, Done, sockVars
<1> QED  BY <1>0, <1>4, <1>5, <1>6, <1>7, <1>8, <1>9, <1>10, <1>11, <1>12, <1>13 DEF HandlerNext, sockVars

\* Every step of the feed keeps the types.
LEMMA GoTypesStay == GoTyped /\ [FeedNext]_feedVars => GoTyped'
<1> SUFFICES ASSUME GoTyped, [FeedNext]_feedVars PROVE GoTyped'
  OBVIOUS
<1>0. UnionTypeOK /\ UnionTypeOK'
  BY UnionTyped, GoStepsUnion DEF GoTyped, FeedTypeOK, UnionNext
<1>1. ASSUME NEW r \in Requests, HandlerNext(r) PROVE GoTyped'
  BY <1>0, <1>1, GoHandlerTyped
<1>2. ASSUME NEW v \in Viewers, AddClient(v) \/ RemoveClient(v) PROVE GoTyped'
  BY <1>0, <1>2 DEF AddClient, RemoveClient, sockVars, feedHistory, GoTyped, FeedTypeOK
<1>3. ASSUME NEW v \in Viewers, CloseUpstream(v) PROVE GoTyped'
  <2>1. InHands(Requests) \subseteq Tokens
    BY DEF GoTyped, HandlerType, Handlers, InHands
  <2>2. /\ conn' = None /\ creds' = FALSE /\ leaving' = leaving \ {v}
        /\ crossed' = InHands(Requests) /\ UNCHANGED <<reading, viewers, req, rivalled>>
        /\ sock' = IF conn = None THEN sock ELSE [sock EXCEPT ![conn] = "dead"]
        /\ told' = IF conn = None THEN told ELSE [told EXCEPT ![conn] = {}]
    BY <1>3 DEF CloseUpstream
  <2>3. /\ sock' \in [Sockets -> {"unused", "open", "dead"}]
        /\ told' \in [Sockets -> SUBSET Tokens]
    BY <2>2 DEF GoTyped, FeedTypeOK
  <2> QED  BY <1>0, <2>1, <2>2, <2>3 DEF GoTyped, FeedTypeOK
<1>4. ASSUME NEW n \in Sockets, SocketDies(n) \/ ReadLoopEnds(n) PROVE GoTyped'
  BY <1>0, <1>4 DEF SocketDies, ReadLoopEnds, viewVars, feedHistory, GoTyped, FeedTypeOK
<1>5. CASE UNCHANGED feedVars
  BY <1>0, <1>5 DEF feedVars, sockVars, viewVars, feedHistory, GoTyped, FeedTypeOK
<1> QED  BY <1>1, <1>2, <1>3, <1>4, <1>5 DEF FeedNext

\* The Go feed's state has its type: its union never exceeds the cap, however many
\* handlers merge into it at once (feed.go).
THEOREM GoFeedTypes == FeedSpec => []FeedTypeOK
<1>1. FeedInit => GoTyped
  <2>1. Idle \in HandlerType
    BY DEF Idle, HandlerType, Handlers, Steps
  <2>2. HandlerType \subseteq [at : Steps, removed : SUBSET Tokens, groups : SUBSET Tokens,
                               then : Steps, seen : Sockets \cup {None}]
    BY DEF HandlerType, Handlers, Steps
  <2> HIDE DEF HandlerType
  <2> QED  BY <2>1, <2>2, UnionBegins DEF FeedInit, FeedTypeOK, GoTyped
<1>2. GoTyped => FeedTypeOK
  BY DEF GoTyped
<1> QED  BY <1>1, <1>2, GoTypesStay, PTL DEF FeedSpec
=============================================================================
