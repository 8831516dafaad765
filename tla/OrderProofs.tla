------------------------------ MODULE OrderProofs ------------------------------
(***************************************************************************)
(* Proofs about orders: the rows of an Angel basket tell what the broker   *)
(* has (AngelBasket), a Zerodha session is stored under its own user and a *)
(* basket sends one order per leg at most (ZerodhaDesk), and no leg is     *)
(* under way twice (OrderTicket).                                          *)
(*                                                                         *)
(* BasketCore counts the sessions that have ended, DeskCore follows every  *)
(* token to its owner, TicketCore ties placements to the basket on screen. *)
(***************************************************************************)
EXTENDS AngelBasket, ZerodhaDesk, OrderTicket, TLAPS
-----------------------------------------------------------------------------
(* Angel: one basket (AngelBasket) *)

Limit == IF Legs < MaxLegs THEN Legs ELSE MaxLegs
Again == {"relogin", "rerms", "retry"}

\* The rows reported so far are those of the legs before the one being placed, and
\* the broker holds one order for each that reads "placed" and none for any other.
RowsTrue ==
  /\ next \in 1 .. Limit + 1
  /\ at \in Again => next \in Placed \ Invalid
  /\ at = "done" => next \notin Placed
  /\ \A l \in 1 .. Legs : book[l] = IF l < next /\ results[l] = "placed" THEN 1 ELSE 0

\* The basket logs in again at most once, with a token in hand.
OneRelogin ==
  /\ at \in Again \cup {"probe", "place"} => jwt # NoJwt
  /\ at \in {"rms", "rerms"} => fresh \in Jwts
  /\ at \in {"begin", "probe", "login", "rms", "relogin", "rerms"} => ~relogged
  /\ at = "retry" => relogged

\* As long as the calls get through, a token that the broker does not honour is one
\* whose session has ended: the basket logs in again after one such end, and fails a
\* valid leg after two.
EndsCounted ==
  /\ jwt # NoJwt => jwt \in honoured \/ expired >= 1
  /\ lost = 0 =>
       /\ at \in Again \/ relogged => expired >= 1
       /\ at = "rerms" => fresh \in honoured \/ expired >= 2
       /\ relogged => jwt \in honoured \/ expired >= 2
       /\ \A l \in DOMAIN results \ Invalid : results[l] = "error" => expired >= 2

BasketCore == BasketTypeOK /\ RowsTrue /\ OneRelogin /\ EndsCounted

Verdicts == {"placed", "rejected", "error"}

\* A row is the last of the results; the rows before it stay.
LEMMA RowIsLast ==
  ASSUME BasketTypeOK, NEW row \in Verdicts, Reported(row)
  PROVE  /\ results' \in Seq(Verdicts) /\ Len(results') = next /\ next' = next + 1
         /\ next \in Nat \ {0} /\ DOMAIN results' = 1 .. next /\ DOMAIN results = 1 .. next - 1
         /\ results'[next] = row /\ \A l \in 1 .. next - 1 : results'[l] = results[l]
<1>1. results \in Seq(Verdicts) /\ Len(results) \in Nat /\ next = Len(results) + 1
      /\ results' = Append(results, row) /\ next' = next + 1
  BY DEF BasketTypeOK, Reported, Verdicts
<1>2. results' \in Seq(Verdicts) /\ Len(results') = Len(results) + 1
      /\ results'[Len(results) + 1] = row
      /\ \A l \in 1 .. Len(results) : results'[l] = results[l]
  BY <1>1
<1> QED  BY <1>1, <1>2

\* What a report adds to the rows: the next leg's, which the broker's book must bear out.
LEMMA ReportKeeps ==
  ASSUME BasketTypeOK, RowsTrue, next \in Placed,
         NEW row \in Verdicts, Reported(row),
         book' \in [1 .. Legs -> Nat],
         book'[next] = IF row = "placed" THEN 1 ELSE 0,
         \A l \in 1 .. Legs : l # next => book'[l] = book[l]
  PROVE  RowsTrue'
<1>1. /\ next' = next + 1 /\ next \in 1 .. Limit /\ Limit \in Nat /\ Limit <= Legs /\ Legs \in Nat
      /\ results'[next] = row /\ \A l \in 1 .. next - 1 : results'[l] = results[l]
  BY RowIsLast, BasketAssumption DEF Placed, Limit
<1>2. next' \in 1 .. Limit + 1
  BY <1>1
<1>3. at' = "place"
  BY DEF Reported
<1>4. ASSUME NEW l \in 1 .. Legs
      PROVE  book'[l] = IF l < next' /\ results'[l] = "placed" THEN 1 ELSE 0
  <2>1. CASE l = next
    BY <1>1, <2>1
  <2>2. CASE l < next
    BY <1>1, <2>2 DEF RowsTrue
  <2>3. CASE l > next
    BY <1>1, <2>3 DEF RowsTrue
  <2> QED  BY <1>1, <2>1, <2>2, <2>3
<1> QED  BY <1>2, <1>3, <1>4 DEF RowsTrue, Again

\* An answer for the next leg is true to the book, unless an answer may be lost.
LEMMA AnswersTrue ==
  ASSUME BasketTypeOK, RowsTrue, ~LostAnswers, at \in {"place", "retry"},
         next \in Placed \ Invalid, NEW throws, Answers(throws),
         throws => Reported("error") \/ (at' = "relogin" /\ UNCHANGED <<next, results>>)
  PROVE  /\ RowsTrue' /\ book' \in [1 .. Legs -> Nat]
         /\ \/ jwt \in honoured /\ UNCHANGED lost /\ (Reported("placed") \/ Reported("rejected"))
            \/ throws /\ FailsWith(jwt)
<1>0. next \in 1 .. Legs /\ book[next] = 0 /\ book \in [1 .. Legs -> Nat]
  BY BasketAssumption DEF Placed, RowsTrue, BasketTypeOK
<1>1. CASE jwt \in honoured /\ Acts /\ Reported("placed")
  <2>1. /\ book' \in [1 .. Legs -> Nat] /\ book'[next] = 1
        /\ \A l \in 1 .. Legs : l # next => book'[l] = book[l]
    BY <1>0, <1>1 DEF Acts
  <2> QED  BY <1>1, <2>1, ReportKeeps DEF Verdicts, Acts
<1>2. CASE jwt \in honoured /\ Reported("rejected") /\ UNCHANGED <<book, lost>>
  BY <1>0, <1>2, ReportKeeps DEF Verdicts
<1>3. CASE FailsWith(jwt) /\ throws /\ UNCHANGED book
  <2>1. CASE Reported("error")
    BY <1>0, <1>3, <2>1, ReportKeeps DEF Verdicts
  <2>2. CASE at' = "relogin" /\ UNCHANGED <<next, results>>
    BY <1>0, <1>3, <2>2 DEF RowsTrue, Again
  <2> QED  BY <1>3, <2>1, <2>2
<1> QED  BY <1>1, <1>2, <1>3 DEF Answers

\* A row that reads "error" for a valid leg has two ended sessions behind it.
LEMMA RowCounted ==
  ASSUME BasketCore, NEW row \in Verdicts, Reported(row), lost' = 0 => lost = 0,
         lost' = 0 /\ row = "error" /\ next \notin Invalid => expired >= 2
  PROVE  lost' = 0 => \A l \in DOMAIN results' \ Invalid : results'[l] = "error" => expired >= 2
<1> SUFFICES ASSUME lost' = 0, NEW l \in DOMAIN results' \ Invalid, results'[l] = "error"
             PROVE  expired >= 2
  OBVIOUS
<1>1. /\ DOMAIN results' = 1 .. next /\ DOMAIN results = 1 .. next - 1 /\ next \in Nat \ {0}
      /\ results'[next] = row /\ \A m \in 1 .. next - 1 : results'[m] = results[m]
  BY RowIsLast DEF BasketCore
<1>2. CASE l = next
  BY <1>1, <1>2
<1>3. CASE l \in 1 .. next - 1
  BY <1>1, <1>3 DEF BasketCore, EndsCounted
<1> QED  BY <1>1, <1>2, <1>3

\* Calls that fail are counted; a token that is refused is one that has ended.
LEMMA FailsCounted ==
  ASSUME BasketTypeOK, NEW t \in Jwts \cup {NoJwt}, FailsWith(t)
  PROVE  /\ lost' \in 0 .. Losses /\ (lost' = 0 => lost = 0)
         /\ lost' = 0 => t \notin honoured \cup {NoJwt}
  BY BasketAssumption DEF BasketTypeOK, FailsWith

\* The types hold after every step when no answer is lost.
LEMMA BasketTyped ==
  ASSUME BasketTypeOK, [BasketNext]_basketVars, RowsTrue, ~LostAnswers,
         at \in {"rms", "rerms"} => fresh \in Jwts
  PROVE  BasketTypeOK'
<1> USE DEF inUse, broker
<1>1. ASSUME NEW row \in Verdicts, Reported(row)
      PROVE  results' \in Seq(Verdicts) /\ next' = Len(results') + 1 /\ at' = "place"
  BY <1>1, RowIsLast DEF Reported
<1>2. CASE SessionOrLogin
  BY <1>2 DEF SessionOrLogin, BasketTypeOK
<1>3. CASE Probes
  BY <1>3, FailsCounted DEF Probes, BasketTypeOK, FailsWith
<1>4. CASE at = "login" /\ PasswordLogin("rms", LoginFails)
  BY <1>4, FailsCounted DEF PasswordLogin, LoginFails, BasketTypeOK
<1>5. CASE at = "rms" /\ ProbesLogin("place", relogged, LoginFails)
  BY <1>5, FailsCounted DEF ProbesLogin, TakesOver, LoginFails, BasketTypeOK
<1>6. CASE at = "relogin" /\ PasswordLogin("rerms", Reported("error"))
  BY <1>1, <1>6, FailsCounted DEF PasswordLogin, BasketTypeOK, Verdicts
<1>7. CASE at = "rerms" /\ ProbesLogin("retry", TRUE, Reported("error"))
  BY <1>1, <1>7, FailsCounted DEF ProbesLogin, TakesOver, BasketTypeOK, Verdicts
<1>8. ASSUME NEW throws, Answers(throws), at \in {"place", "retry"}, next \in Placed \ Invalid,
             throws => Reported("error") \/ (at' = "relogin" /\ UNCHANGED <<next, results>>),
             UNCHANGED <<inUse, honoured, expired>>
      PROVE  BasketTypeOK'
  <2>1. /\ book' \in [1 .. Legs -> Nat]
        /\ \/ UNCHANGED lost /\ (Reported("placed") \/ Reported("rejected"))
           \/ throws /\ FailsWith(jwt)
    BY <1>8, AnswersTrue
  <2>2. lost' \in 0 .. Losses
    BY <2>1, FailsCounted DEF BasketTypeOK
  <2>3. \/ at' = "place" /\ results' \in Seq(Verdicts) /\ next' = Len(results') + 1
        \/ at' = "relogin" /\ UNCHANGED <<next, results>>
    BY <1>1, <1>8, <2>1 DEF Verdicts
  <2> QED  BY <1>8, <2>1, <2>2, <2>3 DEF BasketTypeOK, Verdicts
<1>9. CASE PlaceOrder \/ PlaceAgain
  BY <1>8, <1>9 DEF PlaceOrder, PlaceAgain, RowsTrue, Again
<1>10. CASE SkipInvalid
  BY <1>1, <1>10 DEF SkipInvalid, BasketTypeOK, Verdicts
<1>11. CASE Finishes \/ Ended \/ UNCHANGED basketVars
  BY <1>11 DEF Finishes, Ended, basketVars, BasketTypeOK
<1>12. ASSUME NEW t \in Jwts, SessionEnds(t) PROVE BasketTypeOK'
  BY <1>12, BasketAssumption DEF SessionEnds, BasketTypeOK
<1> QED  BY <1>2, <1>3, <1>4, <1>5, <1>6, <1>7, <1>9, <1>10, <1>11, <1>12 DEF BasketNext

\* The rows and the ends of sessions, step by step.
LEMMA BasketStays == ~LostAnswers /\ BasketCore /\ [BasketNext]_basketVars => BasketCore'
<1> SUFFICES ASSUME ~LostAnswers, BasketCore, [BasketNext]_basketVars PROVE BasketCore'
  OBVIOUS
<1> USE DEF inUse, broker
<1>0. BasketTypeOK /\ RowsTrue /\ OneRelogin /\ EndsCounted /\ BasketTypeOK'
  BY BasketTyped DEF BasketCore, OneRelogin
<1>1. ASSUME Reported("error"), next \in Placed, UNCHANGED <<book>> PROVE RowsTrue'
  <2>1. book' \in [1 .. Legs -> Nat] /\ book'[next] = 0
    BY <1>0, <1>1, BasketAssumption DEF BasketTypeOK, RowsTrue, Placed
  <2> QED  BY <1>0, <1>1, <2>1, ReportKeeps DEF Verdicts
<1>2. ASSUME UNCHANGED <<next, results, book>>, at' \notin Again \cup {"done"} PROVE RowsTrue'
  BY <1>0, <1>2 DEF RowsTrue
<1>3. CASE SessionOrLogin
  BY <1>0, <1>2, <1>3 DEF SessionOrLogin, BasketCore, OneRelogin, EndsCounted, Again
<1>4. CASE Probes
  <2>1. RowsTrue'
    BY <1>2, <1>4 DEF Probes, Again
  <2> QED  BY <1>0, <1>4, <2>1, FailsCounted DEF Probes, BasketCore, BasketTypeOK, OneRelogin, EndsCounted, Again
<1>5. CASE at = "login" /\ PasswordLogin("rms", LoginFails)
  <2>1. RowsTrue'
    BY <1>2, <1>5 DEF PasswordLogin, LoginFails, Again
  <2> QED  BY <1>0, <1>5, <2>1, FailsCounted
           DEF PasswordLogin, LoginFails, BasketCore, BasketTypeOK, OneRelogin, EndsCounted, Again
<1>6. CASE at = "rms" /\ ProbesLogin("place", relogged, LoginFails)
  <2>1. RowsTrue'
    BY <1>2, <1>6 DEF ProbesLogin, LoginFails, Again
  <2> QED  BY <1>0, <1>6, <2>1, FailsCounted, BasketAssumption
           DEF ProbesLogin, TakesOver, LoginFails, BasketCore, BasketTypeOK, OneRelogin, EndsCounted, Again
<1>7. CASE at = "relogin" /\ PasswordLogin("rerms", Reported("error"))
  <2>0. next \in Placed \ Invalid /\ UNCHANGED <<jwt, relogged, expired, book>> /\ ~relogged
    BY <1>0, <1>7 DEF PasswordLogin, RowsTrue, OneRelogin, Again
  <2>1. CASE at' = "rerms" /\ fresh' \in honoured' /\ UNCHANGED <<lost, next, results>>
             /\ honoured \subseteq honoured' /\ fresh' \in Jwts
    BY <1>0, <1>7, <2>0, <2>1 DEF BasketCore, BasketTypeOK, RowsTrue, OneRelogin, EndsCounted, Again
  <2>2. CASE FailsWith(NoJwt) /\ Reported("error") /\ UNCHANGED honoured
    <3>1. lost' # 0 /\ at' = "place"
      BY <1>0, <2>2, FailsCounted DEF Reported
    <3> QED  BY <1>0, <1>1, <1>7, <2>0, <2>2, <3>1 DEF BasketCore, OneRelogin, EndsCounted, Again
  <2> QED  BY <1>7, <2>1, <2>2 DEF PasswordLogin
<1>8. CASE at = "rerms" /\ ProbesLogin("retry", TRUE, Reported("error"))
  <2>0. next \in Placed \ Invalid /\ UNCHANGED <<honoured, expired, book>> /\ ~relogged /\ fresh \in Jwts
        /\ jwt # NoJwt
    BY <1>0, <1>8 DEF ProbesLogin, RowsTrue, OneRelogin, Again
  <2>1. CASE fresh \in honoured /\ at' = "retry" /\ jwt' = fresh /\ relogged'
             /\ UNCHANGED <<lost, next, results>>
    BY <1>0, <1>8, <2>0, <2>1, BasketAssumption
    DEF BasketCore, RowsTrue, OneRelogin, EndsCounted, Again
  <2>2. CASE FailsWith(fresh) /\ Reported("error") /\ UNCHANGED <<jwt, relogged>>
    <3>1. at' = "place" /\ (lost' = 0 => lost = 0 /\ expired >= 2)
      BY <1>0, <1>8, <2>0, <2>2, FailsCounted DEF Reported, EndsCounted
    <3>2. lost' = 0 => \A l \in DOMAIN results' \ Invalid : results'[l] = "error" => expired >= 2
      BY <2>2, <3>1, RowCounted DEF Verdicts
    <3> QED  BY <1>0, <1>1, <1>8, <2>0, <2>2, <3>1, <3>2 DEF BasketCore, OneRelogin, EndsCounted, Again
  <2> QED  BY <1>8, <2>1, <2>2 DEF ProbesLogin, TakesOver
<1>9. CASE PlaceOrder
  <2>0. at = "place" /\ next \in Placed \ Invalid /\ UNCHANGED <<inUse, honoured, expired>> /\ jwt # NoJwt
    BY <1>0, <1>9 DEF PlaceOrder, OneRelogin
  <2>1. CASE relogged
    <3>1. Answers(Reported("error"))
      BY <1>9, <2>1 DEF PlaceOrder
    <3>2. /\ RowsTrue'
          /\ \/ jwt \in honoured /\ UNCHANGED lost /\ (Reported("placed") \/ Reported("rejected"))
             \/ Reported("error") /\ FailsWith(jwt)
      BY <1>0, <2>0, <3>1, AnswersTrue
    <3>3. CASE UNCHANGED lost /\ (Reported("placed") \/ Reported("rejected"))
      <4>1. lost' = 0 => \A l \in DOMAIN results' \ Invalid : results'[l] = "error" => expired >= 2
        BY <3>3, RowCounted DEF Verdicts
      <4>2. at' = "place"
        BY <3>3 DEF Reported
      <4> QED  BY <1>0, <2>0, <2>1, <3>2, <3>3, <4>1, <4>2 DEF BasketCore, OneRelogin, EndsCounted, Again
    <3>4. CASE Reported("error") /\ FailsWith(jwt)
      <4>1. at' = "place" /\ (lost' = 0 => lost = 0 /\ expired >= 2)
        BY <1>0, <2>0, <2>1, <3>4, FailsCounted DEF Reported, EndsCounted, BasketTypeOK
      <4>2. lost' = 0 => \A l \in DOMAIN results' \ Invalid : results'[l] = "error" => expired >= 2
        BY <3>4, <4>1, RowCounted DEF Verdicts
      <4> QED  BY <1>0, <2>0, <2>1, <3>2, <4>1, <4>2 DEF BasketCore, OneRelogin, EndsCounted, Again
    <3> QED  BY <3>2, <3>3, <3>4
  <2>2. CASE ~relogged
    <3>1. Answers(at' = "relogin" /\ UNCHANGED <<next, results>>)
      BY <1>9, <2>2 DEF PlaceOrder
    <3>2. /\ RowsTrue'
          /\ \/ jwt \in honoured /\ UNCHANGED lost /\ (Reported("placed") \/ Reported("rejected"))
             \/ at' = "relogin" /\ UNCHANGED <<next, results>> /\ FailsWith(jwt)
      BY <1>0, <2>0, <3>1, AnswersTrue
    <3>3. CASE UNCHANGED lost /\ (Reported("placed") \/ Reported("rejected"))
      <4>1. lost' = 0 => \A l \in DOMAIN results' \ Invalid : results'[l] = "error" => expired >= 2
        BY <3>3, RowCounted DEF Verdicts
      <4>2. at' = "place"
        BY <3>3 DEF Reported
      <4> QED  BY <1>0, <2>0, <2>2, <3>2, <3>3, <4>1, <4>2 DEF BasketCore, OneRelogin, EndsCounted, Again
    <3>4. CASE at' = "relogin" /\ UNCHANGED <<next, results>> /\ FailsWith(jwt)
      <4>1. lost' = 0 => lost = 0 /\ expired >= 1
        BY <1>0, <2>0, <3>4, FailsCounted DEF EndsCounted, BasketTypeOK
      <4> QED  BY <1>0, <2>0, <2>2, <3>2, <3>4, <4>1 DEF BasketCore, OneRelogin, EndsCounted, Again
    <3> QED  BY <3>2, <3>3, <3>4
  <2> QED  BY <2>1, <2>2
<1>10. CASE PlaceAgain
  <2>0. at = "retry" /\ next \in Placed \ Invalid /\ UNCHANGED <<inUse, honoured, expired>>
        /\ jwt # NoJwt /\ relogged /\ Answers(Reported("error"))
    BY <1>0, <1>10 DEF PlaceAgain, OneRelogin, RowsTrue, Again
  <2>1. /\ RowsTrue'
        /\ \/ jwt \in honoured /\ UNCHANGED lost /\ (Reported("placed") \/ Reported("rejected"))
           \/ Reported("error") /\ FailsWith(jwt)
    BY <1>0, <2>0, AnswersTrue
  <2>2. at' = "place"
    BY <2>1 DEF Reported
  <2>3. PICK row \in Verdicts : Reported(row) /\ (row = "error" => FailsWith(jwt)) /\ (row # "error" => UNCHANGED lost)
    BY <2>1 DEF Verdicts
  <2>4. (lost' = 0 => lost = 0) /\ (lost' = 0 /\ row = "error" => expired >= 2)
    BY <1>0, <2>0, <2>3, FailsCounted DEF EndsCounted, BasketTypeOK
  <2>5. lost' = 0 => \A l \in DOMAIN results' \ Invalid : results'[l] = "error" => expired >= 2
    BY <2>3, <2>4, RowCounted
  <2> QED  BY <1>0, <2>0, <2>1, <2>2, <2>4, <2>5 DEF BasketCore, OneRelogin, EndsCounted, Again
<1>11. CASE SkipInvalid
  <2>1. /\ Reported("error") /\ next \in Placed /\ next \in Invalid /\ at = "place" /\ at' = "place"
        /\ UNCHANGED <<inUse, broker>>
    BY <1>11 DEF SkipInvalid, Reported
  <2>2. lost' = 0 => \A l \in DOMAIN results' \ Invalid : results'[l] = "error" => expired >= 2
    BY <2>1, RowCounted DEF Verdicts
  <2> QED  BY <1>0, <1>1, <2>1, <2>2 DEF BasketCore, OneRelogin, EndsCounted, Again
<1>12. CASE Finishes
  BY <1>0, <1>12 DEF Finishes, BasketCore, RowsTrue, OneRelogin, EndsCounted, Again
<1>13. CASE Ended \/ UNCHANGED basketVars
  BY <1>0, <1>13 DEF Ended, basketVars, BasketCore, RowsTrue, OneRelogin, EndsCounted
<1>14. ASSUME NEW t \in Jwts, SessionEnds(t) PROVE BasketCore'
  <2>1. /\ expired' = expired + 1 /\ expired \in Nat /\ honoured' = honoured \ {t}
        /\ UNCHANGED <<at, inUse, next, results, lost, book>>
    BY <1>0, <1>14, BasketAssumption DEF SessionEnds, BasketTypeOK
  <2>2. (expired >= 1 => expired' >= 2) /\ (expired >= 2 => expired' >= 2) /\ expired' >= 1
    BY <2>1
  <2>3. RowsTrue' /\ OneRelogin'
    BY <1>0, <2>1 DEF RowsTrue, OneRelogin
  <2>4. EndsCounted'
    BY <1>0, <2>1, <2>2 DEF EndsCounted, Again
  <2> QED  BY <1>0, <2>3, <2>4 DEF BasketCore
<1> QED  BY <1>3, <1>4, <1>5, <1>6, <1>7, <1>8, <1>9, <1>10, <1>11, <1>12, <1>13, <1>14 DEF BasketNext

\* What the client is told of its basket is what has happened, as long as no answer is
\* lost: no leg is two orders, a row reads "placed" if and only if the broker has its
\* order, every leg within the limit has a row, and one session that dies costs none.
THEOREM BasketsAreTrue == ~LostAnswers => (BasketSpec => []BasketIsTrue)
<1>1. BasketInit => BasketCore
  <2> SUFFICES ASSUME BasketInit PROVE BasketCore
    OBVIOUS
  <2>1. BasketTypeOK
    <3>1. results \in Seq({"placed", "rejected", "error"}) /\ next = Len(results) + 1
      BY DEF BasketInit
    <3>2. book \in [1 .. Legs -> Nat] /\ expired \in 0 .. Expiries /\ lost \in 0 .. Losses
      BY BasketAssumption DEF BasketInit
    <3> QED  BY <3>1, <3>2, BasketAssumption DEF BasketInit, BasketTypeOK
  <2>2. RowsTrue
    <3>1. next \in 1 .. Limit + 1
      BY BasketAssumption DEF BasketInit, Limit
    <3> QED  BY <3>1 DEF BasketInit, RowsTrue, Again
  <2>3. OneRelogin /\ EndsCounted
    BY BasketAssumption DEF BasketInit, OneRelogin, EndsCounted, Again
  <2> QED  BY <2>1, <2>2, <2>3 DEF BasketCore
<1>2. BasketCore => BasketIsTrue
  <2> SUFFICES ASSUME BasketCore PROVE BasketIsTrue
    OBVIOUS
  <2>0. /\ next \in Nat \ {0} /\ Len(results) = next - 1 /\ DOMAIN results = 1 .. next - 1
        /\ Legs \in Nat /\ Limit \in Nat /\ Limit <= Legs /\ next <= Limit + 1
        /\ expired \in Nat
    BY BasketAssumption DEF BasketCore, BasketTypeOK, RowsTrue, Limit
  <2>1. OneOrderPerLeg
    BY DEF BasketCore, RowsTrue, OneOrderPerLeg
  <2>2. \A l \in 1 .. Len(results) : (results[l] = "placed") <=> (book[l] > 0)
    BY <2>0 DEF BasketCore, RowsTrue
  <2>3. at = "done" /\ Legs <= MaxLegs => Len(results) = Legs
    BY <2>0, BasketAssumption DEF BasketCore, RowsTrue, Limit, Placed
  <2>4. at = "done" /\ expired <= 1 /\ lost = 0
          => \A l \in DOMAIN results \ Invalid : results[l] # "error"
    BY <2>0 DEF BasketCore, EndsCounted
  <2> QED  BY <2>1, <2>2, <2>3, <2>4 DEF BasketIsTrue
<1>3. CASE LostAnswers
  BY <1>3
<1>4. CASE ~LostAnswers
  BY <1>1, <1>2, <1>4, BasketStays, PTL DEF BasketSpec
<1> QED  BY <1>3, <1>4

-----------------------------------------------------------------------------
(* Zerodha: sessions by user, and one basket (ZerodhaDesk) *)

Names == KiteUsers \cup {Blank}
Issued == 1 .. Len(owners)
IdleLogin == [at |-> "idle"]
LoginRecords ==
  [at : {"probe", "popup", "headless", "done", "store", "wait", "heard"}, row : Rows, page : Pages,
   asked : Names, name : Names, user : Names, held : Issued \cup {0}, again : BOOLEAN]
Redirects ==
  {[at |-> "none"], [at |-> "done"]} \cup [at : {"arrived"}, user : KiteUsers]
  \cup [at : {"minted"}, token : Issued]

\* The tokens that rows, the store, logins and callbacks hold are ones that Kite has issued,
\* a token about to be stored among them.
TokensIssued ==
  /\ owners \in Seq(KiteUsers) /\ alive \subseteq Issued /\ consented \subseteq KiteUsers
  /\ named \in [Rows -> Names] /\ saved \in [Rows -> Issued \cup {0}]
  /\ sessions \in [KiteUsers -> Issued \cup {0}]
  /\ flow \in [Flows -> LoginRecords \cup {IdleLogin}]
  /\ \A f \in Flows : flow[f].at = "store" => flow[f].held # 0
  /\ redirect \in [Flows -> Redirects]
  /\ window \in Flows \cup {Closed}

\* What is stored for a user is a session of that user.
SessionsHome == \A u \in KiteUsers : sessions[u] # 0 => Owner(sessions[u]) = u

Order == [leg : 1 .. Items, account : KiteUsers]

\* The orders are those of legs before the one the basket is at, one for each row that
\* reads TRUE, and there are none before every leg was found in the master.
BasketHome ==
  /\ basket \in {[at |-> "idle"]}
        \cup [at : {"resolve", "place", "refused", "answered"}, token : Issued,
              found : SUBSET (1 .. Items), leg : 1 .. Items + 1, rows : Seq(BOOLEAN)]
  /\ orders \in Seq(Order)
  /\ basket.at \in {"idle", "resolve", "refused"} => orders = << >>
  /\ basket.at = "resolve" => basket.leg = 1 /\ basket.rows = << >>
  /\ basket.at = "answered" => basket.leg = Items + 1
  /\ basket.at \in {"place", "answered"} =>
       /\ basket.found = 1 .. Items /\ Len(basket.rows) = basket.leg - 1
       /\ \A i \in DOMAIN orders : orders[i].leg < basket.leg
       /\ \A i, j \in DOMAIN orders : orders[i].leg = orders[j].leg => i = j
       /\ \A l \in 1 .. basket.leg - 1 :
            basket.rows[l] => \E i \in DOMAIN orders : orders[i].leg = l

DeskCore == TokensIssued /\ SessionsHome /\ BasketHome

Typed(logins) ==
  /\ logins \in [Flows -> LoginRecords \cup {IdleLogin}]
  /\ \A f \in Flows : logins[f].at = "store" => logins[f].held # 0

\* A token that was issued is some user's.
LEMMA OwnersKnown == TokensIssued => \A t \in Issued : Owner(t) \in KiteUsers
  BY DEF TokensIssued, Issued, Owner

\* A token that Kite issues leaves those issued before as they are.
LEMMA IssuedGrows ==
  ASSUME TokensIssued, NEW user \in KiteUsers, Issues(user)
  PROVE  /\ owners' \in Seq(KiteUsers) /\ alive' \subseteq Issued'
         /\ Issued \subseteq Issued' /\ Len(owners') \in Issued' /\ Len(owners') # 0
         /\ \A t \in Issued : owners'[t] = owners[t]
<1>1. /\ owners \in Seq(KiteUsers) /\ owners' = Append(owners, user) /\ Len(owners) \in Nat
      /\ alive' = alive \cup {Len(owners) + 1} /\ alive \subseteq Issued
  BY DEF TokensIssued, Issues
<1>2. /\ owners' \in Seq(KiteUsers) /\ Len(owners') = Len(owners) + 1
      /\ \A t \in 1 .. Len(owners) : owners'[t] = owners[t]
  BY <1>1
<1> DEFINE n == Len(owners)
<1>3. n \in Nat /\ 1 .. n \subseteq 1 .. n + 1 /\ n + 1 \in 1 .. n + 1 /\ n + 1 # 0
  BY <1>1
<1>4. Issued = 1 .. n /\ Issued' = 1 .. n + 1
  BY <1>2 DEF Issued
<1> HIDE DEF n
<1>5. n = Len(owners) /\ Len(owners') = n + 1 /\ alive' = alive \cup {n + 1}
  BY <1>1, <1>2 DEF n
<1> QED  BY <1>1, <1>2, <1>3, <1>4, <1>5

\* A login that is under way goes on to a stage other than the store.
LEMMA LoginMoves ==
  ASSUME TokensIssued, UNCHANGED owners, NEW f \in Flows, flow[f].at # "idle",
         NEW stage \in {"probe", "popup", "headless", "done", "wait", "heard"}, Stage(f, stage)
  PROVE  Typed(flow)'
<1>1. Issued' = Issued /\ LoginRecords' = LoginRecords
  BY DEF Issued, LoginRecords
<1>2. flow[f] \in LoginRecords /\ flow \in [Flows -> LoginRecords \cup {IdleLogin}]
  BY DEF TokensIssued, IdleLogin
<1>3. [flow[f] EXCEPT !.at = stage] \in LoginRecords
  BY <1>2 DEF LoginRecords
<1>4. flow' = [flow EXCEPT ![f] = [flow[f] EXCEPT !.at = stage]]
  BY DEF Stage
<1>5. flow' \in [Flows -> LoginRecords \cup {IdleLogin}]
  BY <1>2, <1>3, <1>4
<1>6. ASSUME NEW g \in Flows, flow'[g].at = "store" PROVE flow'[g].held # 0
  <2>1. CASE g = f
    <3>1. flow'[f].at = stage
      BY <1>2, <1>4 DEF LoginRecords
    <3> QED  BY <1>6, <2>1, <3>1
  <2>2. CASE g # f
    BY <1>2, <1>4, <1>6, <2>2 DEF TokensIssued
  <2> QED  BY <2>1, <2>2
<1> QED  BY <1>1, <1>5, <1>6 DEF Typed

\* Where nothing is said of the basket it stays, whatever tokens are issued.
LEMMA BasketWaits ==
  ASSUME BasketHome, Issued \subseteq Issued', UNCHANGED dealing
  PROVE  BasketHome'
  BY DEF BasketHome, dealing, Order

\* A login that has probed in vain goes on headless or with a popup, or is done.
LEMMA NextStepKnown ==
  ASSUME NEW page, NEW row, NEW user
  PROVE  NextStep(page, row, user) \in {"popup", "headless", "done"}
  BY DEF NextStep

\* A session is stored for its owner: what exchangeRequestToken's tail does.
LEMMA ExchangedHome ==
  ASSUME TokensIssued, SessionsHome, UNCHANGED owners, NEW t \in Issued, NEW row, Exchanged(t, row)
  PROVE  /\ SessionsHome' /\ named' \in [Rows -> Names] /\ sessions' \in [KiteUsers -> Issued \cup {0}]
<1>1. Owner(t) \in KiteUsers
  BY OwnersKnown
<1> QED  BY <1>1 DEF TokensIssued, SessionsHome, Exchanged, Owner, Names

\* So is one that a row has saved and a request brings along.
LEMMA RestoredHome ==
  ASSUME TokensIssued, SessionsHome, UNCHANGED owners, NEW t \in Issued,
         sessions' = [sessions EXCEPT ![Owner(t)] = t]
  PROVE  SessionsHome' /\ sessions' \in [KiteUsers -> Issued \cup {0}]
<1>1. Owner(t) \in KiteUsers
  BY OwnersKnown
<1> QED  BY <1>1 DEF TokensIssued, SessionsHome, Owner

-----------------------------------------------------------------------------
\* A request that brings a saved token stores it under the user it was issued to.
LEMMA AsksHome ==
  ASSUME TokensIssued, SessionsHome, NEW f \in Flows, NEW row \in Rows, NEW page \in Pages,
         NEW asked \in Names, NEW name \in Names, NEW again \in BOOLEAN,
         Asks(f, row, page, asked, name, again)
  PROVE  TokensIssued' /\ SessionsHome'
<1> DEFINE sent == IF SendsSaved(page) THEN saved[row] ELSE 0
           user == IF sent # 0 THEN Owner(sent) ELSE name
           store == IF sent # 0 THEN [sessions EXCEPT ![user] = sent] ELSE sessions
           existing == IF user = Blank THEN 0 ELSE store[user]
           next2 == NextStep(page, row, IF name # Blank THEN name ELSE user)
           record == [at |-> IF existing # 0 THEN "probe" ELSE next2,
                      row |-> row, page |-> page, asked |-> asked, name |-> name, user |-> user,
                      held |-> existing, again |-> again]
<1>0. sessions' = store /\ flow' = [flow EXCEPT ![f] = record]
      /\ UNCHANGED <<named, saved, kite, popups, dealing>>
  BY DEF Asks
<1>1. sent \in Issued \cup {0} /\ user \in Names
  BY OwnersKnown DEF TokensIssued, Names
<1>2. store \in [KiteUsers -> Issued \cup {0}]
      /\ \A u \in KiteUsers : store[u] # 0 => Owner(store[u]) = u
  BY <1>1, OwnersKnown DEF TokensIssued, SessionsHome
<1>3. existing \in Issued \cup {0}
  BY <1>1, <1>2 DEF Names
<1>4. next2 \in {"popup", "headless", "done"}
  BY NextStepKnown
<1> HIDE DEF sent, user, store, existing, next2
<1>5. record \in LoginRecords /\ record.at # "store"
  BY <1>1, <1>3, <1>4 DEF LoginRecords
<1> HIDE DEF record
<1>6. flow' \in [Flows -> LoginRecords \cup {IdleLogin}]
      /\ \A g \in Flows : flow'[g].at = "store" => flow'[g].held # 0
  BY <1>0, <1>5 DEF TokensIssued
<1>7. UNCHANGED <<owners, alive, consented, redirect, window, named, saved>>
  BY <1>0 DEF kite, popups
<1>8. Issued' = Issued /\ LoginRecords' = LoginRecords /\ Redirects' = Redirects
  BY <1>7 DEF Issued, LoginRecords, Redirects
<1> QED  BY <1>0, <1>2, <1>6, <1>7, <1>8 DEF TokensIssued, SessionsHome, Owner

\* What the pages, the popup and Kite do to the sessions and the logins.
LEMMA DeskHome ==
  ASSUME TokensIssued, SessionsHome, BasketHome, [DeskNext]_deskVars
  PROVE  TokensIssued' /\ SessionsHome' /\ Issued \subseteq Issued'
<1> USE DEF desk, kite, popups, dealing
<1>0. UNCHANGED owners => Issued' = Issued /\ LoginRecords' = LoginRecords /\ Redirects' = Redirects
  BY DEF Issued, LoginRecords, Redirects
<1>1. ASSUME NEW f \in Flows, flow[f].at # "idle" PROVE flow[f] \in LoginRecords
  BY <1>1 DEF TokensIssued, IdleLogin
<1>2. ASSUME NEW f \in Flows, flow[f].at # "idle"
      PROVE  /\ flow[f].row \in Rows /\ flow[f].page \in Pages /\ flow[f].asked \in Names
             /\ flow[f].name \in Names /\ flow[f].user \in Names /\ flow[f].held \in Issued \cup {0}
             /\ flow[f].again \in BOOLEAN
  BY <1>1, <1>2 DEF LoginRecords
<1>3. ASSUME NEW f \in Flows, NEW row \in Rows, NEW page \in Pages, LogsIn(f, row, page)
      PROVE  TokensIssued' /\ SessionsHome' /\ Issued \subseteq Issued'
  <2>1. named[row] \in Names
    BY DEF TokensIssued
  <2> QED  BY <1>0, <1>3, <2>1, AsksHome DEF LogsIn, Asks
<1>4. ASSUME NEW f \in Flows, AsksAgain(f)
      PROVE  TokensIssued' /\ SessionsHome' /\ Issued \subseteq Issued'
  <2>1. /\ flow[f].row \in Rows /\ flow[f].page \in Pages /\ flow[f].asked \in Names
        /\ flow[f].name \in Names
    BY <1>2, <1>4 DEF AsksAgain, InStage
  <2>2. Asks(f, flow[f].row, flow[f].page, flow[f].asked, flow[f].name, TRUE)
    BY <1>4 DEF AsksAgain
  <2>3. TokensIssued' /\ SessionsHome'
    BY <2>1, <2>2, AsksHome
  <2> QED  BY <1>0, <2>2, <2>3 DEF Asks
\* What a login saves on its row is a token that was issued.
<1>5. ASSUME NEW f \in Flows, NEW t \in Issued, flow[f].at # "idle", Lands(f, t), UNCHANGED owners
      PROVE  saved' \in [Rows -> Issued \cup {0}] /\ Typed(flow)'
  <2>1. saved' \in [Rows -> Issued \cup {0}]
    BY <1>5 DEF Lands, TokensIssued
  <2> QED  BY <1>5, <2>1, LoginMoves DEF Lands
<1>6. ASSUME NEW f \in Flows, ProbeAnswers(f)
      PROVE  TokensIssued' /\ SessionsHome' /\ Issued \subseteq Issued'
  <2>1. flow[f].held \in Issued /\ flow[f].at # "idle"
    BY <1>6 DEF ProbeAnswers, InStage, TokensIssued
  <2>2. saved' \in [Rows -> Issued \cup {0}] /\ Typed(flow)'
    BY <1>5, <1>6, <2>1 DEF ProbeAnswers
  <2> QED  BY <1>0, <1>6, <2>2 DEF ProbeAnswers, TokensIssued, SessionsHome, Owner, Typed
<1>7. ASSUME NEW f \in Flows, ProbeFails(f)
      PROVE  TokensIssued' /\ SessionsHome' /\ Issued \subseteq Issued'
  <2>1. \E stage \in {"popup", "headless", "done"} : Stage(f, stage)
    BY <1>7, NextStepKnown DEF ProbeFails
  <2>2. Typed(flow)'
    BY <1>7, <2>1, LoginMoves DEF ProbeFails, InStage
  <2> QED  BY <1>0, <1>7, <2>2 DEF ProbeFails, TokensIssued, SessionsHome, Owner, Typed
\* A token that is issued leaves everything that is about the others as it was.
<1>20. ASSUME NEW user \in KiteUsers, Issues(user)
       PROVE  /\ Issued \subseteq Issued' /\ LoginRecords \subseteq LoginRecords'
              /\ Redirects \subseteq Redirects' /\ \A t \in Issued : Owner(t)' = Owner(t)
  <2>1. Issued \subseteq Issued' /\ \A t \in Issued : owners'[t] = owners[t]
    BY <1>20, IssuedGrows
  <2> QED  BY <2>1 DEF LoginRecords, Redirects, Owner
<1>21. ASSUME NEW user \in KiteUsers, Issues(user), UNCHANGED <<named, saved, sessions, consented>>
       PROVE  /\ owners' \in Seq(KiteUsers) /\ alive' \subseteq Issued' /\ consented' \subseteq KiteUsers
              /\ named' \in [Rows -> Names] /\ saved' \in [Rows -> Issued' \cup {0}]
              /\ sessions' \in [KiteUsers -> Issued' \cup {0}] /\ SessionsHome'
  <2>1. owners' \in Seq(KiteUsers) /\ alive' \subseteq Issued'
    BY <1>21, IssuedGrows
  <2>2. /\ consented' \subseteq KiteUsers /\ named' \in [Rows -> Names]
        /\ saved' \in [Rows -> Issued' \cup {0}] /\ sessions' \in [KiteUsers -> Issued' \cup {0}]
    BY <1>20, <1>21 DEF TokensIssued
  <2>3. SessionsHome'
    <3> SUFFICES ASSUME NEW u \in KiteUsers, sessions[u] # 0 PROVE Owner(sessions[u])' = u
      BY <1>21 DEF SessionsHome, Owner
    <3>1. sessions[u] \in Issued
      BY DEF TokensIssued
    <3>2. Owner(sessions[u])' = owners'[sessions[u]] /\ Owner(sessions[u]) = owners[sessions[u]]
      BY <1>21 DEF Owner
    <3> QED  BY <1>20, <1>21, <3>1, <3>2, IssuedGrows DEF SessionsHome
  <2> QED  BY <2>1, <2>2, <2>3
<1>8. ASSUME NEW f \in Flows, HeadlessLogin(f)
      PROVE  TokensIssued' /\ SessionsHome' /\ Issued \subseteq Issued'
  <2> DEFINE user == IF flow[f].name # Blank THEN flow[f].name ELSE flow[f].user
  <2>0. flow[f].at = "headless" /\ UNCHANGED <<desk, consented, popups, dealing>>
    BY <1>8 DEF HeadlessLogin, InStage
  <2>1. CASE /\ user \in consented /\ Issues(user)
             /\ flow' = [flow EXCEPT ![f].at = "store", ![f].held = Len(owners')]
    <3>1. user \in KiteUsers
      BY <2>1 DEF TokensIssued
    <3> HIDE DEF user
    <3>2. Issued \subseteq Issued' /\ LoginRecords \subseteq LoginRecords' /\ Redirects \subseteq Redirects'
      BY <1>20, <2>1, <3>1
    <3>3. Len(owners') \in Issued' /\ Len(owners') # 0
      BY <2>1, <3>1, IssuedGrows
    <3> DEFINE record == [flow[f] EXCEPT !.at = "store", !.held = Len(owners')]
    <3>4. record \in LoginRecords' /\ record.held # 0
      BY <1>1, <2>0, <3>2, <3>3 DEF LoginRecords
    <3>5. flow' = [flow EXCEPT ![f] = record]
      BY <2>1
    <3> HIDE DEF record
    <3>6. flow \in [Flows -> LoginRecords \cup {IdleLogin}] /\ IdleLogin' = IdleLogin
      BY DEF TokensIssued, IdleLogin
    <3>7. Typed(flow)'
      BY <3>2, <3>4, <3>5, <3>6 DEF TokensIssued, Typed
    <3>8. redirect' \in [Flows -> Redirects'] /\ window' \in Flows \cup {Closed}
      BY <2>0, <3>2 DEF TokensIssued
    <3> QED  BY <1>21, <2>0, <2>1, <3>1, <3>2, <3>7, <3>8 DEF TokensIssued, Typed
  <2>2. CASE (Stage(f, "popup") \/ Stage(f, "done")) /\ UNCHANGED <<owners, alive>>
    <3>1. Typed(flow)'
      BY <2>0, <2>2, LoginMoves
    <3> QED  BY <1>0, <2>0, <2>2, <3>1 DEF TokensIssued, SessionsHome, Owner, Typed
  <2> QED  BY <1>8, <2>1, <2>2 DEF HeadlessLogin
<1>9. ASSUME NEW f \in Flows, StoresToken(f)
      PROVE  TokensIssued' /\ SessionsHome' /\ Issued \subseteq Issued'
  <2>1. flow[f].held \in Issued /\ flow[f].at # "idle" /\ UNCHANGED owners
    BY <1>2, <1>9 DEF StoresToken, InStage, TokensIssued
  <2>2. saved' \in [Rows -> Issued \cup {0}] /\ Typed(flow)'
    BY <1>5, <1>9, <2>1 DEF StoresToken
  <2>3. SessionsHome' /\ named' \in [Rows -> Names] /\ sessions' \in [KiteUsers -> Issued \cup {0}]
    BY <1>9, <2>1, ExchangedHome DEF StoresToken
  <2> QED  BY <1>0, <1>9, <2>2, <2>3 DEF StoresToken, TokensIssued, Typed
<1>10. ASSUME NEW f \in Flows, OpensWindow(f) \/ TimesOut(f)
       PROVE  TokensIssued' /\ SessionsHome' /\ Issued \subseteq Issued'
  <2>1. Typed(flow)' /\ window' \in Flows \cup {Closed} /\ UNCHANGED <<desk, kite, redirect>>
    BY <1>10, LoginMoves DEF OpensWindow, TimesOut, InStage, TokensIssued
  <2> QED  BY <1>0, <2>1 DEF TokensIssued, SessionsHome, Owner, Typed
<1>11. ASSUME NEW f \in Flows, CallbackMints(f)
       PROVE  TokensIssued' /\ SessionsHome' /\ Issued \subseteq Issued'
  <2>1. redirect[f].user \in KiteUsers /\ Issues(redirect[f].user)
    BY <1>11 DEF CallbackMints, TokensIssued, Redirects
  <2>2. /\ Issued \subseteq Issued' /\ LoginRecords \subseteq LoginRecords'
        /\ Redirects \subseteq Redirects' /\ Len(owners') \in Issued'
    BY <1>20, <2>1, IssuedGrows
  <2>3. [at |-> "minted", token |-> Len(owners')] \in Redirects'
    BY <2>2 DEF Redirects
  <2>4. redirect' \in [Flows -> Redirects'] /\ Typed(flow)' /\ window' \in Flows \cup {Closed}
    BY <1>11, <2>2, <2>3 DEF CallbackMints, TokensIssued, Typed, IdleLogin
  <2> QED  BY <1>11, <1>21, <2>1, <2>2, <2>4 DEF CallbackMints, TokensIssued, Typed
\* The popup's message moves the logins that wait, under the name of an account or none.
<1>22. ASSUME NEW f \in Flows, NEW stage \in {"heard", "done"}, NEW account \in Names,
              Tells(f, stage, account), UNCHANGED owners
       PROVE  Typed(flow)' /\ window' \in Flows \cup {Closed}
  <2>1. window' \in Flows \cup {Closed}
    BY <1>22 DEF Tells, TokensIssued
  <2>2. ASSUME NEW g \in Flows
        PROVE  /\ flow'[g] \in LoginRecords \cup {IdleLogin}
               /\ flow'[g].at = "store" => flow'[g].held # 0
    <3>1. CASE flow'[g] = flow[g]
      BY <3>1 DEF TokensIssued
    <3>2. CASE /\ InStage(g, "wait")
               /\ flow'[g] = [flow[g] EXCEPT !.at = stage, !.name = IF account # Blank THEN account ELSE @]
      BY <1>1, <3>2 DEF InStage, LoginRecords
    <3> QED  BY <1>22, <3>1, <3>2 DEF Tells
  <2>3. flow' \in [Flows -> LoginRecords \cup {IdleLogin}]
    <3>1. flow' = [g \in Flows |-> flow'[g]]
      BY <1>22 DEF Tells, TokensIssued
    <3> QED  BY <2>2, <3>1
  <2> QED  BY <1>0, <1>22, <2>1, <2>2, <2>3 DEF Typed, IdleLogin
<1>12. ASSUME NEW f \in Flows, CallbackStores(f)
       PROVE  TokensIssued' /\ SessionsHome' /\ Issued \subseteq Issued'
  <2>1. redirect[f].token \in Issued /\ UNCHANGED <<saved, kite>>
    BY <1>12 DEF CallbackStores, TokensIssued, Redirects
  <2>2. SessionsHome' /\ named' \in [Rows -> Names] /\ sessions' \in [KiteUsers -> Issued \cup {0}]
    BY <1>12, <2>1, ExchangedHome DEF CallbackStores
  <2>3. Owner(redirect[f].token) \in Names
    BY <2>1, OwnersKnown DEF Names
  <2>4. Typed(flow)' /\ window' \in Flows \cup {Closed}
    BY <1>12, <1>22, <2>1, <2>3 DEF CallbackStores
  <2>5. redirect' \in [Flows -> Redirects]
    BY <1>12 DEF CallbackStores, TokensIssued, Redirects
  <2> QED  BY <1>0, <2>1, <2>2, <2>4, <2>5 DEF TokensIssued, Typed
<1>13. ASSUME NEW f \in Flows, CallbackFails(f)
       PROVE  TokensIssued' /\ SessionsHome' /\ Issued \subseteq Issued'
  <2>1. Typed(flow)' /\ window' \in Flows \cup {Closed} /\ UNCHANGED <<desk, kite>>
    BY <1>13, <1>22 DEF CallbackFails, Names
  <2>2. redirect' \in [Flows -> Redirects]
    BY <1>13 DEF CallbackFails, TokensIssued, Redirects
  <2> QED  BY <1>0, <2>1, <2>2 DEF TokensIssued, SessionsHome, Owner, Typed
<1>14. ASSUME NEW user \in KiteUsers, SignsIn(user)
       PROVE  TokensIssued' /\ SessionsHome' /\ Issued \subseteq Issued'
  <2>1. redirect' \in [Flows -> Redirects] /\ consented' \subseteq KiteUsers
    BY <1>14 DEF SignsIn, TokensIssued, Redirects
  <2> QED  BY <1>0, <1>14, <2>1 DEF SignsIn, TokensIssued, SessionsHome, Owner
<1>15. ASSUME NEW row \in Rows, Reads(row) \/ AsksBasket(row)
       PROVE  TokensIssued' /\ SessionsHome' /\ Issued \subseteq Issued'
  <2>1. saved[row] \in Issued /\ UNCHANGED <<owners, named, saved, pendingCreds, kite, flow, popups>>
        /\ sessions' = [sessions EXCEPT ![Owner(saved[row])] = saved[row]]
    BY <1>15 DEF Reads, AsksBasket, TokensIssued
  <2>2. SessionsHome' /\ sessions' \in [KiteUsers -> Issued \cup {0}]
    BY <2>1, RestoredHome
  <2> QED  BY <1>0, <2>1, <2>2 DEF TokensIssued
<1>16. ASSUME NEW t \in alive, Revokes(t)
       PROVE  TokensIssued' /\ SessionsHome' /\ Issued \subseteq Issued'
  BY <1>0, <1>16 DEF Revokes, TokensIssued, SessionsHome, Owner
<1>17. ASSUME NEW found \in SUBSET (1 .. Items), Resolves(found)
       PROVE  TokensIssued' /\ SessionsHome' /\ Issued \subseteq Issued'
  <2>1. basket.token \in Issued /\ UNCHANGED <<owners, named, saved, pendingCreds, kite, flow, popups>>
    BY <1>17 DEF Resolves, BasketHome
  <2>2. SessionsHome' /\ sessions' \in [KiteUsers -> Issued \cup {0}]
    BY <1>0, <1>17, <2>1, RestoredHome DEF Resolves, TokensIssued, SessionsHome, Owner
  <2> QED  BY <1>0, <2>1, <2>2 DEF TokensIssued
<1>18. CASE PlacesLeg \/ BasketAnswers
  BY <1>0, <1>18 DEF PlacesLeg, BasketAnswers, TokensIssued, SessionsHome, Owner
<1>19. CASE UNCHANGED deskVars
  BY <1>0, <1>19 DEF deskVars, TokensIssued, SessionsHome, Owner
<1> QED  BY <1>3, <1>4, <1>6, <1>7, <1>8, <1>9, <1>10, <1>11, <1>12, <1>13, <1>14, <1>15, <1>16,
            <1>17, <1>18, <1>19 DEF DeskNext

\* A leg's row and its order, if it has one, come last.
LEMMA LegPlaced ==
  ASSUME BasketHome, TokensIssued, UNCHANGED owners, PlacesLeg
  PROVE  BasketHome'
<1> DEFINE n == Len(orders)
           k == basket.leg
<1>1. /\ basket \in [at : {"resolve", "place", "refused", "answered"}, token : Issued,
                     found : SUBSET (1 .. Items), leg : 1 .. Items + 1, rows : Seq(BOOLEAN)]
      /\ basket.at = "place" /\ k \in 1 .. Items /\ k + 1 \in 1 .. Items + 1
      /\ orders \in Seq(Order) /\ n \in Nat /\ DOMAIN orders = 1 .. n
      /\ basket.found = 1 .. Items /\ Len(basket.rows) = k - 1 /\ basket.rows \in Seq(BOOLEAN)
      /\ Owner(basket.token) \in KiteUsers
  BY OwnersKnown, DeskAssumption DEF PlacesLeg, BasketHome
<1>2. /\ \A i \in 1 .. n : orders[i].leg \in 1 .. Items /\ orders[i].leg < k
      /\ \A i, j \in 1 .. n : orders[i].leg = orders[j].leg => i = j
      /\ \A l \in 1 .. k - 1 : basket.rows[l] => \E i \in 1 .. n : orders[i].leg = l
  <2>1. \A i \in 1 .. n : orders[i] \in Order
    BY <1>1
  <2> HIDE DEF n
  <2>2. \A i \in 1 .. n : orders[i].leg \in 1 .. Items
    BY <2>1 DEF Order
  <2> QED  BY <1>1, <2>2 DEF BasketHome
<1>3. Issued' = Issued /\ Order' = Order
  BY DEF Issued, Order
<1> HIDE DEF n
<1>4. ASSUME NEW placed \in BOOLEAN, Row(placed)
      PROVE  /\ basket' \in [at : {"place"}, token : Issued, found : {1 .. Items},
                             leg : 1 .. Items + 1, rows : Seq(BOOLEAN)]
             /\ basket'.leg = k + 1 /\ Len(basket'.rows) = k /\ basket'.rows[k] = placed
             /\ \A l \in 1 .. k - 1 : basket'.rows[l] = basket.rows[l]
  <2> DEFINE rows == Append(basket.rows, placed)
  <2>1. rows \in Seq(BOOLEAN) /\ Len(rows) = k /\ rows[k] = placed
        /\ \A l \in 1 .. k - 1 : rows[l] = basket.rows[l]
    <3>1. /\ rows \in Seq(BOOLEAN) /\ Len(rows) = Len(basket.rows) + 1
          /\ rows[Len(basket.rows) + 1] = placed
          /\ \A l \in 1 .. Len(basket.rows) : rows[l] = basket.rows[l]
      BY <1>1
    <3>2. Len(basket.rows) + 1 = k /\ Len(basket.rows) = k - 1
      BY <1>1
    <3> HIDE DEF k, rows
    <3> QED  BY <3>1, <3>2
  <2>2. basket' = [basket EXCEPT !.leg = k + 1, !.rows = rows]
    BY <1>4 DEF Row
  <2> HIDE DEF rows
  <2>3. /\ basket' \in [at : {"place"}, token : Issued, found : {1 .. Items},
                        leg : 1 .. Items + 1, rows : Seq(BOOLEAN)]
        /\ basket'.leg = k + 1 /\ basket'.rows = rows
    BY <1>1, <2>1, <2>2
  <2> QED  BY <2>1, <2>3
<1> HIDE DEF k
<1>7. ASSUME NEW placed \in BOOLEAN, Row(placed), orders' \in Seq(Order),
             \A i \in DOMAIN orders' : orders'[i].leg < k + 1,
             \A i, j \in DOMAIN orders' : orders'[i].leg = orders'[j].leg => i = j,
             \A l \in 1 .. k : basket'.rows[l] => \E i \in DOMAIN orders' : orders'[i].leg = l
      PROVE  BasketHome'
  <2>1. /\ basket'.at = "place" /\ basket'.found = 1 .. Items /\ basket'.leg - 1 = k
        /\ basket'.leg = k + 1 /\ Len(basket'.rows) = k
    BY <1>1, <1>4, <1>7
  <2>2. basket' \in [at : {"resolve", "place", "refused", "answered"}, token : Issued,
                      found : SUBSET (1 .. Items), leg : 1 .. Items + 1, rows : Seq(BOOLEAN)]
    BY <1>4, <1>7
  <2> QED  BY <1>3, <1>7, <2>1, <2>2 DEF BasketHome
<1>5. ASSUME Row(FALSE), UNCHANGED orders PROVE BasketHome'
  <2>1. \A i \in 1 .. n : orders[i].leg < k + 1
    BY <1>1, <1>2
  <2>2. ASSUME NEW l \in 1 .. k, basket'.rows[l] PROVE \E i \in 1 .. n : orders[i].leg = l
    <3>1. l # k
      BY <1>4, <1>5, <2>2
    <3>2. l \in 1 .. k - 1
      BY <1>1, <3>1
    <3> QED  BY <1>2, <1>4, <1>5, <2>2, <3>2
  <2> QED  BY <1>1, <1>2, <1>5, <1>7, <2>1, <2>2
<1>6. ASSUME NEW answered \in BOOLEAN, Row(answered),
             orders' = Append(orders, [leg |-> basket.leg, account |-> Owner(basket.token)])
      PROVE  BasketHome'
  <2> DEFINE order == [leg |-> basket.leg, account |-> Owner(basket.token)]
  <2>1. order \in Order /\ order.leg = k
    BY <1>1 DEF Order, k
  <2> HIDE DEF order
  <2>2. orders' = Append(orders, order)
    BY <1>6 DEF order
  <2>3. /\ orders' \in Seq(Order) /\ DOMAIN orders' = 1 .. n + 1
        /\ orders'[n + 1] = order /\ \A i \in 1 .. n : orders'[i] = orders[i]
    BY <1>1, <2>1, <2>2 DEF n
  <2>4. \A i \in 1 .. n + 1 : IF i = n + 1 THEN orders'[i].leg = k
                              ELSE i \in 1 .. n /\ orders'[i].leg = orders[i].leg
    BY <1>1, <2>1, <2>3
  <2>5. \A i \in DOMAIN orders' : orders'[i].leg < k + 1
    BY <1>1, <1>2, <2>3, <2>4
  <2>6. \A i, j \in DOMAIN orders' : orders'[i].leg = orders'[j].leg => i = j
    BY <1>1, <1>2, <2>3, <2>4
  <2>7. ASSUME NEW l \in 1 .. k, basket'.rows[l]
        PROVE  \E i \in DOMAIN orders' : orders'[i].leg = l
    <3>1. CASE l = k
      BY <1>1, <2>1, <2>3, <3>1
    <3>2. CASE l \in 1 .. k - 1
      <4>1. PICK i \in 1 .. n : orders[i].leg = l
        BY <1>2, <1>4, <1>6, <2>7, <3>2
      <4>2. i \in 1 .. n + 1 /\ i # n + 1
        BY <1>1
      <4> QED  BY <2>3, <2>4, <4>1, <4>2
    <3> QED  BY <1>1, <3>1, <3>2
  <2> QED  BY <1>6, <1>7, <2>3, <2>5, <2>6, <2>7
<1> QED  BY <1>5, <1>6 DEF PlacesLeg

\* Every step keeps the orders those of the legs placed so far.
LEMMA BasketStaysHome ==
  ASSUME TokensIssued, BasketHome, [DeskNext]_deskVars, Issued \subseteq Issued'
  PROVE  BasketHome'
<1>1. CASE UNCHANGED dealing
  BY <1>1, BasketWaits
<1>2. ASSUME NEW row \in Rows, AsksBasket(row) PROVE BasketHome'
  <2>1. saved[row] \in Issued' /\ orders = << >> /\ orders' = << >>
    BY <1>2 DEF AsksBasket, TokensIssued, BasketHome
  <2>2. basket' = [at |-> "resolve", token |-> saved[row], found |-> {}, leg |-> 1, rows |-> << >>]
    BY <1>2 DEF AsksBasket
  <2>3. 1 \in 1 .. Items + 1 /\ << >> \in Seq(BOOLEAN) /\ << >> \in Seq(Order)
    BY DeskAssumption
  <2> QED  BY <2>1, <2>2, <2>3 DEF BasketHome, Order
<1>3. ASSUME NEW found \in SUBSET (1 .. Items), Resolves(found) PROVE BasketHome'
  <2>1. /\ basket \in [at : {"resolve"}, token : Issued', found : SUBSET (1 .. Items),
                       leg : {1}, rows : {<< >>}]
        /\ orders = << >> /\ orders' = << >>
    BY <1>3 DEF Resolves, BasketHome
  <2>2. basket' \in [at : {"place", "refused"}, token : Issued', found : SUBSET (1 .. Items),
                     leg : {1}, rows : {<< >>}]
        /\ (basket'.at = "place" => basket'.found = 1 .. Items)
    BY <1>3, <2>1 DEF Resolves
  <2>3. 1 \in 1 .. Items + 1 /\ << >> \in Seq(BOOLEAN) /\ << >> \in Seq(Order) /\ Len(<< >>) = 0
    BY DeskAssumption
  <2> QED  BY <2>1, <2>2, <2>3 DEF BasketHome, Order
<1>4. CASE PlacesLeg
  BY <1>4, LegPlaced DEF PlacesLeg, kite
<1>5. CASE BasketAnswers
  <2>1. basket.leg = Items + 1 /\ basket.at = "place" /\ UNCHANGED <<owners, orders>>
        /\ basket' = [basket EXCEPT !.at = "answered"]
    BY <1>5, DeskAssumption DEF BasketAnswers, BasketHome, kite
  <2>2. basket' \in [at : {"answered"}, token : Issued, found : {basket.found},
                     leg : {basket.leg}, rows : {basket.rows}]
    BY <2>1 DEF BasketHome
  <2> QED  BY <2>1, <2>2 DEF BasketHome, Issued, Order
<1>6. ASSUME NEW f \in Flows,
             \/ \E row \in Rows, page \in Pages : LogsIn(f, row, page)
             \/ AsksAgain(f) \/ ProbeAnswers(f) \/ ProbeFails(f) \/ HeadlessLogin(f) \/ StoresToken(f)
      PROVE  UNCHANGED dealing
  BY <1>6 DEF LogsIn, AsksAgain, Asks, ProbeAnswers, ProbeFails, HeadlessLogin, StoresToken
<1>7. ASSUME NEW f \in Flows,
             \/ OpensWindow(f) \/ TimesOut(f)
             \/ CallbackMints(f) \/ CallbackStores(f) \/ CallbackFails(f)
      PROVE  UNCHANGED dealing
  BY <1>7 DEF OpensWindow, TimesOut, CallbackMints, CallbackStores, CallbackFails
<1>8. ASSUME \/ \E user \in KiteUsers : SignsIn(user)
             \/ \E row \in Rows : Reads(row)
             \/ \E t \in alive : Revokes(t)
             \/ UNCHANGED deskVars
      PROVE  UNCHANGED dealing
  BY <1>8 DEF SignsIn, Reads, Revokes, deskVars
<1> QED  BY <1>1, <1>2, <1>3, <1>4, <1>5, <1>6, <1>7, <1>8 DEF DeskNext

\* No order goes astray: a session stored for a user is one of that user, whoever signed in
\* where; a basket sends one order per leg at most, none if a leg was not found, and what it
\* reports as placed is placed.
THEOREM OrdersAreHome == DeskSpec => []OrdersGoHome
<1>1. DeskInit => DeskCore
  <2> SUFFICES ASSUME DeskInit PROVE DeskCore
    OBVIOUS
  <2>1. owners = << >> /\ << >> \in Seq(KiteUsers) /\ << >> \in Seq(Order)
    BY DEF DeskInit
  <2>2. TokensIssued
    BY <2>1, DeskAssumption DEF DeskInit, TokensIssued, Names, IdleLogin, Redirects
  <2> QED  BY <2>1, <2>2 DEF DeskInit, DeskCore, SessionsHome, BasketHome
<1>2. DeskCore /\ [DeskNext]_deskVars => DeskCore'
  BY DeskHome, BasketStaysHome DEF DeskCore
<1>3. DeskCore => OrdersGoHome
  <2> SUFFICES ASSUME DeskCore PROVE OrdersGoHome
    OBVIOUS
  <2>1. orders # << >> => basket.at \in {"place", "answered"}
    BY DEF DeskCore, BasketHome
  <2>2. orders = << >> => DOMAIN orders = {}
    OBVIOUS
  <2>3. basket.at = "answered" =>
          \A l \in 1 .. Items : basket.rows[l] => \E i \in DOMAIN orders : orders[i].leg = l
    BY DeskAssumption DEF DeskCore, BasketHome
  <2> QED  BY <2>1, <2>2, <2>3 DEF DeskCore, BasketHome, SessionsHome, OrdersGoHome
<1> QED  BY <1>1, <1>2, <1>3, PTL DEF DeskSpec

-----------------------------------------------------------------------------
(* The order ticket (OrderTicket) *)

Accounts == OrderAccounts \cup {NoAccount}
Clients == [cfg : Accounts, session : Accounts]
Placements ==
  [n : Nat, stage : {"login", "sent"}, cfg : Accounts, client : Clients, session : Accounts,
   legs : SUBSET TicketLegs, mounted : BOOLEAN]

TicketTyped ==
  /\ orderCfg \in Accounts /\ orderClient \in Clients /\ orderUser \in OrderUsers
  /\ orderSaved \in [OrderAccounts -> Accounts]
  /\ orderCalls \subseteq [what : {"list"}, of : OrderUsers] \cup [what : {"creds"}, of : OrderAccounts]
  /\ ticket \subseteq TicketLegs /\ placing \in BOOLEAN /\ acts \in Nat
  /\ jobs \subseteq Placements

\* Of the placements under way one at most is that of the basket on screen, and as long as
\* there is one the basket is PLACING; the legs of any other are not in the ticket.
OnePlacing ==
  /\ \A p \in jobs : IF p.mounted THEN placing ELSE p.legs \cap ticket = {}
  /\ \A p, q \in jobs : p.mounted /\ q.mounted => p = q

TicketCore == TicketTyped /\ OnePlacing /\ OneFlightPerLeg

\* One placement is replaced by another of the same legs and the same basket.
LEMMA PlacementGoesOn ==
  ASSUME TicketCore, NEW p \in jobs, NEW next2 \in Placements,
         next2.legs = p.legs, next2.mounted = p.mounted, jobs' = (jobs \ {p}) \cup {next2},
         UNCHANGED <<ticket, placing>>
  PROVE  OnePlacing' /\ OneFlightPerLeg'
  BY DEF TicketCore, OnePlacing, OneFlightPerLeg

\* A placement ends; if it was that of the basket on screen the basket is placing no more.
LEMMA PlacementEnds ==
  ASSUME TicketCore, NEW p \in jobs, NEW how, Ends(p, how), UNCHANGED ticket
  PROVE  OnePlacing' /\ OneFlightPerLeg' /\ jobs' \subseteq Placements /\ placing' \in BOOLEAN
<1>1. p.mounted \in BOOLEAN /\ jobs' = jobs \ {p} /\ placing' = (placing /\ ~p.mounted)
  BY DEF Ends, TicketCore, TicketTyped, Placements
<1> QED  BY <1>1 DEF TicketCore, TicketTyped, OnePlacing, OneFlightPerLeg

\* Every step of the ticket keeps TicketCore.
LEMMA TicketStays == TicketCore /\ [OrderNext]_orderVars => TicketCore'
<1> SUFFICES ASSUME TicketCore, [OrderNext]_orderVars PROVE TicketCore'
  OBVIOUS
<1> USE DEF accountVars, ticketVars
<1>0. TicketTyped /\ OnePlacing /\ OneFlightPerLeg
  BY DEF TicketCore
\* The account and its client are no matter of the placements.
<1>1. ASSUME TicketTyped', UNCHANGED ticketVars PROVE TicketCore'
  BY <1>0, <1>1 DEF TicketCore, OnePlacing, OneFlightPerLeg
<1>2. NoClient \in Clients /\ NoAccount \in Accounts /\ OrderAccounts \subseteq Accounts
  BY DEF NoClient, Clients, Accounts
<1>3. \A u \in OrderUsers : FirstOf[u] \in Accounts /\ AccountsOf[u] \subseteq OrderAccounts
  BY OrderAssumption DEF Accounts
<1>4. \A c \in Accounts : CredsOf(c) \subseteq [what : {"creds"}, of : OrderAccounts]
  BY DEF CredsOf, Accounts
<1>5. ASSUME NEW u \in OrderUsers, ChooseOrderUser(u) PROVE TicketCore'
  BY <1>0, <1>1, <1>2, <1>5 DEF ChooseOrderUser, Act, TicketTyped
<1>6. ASSUME NEW c \in OrderAccounts, ChooseOrderAccount(c) PROVE TicketCore'
  <2>1. CredsOf(c) \subseteq [what : {"creds"}, of : OrderAccounts] /\ c \in Accounts
    BY <1>2, <1>4
  <2> QED  BY <1>0, <1>1, <1>2, <1>6, <2>1 DEF ChooseOrderAccount, Choose, Act, TicketTyped
<1>7. ASSUME NEW r \in orderCalls, OrderListed(r) PROVE TicketCore'
  <2>1. FirstOf[r.of] \in Accounts
    BY <1>0, <1>3, <1>7 DEF OrderListed, TicketTyped
  <2> QED  BY <1>0, <1>1, <1>2, <1>4, <1>7, <2>1 DEF OrderListed, Choose, TicketTyped
<1>8. ASSUME NEW r \in orderCalls, OrderClientReady(r) PROVE TicketCore'
  <2>1. r.of \in OrderAccounts
    BY <1>0, <1>8 DEF OrderClientReady, TicketTyped
  <2>2. [cfg |-> r.of, session |-> orderSaved[r.of]] \in Clients
    BY <1>0, <1>2, <2>1 DEF TicketTyped, Clients
  <2> QED  BY <1>0, <1>1, <1>8, <2>2 DEF OrderClientReady, TicketTyped
<1>9. ASSUME NEW r \in orderCalls, OrderCallFailed(r) PROVE TicketCore'
  BY <1>0, <1>1, <1>9 DEF OrderCallFailed, TicketTyped
<1>10. ASSUME NEW l \in TicketLegs, TickLeg(l) PROVE TicketCore'
  BY <1>0, <1>10 DEF TickLeg, TicketCore, TicketTyped, OnePlacing, OneFlightPerLeg
<1>11. CASE ClearTicket
  BY <1>0, <1>11 DEF ClearTicket, TicketCore, TicketTyped, OnePlacing, OneFlightPerLeg
<1>12. CASE BasketUnmounted
  <2>1. \A p \in jobs : /\ [p EXCEPT !.mounted = FALSE] \in Placements
                        /\ [p EXCEPT !.mounted = FALSE].legs = p.legs
                        /\ ~[p EXCEPT !.mounted = FALSE].mounted
    BY <1>0 DEF TicketTyped, Placements
  <2>2. jobs' = {[p EXCEPT !.mounted = FALSE] : p \in jobs} /\ ticket = {} /\ ticket' = {}
    BY <1>12 DEF BasketUnmounted
  <2>3. jobs' \subseteq Placements /\ OnePlacing'
    BY <2>1, <2>2 DEF OnePlacing
  <2>4. OneFlightPerLeg'
    <3> SUFFICES ASSUME NEW p2 \in jobs', NEW q2 \in jobs', p2 # q2
                 PROVE  p2.legs \cap q2.legs = {}
      BY DEF OneFlightPerLeg
    <3>1. PICK p \in jobs : p2 = [p EXCEPT !.mounted = FALSE]
      BY <2>2
    <3>2. PICK q \in jobs : q2 = [q EXCEPT !.mounted = FALSE]
      BY <2>2
    <3>3. p # q /\ p2.legs = p.legs /\ q2.legs = q.legs
      BY <2>1, <3>1, <3>2
    <3> QED  BY <1>0, <3>3 DEF OneFlightPerLeg
  <2> QED  BY <1>0, <1>12, <2>3, <2>4 DEF BasketUnmounted, TicketCore, TicketTyped
<1>13. CASE OpenPreview \/ ClosePreview
  BY <1>0, <1>13 DEF OpenPreview, ClosePreview, TicketCore, TicketTyped, OnePlacing, OneFlightPerLeg
<1>14. CASE ConfirmOrders
  <2>1. CASE orderClient = NoClient
    BY <1>0, <1>14, <2>1 DEF ConfirmOrders, Act, TicketCore, TicketTyped, OnePlacing, OneFlightPerLeg
  <2>2. CASE orderClient # NoClient
    <3> DEFINE job == [n |-> acts, stage |-> "login", cfg |-> orderCfg, client |-> orderClient,
                       session |-> NoAccount, legs |-> ticket, mounted |-> TRUE]
    <3>1. job \in Placements /\ job.legs = ticket /\ job.mounted
      BY <1>0, <1>2 DEF TicketTyped, Placements
    <3>2. jobs' = jobs \cup {job} /\ placing' /\ ~placing /\ UNCHANGED <<accountVars, ticket, preview, accepted>>
          /\ acts' = acts + 1 /\ placing' = TRUE
      BY <1>14, <2>2 DEF ConfirmOrders, ConfirmOn, Act
    <3> HIDE DEF job
    <3>3. \A p \in jobs : ~p.mounted /\ p.legs \cap ticket = {}
      BY <1>0, <3>2 DEF OnePlacing
    <3>4. OnePlacing' /\ OneFlightPerLeg'
      BY <1>0, <3>1, <3>2, <3>3 DEF OnePlacing, OneFlightPerLeg
    <3> QED  BY <1>0, <3>1, <3>2, <3>4 DEF TicketCore, TicketTyped
  <2> QED  BY <2>1, <2>2
\* handleSession changes the client and what is saved.
<1>15. ASSUME NEW c \in Accounts, NEW session \in Accounts, HandleSession(c, session)
       PROVE  orderSaved' \in [OrderAccounts -> Accounts] /\ orderClient' \in Clients
  BY <1>0, <1>2, <1>15 DEF HandleSession, TicketTyped, Clients
<1>16. ASSUME NEW p \in jobs, TicketLoggedIn(p) PROVE TicketCore'
  <2>1. PICK s \in LoginSession(p) :
          /\ HandleSession(p.cfg, s)
          /\ jobs' = (jobs \ {p}) \cup {[p EXCEPT !.stage = "sent", !.session = s]}
    BY <1>16 DEF TicketLoggedIn
  <2>2. p \in Placements /\ p.cfg \in Accounts /\ s \in Accounts
    BY <1>0, <2>1 DEF TicketTyped, Placements, LoginSession, Clients
  <2> DEFINE sent2 == [p EXCEPT !.stage = "sent", !.session = s]
  <2>3. sent2 \in Placements /\ sent2.legs = p.legs /\ sent2.mounted = p.mounted
    BY <2>2 DEF Placements
  <2>4. orderSaved' \in [OrderAccounts -> Accounts] /\ orderClient' \in Clients
    BY <1>15, <2>1, <2>2
  <2>5. UNCHANGED <<orderUser, orderCfg, orderCalls, ticket, preview, placing, outcome, accepted, acts>>
    BY <1>16 DEF TicketLoggedIn
  <2>6. jobs' = (jobs \ {p}) \cup {sent2}
    BY <2>1
  <2> HIDE DEF sent2
  <2>7. OnePlacing' /\ OneFlightPerLeg'
    BY <2>3, <2>5, <2>6, PlacementGoesOn
  <2> QED  BY <1>0, <2>3, <2>4, <2>5, <2>6, <2>7 DEF TicketCore, TicketTyped
<1>17. ASSUME NEW p \in jobs, TicketPlaced(p) PROVE TicketCore'
  <2>1. PICK how : Ends(p, how)
    BY <1>17 DEF TicketPlaced
  <2>2. p.cfg \in Accounts /\ p.session \in Accounts
    BY <1>0 DEF TicketTyped, Placements
  <2>3. orderSaved' \in [OrderAccounts -> Accounts] /\ orderClient' \in Clients
        /\ UNCHANGED <<orderUser, orderCfg, orderCalls, ticket, preview, acts>>
    BY <1>15, <1>17, <2>2 DEF TicketPlaced
  <2> QED  BY <1>0, <2>1, <2>3, PlacementEnds DEF TicketCore, TicketTyped
<1>18. ASSUME NEW p \in jobs, TicketFailed(p) PROVE TicketCore'
  BY <1>0, <1>18, PlacementEnds DEF TicketFailed, TicketCore, TicketTyped
<1>19. CASE UNCHANGED orderVars
  BY <1>0, <1>19 DEF orderVars, TicketCore, TicketTyped, OnePlacing, OneFlightPerLeg
<1> QED  BY <1>5, <1>6, <1>7, <1>8, <1>9, <1>10, <1>11, <1>12, <1>13, <1>14, <1>16, <1>17, <1>18,
            <1>19 DEF OrderNext

\* No leg is in two placements at once, however the preview is closed and opened and the
\* basket is cleared and filled while one is under way: for any users, accounts and legs.
THEOREM LegsFlyOnce == TicketSpec => []OneFlightPerLeg
<1>1. OrderInit => TicketCore
  <2> SUFFICES ASSUME OrderInit PROVE TicketCore
    OBVIOUS
  <2>1. orderCfg \in Accounts /\ orderClient \in Clients
    BY DEF OrderInit, Accounts, Clients, NoClient
  <2>2. orderSaved \in [OrderAccounts -> Accounts]
    BY DEF OrderInit, Accounts
  <2>3. orderCalls \subseteq [what : {"list"}, of : OrderUsers]
    BY DEF OrderInit
  <2>4. TicketTyped
    BY <2>1, <2>2, <2>3 DEF OrderInit, TicketTyped
  <2> QED  BY <2>4 DEF OrderInit, TicketCore, OnePlacing, OneFlightPerLeg
<1>2. TicketCore => OneFlightPerLeg
  BY DEF TicketCore
<1> QED  BY <1>1, <1>2, TicketStays, PTL DEF TicketSpec

=============================================================================
