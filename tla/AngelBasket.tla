------------------------------ MODULE AngelBasket ------------------------------
(***************************************************************************)
(* Placing a basket of orders with Angel: placeBasket of angel/orders.js   *)
(* over sessionOrLogin and autoLogin of angel/auth.js.  One request runs;  *)
(* what happens between its awaits is the broker's side: tokens expire,    *)
(* calls and answers are lost, orders are rejected.                        *)
(***************************************************************************)
EXTENDS Integers, Sequences

CONSTANTS
  Legs,         \* the number of legs in the request
  Invalid,      \* those placeOrderPayload refuses
  MaxLegs,      \* the legs one request may hold (50 in the code)
  Jwts,       \* session tokens, of which Stored is the one the client sends
  Stored,
  Expiries,     \* bound: the times the broker ends a session
  Losses,       \* bound: the calls that are lost, or refused, before it acts
  LostAnswers   \* may an answer be lost after it has acted?

NoJwt == "none"
ASSUME BasketAssumption ==
  /\ Legs \in Nat /\ Invalid \subseteq 1 .. Legs /\ MaxLegs \in Nat \ {0}
  /\ Stored \in Jwts /\ NoJwt \notin Jwts
  /\ Expiries \in Nat /\ Losses \in Nat /\ LostAnswers \in BOOLEAN

VARIABLES
  at,        \* the await the request is at
  jwt,       \* session.jwtToken
  fresh,     \* the token a login has just returned
  valid,     \* ValidationCache: tokens that recently passed a probe
  honoured,  \* the tokens the broker honours
  expired,   \* the sessions ended so far
  lost,      \* the calls lost so far
  next,      \* the leg being placed
  relogged,  \* has the basket logged in again?
  book,      \* the orders the broker holds for each leg
  results    \* the rows reported

inUse == <<jwt, fresh, valid, relogged>>
broker == <<honoured, expired, lost, book>>
basketVars == <<at, inUse, broker, next, results>>

BasketTypeOK ==
  /\ at \in {"begin", "probe", "login", "rms", "place",
             "relogin", "rerms", "retry", "done", "failed"}
  /\ {jwt, fresh} \subseteq Jwts \cup {NoJwt}
  /\ valid \subseteq Jwts /\ honoured \subseteq Jwts
  /\ expired \in 0 .. Expiries /\ lost \in 0 .. Losses
  /\ relogged \in BOOLEAN
  /\ book \in [1 .. Legs -> Nat]
  /\ results \in Seq({"placed", "rejected", "error"}) /\ next = Len(results) + 1

\* The client may come with a token, which may have passed a probe; it may die
\* before the request is looked at.
BasketInit ==
  /\ at = "begin" /\ next = 1 /\ relogged = FALSE /\ results = << >>
  /\ jwt \in {Stored, NoJwt} /\ fresh = NoJwt
  /\ valid \in SUBSET {Stored} /\ honoured = {Stored}
  /\ expired = 0 /\ lost = 0
  /\ book = [l \in 1 .. Legs |-> 0]

\* A call with token t (NoJwt: with none) does not get through.
FailsWith(t) ==
  \/ t \notin honoured \cup {NoJwt} /\ UNCHANGED lost
  \/ lost < Losses /\ lost' = lost + 1

\* sessionOrLogin: a token that is known to be valid is used as it is.
SessionOrLogin ==
  /\ at = "begin"
  /\ at' = IF jwt = NoJwt THEN "login" ELSE IF jwt \in valid THEN "place" ELSE "probe"
  /\ UNCHANGED <<inUse, broker, next, results>>

\* autoLogin's probe of the token it was given.
Probes ==
  /\ at = "probe"
  /\ \/ jwt \in honoured /\ at' = "place" /\ valid' = valid \cup {jwt} /\ UNCHANGED lost
     \/ FailsWith(jwt) /\ at' = "login" /\ UNCHANGED valid
  /\ UNCHANGED <<jwt, fresh, relogged, honoured, expired, book, next, results>>

\* loginByPassword with a fresh code.
PasswordLogin(then, fails) ==
  /\ \/ \E t \in Jwts \ (honoured \cup valid \cup {Stored}) :
          /\ at' = then /\ honoured' = honoured \cup {t} /\ fresh' = t
          /\ UNCHANGED <<lost, next, results>>
     \/ FailsWith(NoJwt) /\ fails /\ UNCHANGED <<honoured, fresh>>
  /\ UNCHANGED <<jwt, valid, relogged, expired, book>>

TakesOver == fresh

\* getRMS of the new session, which makes it the one in use.
ProbesLogin(then, again, fails) ==
  /\ \/ /\ fresh \in honoured
        /\ at' = then /\ valid' = valid \cup {fresh} /\ jwt' = TakesOver
        /\ relogged' = again /\ UNCHANGED <<lost, next, results>>
     \/ FailsWith(fresh) /\ fails /\ UNCHANGED <<valid, jwt, relogged>>
  /\ fresh' = NoJwt
  /\ UNCHANGED <<honoured, expired, book>>

\* sessionOrLogin's catch: a token that is at hand is used all the same.
LoginFails == at' = (IF jwt # NoJwt THEN "place" ELSE "failed") /\ UNCHANGED <<next, results>>

Reported(row) == results' = Append(results, row) /\ at' = "place" /\ next' = next + 1

\* The broker books an order for the leg.
Acts == book' = [book EXCEPT ![next] = @ + 1] /\ UNCHANGED lost

AnswersOptimistic(throws) ==         \* fault: the answer's status is not looked at
  \/ jwt \in honoured /\ Acts /\ Reported("placed")
  \/ jwt \in honoured /\ Reported("placed") /\ UNCHANGED <<book, lost>>
  \/ FailsWith(jwt) /\ throws /\ UNCHANGED book

\* placeOrder's answers: the order is placed or rejected, and a call whose token
\* is dead, that is lost, or whose answer is lost, throws.
Answers(throws) ==
  \/ jwt \in honoured /\ Acts /\ Reported("placed")
  \/ jwt \in honoured /\ Reported("rejected") /\ UNCHANGED <<book, lost>>
  \/ FailsWith(jwt) /\ throws /\ UNCHANGED book
  \/ jwt \in honoured /\ LostAnswers /\ Acts /\ throws

Placed == 1 .. (IF Legs < MaxLegs THEN Legs ELSE MaxLegs)

\* The first leg that throws makes the basket log in again and is placed once
\* more, whatever made it throw; later ones are reported.
PlaceOrder ==
  /\ at = "place" /\ next \in Placed \ Invalid
  /\ IF relogged THEN Answers(Reported("error"))
                 ELSE Answers(at' = "relogin" /\ UNCHANGED <<next, results>>)
  /\ UNCHANGED <<inUse, honoured, expired>>

PlaceAgain ==
  /\ at = "retry"
  /\ Answers(Reported("error"))
  /\ UNCHANGED <<inUse, honoured, expired>>

SkipInvalid ==
  /\ at = "place" /\ next \in Placed \cap Invalid
  /\ Reported("error")
  /\ UNCHANGED <<inUse, broker>>

Finishes ==
  /\ at = "place" /\ next \notin Placed
  /\ at' = "done"
  /\ UNCHANGED <<inUse, broker, next, results>>

\* The broker ends a session.
SessionEnds(t) ==
  /\ expired < Expiries /\ t \in honoured
  /\ honoured' = honoured \ {t} /\ expired' = expired + 1
  /\ UNCHANGED <<at, inUse, next, results, lost, book>>

Ended == at \in {"done", "failed"} /\ UNCHANGED basketVars

BasketNext ==
  \/ SessionOrLogin \/ Probes
  \/ at = "login" /\ PasswordLogin("rms", LoginFails)
  \/ at = "rms" /\ ProbesLogin("place", relogged, LoginFails)
  \/ at = "relogin" /\ PasswordLogin("rerms", Reported("error"))
  \/ at = "rerms" /\ ProbesLogin("retry", TRUE, Reported("error"))
  \/ PlaceOrder \/ PlaceAgain \/ SkipInvalid \/ Finishes
  \/ (\E t \in Jwts : SessionEnds(t)) \/ Ended

BasketSpec == BasketInit /\ [][BasketNext]_basketVars

-----------------------------------------------------------------------------
\* placeBasket "places each selected basket leg as a regular SmartAPI order": no
\* leg becomes two orders, however sessions expire and calls fail.
OneOrderPerLeg == \A l \in 1 .. Legs : book[l] <= 1

\* What the client is told is what has happened: no leg is two orders, a leg is
\* reported placed if and only if the broker has its order, in the end every leg
\* of a basket within the limit has a row, and one session that dies costs no
\* valid leg as long as the calls get through.
BasketIsTrue ==
  /\ OneOrderPerLeg
  /\ \A l \in 1 .. Len(results) : (results[l] = "placed") <=> (book[l] > 0)
  /\ at = "done" /\ Legs <= MaxLegs => Len(results) = Legs
  /\ at = "done" /\ expired <= 1 /\ lost = 0
       => \A l \in DOMAIN results \ Invalid : results[l] # "error"
=============================================================================
