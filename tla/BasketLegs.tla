------------------------------ MODULE BasketLegs ------------------------------
(***************************************************************************)
(* The legs of the Enter Trade basket (EnterTrade.jsx, Basket.jsx): the    *)
(* contract of a leg is changed in its row and resolved again, from the    *)
(* cached chain of its expiry or by the server, while further changes may  *)
(* come; the margin and the charges of the basket are recalculated half a  *)
(* second after the last change.                                           *)
(*                                                                         *)
(* A contract is <<expiry, strike, kind>> and is its own token; a future   *)
(* has the strike 0.  The quantity, action, product and price are the `qty`*)
(* of a leg, which changes without resolving.                              *)
(***************************************************************************)
EXTENDS Naturals, FiniteSets

CONSTANTS
    LegIds, NoLeg,
    Ladder,             \* expiry -> side -> the strikes listed
    Window,             \* expiry -> the strikes its cached chain shows, around the money;
                        \* a side not listed at one of them has no token there
    TypedStrikes,       \* the strikes the user types
    StrikeStep,         \* strikeStepFor: the step without a chain
    MaxEdits            \* bound: what the user does to the basket

LadderExpiries == DOMAIN Ladder
OptionSides == {"CE", "PE"}
LegKinds == OptionSides \cup {"FUT"}
Listed(e) == {<<e, k, "CE">> : k \in Ladder[e]["CE"]} \cup {<<e, k, "PE">> : k \in Ladder[e]["PE"]}
Options == UNION {Listed(e) : e \in LadderExpiries}
Contracts == Options \cup {<<e, 0, "FUT">> : e \in LadderExpiries}
Legs == [expiry : LadderExpiries, strike : Nat, kind : LegKinds, token : Contracts, qty : {1, 2},
         resolving : BOOLEAN, error : BOOLEAN]

ASSUME BasketLegsAssumption ==
    /\ MaxEdits \in Nat /\ StrikeStep \in Nat /\ TypedStrikes \subseteq Nat \ {0}
    /\ Ladder \in [LadderExpiries -> [OptionSides -> SUBSET Nat]]
    /\ Window \in [LadderExpiries -> SUBSET Nat] /\ \A e \in LadderExpiries : Window[e] # {}
    /\ NoLeg \notin Legs

VARIABLES
    legs,               \* id -> one of Legs, or NoLeg
    resolves,           \* resolveLegContract and stepStrike calls under way
    latest,             \* resolveSeq: id -> number of the last resolve
    chainCache,         \* expiries whose chain is cached
    priced,             \* marginClient: has the chain been loaded on a logged-in account
    margin, marginJob,  \* the figure on screen and the timer or request that updates it
    edits

legVars == <<legs, resolves, latest, chainCache, priced, margin, marginJob, edits>>

InBasket == {i \in LegIds : legs[i] # NoLeg}
Distance(a, b) == IF a < b THEN b - a ELSE a - b
Closest(strikes, k) == {x \in strikes : \A y \in strikes : Distance(x, k) <= Distance(y, k)}
\* The chain's strikes ascend: of two at the same distance the lower is taken.
Nearest(strikes, k) == CHOOSE x \in Closest(strikes, k) : \A y \in Closest(strikes, k) : x <= y

LegsInit ==
    /\ legs = [i \in LegIds |-> NoLeg] /\ resolves = {} /\ latest = [i \in LegIds |-> 0]
    /\ chainCache = {} /\ priced \in BOOLEAN
    /\ margin = [status |-> "idle"] /\ marginJob = [stage |-> "none"] /\ edits = 0

Edit == edits < MaxEdits /\ edits' = edits + 1

\* What the calculators are sent of the basket (calcKey): the token and the quantity of
\* every leg, ticked or not.
Calc(ls) ==
    {[id |-> i, token |-> ls[i].token, qty |-> ls[i].qty] : i \in {j \in LegIds : ls[j] # NoLeg}}

\* The margin effect of a commit: when what is priced has changed, the running timer or
\* request is cancelled and a new timer started; an empty basket and one without a
\* logged-in account are settled at once.
\* fault: no cancelled flag
NotCancelled == IF marginJob.stage = "posted" THEN marginJob ELSE [stage |-> "timer"]

Cancelled == [stage |-> "timer"]
Reprice(ls, acct, forced) ==
    IF Calc(ls) = Calc(legs) /\ acct = priced /\ ~forced THEN UNCHANGED <<margin, marginJob>>
    ELSE IF Calc(ls) = {} THEN margin' = [status |-> "idle"] /\ marginJob' = [stage |-> "none"]
    ELSE IF ~acct THEN margin' = [status |-> "error"] /\ marginJob' = [stage |-> "none"]
    ELSE marginJob' = Cancelled /\ UNCHANGED margin

AddLeg(i, c, e) ==
    /\ Edit /\ legs[i] = NoLeg /\ latest[i] = 0
    /\ legs' = [legs EXCEPT ![i] = [expiry |-> e, strike |-> c[2], kind |-> c[3], token |-> c,
                                    qty |-> 1, resolving |-> FALSE, error |-> FALSE]]
    /\ Reprice(legs', priced, FALSE)
    /\ UNCHANGED <<resolves, latest, chainCache, priced>>

\* A leg, under an id never used before: a contract from the search is named by itself; a
\* row of the chain on screen is named by the expiry selected now, which need not be the
\* chain's.
AddFromSearch(i, c) == AddLeg(i, c, c[1])
AddFromChain(i, c, e) == c \in Options /\ AddLeg(i, c, e)

RemoveLeg(i) ==
    /\ Edit /\ i \in InBasket
    /\ legs' = [legs EXCEPT ![i] = NoLeg] /\ latest' = [latest EXCEPT ![i] = @ + 1]
    /\ Reprice(legs', priced, FALSE)
    /\ UNCHANGED <<resolves, chainCache, priced>>
ClearLegs ==
    /\ Edit /\ InBasket # {}
    /\ legs' = [i \in LegIds |-> NoLeg] /\ latest' = [i \in LegIds |-> latest[i] + 1]
    /\ Reprice(legs', priced, FALSE)
    /\ UNCHANGED <<resolves, chainCache, priced>>

\* A quantity, an action, a product, a price or the multiplier.
UpdateLeg(i) ==
    /\ Edit /\ i \in InBasket /\ legs' = [legs EXCEPT ![i].qty = 3 - @]
    /\ Reprice(legs', priced, FALSE)
    /\ UNCHANGED <<resolves, latest, chainCache, priced>>

\* refreshMargin: live prices go into the legs and the calculators run again.
RefreshMargin ==
    /\ Edit /\ Reprice(legs, priced, TRUE)
    /\ UNCHANGED <<legs, resolves, latest, chainCache, priced>>

\* resolveLegContract: the change shows at once, and a new number makes every earlier
\* resolve of the leg stale.  The contract is looked up in the chain of the expiry, which
\* is loaded first unless it is cached; without an account to load it with the server is
\* asked.
ResolveAs(i, e, k, s, others) ==
    /\ legs' = [legs EXCEPT ![i].expiry = e, ![i].strike = k, ![i].kind = s, ![i].resolving = TRUE]
    /\ latest' = [latest EXCEPT ![i] = @ + 1]
    /\ resolves' = others \cup
         {[stage |-> IF e \in chainCache \/ priced THEN "chain" ELSE "server",
           id |-> i, seq |-> latest[i] + 1, expiry |-> e, strike |-> k, kind |-> s]}

\* The row's controls: an expiry from the dropdown, a strike typed in, the side pill.  The
\* row of a future has the dropdown only.
ChangeContract(i, e, k, s) ==
    /\ Edit /\ i \in InBasket
    /\ \/ e # legs[i].expiry /\ k = legs[i].strike /\ s = legs[i].kind
       \/ /\ e = legs[i].expiry /\ legs[i].kind \in OptionSides
          /\ \/ k # legs[i].strike /\ k \in TypedStrikes /\ s = legs[i].kind
             \/ k = legs[i].strike /\ s \in OptionSides \ {legs[i].kind}
    /\ ResolveAs(i, e, k, s, resolves)
    /\ UNCHANGED <<chainCache, priced, margin, marginJob>>

\* stepStrike: the chain of the leg's expiry is awaited, then its next strike up or down
\* from the strike at the time of the press is resolved; without a chain, or when its load
\* fails, the strike a fixed step away.
StepStrike(i, up) ==
    /\ Edit /\ i \in InBasket /\ legs[i].kind \in OptionSides
    /\ resolves' = resolves \cup
        {[stage |-> IF legs[i].expiry \in chainCache \/ priced THEN "step" ELSE "jump",
          id |-> i, seq |-> 0, expiry |-> legs[i].expiry, strike |-> legs[i].strike, up |-> up]}
    /\ UNCHANGED <<legs, latest, chainCache, priced, margin, marginJob>>
LadderSteps(r) ==
    LET beyond == {k \in Window[r.expiry] : IF r.up THEN k > r.strike ELSE k < r.strike}
    IN  IF beyond = {} THEN {} ELSE {Nearest(beyond, r.strike)}
FixedSteps(r) ==
    (IF r.up THEN {r.strike + StrikeStep}
     ELSE IF r.strike > StrikeStep THEN {r.strike - StrikeStep} ELSE {0}) \ {r.strike}
Steps(r) == IF r.stage = "step" /\ r.expiry \in chainCache THEN LadderSteps(r) ELSE FixedSteps(r)
Stepped(r) ==
    /\ r \in resolves /\ r.stage \in {"step", "jump"}
    /\ IF Steps(r) = {} \/ legs[r.id] = NoLeg
       THEN resolves' = resolves \ {r} /\ UNCHANGED <<legs, latest>>
       ELSE \E k \in Steps(r) :
               ResolveAs(r.id, legs[r.id].expiry, k, legs[r.id].kind, resolves \ {r})
    /\ UNCHANGED <<chainCache, priced, margin, marginJob, edits>>

\* loadExpiryChain: one request per expiry serves everyone who waits for it.
Wanted(e) ==
    /\ priced /\ e \notin chainCache
    /\ \E r \in resolves : r.expiry = e /\ r.stage \in {"chain", "step"}
ChainCached(e) ==
    /\ Wanted(e) /\ chainCache' = chainCache \cup {e}
    /\ UNCHANGED <<legs, resolves, latest, priced, margin, marginJob, edits>>

\* finish: only the latest resolve of a leg is applied.
IsLatestAny(r) == legs[r.id] # NoLeg     \* fault: a stale answer is applied
IsLatest(r) == legs[r.id] # NoLeg /\ latest[r.id] = r.seq
Finish(r, patched) ==
    /\ resolves' = resolves \ {r}
    /\ legs' = IF IsLatest(r) THEN [legs EXCEPT ![r.id] = patched] ELSE legs
    /\ Reprice(legs', priced, FALSE)
    /\ UNCHANGED <<latest, chainCache, priced, edits>>
Resolved(c, kind, r, err) ==
    [expiry |-> c[1], strike |-> c[2], kind |-> kind, token |-> c, qty |-> legs[r.id].qty,
     resolving |-> FALSE, error |-> err]

\* What is not a put is looked up among the calls: a future too.
SideOf(kind) == IF kind = "PE" THEN "PE" ELSE "CE"

\* The strike nearest in the chain, if the side has a token there.
InChain(r) == Nearest(Window[r.expiry], r.strike)
FromChain(r) ==
    /\ r \in resolves /\ r.stage = "chain" /\ r.expiry \in chainCache
    /\ InChain(r) \in Ladder[r.expiry][SideOf(r.kind)]
    /\ Finish(r, Resolved(<<r.expiry, InChain(r), SideOf(r.kind)>>, r.kind, r, FALSE))
\* Where it has none, the server resolves the one contract, nearest in the whole ladder;
\* the row then says the side it found, and its error that a price could not be read.
AskServer(r) ==
    /\ r \in resolves /\ r.stage = "chain" /\ r.expiry \in chainCache
    /\ InChain(r) \notin Ladder[r.expiry][SideOf(r.kind)]
    /\ resolves' = (resolves \ {r}) \cup {[r EXCEPT !.stage = "server"]}
    /\ UNCHANGED <<legs, latest, chainCache, priced, margin, marginJob, edits>>
FromServer(r) ==
    /\ r \in resolves /\ r.stage = "server" /\ r.strike # 0
    /\ \E k \in Closest(Ladder[r.expiry][SideOf(r.kind)], r.strike), err \in BOOLEAN :
          Finish(r, Resolved(<<r.expiry, k, SideOf(r.kind)>>, SideOf(r.kind), r, err))
\* A chain or a resolve that fails leaves the changed fields with the old token.
ResolveFailed(r) ==
    /\ r \in resolves
    /\ r.stage = "server" \/ (r.stage = "chain" /\ r.expiry \notin chainCache)
    /\ Finish(r, [legs[r.id] EXCEPT !.resolving = FALSE, !.error = TRUE])

\* The option chain is loaded on a logged-in account, or its session is renewed.
MarginContext ==
    /\ ~priced /\ priced' = TRUE /\ Reprice(legs, TRUE, TRUE)
    /\ UNCHANGED <<legs, resolves, latest, chainCache, edits>>

\* The timer fires and both calculators are asked; their answers come together.
MarginPosted ==
    /\ marginJob.stage = "timer"
    /\ marginJob' = [stage |-> "posted", of |-> Calc(legs)] /\ margin' = [status |-> "loading"]
    /\ UNCHANGED <<legs, resolves, latest, chainCache, priced, edits>>
\* A session renewed on the way becomes the margin client's, and a new timer starts.
MarginAnswered(renewed) ==
    /\ marginJob.stage = "posted"
    /\ margin' = [status |-> "ready", of |-> marginJob.of]
    /\ marginJob' = [stage |-> IF renewed THEN "timer" ELSE "none"]
    /\ UNCHANGED <<legs, resolves, latest, chainCache, priced, edits>>
MarginFailed ==
    /\ marginJob.stage = "posted" /\ margin' = [status |-> "error"] /\ marginJob' = [stage |-> "none"]
    /\ UNCHANGED <<legs, resolves, latest, chainCache, priced, edits>>

StrikesOf(i) == TypedStrikes \cup (IF legs[i] = NoLeg THEN {} ELSE {legs[i].strike})

LegsNext ==
    \/ \E i \in LegIds : \/ RemoveLeg(i) \/ UpdateLeg(i) \/ StepStrike(i, TRUE) \/ StepStrike(i, FALSE)
                         \/ \E c \in Contracts :
                               AddFromSearch(i, c) \/ \E e \in LadderExpiries : AddFromChain(i, c, e)
                         \/ \E e \in LadderExpiries, k \in StrikesOf(i), s \in LegKinds :
                               ChangeContract(i, e, k, s)
    \/ ClearLegs \/ RefreshMargin \/ MarginContext
    \/ \E e \in LadderExpiries : ChainCached(e)
    \/ \E r \in resolves :
          Stepped(r) \/ FromChain(r) \/ AskServer(r) \/ FromServer(r) \/ ResolveFailed(r)
    \/ MarginPosted \/ MarginFailed \/ \E renewed \in BOOLEAN : MarginAnswered(renewed)

\* Every request is answered and every timer fires.
ChainsArrive == \E e \in LadderExpiries : ChainCached(e)
ResolvesGoOn ==
    \E r \in resolves :
        Stepped(r) \/ FromChain(r) \/ AskServer(r) \/ FromServer(r) \/ ResolveFailed(r)
LegsSpec == LegsInit /\ [][LegsNext]_legVars /\ WF_legVars(ChainsArrive) /\ WF_legVars(ResolvesGoOn)

-----------------------------------------------------------------------------
(* Properties *)

\* The leg of an option whose contract has been changed in its row, and that is not being
\* resolved and shows no error, holds the token of the contract the row names; and as long
\* as the answer to its last change is out the row shows that change, whatever answers to
\* earlier ones come late, from chains and from the server.
LegHoldsItsContract ==
    /\ \A i \in InBasket :
          legs[i].kind \in OptionSides /\ latest[i] > 0 /\ ~legs[i].resolving /\ ~legs[i].error =>
              legs[i].token = <<legs[i].expiry, legs[i].strike, legs[i].kind>>
    /\ \A r \in resolves :
          r.stage \in {"chain", "server"} /\ r.id \in InBasket /\ latest[r.id] = r.seq =>
              /\ legs[r.id].resolving /\ legs[r.id].kind = r.kind
              /\ legs[r.id].expiry = r.expiry /\ legs[r.id].strike = r.strike

\* A margin on screen with nothing under way to replace it is the margin of the basket
\* on screen.
MarginIsTheBaskets ==
    margin.status = "ready" /\ marginJob.stage = "none" => margin.of = Calc(legs)
=============================================================================
