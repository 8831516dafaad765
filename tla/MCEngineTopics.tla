--------------------------- MODULE MCEngineTopics ----------------------------
(* Instances of EngineTopics for TLC. *)
EXTENDS EngineTopics, TLC

CONSTANTS upstox, i1, i2, c1, c2, t1, t2

OneBroker == {upstox}
OneInst == {i1}
TwoInsts == {i1, i2}
TwoClients == {c1, c2}
TwoTopics == {t1, t2}
QuoteOnly == {2}

\* Two topics over the same contract.
SameContract == [t \in {t1, t2} |-> {i1}]
\* Two topics of one underlying: they share its instrument.
SharedUnderlying == [t \in {t1, t2} |-> IF t = t1 THEN {i1} ELSE {i1, i2}]
ClientSymmetry == Permutations({c1, c2})
=============================================================================
