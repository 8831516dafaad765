--------------------------- MODULE TokenUnionProofs ---------------------------
(***************************************************************************)
(* Proofs about the union of tokens an Angel market feed subscribes        *)
(* (TokenUnion), for any finite set of tokens and any cap.                 *)
(*                                                                         *)
(* UnionSpec is what both feeds promise of their union: it changes by the  *)
(* three operations of TokenUnion and by nothing else.  What merge returns *)
(* is stated once (MergedWithin); the cap and NeededStays follow from it   *)
(* here, and StreamProofs (AngelFeed) and SessionProofs (GoFeed) show that *)
(* their feeds implement UnionSpec.                                        *)
(***************************************************************************)
EXTENDS TokenUnion, FiniteSetTheorems, TLAPS

\* Releases and merges as chain and basket changes make them: what is left of
\* the union when L has been released, filled with as much of S as it holds.
Change(L, S) == tokens' \in Merged(tokens \ L, S)

-----------------------------------------------------------------------------
\* merge keeps what it is given, adds nothing but the new entries, and never
\* takes a union that is within the cap beyond it.
LEMMA MergedWithin ==
  ASSUME NEW u \in SUBSET Tokens, NEW S \in SUBSET Tokens, Cardinality(u) <= Cap,
         NEW m \in Merged(u, S)
  PROVE  /\ u \subseteq m /\ m \subseteq u \cup S
         /\ Cardinality(m) <= Cap
<1> DEFINE new == S \ u
           room == IF Cap > Cardinality(u) THEN Cap - Cardinality(u) ELSE 0
           n == IF room < Cardinality(new) THEN room ELSE Cardinality(new)
<1>1. PICK T \in SUBSET new : Cardinality(T) = n /\ m = u \cup T
  BY DEF Merged
<1>2. IsFiniteSet(u) /\ IsFiniteSet(new) /\ IsFiniteSet(T)
  BY UnionAssumption, FS_Subset
<1>3. Cardinality(u) \in Nat /\ Cardinality(new) \in Nat /\ Cardinality(T) \in Nat
  BY <1>2, FS_CardinalityType
<1>4. Cardinality(u) + n <= Cap
  BY <1>3, UnionAssumption
<1>5. u \cap T = {}
  OBVIOUS
<1>6. Cardinality(u \cup T) = Cardinality(u) + Cardinality(T) - Cardinality(u \cap T)
  BY <1>2, FS_Union
<1>7. Cardinality(u \cap T) = 0
  BY <1>5, FS_EmptySet
<1>8. Cardinality(u \cup T) = Cardinality(u) + Cardinality(T)
  BY <1>3, <1>6, <1>7
<1> QED  BY <1>1, <1>4, <1>8

\* So a change of the chain or the basket keeps what it does not release, adds
\* nothing but what is asked for, and stays within the cap.
LEMMA ChangeWithin ==
  ASSUME UnionTypeOK, NEW L, NEW S \in SUBSET Tokens, Change(L, S)
  PROVE  /\ tokens \ L \subseteq tokens' /\ tokens' \subseteq (tokens \ L) \cup S
         /\ tokens' \subseteq Tokens /\ Cardinality(tokens') <= Cap
<1>1. IsFiniteSet(tokens) /\ tokens \ L \in SUBSET tokens
  BY UnionAssumption, FS_Subset DEF UnionTypeOK
<1>2. Cardinality(tokens \ L) <= Cardinality(tokens)
      /\ Cardinality(tokens \ L) \in Nat /\ Cardinality(tokens) \in Nat
  BY <1>1, FS_Subset, FS_CardinalityType
<1>3. Cardinality(tokens \ L) <= Cap /\ tokens \ L \in SUBSET Tokens
  BY <1>2, UnionAssumption DEF UnionTypeOK
<1> QED  BY <1>3, MergedWithin DEF Change

\* A new chain, a new basket and a reset keep the union within its tokens and cap.
LEMMA UnionTyped ==
  ASSUME UnionTypeOK,
         \/ \E S \in SUBSET Tokens : ChainSync(S) \/ BasketSync(S)
         \/ Forget \/ UNCHANGED unionVars
  PROVE  UnionTypeOK'
<1>0. Cardinality({}) = 0 /\ 0 <= Cap
  BY FS_EmptySet, UnionAssumption
<1>1. ASSUME NEW S \in SUBSET Tokens, ChainSync(S) PROVE UnionTypeOK'
  BY <1>1, ChangeWithin DEF ChainSync, Change, UnionTypeOK
<1>2. ASSUME NEW S \in SUBSET Tokens, BasketSync(S) PROVE UnionTypeOK'
  BY <1>2, ChangeWithin DEF BasketSync, Change, UnionTypeOK
<1>3. CASE Forget
  BY <1>0, <1>3 DEF Forget, UnionTypeOK
<1>4. CASE UNCHANGED unionVars
  BY <1>4 DEF unionVars, UnionTypeOK
<1> QED  BY <1>1, <1>2, <1>3, <1>4

-----------------------------------------------------------------------------
\* The union by itself: a new chain, a new basket or a reset, in any order.
UnionNext == (\E S \in SUBSET Tokens : ChainSync(S) \/ BasketSync(S)) \/ Forget
UnionSpec == UnionInit /\ [][UnionNext]_unionVars

\* Nothing is in the union at first, and that is within the cap.
LEMMA UnionBegins == UnionInit => UnionTypeOK
  BY FS_EmptySet, UnionAssumption DEF UnionInit, UnionTypeOK

\* The union never exceeds MAX_FEED_TOKENS, whatever chains and baskets come (merge).
THEOREM UnionWithinCap == UnionSpec => []UnionTypeOK
<1>1. UnionTypeOK /\ [UnionNext]_unionVars => UnionTypeOK'
  BY UnionTyped DEF UnionNext
<1> QED  BY <1>1, UnionBegins, PTL DEF UnionSpec

\* A change of the chain releases nothing the basket needs, nor the other way round
\* (the releases of subscribeItems and setBasketTokensItems).
THEOREM UnionKeepsNeeded == UnionSpec => NeededStays
<1> DEFINE Stays == tokens \cap (chainKeys \cup basketKeys) \cap (chainKeys' \cup basketKeys')
                      \subseteq tokens'
<1>1. ASSUME UnionTypeOK, NEW S \in SUBSET Tokens, ChainSync(S) PROVE Stays
  <2>1. tokens \ ChainLeaves(S) \subseteq tokens'
    BY <1>1, ChangeWithin DEF ChainSync, Change
  <2> QED  BY <1>1, <2>1 DEF ChainSync, ChainLeaves
<1>2. ASSUME UnionTypeOK, NEW S \in SUBSET Tokens, BasketSync(S) PROVE Stays
  <2>1. tokens \ BasketLeaves(S) \subseteq tokens'
    BY <1>2, ChangeWithin DEF BasketSync, Change
  <2> QED  BY <1>2, <2>1 DEF BasketSync, BasketLeaves
<1>3. Forget => Stays
  BY DEF Forget
<1>4. UnionTypeOK /\ [UnionNext]_unionVars => [Stays]_unionVars
  BY <1>1, <1>2, <1>3 DEF UnionNext
<1> QED  BY <1>4, UnionWithinCap, PTL DEF UnionSpec, NeededStays
=============================================================================
