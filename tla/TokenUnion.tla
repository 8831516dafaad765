------------------------------ MODULE TokenUnion ------------------------------
(***************************************************************************)
(* The tokens an Angel market feed subscribes: the union of what the       *)
(* on-screen option chain and the basket need, under the limit Angel sets  *)
(* for one session.  The Node feed (angel/feed.js) and the Go feed         *)
(* (internal/angel/feed.go) keep it in the same way.                       *)
(***************************************************************************)
EXTENDS Integers, FiniteSets

CONSTANTS
  Tokens,  \* (exchange type, token) pairs
  Cap      \* MAX_FEED_TOKENS

ASSUME UnionAssumption == IsFiniteSet(Tokens) /\ Cap \in Nat

VARIABLES
  tokens,     \* the union, as far as the cap allowed it
  chainKeys,  \* what the chain on screen needs
  basketKeys  \* what the basket needs

unionVars == <<tokens, chainKeys, basketKeys>>

UnionTypeOK ==
  /\ tokens \subseteq Tokens /\ Cardinality(tokens) <= Cap
  /\ chainKeys \subseteq Tokens
  /\ basketKeys \subseteq Tokens

UnionInit == tokens = {} /\ chainKeys = {} /\ basketKeys = {}

\* merge: entries are added in the order they come, until the union is full.
Merged(u, S) ==
  LET new == S \ u
      room == IF Cap > Cardinality(u) THEN Cap - Cardinality(u) ELSE 0
      n == IF room < Cardinality(new) THEN room ELSE Cardinality(new)
  IN {u \cup T : T \in {T \in SUBSET new : Cardinality(T) = n}}

ChainLeavesAll(S) == chainKeys \ S   \* fault: the basket's tokens are not kept

\* What a new chain S, or a new basket S, makes superfluous.
ChainLeaves(S) == chainKeys \ (S \cup basketKeys)
BasketLeaves(S) == basketKeys \ (S \cup chainKeys)

\* A new chain, and a new basket; what they add is tokens' \ tokens.
ChainSync(S) ==
  /\ tokens' \in Merged(tokens \ ChainLeaves(S), S)
  /\ chainKeys' = S
  /\ UNCHANGED basketKeys

BasketSync(S) ==
  /\ tokens' \in Merged(tokens \ BasketLeaves(S), S)
  /\ basketKeys' = S
  /\ UNCHANGED chainKeys

\* closeUpstream(reset).
Forget == tokens' = {} /\ chainKeys' = {} /\ basketKeys' = {}

-----------------------------------------------------------------------------
\* A token that is streamed, and needed before and after a change of the chain or
\* the basket, is not dropped by it: a new chain keeps the basket's prices coming
\* although it released the old chain's, and the other way round.
NeededStays ==
  [][tokens \cap (chainKeys \cup basketKeys) \cap (chainKeys' \cup basketKeys')
       \subseteq tokens']_unionVars
=============================================================================
