------------------------------ MODULE MCFeedHub ------------------------------
(* Instances of FeedHub for TLC. *)
EXTENDS FeedHub

CONSTANTS upstox, angel, i1, i2, c1, c2

OneBroker == {upstox}
TwoBrokers == {upstox, angel}
OneInst == {i1}
TwoClients == {c1, c2}
QuoteDepth == {2, 3}
=============================================================================
