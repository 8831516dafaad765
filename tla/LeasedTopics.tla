---------------------------- MODULE LeasedTopics -----------------------------
(***************************************************************************)
(* What the OI-decay engine promises its users, without the feed, the      *)
(* asynchronous construction or the reference counts: a topic exists while *)
(* a subscriber holds it or a polling client's lease runs, and not for     *)
(* ever after.                                                             *)
(***************************************************************************)
EXTENDS Integers

CONSTANTS Topics, Subscribers

VARIABLES
  live,     \* the topics that exist
  holders,  \* topic -> its subscribers
  leased    \* topics whose poll lease has not lapsed

leaseVars == <<live, holders, leased>>

LeaseTypeOK ==
  /\ live \subseteq Topics
  /\ holders \in [Topics -> SUBSET Subscribers]
  /\ leased \subseteq Topics

LeaseInit ==
  /\ live = {}
  /\ holders = [t \in Topics |-> {}]
  /\ leased = {}

\* Subscribers S take the topic up, or a poll does, or both at once.
Take(t, S, poll) ==
  /\ S # {} \/ poll
  /\ live' = live \cup {t}
  /\ holders' = [holders EXCEPT ![t] = @ \cup S]
  /\ leased' = IF poll THEN leased \cup {t} ELSE leased

\* A subscriber lets go of topics; what nobody needs any more goes at once.
Drop(c, T) ==
  /\ holders' = [t \in Topics |-> IF t \in T THEN holders[t] \ {c} ELSE holders[t]]
  /\ live' = live \ {t \in T : holders[t] \subseteq {c} /\ t \notin leased}
  /\ UNCHANGED leased

Lapse(t) ==
  /\ t \in leased
  /\ leased' = leased \ {t}
  /\ UNCHANGED <<live, holders>>

Unneeded == {t \in live : holders[t] = {} /\ t \notin leased}

Collect ==
  /\ Unneeded # {}
  /\ live' = live \ Unneeded
  /\ UNCHANGED <<holders, leased>>

LeaseNext ==
  \/ \E t \in Topics, S \in SUBSET Subscribers, poll \in BOOLEAN : Take(t, S, poll)
  \/ \E c \in Subscribers, T \in SUBSET Topics : Drop(c, T)
  \/ \E t \in Topics : Lapse(t)
  \/ Collect

LeaseSpec == LeaseInit /\ [][LeaseNext]_leaseVars /\ WF_leaseVars(Collect)
=============================================================================
