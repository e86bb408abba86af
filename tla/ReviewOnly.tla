----------------------------- MODULE ReviewOnly -----------------------------
(***************************************************************************)
(* What the promotion path promises (docs/PROMOTION_POLICY.md, the         *)
(* review_contract of the champion report, the rollback safeguards): the   *)
(* automation only recommends.  A configuration the policy cleared may be  *)
(* proposed, a proposal may be adopted by a person, and nothing else ever  *)
(* changes production.                                                     *)
(***************************************************************************)
CONSTANTS Configurations, Deployed

VARIABLES
    production,     \* the deployed configuration
    cleared,        \* the configurations the policy ever cleared
    proposed        \* the configurations with an open proposal

vars == <<production, cleared, proposed>>

Init == production = Deployed /\ cleared = {} /\ proposed = {}

Clear(c) == cleared' = cleared \union {c} /\ UNCHANGED <<production, proposed>>

Propose(c) ==
    /\ c \in cleared
    /\ proposed' = proposed \union {c}
    /\ UNCHANGED <<production, cleared>>

\* A proposal ends, adopted or not; another one of the same configuration may
\* stay open.
Adopt(c) ==
    /\ c \in proposed
    /\ production' = c
    /\ proposed' \in {proposed, proposed \ {c}}
    /\ UNCHANGED cleared

Decline(c) ==
    /\ proposed' = proposed \ {c}
    /\ UNCHANGED <<production, cleared>>

Next == \E c \in Configurations : Clear(c) \/ Propose(c) \/ Adopt(c) \/ Decline(c)

Spec == Init /\ [][Next]_vars
=============================================================================
