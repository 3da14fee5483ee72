----------------------------- MODULE MCKycPlans -----------------------------
(***************************************************************************)
(* Instances of KycPlans for TLC: two plans, of one or two credits each,   *)
(* whose balance is critical when the last credit is in use.               *)
(***************************************************************************)
EXTENDS KycPlans, TLC

\* All workers run in one replica.
OneReplica == [w \in Workers |-> "dashboard"]

Symmetry == Permutations(Plans) \cup Permutations(Workers)

\* Bounds of the check: a crash or a tick, not both, and one lifecycle event at
\* a time after the tick.
Bounded == /\ crashes + now <= 1
           /\ now = 0 \/ Cardinality(queue) <= 1
=============================================================================
