--------------------------- MODULE MCCreditCommit ---------------------------
(***************************************************************************)
(* Instances of CreditCommit for TLC: two commits of the two balances of   *)
(* one plan and one that charges nothing or, in the run for liveness, one  *)
(* commit and one that its API balance does not cover.                     *)
(***************************************************************************)
EXTENDS CreditCommit, TLC

CONSTANTS w1, w2, e1, e2, e3, e4, plan

MCCommit == [e \in Events |->
    CASE e = e1 -> [plan |-> plan, bucket |-> "api", amount |-> 2]
      [] e = e2 -> [plan |-> plan, bucket |-> "chain", amount |-> 1]
      [] e = e4 -> [plan |-> plan, bucket |-> "api", amount |-> 0]
      [] OTHER  -> [plan |-> plan, bucket |-> "api", amount |-> 3]]

MCTotal == [p \in Plans |-> [api |-> 2, chain |-> 1]]

Symmetry == Permutations(Workers)

\* Bound of the check: the event that charges nothing is given up before the
\* others are taken, without a stall.
InvalidFirst ==
    \A e \in Events : ~ValidAmount(e) =>
        /\ stalls[e] = 0
        /\ \/ job[e] = "failed"
           \/ \A f \in Events \ {e} : job[f] = "waiting" /\ attempts[f] = 0
                                      /\ stalls[f] = 0

\* Bound of the check of liveness: one event at most stalls.
OneStalled == Cardinality({e \in Events : stalls[e] > 0}) <= 1
=============================================================================
