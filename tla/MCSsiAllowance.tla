--------------------------- MODULE MCSsiAllowance ---------------------------
(***************************************************************************)
(* An instance of SsiAllowance for TLC: plans of one API credit, worth one *)
(* unit on the chain.                                                      *)
(***************************************************************************)
EXTENDS SsiAllowance, FiniteSets, TLC

Symmetry == Permutations(Plans) \cup Permutations(Requests)

\* Bounds of the check: one command and one event are on their way at a time;
\* once time has passed or a request has died, one request and one plan go on.
Bounded ==
    /\ Cardinality({c \in commands : wallet[c.plan][c.bucket] = None}) <= 1
    /\ Cardinality(unconfirmed) <= 1
    /\ now + crashes > 0 =>
          /\ Cardinality({r \in Requests : ~At(r, "idle")}) <= 1
          /\ Cardinality({p \in Plans : status[p] # "none"}) <= 1
=============================================================================
