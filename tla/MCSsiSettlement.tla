-------------------------- MODULE MCSsiSettlement --------------------------
(***************************************************************************)
(* An instance of SsiSettlement for TLC: a batch of two reservations that *)
(* succeeded, one that failed, and a result whose outcome is unknown.      *)
(***************************************************************************)
EXTENDS SsiSettlement

CONSTANTS m1, m2, m3, a, b, c

MCResult == [m \in Messages |->
    CASE m = m1 -> [status |-> "SUCCEEDED", items |-> <<a, b>>]
      [] m = m2 -> [status |-> "FAILED", items |-> <<c>>]
      [] OTHER  -> [status |-> "UNKNOWN", items |-> <<b>>]]
=============================================================================
