------------------------------ MODULE MCLogin ------------------------------
(***************************************************************************)
(* An instance of Login for TLC.                                           *)
(***************************************************************************)
EXTENDS Login, TLC

Symmetry == Permutations(Calls) \cup Permutations(Visits)

NoLoginYet == /\ \A c \in Calls : at[c] = "idle"
              /\ \A s \in Sids : ~Used(s)

\* The e-mails are explored until a login starts.  After it no code is asked
\* for, and only the logins with the first code, in the first hour, go on.
\* One of these happens to a session: two requests overlap (no third wrong
\* code is entered then), two updates of the user overlap, a request dies.
Bounded ==
    NoLoginYet \/ /\ \A v \in Visits : visitAt[v] = "idle"
                  /\ attempts = 0 /\ made <= 1 /\ lost = 0
                  /\ made = 1 => cooldown /\ countTtl /\ count = 1
                  /\ \A n \in Codes : wrongs[n] = 0
                  /\ Cardinality(h.overlapped) + deaths
                       + (IF h.mixed THEN 1 ELSE 0) <= 1
                  /\ \A s \in h.overlapped : h.wrong[s] <= 2
=============================================================================
