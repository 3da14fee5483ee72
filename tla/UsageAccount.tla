---------------------------- MODULE UsageAccount ----------------------------
(***************************************************************************)
(* What the credit consumer promises about the usage events it receives,   *)
(* with none of its machinery: every committed usage event is charged to   *)
(* its plan at most once and never beyond the plan's total, a plan that    *)
(* becomes fully used is retired, and an event enters the analytics ledger *)
(* only after it was charged.                                              *)
(*                                                                         *)
(* CreditCommit.tla is the detailed model; it implements this module.      *)
(***************************************************************************)
EXTENDS Integers

CONSTANTS Events,   \* the COMMITTED usage events, by eventId
          Plans,    \* the credit plans
          SsiPlans, \* the plans of SSI services (two balances)
          Commit,   \* what each event charges: plan, bucket and amount
          Total     \* Total[p][b]: what plan p holds of bucket b

VARIABLES charged,  \* the events whose amount is in a plan's used balance
          recorded, \* the events the ledger holds
          used,     \* used[p][b]: what was consumed of bucket b of plan p
          status    \* status[p]: "Active" or "Inactive"

vars == <<charged, recorded, used, status>>

Init == /\ charged = {}
        /\ recorded = {}
        /\ used = [p \in Plans |-> [b \in {"api", "chain"} |-> 0]]
        /\ status = [p \in Plans |-> "Active"]

\* A plan is exhausted when nothing is left to charge: an SSI plan when both
\* its balances are used up, another plan when its API credit is.
Exhausted(p, u) == /\ u["api"] = Total[p]["api"]
                   /\ p \in SsiPlans => u["chain"] = Total[p]["chain"]

Charge(e) ==
    LET p == Commit[e].plan
        u == [used[p] EXCEPT ![Commit[e].bucket] = @ + Commit[e].amount]
    IN  /\ e \notin charged
        /\ u[Commit[e].bucket] <= Total[p][Commit[e].bucket]
        /\ charged' = charged \cup {e}
        /\ used' = [used EXCEPT ![p] = u]
        /\ status' = IF Exhausted(p, u)
                     THEN [status EXCEPT ![p] = "Inactive"]
                     ELSE status
        /\ UNCHANGED recorded

Record(e) == /\ e \in charged
             /\ recorded' = recorded \cup {e}
             /\ UNCHANGED <<charged, used, status>>

Next == \E e \in Events : Charge(e) \/ Record(e)

Spec == Init /\ [][Next]_vars
=============================================================================
