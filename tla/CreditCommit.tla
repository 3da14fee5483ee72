---------------------------- MODULE CreditCommit ----------------------------
(***************************************************************************)
(* The path of a COMMITTED usage event through the dashboard.              *)
(*                                                                         *)
(* A BullMQ worker takes the event's job and runs CreditEventStore.append: *)
(* it looks the event up in the ledger, charges the plan together with an  *)
(* outbox entry in one MongoDB transaction, sends the usage alerts, then   *)
(* claims a lease on the outbox entry, appends the ledger row and marks    *)
(* the entry WRITTEN.  Every await is a point where the worker may crash,  *)
(* where the call may fail with or without having had its effect, and      *)
(* where another worker (the job's lock was lost, or the event was         *)
(* delivered again) may run the same event.                                *)
(*                                                                         *)
(* A worker is one concurrency slot of one replica of the service.  The    *)
(* lease token (a fresh UUID) is represented by the worker that claimed    *)
(* it: a worker holds at most one token, and one it lost in a crash is     *)
(* never presented again, because it must claim before it writes.          *)
(***************************************************************************)
EXTENDS Integers, FiniteSets

CONSTANTS
    Workers,         \* the concurrency slots that process the event queue
    Events,          \* the COMMITTED events, by eventId
    Plans,           \* the credit plans, by dashboard planId
    SsiPlans,        \* the plans whose serviceType is SSI_API
    Commit,          \* Commit[e]: the plan, bucket and amount e charges
    Total,           \* Total[p][b]: the total of bucket b of plan p
    NoOne,           \* no worker, no event
    PromptWriters,   \* TRUE: a live writer finishes within its 30 s lease
    MaxAttempts,     \* bound: attempts of a job before BullMQ fails it
    MaxStalls,       \* bound: lost job locks BullMQ tolerates per job
    MaxRedeliveries  \* bound: times a settled event is delivered again

Buckets == {"api", "chain"}

ASSUME CommitAssumption ==
    /\ SsiPlans \subseteq Plans
    /\ Commit \in [Events -> [plan : Plans, bucket : Buckets,
                              amount : Nat]]
    /\ Total \in [Plans -> [Buckets -> Nat]]
    /\ \A p \in Plans : Total[p]["api"] > 0
    /\ NoOne \notin Workers \cup Events
    /\ PromptWriters \in BOOLEAN
    /\ MaxAttempts \in Nat \ {0}
    /\ MaxStalls \in Nat
    /\ MaxRedeliveries \in Nat

VARIABLES
    used,          \* credit plan: apiCredit.used, onChainAllowance.usedAmount
    status,        \* credit plan: status
    outbox,        \* creditCommitOutbox: ledgerStatus, or "ABSENT"
    lease,         \* creditCommitOutbox: ledgerLeaseToken
    leaseExpired,  \* creditCommitOutbox: ledgerLeaseUntil <= now
    ledger,        \* creditLedger: number of rows with this eventId
    job,           \* BullMQ: state of the event's job
    owner,         \* BullMQ: the worker that holds the job's lock
    attempts,      \* BullMQ: attempts that ended in an error
    stalls,        \* BullMQ: times the job's lock was lost
    redeliveries,  \* BullMQ: times the event was delivered again
    pc,            \* the await a worker is at
    handling       \* the event a worker is handling

planVars == <<used, status>>
outboxVars == <<outbox, lease, leaseExpired>>
jobVars == <<job, owner, attempts, stalls, redeliveries>>
workerVars == <<pc, handling>>
vars == <<planVars, outboxVars, ledger, jobVars, workerVars>>

\* The awaits outside and inside the try block of persistCommitLedger.
PlainAwaits == {"check", "markSeen", "apply", "notify", "claim", "noLease"}
LeasedAwaits == {"recheck", "create", "mark"}
Labels == {"idle", "return", "failed", "release"} \cup PlainAwaits
                                                  \cup LeasedAwaits

TypeOK ==
    /\ used \in [Plans -> [Buckets -> Nat]]
    /\ status \in [Plans -> {"Active", "Inactive"}]
    /\ outbox \in [Events -> {"ABSENT", "PENDING", "WRITING", "WRITTEN"}]
    /\ lease \in [Events -> Workers \cup {NoOne}]
    /\ leaseExpired \in [Events -> BOOLEAN]
    /\ ledger \in [Events -> Nat]
    /\ job \in [Events -> {"waiting", "active", "completed", "failed"}]
    /\ owner \in [Events -> Workers \cup {NoOne}]
    /\ attempts \in [Events -> Nat]
    /\ stalls \in [Events -> Nat]
    /\ redeliveries \in [Events -> Nat]
    /\ pc \in [Workers -> Labels]
    /\ handling \in [Workers -> Events \cup {NoOne}]
    /\ \A w \in Workers : pc[w] # "idle" => handling[w] \in Events

Init ==
    /\ used = [p \in Plans |-> [b \in Buckets |-> 0]]
    /\ status = [p \in Plans |-> "Active"]
    /\ outbox = [e \in Events |-> "ABSENT"]
    /\ lease = [e \in Events |-> NoOne]
    /\ leaseExpired = [e \in Events |-> FALSE]
    /\ ledger = [e \in Events |-> 0]
    /\ job = [e \in Events |-> "waiting"]
    /\ owner = [e \in Events |-> NoOne]
    /\ attempts = [e \in Events |-> 0]
    /\ stalls = [e \in Events |-> 0]
    /\ redeliveries = [e \in Events |-> 0]
    /\ pc = [w \in Workers |-> "idle"]
    /\ handling = [w \in Workers |-> NoOne]

-----------------------------------------------------------------------------
(* The worker's control.                                                   *)

At(w, label) == pc[w] = label

Goto(w, label) == /\ pc' = [pc EXCEPT ![w] = label]
                  /\ UNCHANGED handling

\* Where an exception lands: the catch block that releases the lease, or out
\* of append.  A failed release is logged and the first error is rethrown.
OnError(label) == IF label \in LeasedAwaits THEN "release" ELSE "failed"

\* The awaited call had its effect; its answer may still be lost.
Answer(w, label) == \/ Goto(w, label)
                    \/ Goto(w, OnError(pc[w]))

\* The awaited call fails and has no effect.
AwaitRejects(w) ==
    /\ pc[w] \in PlainAwaits \cup LeasedAwaits \cup {"release"}
    /\ Goto(w, OnError(pc[w]))
    /\ UNCHANGED <<planVars, outboxVars, ledger, jobVars>>

\* markCommitLedgerWritten: the update applies to the entry that matches.
MarkWritten(e, matches) ==
    IF matches
    THEN /\ outbox' = [outbox EXCEPT ![e] = "WRITTEN"]
         /\ lease' = [lease EXCEPT ![e] = NoOne]
         /\ leaseExpired' = [leaseExpired EXCEPT ![e] = FALSE]
    ELSE UNCHANGED outboxVars

-----------------------------------------------------------------------------
(* The steps of append and processCommit.                                  *)

ValidAmount(e) == Commit[e].amount > 0

\* validateCreditType: only an SSI service has a chain allowance to charge.
ValidCreditType(e) == Commit[e].plan \notin SsiPlans => Commit[e].bucket = "api"

\* An event that makes no sense fails its attempt, before anything is read.
Refuse(w) ==
    /\ At(w, "check")
    /\ ~(ValidAmount(handling[w]) /\ ValidCreditType(handling[w]))
    /\ Goto(w, "failed")
    /\ UNCHANGED <<planVars, outboxVars, ledger, jobVars>>

\* processLifecycleEvent: an event the ledger holds is only marked.
CheckLedger(w) ==
    /\ At(w, "check")
    /\ ValidAmount(handling[w]) /\ ValidCreditType(handling[w])
    /\ Goto(w, IF ledger[handling[w]] > 0 THEN "markSeen" ELSE "apply")
    /\ UNCHANGED <<planVars, outboxVars, ledger, jobVars>>

MarkSeen(w) ==
    /\ At(w, "markSeen")
    /\ MarkWritten(handling[w], outbox[handling[w]] # "ABSENT")
    /\ Answer(w, "return")
    /\ UNCHANGED <<planVars, ledger, jobVars>>

\* The balance of a plan after event e.
Debited(e) ==
    [used[Commit[e].plan] EXCEPT ![Commit[e].bucket] = @ + Commit[e].amount]

Fits(e) == Debited(e)[Commit[e].bucket]
              <= Total[Commit[e].plan][Commit[e].bucket]

\* statusCondition: the plan is used up once the commit is applied.
Exhausted(p, u) == /\ u["api"] = Total[p]["api"]
                   /\ p \in SsiPlans => u["chain"] = Total[p]["chain"]

\* Wrong on purpose: the status is computed from the balance before the debit.
Mutant_ApplyStaleStatus(w) ==
    LET e == handling[w]
        p == Commit[e].plan
    IN  /\ At(w, "apply")
        /\ outbox[e] = "ABSENT"
        /\ Fits(e)
        /\ outbox' = [outbox EXCEPT ![e] = "PENDING"]
        /\ used' = [used EXCEPT ![p] = Debited(e)]
        /\ status' = IF Exhausted(p, used[p])
                     THEN [status EXCEPT ![p] = "Inactive"]
                     ELSE status
        /\ Answer(w, "notify")
        /\ UNCHANGED <<lease, leaseExpired, ledger, jobVars>>

\* applyPlanCreditCommit: the outbox entry and the balance in one transaction.
Apply(w) ==
    LET e == handling[w]
        p == Commit[e].plan
    IN  /\ At(w, "apply")
        /\ outbox[e] = "ABSENT"
        /\ Fits(e)
        /\ outbox' = [outbox EXCEPT ![e] = "PENDING"]
        /\ used' = [used EXCEPT ![p] = Debited(e)]
        /\ status' = IF Exhausted(p, Debited(e))
                     THEN [status EXCEPT ![p] = "Inactive"]
                     ELSE status
        /\ Answer(w, "notify")
        /\ UNCHANGED <<lease, leaseExpired, ledger, jobVars>>

\* The unique index on eventId rejects the insert: applyPlanCreditCommit
\* answers null and hasProcessedCommit finds the entry, which nobody deletes.
ApplyDuplicate(w) ==
    /\ At(w, "apply")
    /\ outbox[handling[w]] # "ABSENT"
    /\ Goto(w, "claim")
    /\ UNCHANGED <<planVars, outboxVars, ledger, jobVars>>

\* The balance does not cover the amount: the transaction aborts and throws.
ApplyExceeds(w) ==
    /\ At(w, "apply")
    /\ outbox[handling[w]] = "ABSENT"
    /\ ~Fits(handling[w])
    /\ Goto(w, "failed")
    /\ UNCHANGED <<planVars, outboxVars, ledger, jobVars>>

\* The usage alerts of CreditNotificationService; they change nothing here.
Notify(w) ==
    /\ At(w, "notify")
    /\ Goto(w, "claim")
    /\ UNCHANGED <<planVars, outboxVars, ledger, jobVars>>

-----------------------------------------------------------------------------
(* The steps of persistCommitLedger.                                       *)

\* The filter of claimCommitLedgerWrite.
Claimable(e) == \/ outbox[e] = "PENDING"
                \/ outbox[e] = "WRITING" /\ leaseExpired[e]

Claim(w) ==
    LET e == handling[w] IN
    /\ At(w, "claim")
    /\ Claimable(e)
    /\ outbox' = [outbox EXCEPT ![e] = "WRITING"]
    /\ lease' = [lease EXCEPT ![e] = w]
    /\ leaseExpired' = [leaseExpired EXCEPT ![e] = FALSE]
    /\ Answer(w, "recheck")
    /\ UNCHANGED <<planVars, ledger, jobVars>>

ClaimRefused(w) ==
    /\ At(w, "claim")
    /\ ~Claimable(handling[w])
    /\ Goto(w, "noLease")
    /\ UNCHANGED <<planVars, outboxVars, ledger, jobVars>>

\* Wrong on purpose: another writer's lease is taken for its success.
Mutant_NoLeaseReturns(w) ==
    /\ At(w, "noLease")
    /\ Goto(w, IF ledger[handling[w]] > 0 THEN "markSeen" ELSE "return")
    /\ UNCHANGED <<planVars, outboxVars, ledger, jobVars>>

\* Wrong on purpose: the entry is marked without looking for the row.
Mutant_NoLeaseMarks(w) ==
    /\ At(w, "noLease")
    /\ Goto(w, "markSeen")
    /\ UNCHANGED <<planVars, outboxVars, ledger, jobVars>>

\* Without a lease the row must exist already, else "already in progress".
NoLease(w) ==
    /\ At(w, "noLease")
    /\ Goto(w, IF ledger[handling[w]] > 0 THEN "markSeen" ELSE "failed")
    /\ UNCHANGED <<planVars, outboxVars, ledger, jobVars>>

\* Wrong on purpose: the lease alone is trusted, the row is not looked up.
Mutant_RecheckSkipped(w) ==
    /\ At(w, "recheck")
    /\ Goto(w, "create")
    /\ UNCHANGED <<planVars, outboxVars, ledger, jobVars>>

Recheck(w) ==
    /\ At(w, "recheck")
    /\ Goto(w, IF ledger[handling[w]] > 0 THEN "mark" ELSE "create")
    /\ UNCHANGED <<planVars, outboxVars, ledger, jobVars>>

Create(w) ==
    /\ At(w, "create")
    /\ ledger' = [ledger EXCEPT ![handling[w]] = @ + 1]
    /\ Answer(w, "mark")
    /\ UNCHANGED <<planVars, outboxVars, jobVars>>

\* An update with a token that was replaced matches nothing; nobody notices.
Mark(w) ==
    /\ At(w, "mark")
    /\ MarkWritten(handling[w], lease[handling[w]] = w)
    /\ Answer(w, "return")
    /\ UNCHANGED <<planVars, ledger, jobVars>>

\* releaseCommitLedgerWrite: only the entry that still has this token.
Release(w) ==
    LET e == handling[w] IN
    /\ At(w, "release")
    /\ IF lease[e] = w
       THEN /\ outbox' = [outbox EXCEPT ![e] = "PENDING"]
            /\ lease' = [lease EXCEPT ![e] = NoOne]
            /\ leaseExpired' = [leaseExpired EXCEPT ![e] = FALSE]
       ELSE UNCHANGED outboxVars
    /\ Goto(w, "failed")
    /\ UNCHANGED <<planVars, ledger, jobVars>>

\* 30 seconds pass.  With PromptWriters, only the lease of a worker that
\* crashed (or gave up) gets that old.
LeaseExpires(e) ==
    /\ outbox[e] = "WRITING"
    /\ ~leaseExpired[e]
    /\ PromptWriters =>
          ~ \E w \in Workers : /\ lease[e] = w
                               /\ handling[w] = e
                               /\ pc[w] \in LeasedAwaits \cup {"release"}
    /\ leaseExpired' = [leaseExpired EXCEPT ![e] = TRUE]
    /\ UNCHANGED <<planVars, outbox, lease, ledger, jobVars, workerVars>>

-----------------------------------------------------------------------------
(* BullMQ, as the worker of CreditLifecycleConsumer uses it.               *)

TakeJob(w, e) ==
    /\ At(w, "idle")
    /\ job[e] = "waiting"
    /\ job' = [job EXCEPT ![e] = "active"]
    /\ owner' = [owner EXCEPT ![e] = w]
    /\ pc' = [pc EXCEPT ![w] = "check"]
    /\ handling' = [handling EXCEPT ![w] = e]
    /\ UNCHANGED <<planVars, outboxVars, ledger,
                   attempts, stalls, redeliveries>>

GoIdle(w) == /\ pc' = [pc EXCEPT ![w] = "idle"]
             /\ handling' = [handling EXCEPT ![w] = NoOne]

\* The processor returned: the job is completed if its lock is still ours.
Return(w) ==
    LET e == handling[w] IN
    /\ At(w, "return")
    /\ GoIdle(w)
    /\ IF owner[e] = w
       THEN /\ job' = [job EXCEPT ![e] = "completed"]
            /\ owner' = [owner EXCEPT ![e] = NoOne]
       ELSE UNCHANGED <<job, owner>>
    /\ UNCHANGED <<planVars, outboxVars, ledger,
                   attempts, stalls, redeliveries>>

\* The processor threw: another attempt, if the job has one left.
Throw(w) ==
    LET e == handling[w] IN
    /\ At(w, "failed")
    /\ GoIdle(w)
    /\ IF owner[e] = w
       THEN /\ attempts' = [attempts EXCEPT ![e] = @ + 1]
            /\ job' = [job EXCEPT ![e] = IF attempts[e] + 1 < MaxAttempts
                                         THEN "waiting" ELSE "failed"]
            /\ owner' = [owner EXCEPT ![e] = NoOne]
       ELSE UNCHANGED <<job, owner, attempts>>
    /\ UNCHANGED <<planVars, outboxVars, ledger, stalls, redeliveries>>

\* The job's lock expires, its worker dead or merely unable to renew it.
Stall(e) ==
    /\ job[e] = "active"
    /\ stalls' = [stalls EXCEPT ![e] = @ + 1]
    /\ job' = [job EXCEPT ![e] = IF stalls[e] < MaxStalls
                                 THEN "waiting" ELSE "failed"]
    /\ owner' = [owner EXCEPT ![e] = NoOne]
    /\ UNCHANGED <<planVars, outboxVars, ledger, attempts, redeliveries,
                   workerVars>>

\* The producer publishes a settled event again, or an operator (or
\* retryFailedJobs at startup) retries it.
Redeliver(e) ==
    /\ job[e] \in {"completed", "failed"}
    /\ redeliveries[e] < MaxRedeliveries
    /\ redeliveries' = [redeliveries EXCEPT ![e] = @ + 1]
    /\ job' = [job EXCEPT ![e] = "waiting"]
    /\ attempts' = [attempts EXCEPT ![e] = 0]
    /\ stalls' = [stalls EXCEPT ![e] = 0]
    /\ UNCHANGED <<planVars, outboxVars, ledger, owner, workerVars>>

\* The process dies: what the worker knew is gone, its job stays "active".
Crash(w) ==
    /\ ~At(w, "idle")
    /\ GoIdle(w)
    /\ UNCHANGED <<planVars, outboxVars, ledger, jobVars>>

\* Nothing to do: every job is settled and every worker idle.
Quiescent ==
    /\ \A e \in Events : job[e] \in {"completed", "failed"}
    /\ \A w \in Workers : At(w, "idle")
    /\ UNCHANGED vars

-----------------------------------------------------------------------------

Handle(w) ==
    \/ Refuse(w) \/ CheckLedger(w) \/ MarkSeen(w)
    \/ Apply(w) \/ ApplyDuplicate(w) \/ ApplyExceeds(w) \/ Notify(w)
    \/ Claim(w) \/ ClaimRefused(w) \/ NoLease(w)
    \/ Recheck(w) \/ Create(w) \/ Mark(w) \/ Release(w)
    \/ Return(w) \/ Throw(w)

Environment(e) == LeaseExpires(e) \/ Stall(e) \/ Redeliver(e)

Next == \/ \E w \in Workers : \/ Handle(w)
                              \/ AwaitRejects(w)
                              \/ Crash(w)
                              \/ \E e \in Events : TakeJob(w, e)
        \/ \E e \in Events : Environment(e)
        \/ Quiescent

Spec == Init /\ [][Next]_vars

\* A job whose worker is gone is found by BullMQ's stalled-job check.
Abandoned(e) == ~ \E w \in Workers : owner[e] = w /\ handling[w] = e

\* The workers run, waiting jobs are taken, leases run out and abandoned
\* jobs are found.  Nothing forces an error, a crash or a live stall.
Fairness ==
    /\ \A w \in Workers : /\ WF_vars(Handle(w))
                          /\ WF_vars(\E e \in Events : TakeJob(w, e))
    /\ \A e \in Events : /\ WF_vars(LeaseExpires(e))
                         /\ WF_vars(Abandoned(e) /\ Stall(e))

FairSpec == Spec /\ Fairness
-----------------------------------------------------------------------------
(* Properties.                                                             *)

\* A job that BullMQ counts as completed has its event in the ledger: no
\* return path of append, however the calls before it failed, loses the row.
CompletedIsRecorded ==
    \A e \in Events : job[e] = "completed" => ledger[e] > 0

\* The outbox and the ledger agree: an entry says WRITTEN only when the row
\* is there, and no row is there for an event that was not charged.
OutboxMatchesLedger ==
    \A e \in Events : /\ outbox[e] = "WRITTEN" => ledger[e] > 0
                      /\ ledger[e] > 0 => outbox[e] # "ABSENT"

\* "Uniqueness is handled by the event-store check before insertion": no event
\* has two rows in the ledger, although its collection has no unique index.
LedgerRowUnique == \A e \in Events : ledger[e] <= 1

\* A plan with nothing left to charge is Inactive, in whichever order the
\* commits of its two balances arrive.  The plans here start granted, with the
\* grant in the ledger: a CREDIT_GRANTED that is still to come would make a
\* used-up plan active again (processCreditGranted in KycPlans).
ExhaustedIsInactive ==
    \A p \in Plans : Exhausted(p, used[p]) => status[p] = "Inactive"

\* Once WRITTEN, an outbox entry is never reopened, even by a worker whose
\* lease was taken over and that releases or claims late.
WrittenIsFinal ==
    [][\A e \in Events :
          outbox[e] = "WRITTEN" => outbox'[e] = "WRITTEN"]_vars

\* A charged event reaches the ledger, or BullMQ gives its job up.
ChargedIsRecorded ==
    \A e \in Events :
        outbox[e] # "ABSENT" ~> ledger[e] > 0 \/ job[e] = "failed"

\* The consumer implements the abstract account: an event is charged when its
\* outbox entry exists and recorded when the ledger holds a row of it.
Account == INSTANCE UsageAccount
             WITH charged <- {e \in Events : outbox[e] # "ABSENT"},
                  recorded <- {e \in Events : ledger[e] > 0}
AccountSpec == Account!Spec
=============================================================================
