---------------------------- MODULE CreditAlerts ----------------------------
(***************************************************************************)
(* CreditNotificationService: the mails sent when a plan's usage crosses a *)
(* threshold, and when a plan comes closer to its expiry than a threshold. *)
(*                                                                         *)
(* A worker that charged a commit checks the usage it read back and, when  *)
(* it is past a threshold, claims the threshold in the plan document and   *)
(* then queues the mail.  A plan's API credits and, in an SSI plan, its    *)
(* fee allowance are balances of their own: each has its usage and its     *)
(* field for the last threshold, and the same steps are taken over it.     *)
(* Every replica scans the active plans when it                            *)
(* starts and at midnight, and claims and mails the same way.  Only the    *)
(* claim is atomic: workers and replicas are late, fail and die between    *)
(* what they read, what they claim and what they send.                     *)
(***************************************************************************)
EXTENDS Integers, FiniteSetsExt

CONSTANTS
    Plans,            \* the credit plans
    SsiPlans,         \* those of them with an on-chain fee allowance
    Workers,          \* concurrency slots of the event worker
    Replicas,         \* processes, each with its expiry scan
    Total,            \* apiCredit.total, onChainAllowance.amount
    Lifetime,         \* the day on which the plans expire
    UsageThresholds,  \* CREDIT_USAGE_THRESHOLDS, in percent
    ExpiryThresholds, \* CREDIT_EXPIRY_THRESHOLDS, in days
    None,             \* no plan, no threshold
    MaxDay,           \* bound: days that pass
    MaxFailures       \* bound: alerts and scans that fail

ASSUME AlertsAssumption ==
    /\ Workers \cap Replicas = {}
    /\ SsiPlans \subseteq Plans
    /\ Total \in Nat \ {0}
    /\ Lifetime \in Nat
    /\ UsageThresholds \subseteq 1..100
    /\ ExpiryThresholds \subseteq Nat /\ ExpiryThresholds # {}
    /\ IsFiniteSet(ExpiryThresholds)
    /\ None \notin Int
    /\ MaxDay \in Nat
    /\ MaxFailures \in Nat

VARIABLES
    used,         \* plan document: apiCredit.used, onChainAllowance.usedAmount
    lastUsage,    \* plan document: notification.lastNotifiedUsageThreshold
                  \* and lastNotifiedAllowanceUsageThreshold
    lastExpiry,   \* plan document: notification.expiryThresholdsSent
    usageMails,   \* the usage mails queued: <<balance, threshold>> |-> how many
    expiryMails,  \* the expiry mails queued
    day,          \* the day it is
    failures,     \* how many handlers and scans failed or had nobody to tell
    pc,           \* what a worker or a replica is at
    plan,         \* replica: the plan it works on; worker: the balance
    seen,         \* worker: the usage it read; replica: the day it began
    todo          \* replica: the plans of its scan still to do

docVars == <<used, lastUsage, lastExpiry>>
mailVars == <<usageMails, expiryMails>>
local == <<pc, plan, seen, todo>>
vars == <<docVars, mailVars, day, failures, local>>

Processes == Workers \cup Replicas

\* What commits are charged to: CreditType.API_CREDIT of any plan, and
\* CreditType.BLOCKCHAIN_TXN_CREDIT of an SSI plan.
Balances == (Plans \X {"api"}) \cup (SsiPlans \X {"chain"})

UsageAlerts == Balances \X UsageThresholds
ExpiryAlerts == Plans \X ExpiryThresholds

TypeOK ==
    /\ used \in [Balances -> 0..Total]
    /\ lastUsage \in [Balances -> UsageThresholds \cup {None}]
    /\ lastExpiry \in [Plans -> ExpiryThresholds \cup {None}]
    /\ usageMails \in [UsageAlerts -> Nat]
    /\ expiryMails \in [ExpiryAlerts -> Nat]
    /\ day \in 0..MaxDay
    /\ failures \in 0..MaxFailures
    /\ pc \in [Processes -> {"idle", "claim", "mail"}]
    /\ plan \in [Processes -> Plans \cup Balances \cup {None}]
    /\ seen \in [Processes -> Nat \cup {None}]
    /\ todo \in [Processes -> SUBSET Plans]

Init ==
    /\ used = [b \in Balances |-> 0]
    /\ lastUsage = [b \in Balances |-> None]
    /\ lastExpiry = [p \in Plans |-> None]
    /\ usageMails = [a \in UsageAlerts |-> 0]
    /\ expiryMails = [a \in ExpiryAlerts |-> 0]
    /\ day = 0
    /\ failures = 0
    /\ pc = [x \in Processes |-> "idle"]
    /\ plan = [x \in Processes |-> None]
    /\ seen = [x \in Processes |-> None]
    /\ todo = [x \in Processes |-> {}]

-----------------------------------------------------------------------------

At(x, label) == pc[x] = label

Goto(x, label) == pc' = [pc EXCEPT ![x] = label] /\ UNCHANGED <<plan, seen, todo>>

\* x has nothing more to do; its locals are gone.
Stop(x) == /\ pc' = [pc EXCEPT ![x] = "idle"]
           /\ plan' = [plan EXCEPT ![x] = None]
           /\ seen' = [seen EXCEPT ![x] = None]
           /\ todo' = [todo EXCEPT ![x] = {}]

\* x goes on with the other plans of its scan.
NextPlan(x) == /\ pc' = [pc EXCEPT ![x] = "claim"]
               /\ plan' = [plan EXCEPT ![x] = None]
               /\ todo' = [todo EXCEPT ![x] = @ \ {plan[x]}]
               /\ UNCHANGED seen

\* The highest usage threshold that u credits have reached.
Reached(u) == {t \in UsageThresholds : (u * 100) \div Total >= t}

\* The expiry thresholds that a plan is within on day d.
Within(d) ==
    LET remainingDays == IF Lifetime > d THEN Lifetime - d ELSE 0
    IN  {t \in ExpiryThresholds : remainingDays <= t}

-----------------------------------------------------------------------------
(* Usage alerts, sent by the worker that charged a commit.                 *)

\* The commit is charged, and the worker has the usage it led to.
Commit(w, b) ==
    /\ At(w, "idle")
    /\ used[b] < Total
    /\ used' = [used EXCEPT ![b] = @ + 1]
    /\ IF Reached(used[b] + 1) # {}
       THEN /\ pc' = [pc EXCEPT ![w] = "claim"]
            /\ plan' = [plan EXCEPT ![w] = b]
            /\ seen' = [seen EXCEPT ![w] = used[b] + 1]
       ELSE UNCHANGED <<pc, plan, seen>>
    /\ UNCHANGED <<lastUsage, lastExpiry, mailVars, day, failures, todo>>

\* Mutant: the filter lets a threshold in that merely differs from the last.
Mutant_UsageDiffers(b, t) == lastUsage[b] # t

\* Mutant: a balance is alerted about once.
Mutant_UsageOnce(b, t) == lastUsage[b] = None

\* The filter of notifyUsageThreshold's and of
\* notifyAllowanceUsageThreshold's update.
UsageUnclaimed(b, t) == lastUsage[b] = None \/ lastUsage[b] < t

ClaimUsage(w) ==
    LET b == plan[w]
        t == Max(Reached(seen[w]))
    IN  /\ At(w, "claim")
        /\ IF UsageUnclaimed(b, t)
           THEN lastUsage' = [lastUsage EXCEPT ![b] = t] /\ Goto(w, "mail")
           ELSE UNCHANGED lastUsage /\ Stop(w)
        /\ UNCHANGED <<used, lastExpiry, mailVars, day, failures>>

\* There is a recipient: the admin of the service, or of an SSI service the
\* super-admins, the only ones who are told of an allowance.
MailUsage(w) ==
    LET a == <<plan[w], Max(Reached(seen[w]))>> IN
    /\ At(w, "mail")
    /\ usageMails' = [usageMails EXCEPT ![a] = @ + 1]
    /\ Stop(w)
    /\ UNCHANGED <<docVars, expiryMails, day, failures>>

-----------------------------------------------------------------------------
(* The expiry scan of a replica.                                           *)

\* The plans are active; those within the widest threshold are found.
StartScan(r) ==
    /\ At(r, "idle")
    /\ Within(day) # {}
    /\ pc' = [pc EXCEPT ![r] = "claim"]
    /\ seen' = [seen EXCEPT ![r] = day]
    /\ todo' = [todo EXCEPT ![r] = Plans]
    /\ UNCHANGED <<plan, docVars, mailVars, day, failures>>

\* Mutant: the filter lets a threshold in that merely differs from the last.
Mutant_ExpiryDiffers(p, t) == lastExpiry[p] # t

\* The filter of scanExpiringCredits' update.
ExpiryUnclaimed(p, t) == lastExpiry[p] = None \/ lastExpiry[p] > t

ClaimExpiry(r, p) ==
    LET t == Min(Within(seen[r])) IN
    /\ At(r, "claim")
    /\ p \in todo[r]
    /\ IF ExpiryUnclaimed(p, t)
       THEN /\ lastExpiry' = [lastExpiry EXCEPT ![p] = t]
            /\ pc' = [pc EXCEPT ![r] = "mail"]
            /\ plan' = [plan EXCEPT ![r] = p]
            /\ UNCHANGED todo
       ELSE /\ todo' = [todo EXCEPT ![r] = @ \ {p}]
            /\ UNCHANGED <<lastExpiry, pc, plan>>
    /\ UNCHANGED <<seen, used, lastUsage, mailVars, day, failures>>

MailExpiry(r) ==
    LET a == <<plan[r], Min(Within(seen[r]))>> IN
    /\ At(r, "mail")
    /\ expiryMails' = [expiryMails EXCEPT ![a] = @ + 1]
    /\ NextPlan(r)
    /\ UNCHANGED <<docVars, usageMails, day, failures>>

EndScan(r) ==
    /\ At(r, "claim")
    /\ todo[r] = {}
    /\ Stop(r)
    /\ UNCHANGED <<docVars, mailVars, day, failures>>

-----------------------------------------------------------------------------

NextDay == /\ day < MaxDay
           /\ day' = day + 1
           /\ UNCHANGED <<docVars, mailVars, failures, local>>

\* A threshold that was claimed is not mailed: the worker is done, the scan
\* goes on with the other plans.
Unsent(x) ==
    /\ At(x, "mail")
    /\ failures < MaxFailures
    /\ failures' = failures + 1
    /\ IF x \in Workers THEN Stop(x) ELSE NextPlan(x)
    /\ UNCHANGED <<docVars, mailVars, day>>

\* resolveRecipient finds nobody to tell, or of an allowance no super-admin.
NoRecipient(x) == Unsent(x)

\* addAJob swallows the error of the mail queue.
QueueFails(x) == Unsent(x)

\* The process dies or an await throws.  The job of the commit is tried again,
\* but finds it charged and alerts nobody; the rest of a scan waits for the
\* next one.
Fail(x) ==
    /\ ~At(x, "idle")
    /\ failures < MaxFailures
    /\ failures' = failures + 1
    /\ Stop(x)
    /\ UNCHANGED <<docVars, mailVars, day>>

Alert(w) == ClaimUsage(w) \/ MailUsage(w)

Scan(r) == \/ \E p \in Plans : ClaimExpiry(r, p)
           \/ MailExpiry(r) \/ EndScan(r)

Next == \/ \E w \in Workers : Alert(w) \/ \E b \in Balances : Commit(w, b)
        \/ \E r \in Replicas : Scan(r) \/ StartScan(r)
        \/ \E x \in Processes : Fail(x) \/ NoRecipient(x) \/ QueueFails(x)
        \/ NextDay

Spec == Init /\ [][Next]_vars

\* A handler goes on with what it began; nothing forces usage or a failure.
FairSpec == Spec /\ \A w \in Workers : WF_vars(Alert(w))

-----------------------------------------------------------------------------
(* Properties.                                                             *)

\* "A retry must not send the same threshold email twice": whichever workers
\* and replicas race, a threshold of a balance is mailed at most once, and so
\* is a threshold of a plan's expiry.
MailedOnce ==
    /\ \A a \in UsageAlerts : usageMails[a] <= 1
    /\ \A a \in ExpiryAlerts : expiryMails[a] <= 1

\* Alerts in flight and the claims in the document add up: when no worker is
\* between a commit and its claim, and none failed, the balance's last claimed
\* threshold is the highest one its usage has reached, in whatever order the
\* workers came to claim.
ClaimsFollowUsage ==
    \A b \in Balances :
        (failures = 0 /\ Reached(used[b]) # {}
           /\ \A w \in Workers : ~(At(w, "claim") /\ plan[w] = b))
        => lastUsage[b] = Max(Reached(used[b]))

\* A used-up balance gets its last alert, unless something failed in between
\* or there was nobody to tell.
ExhaustionAlerted ==
    \A b \in Balances :
        used[b] = Total ~> \/ usageMails[<<b, Max(UsageThresholds)>>] > 0
                          \/ failures > 0
=============================================================================
