------------------------------ MODULE KycPlans ------------------------------
(***************************************************************************)
(* The life of the credit plans of one KYC service (CAVACH_API): created   *)
(* by grantCredit, activated by activateCredit or by a critical balance,   *)
(* granted by the credit SDK of the service, consumed, expired.            *)
(*                                                                         *)
(* The dashboard keeps the plan documents; the SDK keeps the wallets.  The *)
(* dashboard asks for a wallet with a GRANT_REQUESTED command and learns   *)
(* of everything else from lifecycle events, which arrive at least once    *)
(* and in any order.  The processes are the HTTP requests in progress      *)
(* (Callers) and the slots of the event worker (Workers); each awaits the  *)
(* database between two steps.                                             *)
(*                                                                         *)
(* The charge of a COMMITTED event is one step here: CreditCommit shows    *)
(* that the consumer charges every event at most once (UsageAccount).      *)
(***************************************************************************)
EXTENDS Integers, FiniteSets

CONSTANTS
    Plans,         \* the plans of the service; each has its own referenceId
    Callers,       \* concurrent HTTP requests (or onboarding runs)
    Workers,       \* concurrency slots of the event worker
    Replica,       \* Replica[w]: the process worker w belongs to
    Total,         \* apiCredit.total of every plan
    Critical,      \* criticalBalance of every plan
    Validity,      \* validityDays of every plan, in ticks
    None,          \* no time, no plan, no event
    MaxNow,        \* bound: ticks of the clock
    MaxCrashes     \* bound: requests or handlers that die or throw midway

Types == {"GRANTED", "EXPIRED", "CRITICAL"}
Events == [type : Types, plan : Plans]

ASSUME PlansAssumption ==
    /\ Callers \cap Workers = {}
    /\ DOMAIN Replica = Workers
    /\ Total \in Nat \ {0}
    /\ Critical \in 0..(Total - 1)
    /\ Validity \in Nat \ {0}
    /\ MaxNow \in Nat
    /\ MaxCrashes \in Nat
    /\ None \notin Plans \cup Nat \cup Events

Times == 0..(MaxNow + Validity)
Processes == Callers \cup Workers

VARIABLES
    status,     \* plan document: status, "none" before it is created
    expiresAt,  \* plan document: expiresAt, None while it is not set
    used,       \* plan document: apiCredit.used
    commands,   \* every GRANT_REQUESTED command ever queued
    wallet,     \* SDK: the expiry a plan was granted with, or None
    consumed,   \* SDK: the credits committed from the plan's wallet
    queue,      \* lifecycle events published and not completed
    ledger,     \* lifecycle events in the dashboard's ledger
    now,        \* the clock
    crashes,    \* how many processes died or threw so far
    pc,         \* the await a process is at
    plan,       \* the plan a process works on
    expiry,     \* the expiry a process holds in a local variable
    event       \* the event a worker handles

planVars == <<status, expiresAt, used>>
sdkVars == <<wallet, consumed>>
local == <<pc, plan, expiry, event>>
vars == <<planVars, commands, sdkVars, queue, ledger, now, crashes, local>>

Labels == {"idle", "lookup", "findActive", "create", "load", "setExpiry",
           "send", "granted", "expired", "findOther", "findWaiting",
           "record", "ack"}

TypeOK ==
    /\ status \in [Plans -> {"none", "Inactive", "Active"}]
    /\ expiresAt \in [Plans -> Times \cup {None}]
    /\ used \in [Plans -> 0..Total]
    /\ commands \subseteq [plan : Plans, expires : Times]
    /\ wallet \in [Plans -> Times \cup {None}]
    /\ consumed \in [Plans -> 0..Total]
    /\ queue \subseteq Events
    /\ ledger \subseteq Events
    /\ now \in 0..MaxNow
    /\ crashes \in 0..MaxCrashes
    /\ pc \in [Processes -> Labels]
    /\ plan \in [Processes -> Plans \cup {None}]
    /\ expiry \in [Processes -> Times \cup {None}]
    /\ event \in [Processes -> Events \cup {None}]

Init ==
    /\ status = [p \in Plans |-> "none"]
    /\ expiresAt = [p \in Plans |-> None]
    /\ used = [p \in Plans |-> 0]
    /\ commands = {}
    /\ wallet = [p \in Plans |-> None]
    /\ consumed = [p \in Plans |-> 0]
    /\ queue = {}
    /\ ledger = {}
    /\ now = 0
    /\ crashes = 0
    /\ pc = [x \in Processes |-> "idle"]
    /\ plan = [x \in Processes |-> None]
    /\ expiry = [x \in Processes |-> None]
    /\ event = [x \in Processes |-> None]

-----------------------------------------------------------------------------
(* Control of a process.                                                   *)

At(x, label) == pc[x] = label

\* x awaits at label, with p and t in its local variables.
Continue(x, label, p, t) ==
    /\ pc' = [pc EXCEPT ![x] = label]
    /\ plan' = [plan EXCEPT ![x] = p]
    /\ expiry' = [expiry EXCEPT ![x] = t]
    /\ UNCHANGED event

Goto(x, label) == Continue(x, label, plan[x], expiry[x])

\* A request answers (or throws) and its locals are gone; a worker goes on to
\* record its event.
Done(x) == IF x \in Workers THEN Continue(x, "record", None, None)
                            ELSE Continue(x, "idle", None, None)

Reset(x) == /\ pc' = [pc EXCEPT ![x] = "idle"]
            /\ plan' = [plan EXCEPT ![x] = None]
            /\ expiry' = [expiry EXCEPT ![x] = None]
            /\ event' = [event EXCEPT ![x] = None]

Expired(p) == expiresAt[p] # None /\ expiresAt[p] <= now

\* getCreditValidity: the expiry of a plan whose clock starts now.
ExpiryFromNow == now + Validity

\* findActiveCreditForService: an active plan of the service that is neither
\* expired nor used up, other than the excluded one.
Usable(p) == status[p] = "Active" /\ ~Expired(p) /\ used[p] < Total

HasOtherUsable(excluded) == \E p \in Plans \ {excluded} : Usable(p)

-----------------------------------------------------------------------------
(* grantCredit: a new plan, or the retry of one with the same referenceId. *)

StartGrant(c, p) ==
    /\ At(c, "idle")
    /\ Continue(c, "lookup", p, None)
    /\ UNCHANGED <<planVars, commands, sdkVars, queue, ledger, now, crashes>>

\* A plan with this referenceId exists: its command is queued again as long
\* as the SDK has not confirmed it.
Lookup(c) ==
    LET p == plan[c] IN
    /\ At(c, "lookup")
    /\ IF status[p] = "none" THEN Goto(c, "findActive")
       ELSE IF status[p] = "Inactive" /\ expiresAt[p] # None /\ used[p] < Total
            THEN Continue(c, "send", p, expiresAt[p])
            ELSE Done(c)
    /\ UNCHANGED <<planVars, commands, sdkVars, queue, ledger, now, crashes>>

\* The plan is to be activated when the service has no usable one: only then
\* does its clock start.
FindActive(c) ==
    /\ At(c, "findActive")
    /\ Continue(c, "create", plan[c],
                IF HasOtherUsable(None) THEN None ELSE ExpiryFromNow)
    /\ UNCHANGED <<planVars, commands, sdkVars, queue, ledger, now, crashes>>

\* CreditRepository.create: an upsert by (serviceId, referenceId).  The expiry
\* sent is the persisted one, if the document has one.
Create(c) ==
    LET p == plan[c]
        new == status[p] = "none"
        persisted == IF new THEN expiry[c] ELSE expiresAt[p]
    IN  /\ At(c, "create")
        /\ status' = IF new THEN [status EXCEPT ![p] = "Inactive"] ELSE status
        /\ expiresAt' = [expiresAt EXCEPT ![p] = persisted]
        /\ IF expiry[c] # None /\ used[p] < Total
           THEN Continue(c, "send", p,
                         IF persisted # None THEN persisted ELSE expiry[c])
           ELSE Done(c)
        /\ UNCHANGED <<used, commands, sdkVars, queue, ledger, now, crashes>>

-----------------------------------------------------------------------------
(* activateCredit, called by a request and by a critical balance.          *)

StartActivate(c, p) ==
    /\ At(c, "idle")
    /\ status[p] # "none"
    /\ Continue(c, "load", p, None)
    /\ UNCHANGED <<planVars, commands, sdkVars, queue, ledger, now, crashes>>

\* An expired or fully used plan is refused.
Load(x) ==
    LET p == plan[x] IN
    /\ At(x, "load")
    /\ ~Expired(p) /\ used[p] < Total
    /\ IF expiresAt[p] # None THEN Continue(x, "send", p, expiresAt[p])
                              ELSE Continue(x, "setExpiry", p, ExpiryFromNow)
    /\ UNCHANGED <<planVars, commands, sdkVars, queue, ledger, now, crashes>>

\* The exception fails the request, or the attempt of the job.
LoadRefused(x) ==
    /\ At(x, "load")
    /\ Expired(plan[x]) \/ used[plan[x]] >= Total
    /\ Reset(x)
    /\ UNCHANGED <<planVars, commands, sdkVars, queue, ledger, now, crashes>>

\* Mutant: the expiry proposed is sent, whatever is stored.
Mutant_SendProposed(x) ==
    /\ At(x, "setExpiry")
    /\ expiresAt' = [expiresAt EXCEPT ![plan[x]] =
                        IF @ = None THEN expiry[x] ELSE @]
    /\ Goto(x, "send")
    /\ UNCHANGED <<status, used, commands, sdkVars, queue, ledger, now, crashes>>

\* Mutant: the update does not check that the expiry is still unset.
Mutant_OverwriteExpiry(x) ==
    /\ At(x, "setExpiry")
    /\ expiresAt' = [expiresAt EXCEPT ![plan[x]] = expiry[x]]
    /\ Goto(x, "send")
    /\ UNCHANGED <<status, used, commands, sdkVars, queue, ledger, now, crashes>>

\* The expiry is set only if no one set it since; the stored one is sent.
SetExpiry(x) ==
    LET p == plan[x]
        stable == IF expiresAt[p] = None THEN expiry[x] ELSE expiresAt[p]
    IN  /\ At(x, "setExpiry")
        /\ expiresAt' = [expiresAt EXCEPT ![p] = stable]
        /\ Continue(x, "send", p, stable)
        /\ UNCHANGED <<status, used, commands, sdkVars, queue, ledger, now,
                       crashes>>

\* creditForMiddlewareGrant: the plan as the SDK is to hold it, active until
\* the expiry x holds.
MiddlewareGrant(x) == [plan |-> plan[x], expires |-> expiry[x]]

\* CreditCommandService.grantCreditPlan queues GRANT_REQUESTED.
Send(x) ==
    /\ At(x, "send")
    /\ commands' = commands \cup {MiddlewareGrant(x)}
    /\ Done(x)
    /\ UNCHANGED <<planVars, sdkVars, queue, ledger, now, crashes>>

-----------------------------------------------------------------------------
(* The lifecycle event worker.                                             *)

\* A job runs in one slot at a time, and the critical-balance events of the
\* service one after the other within a replica.
MayTake(w, e) ==
    /\ \A v \in Workers : event[v] # e
    /\ e.type = "CRITICAL" =>
          \A v \in Workers : /\ Replica[v] = Replica[w]
                             /\ event[v] # None
                             => event[v].type # "CRITICAL"

\* Mutant: the event is recorded before it takes effect.
Mutant_RecordFirst(w, e) ==
    /\ At(w, "idle")
    /\ e \in queue
    /\ MayTake(w, e)
    /\ event' = [event EXCEPT ![w] = e]
    /\ plan' = [plan EXCEPT ![w] = e.plan]
    /\ pc' = [pc EXCEPT ![w] =
                 IF e \in ledger THEN "ack"
                 ELSE CASE e.type = "GRANTED"  -> "granted"
                        [] e.type = "EXPIRED"  -> "expired"
                        [] e.type = "CRITICAL" -> "findOther"]
    /\ ledger' = ledger \cup {e}
    /\ UNCHANGED <<planVars, commands, sdkVars, queue, now, crashes, expiry>>

Take(w, e) ==
    /\ At(w, "idle")
    /\ e \in queue
    /\ MayTake(w, e)
    /\ event' = [event EXCEPT ![w] = e]
    /\ plan' = [plan EXCEPT ![w] = e.plan]
    /\ pc' = [pc EXCEPT ![w] =
                 IF e \in ledger THEN "ack"
                 ELSE CASE e.type = "GRANTED"  -> "granted"
                        [] e.type = "EXPIRED"  -> "expired"
                        [] e.type = "CRITICAL" -> "findOther"]
    /\ UNCHANGED <<planVars, commands, sdkVars, queue, ledger, now, crashes,
                   expiry>>

\* The expiry a confirmation carries: the one the wallet was opened with.
GrantExpiry(p) == wallet[p]

\* processCreditGranted: an inactive plan becomes active, whatever made it
\* inactive.
ProcessCreditGranted(w) ==
    LET p == plan[w] IN
    /\ At(w, "granted")
    /\ IF status[p] = "Inactive"
       THEN /\ status' = [status EXCEPT ![p] = "Active"]
            /\ expiresAt' = [expiresAt EXCEPT ![p] = GrantExpiry(p)]
       ELSE UNCHANGED <<status, expiresAt>>
    /\ Done(w)
    /\ UNCHANGED <<used, commands, sdkVars, queue, ledger, now, crashes>>

ProcessPlanExpired(w) ==
    LET p == plan[w] IN
    /\ At(w, "expired")
    /\ status' = IF status[p] = "Active"
                 THEN [status EXCEPT ![p] = "Inactive"] ELSE status
    /\ Done(w)
    /\ UNCHANGED <<expiresAt, used, commands, sdkVars, queue, ledger, now,
                   crashes>>

\* processCriticalBalance: nothing to do while another plan is usable.
FindOther(w) ==
    /\ At(w, "findOther")
    /\ IF HasOtherUsable(plan[w]) THEN Done(w) ELSE Goto(w, "findWaiting")
    /\ UNCHANGED <<planVars, commands, sdkVars, queue, ledger, now, crashes>>

\* Mutant: any inactive plan will do.
Mutant_AnyInactive(p) == status[p] = "Inactive"

\* A plan that waits for its turn: inactive, its clock never started.
Waiting(p) == status[p] = "Inactive" /\ expiresAt[p] = None

FindWaiting(w) ==
    /\ At(w, "findWaiting")
    /\ \/ \E p \in Plans : Waiting(p) /\ Continue(w, "load", p, None)
       \/ (\A p \in Plans : ~Waiting(p)) /\ Done(w)
    /\ UNCHANGED <<planVars, commands, sdkVars, queue, ledger, now, crashes>>

Record(w) ==
    /\ At(w, "record")
    /\ ledger' = ledger \cup {event[w]}
    /\ Goto(w, "ack")
    /\ UNCHANGED <<planVars, commands, sdkVars, queue, now, crashes>>

Ack(w) ==
    /\ At(w, "ack")
    /\ queue' = queue \ {event[w]}
    /\ Reset(w)
    /\ UNCHANGED <<planVars, commands, sdkVars, ledger, now, crashes>>

\* A COMMITTED event is charged (UsageAccount): n more credits are used, and
\* the plan becomes inactive when none is left.
Charge(p, n) ==
    /\ used[p] + n <= consumed[p]
    /\ used' = [used EXCEPT ![p] = @ + n]
    /\ status' = IF used[p] + n = Total
                 THEN [status EXCEPT ![p] = "Inactive"] ELSE status
    /\ UNCHANGED <<expiresAt, commands, sdkVars, queue, ledger, now, crashes,
                   local>>

-----------------------------------------------------------------------------
(* The credit SDK of the service (external) and the clock.                 *)

\* The first command of a plan creates its wallet; the commandId of the others
\* is known already.
SdkGrant(cmd) ==
    /\ wallet[cmd.plan] = None
    /\ wallet' = [wallet EXCEPT ![cmd.plan] = cmd.expires]
    /\ queue' = queue \cup {[type |-> "GRANTED", plan |-> cmd.plan]}
    /\ UNCHANGED <<planVars, commands, consumed, ledger, now, crashes, local>>

\* Usage of the service; reaching the critical balance is reported once.
SdkConsume(p, n) ==
    /\ wallet[p] # None /\ now < wallet[p]
    /\ consumed[p] + n <= Total
    /\ consumed' = [consumed EXCEPT ![p] = @ + n]
    /\ queue' = IF Total - consumed[p] > Critical
                   /\ Total - (consumed[p] + n) <= Critical
                THEN queue \cup {[type |-> "CRITICAL", plan |-> p]}
                ELSE queue
    /\ UNCHANGED <<planVars, commands, wallet, ledger, now, crashes, local>>

SdkExpire(p) ==
    LET e == [type |-> "EXPIRED", plan |-> p] IN
    /\ wallet[p] # None /\ wallet[p] <= now
    /\ e \notin queue \cup ledger
    /\ queue' = queue \cup {e}
    /\ UNCHANGED <<planVars, commands, sdkVars, ledger, now, crashes, local>>

Tick == /\ now < MaxNow
        /\ now' = now + 1
        /\ UNCHANGED <<planVars, commands, sdkVars, queue, ledger, crashes,
                       local>>

\* The process dies or an await throws: a worker's job is tried again.
Crash(x) ==
    /\ ~At(x, "idle")
    /\ crashes < MaxCrashes
    /\ crashes' = crashes + 1
    /\ Reset(x)
    /\ UNCHANGED <<planVars, commands, sdkVars, queue, ledger, now>>

-----------------------------------------------------------------------------

Activation(x) == Load(x) \/ LoadRefused(x) \/ SetExpiry(x) \/ Send(x)

Request(c) == \/ \E p \in Plans : StartGrant(c, p) \/ StartActivate(c, p)
              \/ Lookup(c) \/ FindActive(c) \/ Create(c)

Handle(w) == \/ ProcessCreditGranted(w) \/ ProcessPlanExpired(w)
             \/ FindOther(w) \/ FindWaiting(w) \/ Record(w) \/ Ack(w)

Sdk == \/ \E cmd \in commands : SdkGrant(cmd)
       \/ \E p \in Plans, n \in 1..Total : SdkConsume(p, n)
       \/ \E p \in Plans : SdkExpire(p)

Next == \/ \E c \in Callers : Request(c)
        \/ \E w \in Workers : \/ Handle(w)
                              \/ \E e \in Events : Take(w, e)
        \/ \E x \in Processes : Activation(x) \/ Crash(x)
        \/ \E p \in Plans, n \in 1..Total : Charge(p, n)
        \/ Sdk
        \/ Tick

Spec == Init /\ [][Next]_vars
\* Requests and handlers finish what they began, the queue delivers and the
\* SDK answers commands; nothing forces usage, time or a crash.
Fairness ==
    /\ \A c \in Callers : WF_vars(Lookup(c) \/ FindActive(c) \/ Create(c)
                                  \/ Activation(c))
    /\ \A w \in Workers : /\ WF_vars(Handle(w) \/ Activation(w))
                          /\ \A e \in Events : SF_vars(Take(w, e))
    /\ WF_vars(\E cmd \in commands : SdkGrant(cmd))

FairSpec == Spec /\ Fairness

-----------------------------------------------------------------------------
(* Properties.                                                             *)

\* A KYC plan is active only once the SDK granted it, and both sides then
\* agree on when it ends.
ActiveIsGranted ==
    \A p \in Plans :
        status[p] = "Active" => wallet[p] # None /\ expiresAt[p] = wallet[p]

\* Every command queued for a plan carries the same expiry, however many
\* requests, retries and critical balances queued one: the SDK knows the plan
\* by one commandId and takes whichever comes first.
GrantsAgree ==
    \A c, d \in commands : c.plan = d.plan => c.expires = d.expires

\* The clock of a plan, once started, is never set again by a later
\* activation, a retry of the grant or the SDK's confirmation.
ClockStartsOnce ==
    [][\A p \in Plans :
          expiresAt[p] # None => expiresAt'[p] = expiresAt[p]]_vars

\* "A service can have only one active plan."
OneActivePlan ==
    \A p, q \in Plans : Usable(p) /\ Usable(q) => p = q

\* A plan the dashboard asked the SDK for becomes active, unless it was used
\* up or ran out meanwhile.
GrantTakesEffect ==
    \A p \in Plans :
        (\E c \in commands : c.plan = p)
            ~> status[p] = "Active" \/ used[p] = Total \/ Expired(p)

\* Every lifecycle event is completed: no state makes its handler throw on
\* every attempt.
EventsComplete == \A e \in Events : e \in queue ~> e \notin queue
=============================================================================
