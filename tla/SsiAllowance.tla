---------------------------- MODULE SsiAllowance ----------------------------
(***************************************************************************)
(* The credit plans of one SSI service and the fee allowance its wallet    *)
(* holds on the blockchain.                                                *)
(*                                                                         *)
(* Buying or activating an SSI plan replaces the wallet's fee allowance:   *)
(* grantSSIAllowance reads what is left of it, and broadcasts one          *)
(* transaction that revokes it and grants the remainder plus the new       *)
(* amount.  The allowance is then recorded in the plan document, and the   *)
(* credit SDK is told of the plan's two wallets, one command each.  Chain, *)
(* database and queue share no transaction, and several requests (or the   *)
(* critical-balance handler, which calls activateCredit too) may run.      *)
(* The service pays fees from the allowance; a fee reaches a plan document *)
(* only later, when its usage is settled and its COMMITTED event handled.  *)
(***************************************************************************)
EXTENDS Integers, FiniteSetsExt

CONSTANTS
    Plans,       \* the plans of the service; each has its own referenceId
    Requests,    \* the calls of grantCredit and activateCredit in progress
    Total,       \* apiCredit.total of every plan
    Multiplier,  \* SSI_ON_CHAIN_ALLOWANCE_MULTIPLIER
    Validity,    \* validityDays of every plan, in ticks
    None,        \* no time, no plan, no allowance
    MaxNow,      \* bound: ticks of the clock
    MaxCrashes   \* bound: requests that die, throw or lose an answer

ASSUME SsiAssumption ==
    /\ Total \in Nat \ {0}
    /\ Multiplier \in Nat \ {0}
    /\ Validity \in Nat \ {0}
    /\ MaxNow \in Nat
    /\ MaxCrashes \in Nat
    /\ None \notin Plans \cup Requests \cup Int

\* A service has finitely many plans, whose balances can be added up.
ASSUME FinitePlans == IsFiniteSet(Plans)

Buckets == {"api", "chain"}
Times == 0..(MaxNow + Validity)
Amounts == 0..(Total * Multiplier)

VARIABLES
    status,       \* plan document: status, "none" before it is created
    expiresAt,    \* plan document: expiresAt
    allowance,    \* plan document: onChainAllowance.amount
    used,         \* plan document: apiCredit.used, onChainAllowance.usedAmount
    feegrant,     \* chain: what the wallet may still spend, None without grant
    granted,      \* history: chain grants made for each plan
    disturbed,    \* history: two replacements of the allowance overlapped
    unsettled,    \* chain: fees paid from it and not charged to a plan
    commands,     \* every GRANT_REQUESTED command ever queued
    wallet,       \* SDK: the expiry each wallet of a plan was granted with
    unconfirmed,  \* the CREDIT_GRANTED events that were not processed yet
    now,          \* the clock
    crashes,      \* how many requests died so far
    pc,           \* the await a request is at
    plan,         \* the plan a request works on
    expiry,       \* the expiry a request computed or loaded
    bought,       \* the amount a request buys, 0 if it buys none
    remaining,    \* the remainder of the allowance a request has read
    after         \* where a request goes on after the chain grant

docVars == <<status, expiresAt, allowance, used>>
chainVars == <<feegrant, granted, disturbed, unsettled>>
sdkVars == <<wallet, unconfirmed>>
local == <<pc, plan, expiry, bought, remaining, after>>
vars == <<docVars, chainVars, commands, sdkVars, now, crashes, local>>

Labels == {"idle", "lookup", "findActive", "query", "broadcast", "create",
           "load", "persist", "sendApi", "sendChain"}

TypeOK ==
    /\ status \in [Plans -> {"none", "Inactive", "Active"}]
    /\ expiresAt \in [Plans -> Times \cup {None}]
    /\ allowance \in [Plans -> Amounts \cup {None}]
    /\ used \in [Plans -> [Buckets -> Amounts]]
    /\ feegrant \in Nat \cup {None}
    /\ granted \in [Plans -> Nat]
    /\ disturbed \in BOOLEAN
    /\ unsettled \in Nat
    /\ commands \subseteq [plan : Plans, bucket : Buckets, expires : Times]
    /\ wallet \in [Plans -> [Buckets -> Times \cup {None}]]
    /\ unconfirmed \subseteq Plans \X Buckets
    /\ now \in 0..MaxNow
    /\ crashes \in 0..MaxCrashes
    /\ pc \in [Requests -> Labels]
    /\ plan \in [Requests -> Plans \cup {None}]
    /\ expiry \in [Requests -> Times \cup {None}]
    /\ bought \in [Requests -> Amounts]
    /\ remaining \in [Requests -> Nat \cup {None}]
    /\ after \in [Requests -> Labels]

Init ==
    /\ status = [p \in Plans |-> "none"]
    /\ expiresAt = [p \in Plans |-> None]
    /\ allowance = [p \in Plans |-> None]
    /\ used = [p \in Plans |-> [b \in Buckets |-> 0]]
    /\ feegrant = None
    /\ granted = [p \in Plans |-> 0]
    /\ disturbed = FALSE
    /\ unsettled = 0
    /\ commands = {}
    /\ wallet = [p \in Plans |-> [b \in Buckets |-> None]]
    /\ unconfirmed = {}
    /\ now = 0
    /\ crashes = 0
    /\ pc = [r \in Requests |-> "idle"]
    /\ plan = [r \in Requests |-> None]
    /\ expiry = [r \in Requests |-> None]
    /\ bought = [r \in Requests |-> 0]
    /\ remaining = [r \in Requests |-> None]
    /\ after = [r \in Requests |-> "idle"]

-----------------------------------------------------------------------------
(* Control of a request.                                                   *)

At(r, label) == pc[r] = label

\* r awaits at label; the rest of its locals stay as they are.
Goto(r, label) == /\ pc' = [pc EXCEPT ![r] = label]
                  /\ UNCHANGED <<plan, expiry, bought, remaining, after>>

\* r awaits at label, holding an expiry.
GotoWith(r, label, t) == /\ pc' = [pc EXCEPT ![r] = label]
                         /\ expiry' = [expiry EXCEPT ![r] = t]
                         /\ UNCHANGED <<plan, bought, remaining, after>>

\* r grants an amount on the chain, holding an expiry, and goes on at label.
GrantThen(r, label, t, a) == /\ pc' = [pc EXCEPT ![r] = "query"]
                             /\ expiry' = [expiry EXCEPT ![r] = t]
                             /\ bought' = [bought EXCEPT ![r] = a]
                             /\ after' = [after EXCEPT ![r] = label]
                             /\ UNCHANGED <<plan, remaining>>

Start(r, label, p) == /\ At(r, "idle")
                      /\ pc' = [pc EXCEPT ![r] = label]
                      /\ plan' = [plan EXCEPT ![r] = p]
                      /\ UNCHANGED <<expiry, bought, remaining, after>>

\* r answers or throws; its locals are gone.
Done(r) == /\ pc' = [pc EXCEPT ![r] = "idle"]
           /\ plan' = [plan EXCEPT ![r] = None]
           /\ expiry' = [expiry EXCEPT ![r] = None]
           /\ bought' = [bought EXCEPT ![r] = 0]
           /\ remaining' = [remaining EXCEPT ![r] = None]
           /\ after' = [after EXCEPT ![r] = "idle"]

Expired(p) == expiresAt[p] # None /\ expiresAt[p] <= now

\* findActiveCreditForService
Usable(p) == status[p] = "Active" /\ ~Expired(p) /\ used[p]["api"] < Total

\* The SDK accepts a grant only with credit left in both wallets.
Grantable(p, a) == /\ used[p]["api"] < Total
                   /\ used[p]["chain"] < a

-----------------------------------------------------------------------------
(* grantCredit                                                             *)

StartGrant(r, p) ==
    /\ Start(r, "lookup", p)
    /\ UNCHANGED <<docVars, chainVars, commands, sdkVars, now, crashes>>

\* A plan with this referenceId exists: its commands are queued again if it is
\* active.
Lookup(r) ==
    LET p == plan[r] IN
    /\ At(r, "lookup")
    /\ IF status[p] = "none" THEN Goto(r, "findActive")
       ELSE IF /\ status[p] = "Active" /\ allowance[p] # None
               /\ Grantable(p, allowance[p])
            THEN GotoWith(r, "sendApi", expiresAt[p])
            ELSE Done(r)
    /\ UNCHANGED <<docVars, chainVars, commands, sdkVars, now, crashes>>

\* Mutant: the plan is recorded without waiting for the chain.
Mutant_SkipChain(r) ==
    /\ At(r, "findActive")
    /\ IF \E p \in Plans : Usable(p)
       THEN Goto(r, "create")
       ELSE GotoWith(r, "create", now + Validity)
    /\ UNCHANGED <<docVars, chainVars, commands, sdkVars, now, crashes>>

FindActive(r) ==
    /\ At(r, "findActive")
    /\ IF \E p \in Plans : Usable(p)
       THEN Goto(r, "create")
       ELSE GrantThen(r, "create", now + Validity, Total * Multiplier)
    /\ UNCHANGED <<docVars, chainVars, commands, sdkVars, now, crashes>>

\* CreditRepository.create, an upsert: the document that is there wins.
Create(r) ==
    LET p == plan[r]
        new == status[p] = "none"
        activate == expiry[r] # None
    IN  /\ At(r, "create")
        /\ IF new
           THEN /\ status' = [status EXCEPT ![p] =
                                 IF activate THEN "Active" ELSE "Inactive"]
                /\ expiresAt' = [expiresAt EXCEPT ![p] = expiry[r]]
                /\ allowance' = [allowance EXCEPT ![p] =
                                    IF activate THEN bought[r] ELSE None]
           ELSE UNCHANGED <<status, expiresAt, allowance>>
        /\ IF activate /\ status'[p] = "Active" /\ allowance'[p] # None
                       /\ Grantable(p, allowance'[p])
           THEN GotoWith(r, "sendApi", expiresAt'[p])
           ELSE Done(r)
        /\ UNCHANGED <<used, chainVars, commands, sdkVars, now, crashes>>

-----------------------------------------------------------------------------
(* grantSSIAllowance                                                       *)

\* getFeegrantAllowance: what the wallet may still spend, None without grant.
Query(r) ==
    /\ At(r, "query")
    /\ pc' = [pc EXCEPT ![r] = "broadcast"]
    /\ remaining' = [remaining EXCEPT ![r] = feegrant]
    /\ UNCHANGED <<plan, expiry, bought, after, docVars, chainVars, commands,
                   sdkVars, now, crashes>>

\* r replaces the allowance while another that has read it goes on to: what
\* the other has read is stale.
Disturb(r) == disturbed' = (disturbed \/ \E q \in Requests \ {r} :
                                            At(q, "broadcast"))

\* Mutant: the remainder of the old allowance is not carried over.
Mutant_Replacement(r) == bought[r]

\* The amount granted: the remainder read and the amount bought.
Replacement(r) == bought[r] + IF remaining[r] = None THEN 0 ELSE remaining[r]

\* signAndBroadcast: the chain takes the transaction only if it revokes exactly
\* what there is: revoking none fails, as does granting a second.
Broadcast(r) ==
    /\ At(r, "broadcast")
    /\ remaining[r] = None <=> feegrant = None
    /\ feegrant' = Replacement(r)
    /\ granted' = [granted EXCEPT ![plan[r]] = @ + 1]
    /\ Disturb(r)
    /\ pc' = [pc EXCEPT ![r] = after[r]]
    /\ remaining' = [remaining EXCEPT ![r] = None]
    /\ UNCHANGED <<plan, expiry, bought, after, docVars, unsettled, commands,
                   sdkVars, now, crashes>>

BroadcastFails(r) ==
    /\ At(r, "broadcast")
    /\ ~(remaining[r] = None <=> feegrant = None)
    /\ Done(r)
    /\ UNCHANGED <<docVars, chainVars, commands, sdkVars, now, crashes>>

-----------------------------------------------------------------------------
(* activateCredit                                                          *)

StartActivate(r, p) ==
    /\ status[p] # "none"
    /\ Start(r, "load", p)
    /\ UNCHANGED <<docVars, chainVars, commands, sdkVars, now, crashes>>

\* assertUsableOnChainAllowance: some of the allowance bought is left.
AllowanceLeft(p) == used[p]["chain"] < allowance[p]

\* The amount an activation buys: the api credits it finds left, in uhid.
NewAmount(p) == (Total - used[p]["api"]) * Multiplier

\* A plan without an allowance gets one on the chain first; another must have
\* some of it left.
Load(r) ==
    LET p == plan[r]
        t == IF expiresAt[p] # None THEN expiresAt[p] ELSE now + Validity
    IN  /\ At(r, "load")
        /\ IF Expired(p) \/ used[p]["api"] >= Total THEN Done(r)
           ELSE IF allowance[p] = None
                THEN GrantThen(r, "persist", t, NewAmount(p))
           ELSE IF AllowanceLeft(p) THEN GotoWith(r, "persist", t)
           ELSE Done(r)
        /\ UNCHANGED <<docVars, chainVars, commands, sdkVars, now, crashes>>

\* Mutant: the plan the request works on becomes active, whatever was charged
\* to it while the chain was busy.
Mutant_StaleStatus(r) ==
    LET p == plan[r]
        a == IF allowance[p] # None THEN allowance[p] ELSE bought[r]
    IN  /\ At(r, "persist")
        /\ expiresAt' = [expiresAt EXCEPT ![p] = expiry[r]]
        /\ allowance' = [allowance EXCEPT ![p] = a]
        /\ status' = [status EXCEPT ![p] = "Active"]
        /\ IF Grantable(p, a) THEN Goto(r, "sendApi") ELSE Done(r)
        /\ UNCHANGED <<used, chainVars, commands, sdkVars, now, crashes>>

\* Mutant: the allowance this request was granted replaces the one recorded
\* meanwhile, with its usage.
Mutant_ReplaceAllowance(r) ==
    LET p == plan[r]
        a == IF after[r] # "persist" THEN allowance[p] ELSE bought[r]
        u == IF after[r] # "persist" THEN used[p]
                                     ELSE [used[p] EXCEPT !["chain"] = 0]
        active == /\ expiry[r] > now
                  /\ u["api"] < Total /\ u["chain"] < a
    IN  /\ At(r, "persist")
        /\ expiresAt' = [expiresAt EXCEPT ![p] = expiry[r]]
        /\ allowance' = [allowance EXCEPT ![p] = a]
        /\ used' = [used EXCEPT ![p] = u]
        /\ status' = [status EXCEPT ![p] = IF active THEN "Active"
                                                     ELSE "Inactive"]
        /\ IF active THEN Goto(r, "sendApi") ELSE Done(r)
        /\ UNCHANGED <<chainVars, commands, sdkVars, now, crashes>>

\* activateSsiCreditPlan: one update of the latest document, which keeps the
\* allowance another request recorded and decides the status by what is left.
Persist(r) ==
    LET p == plan[r]
        a == IF allowance[p] # None THEN allowance[p] ELSE bought[r]
        active == expiry[r] > now /\ Grantable(p, a)
    IN  /\ At(r, "persist")
        /\ expiresAt' = [expiresAt EXCEPT ![p] = expiry[r]]
        /\ allowance' = [allowance EXCEPT ![p] = a]
        /\ status' = [status EXCEPT ![p] = IF active THEN "Active"
                                                     ELSE "Inactive"]
        /\ IF active THEN Goto(r, "sendApi") ELSE Done(r)
        /\ UNCHANGED <<used, chainVars, commands, sdkVars, now, crashes>>

\* grantCreditPlan queues a command for each wallet, one after the other.
Send(r, bucket) ==
    /\ commands' = commands \cup {[plan |-> plan[r], bucket |-> bucket,
                                   expires |-> expiry[r]]}
    /\ UNCHANGED <<docVars, chainVars, sdkVars, now, crashes>>

SendApi(r) == At(r, "sendApi") /\ Send(r, "api") /\ Goto(r, "sendChain")

SendChain(r) == At(r, "sendChain") /\ Send(r, "chain") /\ Done(r)

-----------------------------------------------------------------------------
(* The handlers of the lifecycle events, one document update each.         *)

\* processCreditGranted; the event may be handled again until it is recorded.
ProcessCreditGranted(p, b) ==
    /\ <<p, b>> \in unconfirmed
    /\ unconfirmed' \in {unconfirmed, unconfirmed \ {<<p, b>>}}
    /\ IF status[p] = "Inactive"
       THEN /\ status' = [status EXCEPT ![p] = "Active"]
            /\ expiresAt' = [expiresAt EXCEPT ![p] = wallet[p][b]]
       ELSE UNCHANGED <<status, expiresAt>>
    /\ UNCHANGED <<allowance, used, chainVars, commands, wallet, now, crashes,
                   local>>

ProcessPlanExpired(p, b) ==
    /\ wallet[p][b] # None /\ wallet[p][b] <= now
    /\ status[p] = "Active"
    /\ status' = [status EXCEPT ![p] = "Inactive"]
    /\ UNCHANGED <<expiresAt, allowance, used, chainVars, commands, sdkVars,
                   now, crashes, local>>

\* The COMMITTED event of a wallet's usage (applyPlanCreditCommit, charged
\* once: UsageAccount); a usage of the chain wallet is a fee paid before.  The
\* plan becomes inactive when both its balances are used up.
Commit(p, b) ==
    LET u == [used[p] EXCEPT ![b] = @ + 1] IN
    /\ wallet[p][b] # None
    /\ IF b = "api"
       THEN /\ u["api"] <= Total
            /\ UNCHANGED unsettled
       ELSE /\ allowance[p] # None /\ u["chain"] <= allowance[p]
            /\ unsettled > 0
            /\ unsettled' = unsettled - 1
    /\ used' = [used EXCEPT ![p] = u]
    /\ status' = IF u["api"] = Total /\ u["chain"] = allowance[p]
                 THEN [status EXCEPT ![p] = "Inactive"] ELSE status
    /\ UNCHANGED <<expiresAt, allowance, feegrant, granted, disturbed,
                   commands, sdkVars, now, crashes, local>>

-----------------------------------------------------------------------------
(* The credit SDK, the chain and the clock (external).                     *)

SdkGrant(cmd) ==
    /\ wallet[cmd.plan][cmd.bucket] = None
    /\ wallet' = [wallet EXCEPT ![cmd.plan][cmd.bucket] = cmd.expires]
    /\ unconfirmed' = unconfirmed \cup {<<cmd.plan, cmd.bucket>>}
    /\ UNCHANGED <<docVars, chainVars, commands, now, crashes, local>>

\* The service pays a fee while a plan's chain wallet is valid.  It is settled
\* later, or never; the chain drops an allowance that is used up.
PayFee ==
    /\ \E p \in Plans : wallet[p]["chain"] # None /\ now < wallet[p]["chain"]
    /\ feegrant # None /\ feegrant > 0
    /\ feegrant' = IF feegrant = 1 THEN None ELSE feegrant - 1
    /\ unsettled' = unsettled + 1
    /\ UNCHANGED <<docVars, granted, disturbed, commands, sdkVars, now,
                   crashes, local>>

Tick == /\ now < MaxNow
        /\ now' = now + 1
        /\ UNCHANGED <<docVars, chainVars, commands, sdkVars, crashes, local>>

\* The process dies, an await throws, or the answer of the call before it is
\* lost.
Crash(r) ==
    /\ ~At(r, "idle")
    /\ crashes < MaxCrashes
    /\ crashes' = crashes + 1
    /\ Done(r)
    /\ UNCHANGED <<docVars, chainVars, commands, sdkVars, now>>

-----------------------------------------------------------------------------

Request(r) == \/ \E p \in Plans : StartGrant(r, p) \/ StartActivate(r, p)
              \/ Lookup(r) \/ FindActive(r) \/ Create(r)
              \/ Query(r) \/ Broadcast(r) \/ BroadcastFails(r)
              \/ Load(r) \/ Persist(r) \/ SendApi(r) \/ SendChain(r)

Lifecycle(p, b) == \/ ProcessCreditGranted(p, b) \/ ProcessPlanExpired(p, b)
                   \/ Commit(p, b)

Next == \/ \E r \in Requests : Request(r) \/ Crash(r)
        \/ \E p \in Plans, b \in Buckets : Lifecycle(p, b)
        \/ \E cmd \in commands : SdkGrant(cmd)
        \/ PayFee \/ Tick

Spec == Init /\ [][Next]_vars

-----------------------------------------------------------------------------
(* Properties.                                                             *)

\* "without replacing lifecycle-owned usage fields": what was charged to a plan
\* is never taken back, not even by an activation that was waiting for the
\* chain meanwhile.
UsageNeverReset ==
    [][\A p \in Plans, b \in Buckets : used'[p][b] >= used[p][b]]_vars

\* "evaluates against the latest Mongo document": an activation, however long
\* ago it loaded the plan, activates it only before it expires and with credit
\* left in both wallets.
\* (CREDIT_GRANTED is the other way for a plan to become active.)
ActivationSeesUsage ==
    [][\A p \in Plans :
          (status[p] = "Inactive" /\ status'[p] = "Active" /\ pc' # pc)
              => Grantable(p, allowance'[p]) /\ now < expiresAt'[p]]_vars

\* A plan is active, and the SDK is told of it, only after its allowance was
\* granted on the chain and recorded.
ActiveHasAllowance ==
    \A p \in Plans :
        status[p] = "Active" \/ (\E c \in commands : c.plan = p)
            => allowance[p] # None /\ granted[p] > 0

\* "The previous remainder is already present in older FIFO plans": what all
\* documents still hold for use on the chain is covered by the allowance and
\* the fees paid from it that no document was charged yet, unless two requests
\* overlapped, so that one undid the other's replacement.
Left(p) == IF allowance[p] = None THEN 0 ELSE allowance[p] - used[p]["chain"]

PlansBacked ==
    ~disturbed => MapThenSumSet(Left, Plans) <=
                      (IF feegrant = None THEN 0 ELSE feegrant) + unsettled
=============================================================================
