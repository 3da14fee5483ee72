# A formal model of the entity developer dashboard service

This directory models the stateful protocols of the dashboard in TLA+, checks
them with TLC on small instances and proves the most important results with
TLAPS for every value of the constants. Paths below are relative to the
repository; `credits/` stands for `src/credits/`.

## 1. The system

The dashboard is a NestJS service, run in several replicas that share MongoDB,
Redis (caches, sessions and BullMQ queues) and RabbitMQ. Its customers buy
credit plans for services (SSI, KYC, ...). Usage is accounted by a credit SDK
inside each product service; the dashboard stores the plans, tells the SDK of
them by commands, and learns of usage from events.

| Component | State it keeps | Operations | Interacts with |
|---|---|---|---|
| Commit consumer (`credit-event-store`, `credit.repository`, ledger, outbox) | plan balances, outbox entry per event with lease, ledger rows | `append` of a COMMITTED event: charge, alert, claim, insert, mark, release | event worker, alerts |
| Event worker (`credit-lifecycle-consumer`, `credit-bullmq.provider`) | BullMQ job states, in-memory order of critical-balance events | take, retry, give up, retry failed jobs at start-up | commit consumer, lifecycle handlers |
| Plans (`credits.service`, `credit.repository`) | status, expiry, balances, reference id | `grantCredit`, `activateCredit`, CREDIT_GRANTED, PLAN_EXPIRED, CRITICAL_BALANCE | commands, SDK, chain |
| Fee allowance (`grantSSIAllowance`, `utils/authz`) | AuthZ and fee grants of a wallet on the chain | query, revoke and grant in one transaction | plans |
| Commands (`credit-command.service`) | none (queued jobs) | `grantCreditPlan`, `settleSsiTransaction` | SDK |
| Transaction results (`ssi-transaction-result.consumer`) | unacknowledged RabbitMQ deliveries | `consume`: settle each item, ack or nack | commands |
| Alerts (`credit-notification.service`) | claimed thresholds in the plan | usage alert, allowance alert, expiry scan | commit consumer, mail |
| Onboarding (`customer-onboarding.service`) | request, step log, ids of what was made | create, process with retry by step, notify | apps, plans, webpages |
| Services (`app-auth.service`) | app documents, KMS documents, EDV vaults, databases, cached tokens | create, update, delete, tokens, permissions | onboarding, Redis |
| Sessions (`social-login`, `email-otp-login`) | session, refresh and OTP keys in Redis; authenticators | login, MFA, refresh, logout, OTP | users |
| People and roles (`people.service`, `role.service`) | invitations, roles, permission snapshot in the session | invite, accept, attach role, switch tenant | sessions |
| Webpages (`webpage-config.service`) | page configuration, expiry, cached tokens | store, update, tokens | apps |
| Others (mail, ip resolver, EDV and wallets, users, supported services) | little or none | I/O, look-ups, constant tables | all |

### What is hard, and what correctness means

* **Commit consumer.** Nothing joins the charge, the ledger row and the job's
  completion in a transaction. Workers crash, jobs stall and are run twice,
  awaits fail with or without effect, leases run out. *Correct:* an event is
  charged at most once and within the total, is in the ledger before its job
  completes, has one row, and a used-up plan retires.
* **Plans.** A request looks for an active plan and creates one later; a KYC plan
  is active only when the SDK's confirmation was processed; confirmations,
  commits and expiries come in any order; two requests use one reference id.
  *Correct:* active means granted, with one expiry that never moves; commands of
  a plan agree; at most one plan is usable; a waiting plan takes over; no event
  blocks the queue for ever.
* **Fee allowance.** The chain, the plan document and the queue share no
  transaction, and the allowance is replaced by what was read before; a fee is
  paid on the chain before a plan is charged with it. *Correct:* no active plan
  without allowance, what the documents hold is covered by the chain and the fees
  on their way, usage charged meanwhile survives.
* **Transaction results.** Whole batches are requeued after partial work; old
  handlers run beside redeliveries. *Correct:* nothing is lost, nothing is
  acknowledged half done, unknown outcomes settle nothing.
* **Alerts.** Workers claim out of order, scans of replicas overlap and last
  beyond midnight, a claim may outlive its worker. *Correct:* a threshold is
  mailed at most once; the last claim follows the usage; exhaustion is mailed.
* **Onboarding.** Logs and ids are saved once, at the end of a long run; runs may
  overlap, die, or lose the answer of a step that took effect. *Correct:* what the
  log says was made; nothing is made twice without a loss; retries end in
  approval.
* **Services.** Creation and deletion go over five stores; an update reads cached
  copies and writes them back. *Correct:* a document has its keys, a deleted
  service leaves no keys, data or known copies and takes no page but its own,
  copies agree with the document and expire, a verified
  domain stays.
* **Sessions.** Every operation reads one JSON value, awaits and writes it back;
  keys have times to live of their own. *Correct:* no way around the second
  factor, one login per code, bounded guesses, no session after logout.
* **People and roles.** A session's tenant and permissions are a snapshot in a
  value that refreshes and the second factor write back too; an index lists the
  sessions again. *Correct:* who is served has joined, who was
  deleted is out, the index misses no session, a session expires.

PROJECT.json lists each hazard at its line, with the properties about it.

## 2. Plan

Order: what moves money first, then who may do what, then what is made and
deleted. All modules of the plan are written.

1. `CreditCommit`, with the abstract `UsageAccount` it implements; proved.
2. `KycPlans`: plan life cycle against the SDK; its safety is proved.
3. `SsiAllowance`: plan life cycle against the chain; proved.
4. `CreditAlerts`; its safety is proved.
5. `SsiSettlement`; its safety is proved.
6. `Onboarding`: steps, failures, retry from the log, two runs at once; its
   safety is proved.
7. `EmailOtp` and `Sessions`, composed in `Login`; proved.
8. `Tenants`: invitations, roles, and the snapshot in the session; proved.
9. `Services`: creation, update and deletion over KMS, EDV, database, pages and
   Redis, with the cached tokens and dependent services; proved.

Every invariant and action property that a passing run checks is proved, two of
them, `GrantsAgree` and `ClockStartsOnce` of `KycPlans`, under a hypothesis that one
request at a time discharges.
Modules are written without RECURSIVE operators, with named assumptions and one
action per await, so that each proof is one case per action. The runs of `KycPlans`
have one replica (its parameter `Replica`); its theorems hold for any number.

## 3. The modules

In all modules an action is what the code does from one await to the next:
between two awaits Node.js runs nothing else, so this is the grain at which
requests, workers and replicas interleave. MongoDB's single-document updates and
transactions are atomic; where an answer can be lost after the effect there is an
action for that. Definitions named `Mutant_...` are deliberately wrong variants
used to check that a property can fail; nothing refers to them.

### UsageAccount, CreditCommit, ConsumerProofs, MCCreditCommit

`UsageAccount` promises: `Charge` an event once, within the total, retiring an
exhausted plan in the same step; `Record` it afterwards.

`CreditCommit` is the consumer. `pc[w]` is the await of worker `w`; `used` and
`status` are the plan, `outbox`, `lease`, `leaseExpired` the outbox entry,
`ledger[e]` the number of rows, `job`, `owner`, `attempts`, `stalls` BullMQ's
view. `CheckLedger`/`MarkSeen` are the head of `processLifecycleEvent`; `Apply`,
`ApplyDuplicate`, `ApplyExceeds` the transaction of `applyPlanCreditCommit`;
`Claim`, `ClaimRefused`, `NoLease`, `Recheck`, `Create`, `Mark`, `Release` are
`persistCommitLedger`. `AwaitRejects` fails an await before or after its effect,
`Crash` kills a slot, `Stall` loses a job's lock while or after its worker ran,
`Redeliver` brings a settled job back. The lease token, a fresh UUID, is the
worker that claimed it.
`PromptWriters` says whether a live writer finishes within the 30 s lease.

`Refuse` is an event whose amount `append` does not accept (`ValidAmount`). Plans
start granted with the grant in the ledger: `ExhaustedIsInactive` is about commits
in any order. A confirmation that is processed after them makes a used-up plan
active again (`ProcessCreditGranted` in `KycPlans` does so too).

### KycPlans, KycPlansProofs, MCKycPlans

A service with one balance. A *process* is a request (`Callers`) or an event
worker (`Workers`). `StartGrant`, `Lookup`, `FindActive`, `Create`, `Send` are
`grantCredit`; `StartActivate`, `Load`, `LoadRefused`, `SetExpiry`, `Send` are
`activateCredit`; `Take`, `ProcessCreditGranted`, `ProcessPlanExpired`,
`FindOther`, `FindWaiting`, `Record`, `Ack` handle events, and a critical balance
continues with the actions of `activateCredit`. `MayTake` is the in-memory order
of critical-balance events within a replica. `Charge` is a COMMITTED event, one
step here because `CreditCommit` shows it is charged once. `ExpiryFromNow` is the
expiry a request computes, `MiddlewareGrant` the plan as a command carries it,
`GrantExpiry` the expiry a confirmation stores. The SDK is external:
it accepts one grant per plan, consumes, and announces critical balances and
expiries.

### SsiAllowance, SsiAllowanceProofs, MCSsiAllowance

A service whose wallet pays fees on the chain. `Query` and `Broadcast` are the two
ends of `grantSSIAllowance`: between them another request, or a fee, may change
the allowance; the transaction succeeds only if it revokes exactly what exists,
an allowance or none. `FindActive` and `Load` fix the amount a request buys
(`bought`, `NewAmount`) before it asks the chain, from the document it loaded.
`Persist` is the one update of `activateSsiCreditPlan`.

The service pays a fee (`PayFee`, external) before any document knows of it: the
SDK settles it later and the COMMITTED event charges a plan (`Commit`), or never
does. `unsettled` counts the fees in between, so that `PlansBacked` compares what
the documents still hold with the allowance and these fees together. The history
variable `disturbed` says that the allowance was replaced while another request
that had read it was at its `Broadcast`; `PlansBacked` excludes those behaviours,
in which two purchases read the same remainder and the second broadcast drops the
first one's amount (listed as a hazard). A fee between reading and replacing leaves
the allowance too large, which `PlansBacked` allows. AuthZ grants are revoked and
granted in the same transaction as the fee grant and are not modelled apart from
it. The expiration of the fee grant on the chain is left out.

### CreditAlerts, CreditAlertsProofs, MCCreditAlerts

Usage alerts of each balance, the allowance of an SSI plan included, and the
expiry scan. Only the claim, a filtered update, is atomic. `NoRecipient` is a
service with nobody to tell, `QueueFails` a mail that is not queued (the error is
swallowed), `Fail` an await that rejects or a process that dies.

### SsiSettlement, ConsumerProofs, MCSsiSettlement

`Deliver`, `Settle`, `Ack`, `Nack` are `consume`; `ChannelBreaks` returns all
unacknowledged messages to the queue while their handlers go on. Commands are a
set: the SDK knows a settlement by its commandId, which depends on reservation and
outcome only. `ConsumerProofs` holds the theorems about this module and about
`CreditCommit`, the two consumers of queues.

### EmailOtp, Sessions, Login, LoginProofs, MCLogin

`EmailOtp` is `email-otp-login.service.ts` for one address: four Redis keys, each
read in one await and written in a later one. `AskCode`, `SetCooldown`,
`CountRequest`, `SetCountTtl`, `StoreCode` are `generateEmailOtp`; `ReadCode`,
`ReadAttempts`, `CountWrong`, `ClearAttempts`, `UseCode`, `AcceptCode` are the
verification. Keys end when their time to live does; `outlives` says which of the
code and its count of wrong guesses ends first.

`Sessions` is the Redis session of `social-login.service.ts`, one JSON value that
every operation reads, changes and writes back: `SocialLogin`, `CreateSession`,
`GenerateTokens`, `VerifyMfaCode` with `WrongCode` and `RightCode`,
`VerifyRefreshToken` with `Refresh`, `ConfirmMfaSetup`, `RemoveMfa`, `Generate2FA`,
`Logout`. `Admitted` is the middleware. `writing` holds the updates of the user
document nobody awaits. `Login` puts both side by side: `verifyEmailOtp` of the
controller goes on with `socialLogin` in the request that verified the code.

The history `h.overlapped` says on which sessions two requests worked at once
(`crossed` for codes): with overlap a deleted session may come back, two refreshes
get one version and a wrong guess is not counted, so these properties except
exactly those sessions.

### Tenants, TenantsProofs, MCTenants

One person and the admins who invite that person. `Invite`, `CreateInvite`,
`Resend`, `Accept`, `AcceptWrite`, `Delete`, `DeleteDoc`, `Attach`, `AttachWrite`
are `people.service.ts`, `EditRole` the role service; `Switch` to `ExpireIndex`
are `switchTenantAccount` with the index of tenant sessions, `ReadIndex` to
`FlagBackfilled` the listing of active sessions with its back-fill by a scan.
`Serves` is the middleware that serves a session as a tenant. A membership is
keyed by the user id, or by the e-mail address if the person was not registered
when invited. `Legacy` is a session from before the index was introduced.

The switch is not the only request that writes `session:<id>` back whole:
`verifyAndGenerateRefreshToken`, `verifyMFACode`, `confirmMfaSetup` and `removeMFA`
read it (`TakeSession`), await, and write it with a time to live (`PutBack`), or
throw before they do (`LetGo`). They leave the tenant and the permissions as they
read them, so that what they know is the value alone: `owed` is the set of values
read, held by any number of such requests. One that overlaps a switch restores the
tenant just left; the session it wrote over is then in `h.raced`, as are those of
overlapping switches and listings. A request that writes back what is still there
is not in it.

### Onboarding, OnboardingProofs, MCOnboarding

`Submit` and `AskAgain` are the customer's request; `Load`, `Step`, `StepFails`,
`Save`, `Crash` a run of `processCustomerOnboarding`. Each step has the effect its
case in the code has outside of the document; the logs and ids are saved by `Save`
alone. A log is represented by the index of its last successful step, which is
all a retry reads of it. A step whose answer is lost took effect and counts as
failed.

### Services, ServicesProofs, MCServices

SSI and KYC services of one admin, over the document, the KMS secret, the EDV
vault, the database, the pages and the copies in Redis that tokens refer to.
`CreateAnApp` to `CreateDoc`, `UpdateAnApp` to `SetCopies`, `DeleteApp` to
`ClearCopies`, and the ways a copy comes to be (`GrantPermission`,
`GenerateAccessToken`, `GenerateWebpageConfigTokens`, then `LookupCopy`, `FindApp`,
`StoreCopy`). `Die` ends a request between two awaits. `KnownSlots` are the copies
whose keys updates and deletions know. The copies that tenants and super admins
get of a service in the dashboard are keyed by their own user ids and are not
among them (`other`). `DeletePage` deletes any page, since the filter of the code
names no field of a page.

Where requests overlap on one service (`crossed`), a copy expires under a request
that has read it (`lapsed`), or a link is made to a service on its way out
(`linking`), the copies and links may be wrong for good, and the properties except
that service. What they check is that they are right in every other behaviour, the
overlap of other requests and of other services included; `DocHasKeys` and the
stores in `GoneIsGone` are for all overlaps.

## 4. The runs

`pass` runs finish without error; a `violation` run reproduces a disagreement
between the code and something the repository says, quoted in PROJECT.json.

| Run | Question | Bounds |
|---|---|---|
| commit_safety | charged once and within the total, recorded before completion, outbox and ledger agree (`CompletedIsRecorded`, `OutboxMatchesLedger`, refinement `AccountSpec`) | 2 workers, both balances of an SSI plan and an event of amount 0, 2 attempts, 1 stall |
| commit_live | one ledger row per event if writers are prompt (`LedgerRowUnique`); a charged event is recorded or its job given up (`ChargedIsRecorded`) | 2 workers, a commit and one beyond the balance, 2 attempts, 1 stall, 1 redelivery |
| plans | commands of a plan agree (`GrantsAgree`), its clock starts once (`ClockStartsOnce`), a command makes its plan active (`GrantTakesEffect`), every event completes (`EventsComplete`) | 2 plans of 1 credit, 1 request, 1 worker, 1 tick or 1 crash |
| plans_two | violation of `OneActivePlan`, see below | 2 plans of 2 credits, 1 request, 1 worker |
| ssi | no active plan without allowance, activation decides on current data and takes no usage back, the chain and the fees on their way cover the plans (`ActiveHasAllowance`, `ActivationSeesUsage`, `UsageNeverReset`, `PlansBacked`) | 2 plans, 2 requests, 1 tick, 1 crash |
| alerts | nothing mailed twice; claims follow usage; exhaustion is mailed (`MailedOnce`, `ClaimsFollowUsage`, `ExhaustionAlerted`) | an SSI plan of 4 credits in each balance, 2 workers, 2 replicas, days 0 to 2, 1 failure |
| settlement | no half-settled ack, eventual settlement (`AckedIsSettled`, `ResultsSettle`) | 2 slots, 3 messages (one a batch of two), 2 failures |
| onboarding | what the log says was made, repeated only after a loss, approved in the end (`ProgressIsReal`, `RepeatsAreLosses`, `EventuallyApproved`) | 2 runs, 1 failure, 1 loss, 1 overlap, with and without KYB |
| login | one use per code, bounded guesses, no way around the second factor, logout is final, versions grow (`OneTimeUse`, `GuessesBounded`, `CounterExpires`, `SecondFactor`, `LogoutFinal`, `ConfirmedIsEnabled`, `VersionsGrow`) | 2 visits, 2 codes, 1 session, 2 requests, 1 authenticator, 1 wrong guess allowed, 3 versions, 1 death |
| tenants | who is served has joined, who was deleted is out, permissions follow the role, the index is complete, sessions expire | 1 admin, 2 roles, 2 sessions, 2 requests, 1 session value to be written back, 2 invitations, 1 edit, 1 death |
| services | documents have keys; a deleted service has no document, secret, vault, database or known copy; links do not dangle, copies agree and expire, a verified domain stays | 1 SSI and 1 KYC service, 1 domain, 2 requests, 1 fault |
| services_page | violation of `OwnPage`, see below | 1 SSI and 2 KYC services, 1 request |

Why the bounds are enough: the races are between two actors on one document, so
two workers, requests or replicas show them; a third adds permutations of the
same conflicts (and the proofs, where there are some, cover any number). Two plans
are needed for "the other plan" of a roll-over, two balances for SSI exhaustion,
one tick for expiry, one crash or failure per crossing of a non-transactional
boundary, two sessions for an index of which one entry is lost. The counters
(`MaxAttempts`, `MaxStalls`, `MaxNow`, `MaxVersion`, ...) are bounds of the
instances and named as such in the modules.

Eight runs have a state constraint, which says what the run does not combine:

* `InvalidFirst` (commit_safety): the event of amount 0 fails before the others
  are taken; it touches no document, so the order makes no difference.
* `OneStalled` (commit_live): one job stalls, not both. For a liveness property a
  constraint leaves out the behaviours that leave it, so two stalls are covered
  for safety only.
* `MCKycPlans!Bounded` (plans): a crash or a tick, not both, and one lifecycle event
  at a time after the tick. A request and the worker may have one plan in hand on
  both sides of the tick, which is what moves an expiry if the update does not
  look; liveness is checked fully before the tick. The safety properties are
  proved for one request beside any number of workers, plans, ticks and crashes.
* `MCSsiAllowance!Bounded`: one command and one event on their way at a time, and
  one request and one plan after a tick or a crash.
* `MCLogin!Bounded`: the e-mail keys are explored fully until a login starts; then
  one of an overlap, an overlap of two updates of the user, or a death happens.
* `MCTenants!Bounded`: `NoListing` (memberships change, one session) or
  `OneMembership` (listings and late writes, the membership stays). At most one
  session value is to be written back, and while it is, one other request goes
  on at a time and none dies: a switch or a listing beside a refresh, which is
  where the refresh bites; the proofs cover any number of each.
* `MCServices!Bounded`: one copy at a time; a death, a link to what is not there,
  a crossing or a copy written back late, but not two of these together.
  Dependent services are one: with two, `findOneAndUpdate` with `$in` updates the
  document of one and the copies of both. `Linked` (services_page) is the same
  with links to services that are there.

`plans` has one request at a time: two requests with one reference id, of
which one finds an active plan and the other does not, would queue a command whose
expiry no document holds (`credit.expiresAt ?? expiresAt`). Deadlock checking is
off where the instance may run out of things to do: `SsiSettlement` when every
message is settled, `Onboarding` when the request is approved, `Login`, `Tenants`
and `Services` when ids and counters are used up.

### What was found

Two runs find a disagreement between the code and what the repository says:

* **plans_two**: a KYC plan granted before the first confirmation was processed
  becomes active beside it, while the playbook (lines 77 and 856) allows a service
  one active plan.
* **services_page**: deleting a service deletes some page, of whatever service; the
  comment in `app-auth.service.ts` (line 678) says "webpage config data of that
  service".

The following also happens. No run records it, and the properties except it by
name; the exceptions are what a reader should look at. The playbook speaks against
two of them: it asks never to repeat a chain grant silently, with a compensation
record instead (line 296), and it has exhaustion fire once per plan (line 729).

* A writer that outlives its 30 s lease and the one that took it over may both
  insert a ledger row (`LedgerRowUnique` is for `PromptWriters`).
* A CREDIT_GRANTED that is processed late makes a used-up plan active again.
* A crash between the chain transaction and the plan document makes the retry
  grant on the chain again (line 296); two purchases that read one remainder lose
  an amount.
* A plan created after the critical-balance event waits until somebody activates
  it; a worker that dies after its claim loses that alert for good (line 729).
* The in-memory order of critical-balance events is one per replica.
* A verifier page whose step's answer was lost makes its step throw at every
  retry (`Blocked`).
* A deletion of a service that fails after the KMS document is gone cannot be
  repeated; the cached copies of tenants and super admins outlive a deletion
  until they expire.
* An update of a service that leaves `hasDomainVerified` out changes a verified
  domain.
* A refresh that overlaps with a logout brings the session back; two
  verifications that overlap accept one code twice.
* A person who was deleted and invited again is served in an old session before
  accepting; a person invited by e-mail who then registers is reported deleted
  while the invitation stands; a switch that finds no time to live makes its
  session immortal; a refresh that overlaps a switch back restores the tenant
  and the permissions just left, in a session the index no longer lists.
* Read while modelling, outside of what the modules state: an expired page is
  served (its date is stored and never compared), and a resent invitation is
  renewed for ten minutes, whatever it had before.

### Fairness

Weak fairness of a worker's or request's own steps: Node.js resumes an awaited
call when it settles and BullMQ workers poll for ever. Strong fairness of taking a
job or delivering a message: the queues are first in, first out, so a job is not
passed over for ever although each slot is busy again and again. In
`CreditCommit` leases run out and BullMQ's stalled check finds abandoned jobs
(weak). In `Onboarding` the customer asks again until approved, the super admin
answers, and a run that does not die comes to its end (weak); that people go on
is the assumption of `EventuallyApproved`, not a fact of the code. Usage, ticks,
crashes, failures and publication are never forced. `Login`, `Tenants` and
`Services` have safety properties only: nothing in them is promised to happen.

## 5. The proofs

`ConsumerProofs` proves of `CreditCommit`, for any sets of workers, events and plans, any
amounts and totals, and any bounds, from `CommitAssumption` alone:

* `TypeCorrect`, by one case per action.
* `CommitInvariant`: the inductive invariant `CommitInv`. `CompletedIsRecorded`
  and `OutboxMatchesLedger` are not inductive: what an await may do depends on
  what the worker has seen. `CommitInv` adds `ChargedBeforeWriting` (a worker
  past the charge works on an event that has an outbox entry),
  `RowBeforeMarking` (one that is about to mark or return has seen or written
  the row) and `LeaseIsOpen` (only a PENDING entry is leased). None of these can
  be undone by another worker, because entries are never removed, rows never
  deleted and WRITTEN never reopened, which is why they survive crashes,
  takeovers and lost answers.
* `CompletedRecorded`, `OutboxAgrees`, `WrittenFinal`: consequences.
* `ExhaustedInactive`: from the conditional status in the same update as the
  charge.
* `ImplementsAccount`: `CreditCommit` refines `UsageAccount`. `Apply` maps to
  `Charge`, the first row of an event to `Record`, all else to a stutter.
* `RowUnique`: rows are unique assuming `PromptWriters`, from `RowInv`: a writer
  between its look-up and its insertion holds the unexpired lease, or the entry
  has no other writer.

`KycPlansProofs` proves, from `PlansAssumption` alone:

* `TypeCorrect`. `TypeOK` is not inductive; `TypeInv` adds `Sane`: at each await
  the locals hold what the next statement uses (a plan, an expiry about to be
  stored or sent, a worker's event).
* `ActiveGranted`: `ActiveIsGranted` for any number of concurrent requests,
  workers, replicas and crashes. `GrantInv` adds `ConfirmationsGranted`: a
  CREDIT_GRANTED event, queued or in a worker's hands, is of a wallet that
  exists. It survives because no wallet is closed and only the SDK, in the step
  that opens the wallet, publishes one. That the expiries agree needs that
  `SetExpiry` writes only where none is stored.
* `GrantsAgreeUnlessRaced` and `ClockStartsOnceUnlessRaced`: `GrantsAgree` and
  `ClockStartsOnce` under the hypothesis `[]CreationsAgree`, that no request which
  starts a plan's clock finds the plan created by another request without an
  expiry. Without it `GrantsAgree` is false: of two requests with one reference id
  one may find another plan usable and the other not; the second then finds the
  plan created and sends an expiry that no document holds. Two requests may
  otherwise overlap in any way. The inductive invariant `ClockInv` says that a plan
  about to be activated is there (`PlanThere`), and that every command, every expiry
  about to be sent and every wallet has the expiry of the document (`ExpiryTold`).
* `GrantsAgreeOneRequest` discharges the hypothesis for one caller, as in the run,
  with any number of plans, workers, replicas and crashes. `ApartAgree` is the
  step: while grants of one plan keep apart (`GrantsApart`), a plan about to be
  created is not there (`PlanNew`).

`SsiAllowanceProofs` proves, from `SsiAssumption` and `FinitePlans` (a service has
finitely many plans, so that their balances can be added up):

* `TypeCorrect`, with `ApiWithinTotal` (an allowance is computed from what is left
  of the API balance, so it is an amount only if that is not overdrawn).
* `ActiveAllowed`: `ActiveHasAllowance`. `AllowanceFirst` adds what documents,
  commands and confirmations rest on, and `Ready` what a request has established
  at each await: behind `Broadcast` its plan has a chain grant, before a send its
  plan has a recorded allowance. Other requests cannot undo either, since grants,
  documents and recorded allowances only come into being (`Grows`).
* `ActivationCurrent`: `ActivationSeesUsage`; `Persist` alone turns an inactive
  plan active for a request, and reads what it compares in the same update.
* `UsageKept`: `UsageNeverReset`; only `Commit` writes what is used, and adds.
* `PlansCovered`: `PlansBacked`. It is not inductive: between a request's grant on
  the chain and its write of the document the allowance already covers more than
  the documents record. `Backed` therefore adds up what is *due*: the rest of a
  recorded allowance, or a whole one for a plan whose grant some request is about
  to record (`Paid`), and compares it with the allowance and the fees not yet
  charged (`Cover`). A fee moves one from the first to the second, and a commit
  takes one from the documents and from the second. `Backed` also says that a
  request at `Broadcast` has read at least what the allowance holds now, while no
  two replacements overlapped (`Fresh`: fees may have been paid since), that a
  request buys a whole allowance unless its plan has one by now (`Priced`: the
  amount was fixed from a document without allowance), and that a plan without a
  recorded allowance was granted by no command and charged nothing (`Unspent`).
  Several requests may pay one plan; the sum counts it once, the chain more often.
  The sums rest on lemmas of their own (`SumExists`, `SumBound`): that
  `MapThenSumSet` of the community modules adds up, and how a sum follows its
  summands, from a smallest counterexample among the subsets of the plans, since
  the induction theorems of the library are not available.

`CreditAlertsProofs` proves, from `AlertsAssumption` alone:

* `TypeCorrect`. That `Max` and `Min` yield thresholds needs that nonempty sets of
  numbers have least elements (`Smallest`), which follows from the library's
  well-foundedness of inclusion between finite sets.
* `AlertsOnce`: `MailedOnce`, for both balances and the expiry. `UsageInv` (and
  `ExpiryInv`, its mirror image) says that a threshold that was mailed or is about to be has been claimed, and
  that it has been mailed once or one process is about to, not both: a claim is
  granted only beyond the last one, so no second process gets it.

* `ClaimsFollow`: `ClaimsFollowUsage`. `ClaimsInv` says that a claimed threshold
  has been reached and no worker saw more usage than there is (`ClaimsSound`), and
  that each threshold reached is claimed, or a worker that saw enough usage is
  about to claim it (`ClaimsComplete`). The workers may come in any order, because
  one that finds a higher claim has nothing to add. It needs that the percentage,
  rounded down, grows with the usage.

`ConsumerProofs` proves of `SsiSettlement`, from `SettlementAssumption` alone, for
batches of any length and any number of slots and failures:

* `SettlementTypeCorrect`, with `Settling`: a slot's unanswered delivery, if it still
  counts, is the message its handler works on. Broken channels leave handlers
  running, so this is what keeps a late ack from answering another delivery.
* `NothingIsLost`, by what each action moves between the broker's sets.
* `AckedSettled`, from `SettledSoFar`: the items a handler has passed have their
  commands, and commands are never withdrawn, so the ack after the last item
  finds them all.
* `SettledReported`, from `Published`: handlers and the broker hold published
  messages only.

`OnboardingProofs` proves, from `OnboardingAssumption` alone, for any number of runs,
failures, lost answers and overlaps, with and without KYB:

* `TypeCorrect`, from `TypeInv`. The step a run is at and the one it logged last
  must agree (`Sync`), in the list of all steps and in the shorter one without KYB:
  the lemmas on the two lists (`Before`, `Place`) say which step follows which.
  What the logged steps made has an id (`IdsSet`), and an id is never taken back.
* `ProgressReal`: `ProgressIsReal`. The document changes only when a run ends, so
  the property needs to be known of what each run logged itself. `RealInv` says,
  while no two runs overlapped, that what the document logs is there for its ids,
  that one run at most is in progress, that the document is still what that run
  loaded, and that what the run logged since is there for the ids it works with.
  Runs that overlap may save each other's ids, which is why they are excluded.
* `RepeatsLosses`: `RepeatsAreLosses`. The bound by one more than the losses is not
  inductive. `CountInv` adds that nothing is made beyond the losses before the
  step is logged by the document or a run (`Once`); dying without saving, or losing
  the answer, is what takes a log away, and each is a loss.

`LoginProofs` proves, from `EmailOtpAssumption` and `SessionsAssumption` alone, for
any number of visits, requests, sessions and authenticators:

* `LoginIsOtp`: a login does to the e-mail keys what `EmailOtp` allows, by
  `StepsApart`; the same holds of the sessions (`LoginIsSessions`). So each half is
  proved by itself and both hold of `Login`.
* `CodesOnce` (`OneTimeUse`) and the e-mail half of `GuessesAreBounded`, from
  `CodesInv`. Unless a code is in `crossed`, one request at a time reads it
  (`Alone`), a code that was accepted is deleted (`Spent`, `Once`), and the wrong
  guesses entered for it are counted in the key, or about to be, or a request
  died with one (`Guesses`, `Fair`). The last is not inductive without the order
  in which code and count expire, which `outlives` records.
* `HourCounted` (`CounterExpires`): only the request that began the count may have
  left it without its time to live.
* `SecondFactorHolds` (`SecondFactor`), from `LockInv`: a session that was created
  locked and not passed has no tokens, is locked in Redis, and the only requests
  that can be at work on it check codes (`Shut`); one that is about to be created
  is nobody's yet (`Fresh`). Requests overlap freely here.
* `LogoutIsFinal` (`LogoutFinal`), from `CloseInv`: a session that was logged
  out is gone, and the only request left on it is the logout, which has no write
  of the session to come.
* the other half of `GuessesAreBounded`, and `VersionsOnlyGrow` (`VersionsGrow`):
  `CountInv` says that the copy of the only request at work on a session agrees
  with Redis as far as that await has come, and that no token is ahead of it.
* `ConfirmedStays` (`ConfirmedIsEnabled`), from `EnabledInv`: while no two updates
  overlapped and none was lost, an authenticator the user was told of is active
  in every array on its way to the database, in every array a request is going
  to write and, with none on its way, in the document.

`TenantsProofs` proves all that the run of `Tenants` checks, from
`TenantsAssumption` and `NoneAssumption` alone, for any sets of admins, roles,
sessions and requests and any bounds. The assumptions beside the bounds say that
the value for "none" is no document, session or name of anything, and that
requests and sessions have different names (`h.recast` holds both). The constraint
of the run is not needed: requests overlap, die and lose memberships without
limit.

* `TypeCorrect`, from `TypeInv` and `OwedOK` (what is to be written back is a session): what
  a request knows at each await is what its next statement uses (`Fit`): an admin, a role, a session, and the value about to
  be written to it, which is for the admin the request is about.
* `TenantsHaveJoined` (`ServedHasJoined`): `JoinInv` adds that every session of a
  tenant, served or not, and every session a switch is about to write, is of an
  admin the person joined. Memberships may go in between, so the invariant
  rests on the history of joining and not on the documents. `OwedJoined` says the
  same of what other requests will write back, which was a session when they
  read it (`OwedIs`); the history of joining only grows (`Lasting`).
* `DeletedAreOut` (`DeletedMeansOut`): `OutInv` adds that the key a request looked
  up, user id or e-mail address, is the one in use when it writes, but for a
  registration in between (`KeyFits`), and that what is under the address after
  the registration was made for it or was there before (`AfterLogin`). Nobody has
  a session to write back before the person is registered (`OwedRegistered`).
* `PermissionsFollow` (`PermissionsFollowRole`): `CodesInv` says that the two
  documents of one admin have different codes, so that an acceptance accepts
  what was asked for; `FollowInv` that the role and the permissions a switch read
  are still the membership's, unless a role changed meanwhile. It uses `JoinInv`.
  A value that is put back either is what is stored already, or its session is in
  `raced` from then on (`PutBackIs`): nothing needs to be known of what the value
  grants.
* `IndexIsComplete` (`IndexComplete`): `IndexInv` adds `Alone` (two requests have
  one session in hand only in a race), `SwitchActs` (a switch between its write
  and the indexes finds the session as it wrote it, and a listing takes out only
  what acts for others) and `Lists` (a listing that fills an index misses no
  session but those that a switch is about to enter). It uses `ExpireInv`.
  A session that is put back acts for whom it did, or is in `raced`
  (`IndexPutBack`).
* `SessionsDoExpire` (`SessionsExpire`): `ExpireInv` says that the session of a
  switch is there, with the time to live the switch read, but in a race.

`ServicesProofs` proves all that the run of `Services` checks, from
`ServicesAssumption` and `NoneAssumption` (the value for "none" is no document,
copy or env) alone, for any sets of services, domains and requests and any number
of faults; the constraint of the run is not needed. The histories `crossed`, `cut`,
`lapsed`, `linking` and `moved` are of single services and only grow, so each
theorem says what holds of every service to which that did not happen.

* `TypeCorrect`, from `TypeInv`: what a request knows at each await (`Fit`).
* `CopiesDoExpire` (`CopiesExpire`), from `HeldCopies`: a copy a request has read
  and will write back is still there, or its service is in `lapsed`.
* `DomainsStayLinked` (`LinkedDomain`), from `CrossInv` and `LinkInv`. `CrossInv` says
  that of two requests that work on one service only one changes it or deletes
  it, unless it is crossed; so what an update read of the domain is still so when
  it writes (`SiteFits`).
* `DocumentsHaveKeys` (`DocHasKeys`). `NewInv`: of a service that is not made or
  being made nobody has a document, a copy or a request but the one that makes
  it, whose keys are there (`Keyed`). `KeysInv` splits the property into the secret
  and the vault, which go at two awaits. Requests overlap freely here.
* `DeletedIsGone` (`GoneIsGone`): `GoneInv` says what is gone at each await of a
  deletion, `BackedInv` that who is about to store a copy has a document behind it
  or is crossed, `ClearInv` that of a deleted service a copy is there only while a
  deletion clears them.
* `NothingDangles` (`NoDangling`): `DangleInv` adds that what a creation or an update
  is about to link to stands (`MakerAt`), and that a deletion which found no
  service that depends on it leaves none (`LeftAt`): both hold over the awaits
  between check and write because the other order is recorded in `linking`.
* `CopiesDoAgree` (`CopiesAgree`): `AgreeInv` says that copies agree or one update is
  on its way to write them, and that what a request is about to write of the env
  is what the document says (`Right`). It uses `CrossInv` and `NewInv`.

`ServicesProofs` says nothing of pages, of which `deleteApp` deletes any.

Model-checked only: the liveness properties `ChargedIsRecorded`, `GrantTakesEffect`,
`EventsComplete`, `ExhaustionAlerted`, `ResultsSettle` and `EventuallyApproved`
(fairness and ENABLED are beyond the prover). `OneActivePlan` and
`OwnPage` are violated.

## 6. Not modelled

* Ledger analytics, the IP resolver, service tables and start-up code, DTOs,
  templates and generated protobuf code keep no protocol state or are I/O.
* Parts of modelled components, each named in PROJECT.json: regenerating an API
  secret, creating a role, edits of a user's name or a page's texts (single
  updates), sub-domains and QUEST services, rate limits and origins, the worker
  that sends mails, key derivation and encryption of wallets and vaults, token
  formats, BullMQ's connection set-up.
* Durations are ticks, amounts small numbers; back-off times and logging are left
  out. AuthZ grants and the expiration of a fee grant on the chain are not modelled
  apart from the allowance.
* A command lost by a crash between the plan document and the queue: nothing
  promises more than what a retry of the request does.
