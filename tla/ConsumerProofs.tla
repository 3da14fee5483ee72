--------------------------- MODULE ConsumerProofs ---------------------------
(***************************************************************************)
(* Theorems about the two consumers of queues: CreditCommit, the events of *)
(* charged calls, for any number of workers, events and plans, and         *)
(* SsiSettlement, the results of blockchain transactions, for any number   *)
(* of slots and messages and any batches.  They share no state.            *)
(***************************************************************************)
EXTENDS CreditCommit, SsiSettlement, TLAPS

-----------------------------------------------------------------------------
(* The worker of commit events: its types.                                 *)

\* What a step of Next is, action by action; every proof below follows it.
LEMMA NextCases ==
    ASSUME [Next]_vars
    PROVE  \/ \E w \in Workers : Handle(w)
           \/ \E w \in Workers : AwaitRejects(w)
           \/ \E w \in Workers : Crash(w)
           \/ \E w \in Workers, e \in Events : TakeJob(w, e)
           \/ \E e \in Events : LeaseExpires(e)
           \/ \E e \in Events : Stall(e)
           \/ \E e \in Events : Redeliver(e)
           \/ UNCHANGED vars
BY DEF Next, Environment, Quiescent

\* A debit keeps a plan's balances natural numbers.
LEMMA DebitedType ==
    ASSUME TypeOK, NEW e \in Events
    PROVE  /\ Commit[e].plan \in Plans
           /\ Debited(e) \in [Buckets -> Nat]
<1>1. /\ Commit[e].plan \in Plans
      /\ Commit[e].bucket \in Buckets
      /\ Commit[e].amount \in Nat
  BY CommitAssumption
<1>2. used[Commit[e].plan] \in [Buckets -> Nat]
  BY <1>1 DEF TypeOK
<1>3. used[Commit[e].plan][Commit[e].bucket] + Commit[e].amount \in Nat
  BY <1>1, <1>2
<1> QED BY <1>1, <1>2, <1>3 DEF Debited

\* The types of the outbox.
OutboxOK == /\ outbox \in [Events ->
                  {"ABSENT", "PENDING", "WRITING", "WRITTEN"}]
            /\ lease \in [Events -> Workers \cup {NoOne}]
            /\ leaseExpired \in [Events -> BOOLEAN]

\* Closing an entry, or leaving it as it is, keeps them.
LEMMA WrittenOK ==
    ASSUME OutboxOK, NEW e \in Events, NEW matches, MarkWritten(e, matches)
    PROVE  OutboxOK'
<1>1. CASE matches
  BY <1>1 DEF MarkWritten, OutboxOK
<1>2. CASE ~matches
  BY <1>2 DEF MarkWritten, OutboxOK, outboxVars
<1> QED BY <1>1, <1>2

LEMMA ReleasedOK ==
    ASSUME OutboxOK, NEW w \in Workers, handling[w] \in Events, Release(w)
    PROVE  OutboxOK'
<1>1. CASE lease[handling[w]] = w
  BY <1>1 DEF Release, OutboxOK
<1>2. CASE lease[handling[w]] # w
  BY <1>2 DEF Release, OutboxOK, outboxVars
<1> QED BY <1>1, <1>2

\* Every variable keeps its type, and a worker that is not idle has an event.
THEOREM TypeCorrect == Spec => []TypeOK
<1>1. Init => TypeOK
  BY CommitAssumption DEF Init, TypeOK, Labels, PlainAwaits, LeasedAwaits
<1>2. TypeOK /\ [Next]_vars => TypeOK'
  <2> SUFFICES ASSUME TypeOK, [Next]_vars PROVE TypeOK'
    OBVIOUS
  <2> USE DEF TypeOK, Labels, PlainAwaits, LeasedAwaits, planVars, outboxVars,
              jobVars, workerVars, Goto, Answer, OnError, At
  <2>1. ASSUME NEW w \in Workers, Handle(w) PROVE TypeOK'
    <3>1. CASE CheckLedger(w) BY <3>1 DEF CheckLedger
    <3>2. CASE MarkSeen(w)
      <4>1. handling[w] \in Events /\ OutboxOK
        BY <3>2 DEF MarkSeen, OutboxOK
      <4>2. OutboxOK'
        BY <3>2, <4>1, WrittenOK DEF MarkSeen
      <4> QED BY <3>2, <4>2 DEF MarkSeen, OutboxOK
    <3>3. CASE Apply(w)
      <4>1. handling[w] \in Events
        BY <3>3 DEF Apply
      <4>2. /\ Commit[handling[w]].plan \in Plans
            /\ Debited(handling[w]) \in [Buckets -> Nat]
        BY <4>1, DebitedType
      <4>3. used' \in [Plans -> [Buckets -> Nat]]
        BY <3>3, <4>2 DEF Apply
      <4>4. status' \in [Plans -> {"Active", "Inactive"}]
        BY <3>3, <4>2 DEF Apply
      <4> QED BY <3>3, <4>3, <4>4 DEF Apply
    <3>4. CASE ApplyDuplicate(w) BY <3>4 DEF ApplyDuplicate
    <3>5. CASE ApplyExceeds(w)   BY <3>5 DEF ApplyExceeds
    <3>6. CASE Notify(w)         BY <3>6 DEF Notify
    <3>7. CASE Claim(w)          BY <3>7 DEF Claim
    <3>8. CASE ClaimRefused(w)   BY <3>8 DEF ClaimRefused
    <3>9. CASE NoLease(w)        BY <3>9 DEF NoLease
    <3>10. CASE Recheck(w)       BY <3>10 DEF Recheck
    <3>11. CASE Create(w)
      <4>1. ledger' \in [Events -> Nat]
        BY <3>11 DEF Create
      <4> QED BY <3>11, <4>1 DEF Create
    <3>12. CASE Mark(w)
      <4>1. handling[w] \in Events /\ OutboxOK
        BY <3>12 DEF Mark, OutboxOK
      <4>2. OutboxOK'
        BY <3>12, <4>1, WrittenOK DEF Mark
      <4> QED BY <3>12, <4>2 DEF Mark, OutboxOK
    <3>13. CASE Release(w)
      <4>1. handling[w] \in Events /\ OutboxOK
        BY <3>13 DEF Release, OutboxOK
      <4>2. OutboxOK'
        BY <3>13, <4>1, ReleasedOK
      <4> QED BY <3>13, <4>2 DEF Release, OutboxOK
    <3>14. CASE Return(w)        BY <3>14 DEF Return, GoIdle
    <3>15. CASE Throw(w)
      <4>1. handling[w] \in Events
        BY <3>15 DEF Throw
      <4>2. /\ job' \in [Events -> {"waiting", "active",
                                     "completed", "failed"}]
            /\ owner' \in [Events -> Workers \cup {NoOne}]
        BY <3>15, <4>1 DEF Throw
      <4>3. attempts' \in [Events -> Nat]
        BY <3>15, <4>1 DEF Throw
      <4> QED BY <3>15, <4>2, <4>3 DEF Throw, GoIdle
    <3>16. CASE Refuse(w)        BY <3>16 DEF Refuse
    <3> QED BY <2>1, <3>1, <3>2, <3>3, <3>4, <3>5, <3>6, <3>7, <3>8, <3>9,
               <3>10, <3>11, <3>12, <3>13, <3>14, <3>15, <3>16 DEF Handle
  <2>2. ASSUME NEW w \in Workers, AwaitRejects(w) PROVE TypeOK'
    BY <2>2 DEF AwaitRejects
  <2>3. ASSUME NEW w \in Workers, Crash(w) PROVE TypeOK'
    BY <2>3 DEF Crash, GoIdle
  <2>4. ASSUME NEW w \in Workers, NEW e \in Events, TakeJob(w, e) PROVE TypeOK'
    BY <2>4 DEF TakeJob
  <2>5. ASSUME NEW e \in Events, LeaseExpires(e) PROVE TypeOK'
    BY <2>5 DEF LeaseExpires
  <2>6. ASSUME NEW e \in Events, Stall(e) PROVE TypeOK'
    BY <2>6 DEF Stall
  <2>7. ASSUME NEW e \in Events, Redeliver(e) PROVE TypeOK'
    BY <2>7 DEF Redeliver
  <2>8. CASE UNCHANGED vars
    BY <2>8 DEF vars
  <2> QED BY <2>1, <2>2, <2>3, <2>4, <2>5, <2>6, <2>7, <2>8, NextCases
<1> QED BY <1>1, <1>2, PTL DEF Spec
-----------------------------------------------------------------------------
(* The invariant that carries the rest.                                    *)

\* The awaits that are reached only after the event was charged, and those
\* that are reached only after its row was seen or written.
AfterCharge == {"notify", "claim", "noLease", "release"} \cup LeasedAwaits
AfterRow == {"markSeen", "mark", "return"}

ChargedBeforeWriting ==
    \A w \in Workers : pc[w] \in AfterCharge => outbox[handling[w]] # "ABSENT"

RowBeforeMarking ==
    \A w \in Workers : pc[w] \in AfterRow => ledger[handling[w]] > 0

LeaseIsOpen == \A e \in Events : lease[e] # NoOne => outbox[e] = "WRITING"

CommitInv == /\ TypeOK
             /\ CompletedIsRecorded
             /\ OutboxMatchesLedger
             /\ ChargedBeforeWriting
             /\ RowBeforeMarking
             /\ LeaseIsOpen

\* Each step of a worker and of its environment keeps CommitInv.
LEMMA CommitInvStep ==
    ASSUME CommitInv, [Next]_vars, TypeOK'
    PROVE  CommitInv'
<1> USE DEF CommitInv, TypeOK, CompletedIsRecorded, OutboxMatchesLedger,
            ChargedBeforeWriting, RowBeforeMarking, LeaseIsOpen,
            AfterCharge, AfterRow, Labels, PlainAwaits, LeasedAwaits,
            planVars, outboxVars, jobVars, workerVars,
            Goto, Answer, OnError, At
<1>1. ASSUME NEW w \in Workers, Handle(w) PROVE CommitInv'
  <2>1. CASE CheckLedger(w)    BY <2>1 DEF CheckLedger
  <2>2. CASE MarkSeen(w)       BY <2>2 DEF MarkSeen, MarkWritten
  <2>3. CASE Apply(w)          BY <2>3 DEF Apply
  <2>4. CASE ApplyDuplicate(w) BY <2>4 DEF ApplyDuplicate
  <2>5. CASE ApplyExceeds(w)   BY <2>5 DEF ApplyExceeds
  <2>6. CASE Notify(w)         BY <2>6 DEF Notify
  <2>7. CASE Claim(w)          BY <2>7, CommitAssumption DEF Claim
  <2>8. CASE ClaimRefused(w)   BY <2>8 DEF ClaimRefused
  <2>9. CASE NoLease(w)        BY <2>9 DEF NoLease
  <2>10. CASE Recheck(w)       BY <2>10 DEF Recheck
  <2>11. CASE Create(w)        BY <2>11 DEF Create
  <2>12. CASE Mark(w)          BY <2>12 DEF Mark, MarkWritten
  <2>13. CASE Release(w)
    <3>1. /\ handling[w] \in Events /\ OutboxOK
          /\ outbox[handling[w]] # "ABSENT"
      BY <2>13 DEF Release, OutboxOK
    <3>2. OutboxOK'
      BY <2>13, <3>1, ReleasedOK
    <3>3. /\ \A e \in Events :
                 \/ outbox'[e] = outbox[e] /\ lease'[e] = lease[e]
                 \/ /\ outbox'[e] = "PENDING" /\ lease'[e] = NoOne
                    /\ outbox[e] # "ABSENT"
          /\ ledger' = ledger /\ job' = job /\ handling' = handling
          /\ pc' = [pc EXCEPT ![w] = "failed"]
      BY <2>13, <3>1 DEF Release
    <3>4. TypeOK'
      BY <2>13, <3>2 DEF Release, OutboxOK
    <3>5. CompletedIsRecorded' /\ OutboxMatchesLedger' /\ LeaseIsOpen'
      BY <3>3
    <3>6. ChargedBeforeWriting' /\ RowBeforeMarking'
      BY <3>3
    <3> QED BY <3>4, <3>5, <3>6
  <2>14. CASE Return(w)        BY <2>14 DEF Return, GoIdle
  <2>15. CASE Throw(w)         BY <2>15 DEF Throw, GoIdle
  <2>16. CASE Refuse(w)        BY <2>16 DEF Refuse
  <2> QED BY <1>1, <2>1, <2>2, <2>3, <2>4, <2>5, <2>6, <2>7, <2>8, <2>9,
             <2>10, <2>11, <2>12, <2>13, <2>14, <2>15, <2>16 DEF Handle
<1>2. ASSUME NEW w \in Workers, AwaitRejects(w) PROVE CommitInv'
  BY <1>2 DEF AwaitRejects
<1>3. ASSUME NEW w \in Workers, Crash(w) PROVE CommitInv'
  BY <1>3 DEF Crash, GoIdle
<1>4. ASSUME NEW w \in Workers, NEW e \in Events, TakeJob(w, e)
      PROVE  CommitInv'
  BY <1>4 DEF TakeJob
<1>5. ASSUME NEW e \in Events, LeaseExpires(e) PROVE CommitInv'
  BY <1>5 DEF LeaseExpires
<1>6. ASSUME NEW e \in Events, Stall(e) PROVE CommitInv'
  BY <1>6 DEF Stall
<1>7. ASSUME NEW e \in Events, Redeliver(e) PROVE CommitInv'
  BY <1>7 DEF Redeliver
<1>8. CASE UNCHANGED vars
  BY <1>8 DEF vars
<1> QED BY <1>1, <1>2, <1>3, <1>4, <1>5, <1>6, <1>7, <1>8, NextCases

\* CommitInv holds in every reachable state.
THEOREM CommitInvariant == Spec => []CommitInv
<1>1. Init => CommitInv
  <2> SUFFICES ASSUME Init PROVE CommitInv
    OBVIOUS
  <2>1. TypeOK
    BY CommitAssumption DEF Init, TypeOK, Labels, PlainAwaits, LeasedAwaits
  <2> QED
    BY <2>1 DEF Init, CommitInv, CompletedIsRecorded, OutboxMatchesLedger,
       ChargedBeforeWriting, RowBeforeMarking, LeaseIsOpen, AfterCharge,
       AfterRow, LeasedAwaits
<1>2. CommitInv /\ [Next]_vars /\ TypeOK' => CommitInv'
  BY CommitInvStep
<1> QED BY <1>1, <1>2, TypeCorrect, PTL DEF Spec

\* No completed job lost its ledger row.
THEOREM CompletedRecorded == Spec => []CompletedIsRecorded
<1>1. CommitInv => CompletedIsRecorded
  BY DEF CommitInv
<1> QED BY <1>1, CommitInvariant, PTL

\* WRITTEN entries have their row, and rows belong to charged events.
THEOREM OutboxAgrees == Spec => []OutboxMatchesLedger
<1>1. CommitInv => OutboxMatchesLedger
  BY DEF CommitInv
<1> QED BY <1>1, CommitInvariant, PTL

-----------------------------------------------------------------------------
(* What a step does to an outbox entry and to the ledger.                  *)

\* Only Apply takes an entry from ABSENT, none goes back to it, a WRITTEN
\* entry stays so, and rows are never removed.
LEMMA OutboxStep ==
    ASSUME CommitInv, [Next]_vars
    PROVE  /\ \A e \in Events : outbox[e] = "WRITTEN" => outbox'[e] = "WRITTEN"
           /\ \A e \in Events : ledger[e] <= ledger'[e]
           /\ (\E w \in Workers : Apply(w)) \/
              /\ UNCHANGED planVars
              /\ \A e \in Events : outbox[e] = "ABSENT" <=> outbox'[e] = "ABSENT"
<1> USE DEF CommitInv, TypeOK, OutboxMatchesLedger, ChargedBeforeWriting,
            RowBeforeMarking, LeaseIsOpen, AfterCharge, AfterRow, LeasedAwaits,
            planVars, outboxVars, jobVars, workerVars, At
<1> DEFINE Goal ==
           /\ \A e \in Events : outbox[e] = "WRITTEN" => outbox'[e] = "WRITTEN"
           /\ \A e \in Events : ledger[e] <= ledger'[e]
           /\ (\E w \in Workers : Apply(w)) \/
              /\ UNCHANGED planVars
              /\ \A e \in Events : outbox[e] = "ABSENT" <=> outbox'[e] = "ABSENT"
<1>1. ASSUME NEW w \in Workers, Handle(w) PROVE Goal
  <2>1. CASE CheckLedger(w)    BY <2>1 DEF CheckLedger
  <2>2. CASE MarkSeen(w)       BY <2>2 DEF MarkSeen, MarkWritten
  <2>3. CASE Apply(w)
    <3>1. handling[w] \in Events
      BY <2>3 DEF Apply
    <3>2. \A e \in Events : outbox[e] = "WRITTEN" => outbox'[e] = "WRITTEN"
      BY <2>3, <3>1 DEF Apply
    <3>3. \A e \in Events : ledger[e] <= ledger'[e]
      BY <2>3 DEF Apply
    <3> QED BY <2>3, <3>2, <3>3
  <2>4. CASE ApplyDuplicate(w) BY <2>4 DEF ApplyDuplicate
  <2>5. CASE ApplyExceeds(w)   BY <2>5 DEF ApplyExceeds
  <2>6. CASE Notify(w)         BY <2>6 DEF Notify
  <2>7. CASE Claim(w)          BY <2>7 DEF Claim, Claimable
  <2>8. CASE ClaimRefused(w)   BY <2>8 DEF ClaimRefused
  <2>9. CASE NoLease(w)        BY <2>9 DEF NoLease
  <2>10. CASE Recheck(w)       BY <2>10 DEF Recheck
  <2>11. CASE Create(w)        BY <2>11 DEF Create
  <2>12. CASE Mark(w)          BY <2>12 DEF Mark, MarkWritten
  <2>13. CASE Release(w)       BY <2>13, CommitAssumption DEF Release
  <2>14. CASE Return(w)        BY <2>14 DEF Return, GoIdle
  <2>15. CASE Throw(w)         BY <2>15 DEF Throw, GoIdle
  <2>16. CASE Refuse(w)        BY <2>16 DEF Refuse
  <2> QED BY <1>1, <2>1, <2>2, <2>3, <2>4, <2>5, <2>6, <2>7, <2>8, <2>9,
             <2>10, <2>11, <2>12, <2>13, <2>14, <2>15, <2>16 DEF Handle
<1>2. ASSUME NEW w \in Workers, AwaitRejects(w) PROVE Goal
  BY <1>2 DEF AwaitRejects
<1>3. ASSUME NEW w \in Workers, Crash(w) PROVE Goal
  BY <1>3 DEF Crash
<1>4. ASSUME NEW w \in Workers, NEW e \in Events, TakeJob(w, e) PROVE Goal
  BY <1>4 DEF TakeJob
<1>5. ASSUME NEW e \in Events, LeaseExpires(e) PROVE Goal
  BY <1>5 DEF LeaseExpires
<1>6. ASSUME NEW e \in Events, Stall(e) PROVE Goal
  BY <1>6 DEF Stall
<1>7. ASSUME NEW e \in Events, Redeliver(e) PROVE Goal
  BY <1>7 DEF Redeliver
<1>8. CASE UNCHANGED vars
  BY <1>8 DEF vars
<1> QED BY <1>1, <1>2, <1>3, <1>4, <1>5, <1>6, <1>7, <1>8, NextCases

\* A WRITTEN entry is never reopened.
THEOREM WrittenFinal == Spec => WrittenIsFinal
<1>1. CommitInv /\ [Next]_vars =>
        [\A e \in Events :
            outbox[e] = "WRITTEN" => outbox'[e] = "WRITTEN"]_vars
  BY OutboxStep
<1> QED BY <1>1, CommitInvariant, PTL DEF Spec, WrittenIsFinal

\* A plan that has nothing left is Inactive: the step that takes the last of
\* it sees both balances, because one document update reads and writes them.
THEOREM ExhaustedInactive == Spec => []ExhaustedIsInactive
<1>1. Init => ExhaustedIsInactive
  <2> SUFFICES ASSUME Init, NEW p \in Plans PROVE ~Exhausted(p, used[p])
    BY DEF ExhaustedIsInactive
  <2>1. used[p]["api"] = 0
    BY DEF Init, Buckets
  <2>2. Total[p]["api"] # 0
    BY CommitAssumption
  <2> QED BY <2>1, <2>2 DEF Exhausted
<1>2. CommitInv /\ ExhaustedIsInactive /\ [Next]_vars => ExhaustedIsInactive'
  <2> SUFFICES ASSUME CommitInv, ExhaustedIsInactive, [Next]_vars
               PROVE  ExhaustedIsInactive'
    OBVIOUS
  <2>1. ASSUME NEW w \in Workers, Apply(w) PROVE ExhaustedIsInactive'
    <3>0. PICK e \in Events : e = handling[w]
      BY <2>1 DEF Apply, At, CommitInv, TypeOK
    <3>1. Commit[e].plan \in Plans
      BY CommitAssumption
    <3>2. /\ used' = [used EXCEPT ![Commit[e].plan] = Debited(e)]
          /\ status' = IF Exhausted(Commit[e].plan, Debited(e))
                       THEN [status EXCEPT ![Commit[e].plan] = "Inactive"]
                       ELSE status
      BY <2>1, <3>0 DEF Apply
    <3> QED BY <3>1, <3>2 DEF ExhaustedIsInactive, Exhausted, CommitInv, TypeOK
  <2>2. CASE UNCHANGED planVars
    BY <2>2 DEF planVars, ExhaustedIsInactive, Exhausted
  <2> QED BY <2>1, <2>2, OutboxStep
<1> QED BY <1>1, <1>2, CommitInvariant, PTL DEF Spec

-----------------------------------------------------------------------------
(* The consumer implements UsageAccount.                                   *)

\* A charge is a step of the abstract account.
LEMMA ApplyCharges ==
    ASSUME CommitInv, NEW w \in Workers, Apply(w)
    PROVE  \E e \in Events : Account!Charge(e)
<1>0. PICK e \in Events : e = handling[w]
  BY DEF Apply, At, CommitInv, TypeOK
<1>2. /\ e \notin {x \in Events : outbox[x] # "ABSENT"}
      /\ {x \in Events : outbox'[x] # "ABSENT"} =
            {x \in Events : outbox[x] # "ABSENT"} \cup {e}
  BY <1>0 DEF Apply, CommitInv, TypeOK
<1>3. {x \in Events : ledger'[x] > 0} = {x \in Events : ledger[x] > 0}
  BY DEF Apply
<1>4. Fits(e)
  BY <1>0 DEF Apply
<1>5. /\ used' = [used EXCEPT ![Commit[e].plan] = Debited(e)]
      /\ status' = IF Exhausted(Commit[e].plan, Debited(e))
                   THEN [status EXCEPT ![Commit[e].plan] = "Inactive"]
                   ELSE status
  BY <1>0 DEF Apply
<1>6. Account!Charge(e)
  BY <1>2, <1>3, <1>4, <1>5
     DEF Account!Charge, Account!Exhausted, Exhausted, Fits, Debited
<1> QED BY <1>6

\* Only Create adds to the ledger, one event at a time.
LEMMA LedgerStep ==
    ASSUME CommitInv, [Next]_vars
    PROVE  UNCHANGED ledger \/ \E w \in Workers : Create(w)
<1> USE DEF planVars, outboxVars, jobVars, workerVars
<1>1. ASSUME NEW w \in Workers, Handle(w)
      PROVE  UNCHANGED ledger \/ Create(w)
  BY <1>1 DEF Handle, Refuse, CheckLedger, MarkSeen, Apply, ApplyDuplicate,
     ApplyExceeds, Notify, Claim, ClaimRefused, NoLease, Recheck, Mark,
     Release, Return, Throw
<1>2. \/ \E w \in Workers : AwaitRejects(w) \/ Crash(w)
      \/ \E w \in Workers, e \in Events : TakeJob(w, e)
      \/ \E e \in Events : LeaseExpires(e) \/ Stall(e) \/ Redeliver(e)
      \/ UNCHANGED vars
      => UNCHANGED ledger
  BY DEF AwaitRejects, Crash, TakeJob, LeaseExpires, Stall, Redeliver, vars
<1> QED BY <1>1, <1>2, NextCases

\* A step that charges nothing records at most one event, a charged one.
LEMMA OtherStepRecords ==
    ASSUME CommitInv, [Next]_vars, ~ \E w \in Workers : Apply(w)
    PROVE  (\E e \in Events : Account!Record(e)) \/ UNCHANGED Account!vars
<1> DEFINE Charged == {x \in Events : outbox[x] # "ABSENT"}
           Recorded == {x \in Events : ledger[x] > 0}
<1>1. UNCHANGED <<used, status>> /\ Charged' = Charged
  BY OutboxStep DEF planVars
<1>2. CASE UNCHANGED ledger
  BY <1>1, <1>2 DEF Account!vars
<1>3. CASE \E w \in Workers : Create(w)
  <2> PICK w \in Workers : Create(w)
    BY <1>3
  <2>1. PICK e \in Events : e = handling[w] /\ e \in Charged
    BY DEF Create, At, CommitInv, TypeOK, ChargedBeforeWriting, AfterCharge,
           LeasedAwaits
  <2>2. Recorded' = Recorded \cup {e}
    BY <2>1 DEF Create, CommitInv, TypeOK
  <2> QED BY <1>1, <2>1, <2>2 DEF Account!Record
<1> QED BY <1>2, <1>3, LedgerStep

\* Every behaviour of the consumer, with its crashes, retries, lost locks and
\* lost answers, is a behaviour of the abstract account.
THEOREM ImplementsAccount == Spec => AccountSpec
<1>1. Init => Account!Init
  BY DEF Init, Account!Init, Buckets
<1>2. CommitInv /\ [Next]_vars => [Account!Next]_(Account!vars)
  <2> SUFFICES ASSUME CommitInv, [Next]_vars
               PROVE  Account!Next \/ UNCHANGED Account!vars
    OBVIOUS
  <2>1. CASE \E w \in Workers : Apply(w)
    BY <2>1, ApplyCharges DEF Account!Next
  <2>2. CASE ~ \E w \in Workers : Apply(w)
    BY <2>2, OtherStepRecords DEF Account!Next
  <2> QED BY <2>1, <2>2
<1> QED BY <1>1, <1>2, CommitInvariant, PTL DEF Spec, AccountSpec, Account!Spec

-----------------------------------------------------------------------------
(* The ledger row is unique as long as no lease runs out under a writer.   *)

\* While the row is missing, the worker about to write it holds a live lease,
\* and nobody writes a row that is there.
LeaseProtects ==
    \A w \in Workers :
        LET e == handling[w] IN
        /\ pc[w] \in {"recheck", "create"} /\ ledger[e] = 0
              => lease[e] = w /\ ~leaseExpired[e]
        /\ pc[w] = "create" => ledger[e] = 0

RowInv == LeaseProtects /\ LedgerRowUnique

\* No step breaks RowInv: a row is only created under a lease nobody else holds,
\* after a look that found none.
LEMMA RowInvStep ==
    ASSUME PromptWriters, CommitInv, RowInv, [Next]_vars
    PROVE  RowInv'
<1> USE DEF RowInv, LeaseProtects, LedgerRowUnique, CommitInv, TypeOK,
            RowBeforeMarking, LeaseIsOpen, AfterRow, Labels, PlainAwaits,
            LeasedAwaits, planVars, outboxVars, jobVars, workerVars,
            Goto, Answer, OnError, At
<1>1. ASSUME NEW w \in Workers, Handle(w) PROVE RowInv'
  <2>1. CASE CheckLedger(w)    BY <2>1 DEF CheckLedger
  <2>2. CASE MarkSeen(w)       BY <2>2 DEF MarkSeen, MarkWritten
  <2>3. CASE Apply(w)          BY <2>3 DEF Apply
  <2>4. CASE ApplyDuplicate(w) BY <2>4 DEF ApplyDuplicate
  <2>5. CASE ApplyExceeds(w)   BY <2>5 DEF ApplyExceeds
  <2>6. CASE Notify(w)         BY <2>6 DEF Notify
  <2>7. CASE Claim(w)
    BY <2>7, CommitAssumption DEF Claim, Claimable
  <2>8. CASE ClaimRefused(w)   BY <2>8 DEF ClaimRefused
  <2>9. CASE NoLease(w)        BY <2>9 DEF NoLease
  <2>10. CASE Recheck(w)       BY <2>10 DEF Recheck
  <2>11. CASE Create(w)        BY <2>11 DEF Create
  <2>12. CASE Mark(w)          BY <2>12 DEF Mark, MarkWritten
  <2>13. CASE Release(w)       BY <2>13 DEF Release
  <2>14. CASE Return(w)        BY <2>14 DEF Return, GoIdle
  <2>15. CASE Throw(w)         BY <2>15 DEF Throw, GoIdle
  <2>16. CASE Refuse(w)        BY <2>16 DEF Refuse
  <2> QED BY <1>1, <2>1, <2>2, <2>3, <2>4, <2>5, <2>6, <2>7, <2>8, <2>9,
             <2>10, <2>11, <2>12, <2>13, <2>14, <2>15, <2>16 DEF Handle
<1>2. ASSUME NEW w \in Workers, AwaitRejects(w) PROVE RowInv'
  BY <1>2 DEF AwaitRejects
<1>3. ASSUME NEW w \in Workers, Crash(w) PROVE RowInv'
  BY <1>3 DEF Crash, GoIdle
<1>4. ASSUME NEW w \in Workers, NEW e \in Events, TakeJob(w, e) PROVE RowInv'
  BY <1>4 DEF TakeJob
<1>5. ASSUME NEW e \in Events, LeaseExpires(e) PROVE RowInv'
  BY <1>5 DEF LeaseExpires
<1>6. ASSUME NEW e \in Events, Stall(e) PROVE RowInv'
  BY <1>6 DEF Stall
<1>7. ASSUME NEW e \in Events, Redeliver(e) PROVE RowInv'
  BY <1>7 DEF Redeliver
<1>8. CASE UNCHANGED vars
  BY <1>8 DEF vars
<1> QED BY <1>1, <1>2, <1>3, <1>4, <1>5, <1>6, <1>7, <1>8, NextCases

\* If every live writer finishes within its lease, no event ever has two rows,
\* whatever crashes, lost answers and redeliveries happen.
THEOREM RowUnique == ASSUME PromptWriters PROVE Spec => []LedgerRowUnique
<1>1. Init => RowInv
  BY DEF Init, RowInv, LeaseProtects, LedgerRowUnique
<1>2. CommitInv /\ RowInv /\ [Next]_vars => RowInv'
  BY RowInvStep, PromptWriters
<1>3. RowInv => LedgerRowUnique
  BY DEF RowInv
<1> QED BY <1>1, <1>2, <1>3, CommitInvariant, PTL DEF Spec

-----------------------------------------------------------------------------
(* The consumer of transaction results: its types.                         *)

\* The command of an item of a message is one of the possible commands.
LEMMA CommandType ==
    ASSUME NEW m \in Messages, NEW i \in 1..Len(Items(m))
    PROVE  Command(m, i) \in [reservation : Reservations, outcome : Outcomes]
<1>1. Items(m) \in Seq(Reservations)
  BY SettlementAssumption DEF Items
<1>2. Items(m)[i] \in Reservations
  BY <1>1
<1> QED BY <1>2 DEF Command, Outcomes

\* A handler that may settle its next item adds a possible command.
LEMMA SettleType ==
    ASSUME SettlementTypeOK, NEW s \in Slots, settling[s] # None,
           next[s] >= 1, next[s] <= Len(Items(settling[s]))
    PROVE  Command(settling[s], next[s]) \in
               [reservation : Reservations, outcome : Outcomes]
<1>1. settling[s] \in Messages /\ next[s] \in Nat
  BY DEF SettlementTypeOK
<1>2. Len(Items(settling[s])) \in Nat
  BY <1>1, SettlementAssumption DEF Items
<1>3. next[s] \in 1..Len(Items(settling[s]))
  BY <1>1, <1>2
<1> QED BY <1>1, <1>3, CommandType

\* A handler that works on a message has come to one of its items, and the
\* delivery of its slot, if it still counts, is of that message.
Settling ==
    \A s \in Slots : /\ settling[s] # None => next[s] >= 1
                     /\ unacked[s] # None => unacked[s] = settling[s]

SettlingOK == SettlementTypeOK /\ Settling

\* What a step is, action by action.
LEMMA SettlementCases ==
    ASSUME [SettlementNext]_settlementVars
    PROVE  \/ \E m \in Messages : Publish(m)
           \/ \E s \in Slots : Settle(s)
           \/ \E s \in Slots : Ack(s)
           \/ \E s \in Slots : Nack(s)
           \/ \E s \in Slots, m \in Messages : Deliver(s, m)
           \/ ChannelBreaks
           \/ ProcessDies
           \/ UNCHANGED settlementVars
BY DEF SettlementNext, Consume

\* SettlingOK is inductive.
LEMMA SettlingStep ==
    ASSUME SettlingOK, [SettlementNext]_settlementVars
    PROVE  SettlingOK'
<1> USE DEF SettlingOK, SettlementTypeOK, Settling
<1>1. ASSUME NEW m \in Messages, Publish(m) PROVE SettlingOK'
  BY <1>1 DEF Publish
<1>2. ASSUME NEW s \in Slots, Settle(s) PROVE SettlingOK'
  <2>1. Command(settling[s], next[s]) \in
            [reservation : Reservations, outcome : Outcomes]
    BY <1>2, SettleType DEF Settle
  <2> QED BY <1>2, <2>1 DEF Settle, broker
<1>3. ASSUME NEW s \in Slots, Ack(s) PROVE SettlingOK'
  BY <1>3 DEF Ack, Acknowledge, Finish
<1>4. ASSUME NEW s \in Slots, Nack(s) PROVE SettlingOK'
  <2>1. Command(settling[s], next[s]) \in
            [reservation : Reservations, outcome : Outcomes]
    BY <1>4, SettleType DEF Nack
  <2>2. commands' \subseteq [reservation : Reservations, outcome : Outcomes]
    BY <1>4, <2>1 DEF Nack
  <2>3. failures' \in 0..MaxFailures
    BY <1>4, SettlementAssumption DEF Nack
  <2> QED BY <1>4, <2>2, <2>3 DEF Nack, Finish
<1>5. ASSUME NEW s \in Slots, NEW m \in Messages, Deliver(s, m)
      PROVE  SettlingOK'
  BY <1>5 DEF Deliver
<1>6. CASE ChannelBreaks
  <2>1. failures' \in 0..MaxFailures
    BY <1>6, SettlementAssumption DEF ChannelBreaks
  <2> QED BY <1>6, <2>1 DEF ChannelBreaks, Requeue
<1>7. CASE ProcessDies
  <2>1. failures' \in 0..MaxFailures
    BY <1>7, SettlementAssumption DEF ProcessDies
  <2> QED BY <1>7, <2>1 DEF ProcessDies, Requeue
<1>8. CASE UNCHANGED settlementVars
  BY <1>8 DEF settlementVars, broker
<1> QED BY <1>1, <1>2, <1>3, <1>4, <1>5, <1>6, <1>7, <1>8, SettlementCases

\* Every variable keeps its type, and no delivery is answered by a handler
\* that works on another message.
LEMMA SettlingInvariant == SettlementSpec => []SettlingOK
<1>1. SettlementInit => SettlingOK
  BY SettlementAssumption
     DEF SettlementInit, SettlingOK, SettlementTypeOK, Settling
<1> QED BY <1>1, SettlingStep, PTL DEF SettlementSpec

\* Every variable of the consumer and the broker keeps its type.
THEOREM SettlementTypeCorrect == SettlementSpec => []SettlementTypeOK
<1>1. SettlingOK => SettlementTypeOK
  BY DEF SettlingOK
<1> QED BY <1>1, SettlingInvariant, PTL

-----------------------------------------------------------------------------
(* No result is lost.                                                      *)

\* Every published result waits, is out for delivery, or was acknowledged,
\* whatever fails, breaks or dies.
THEOREM NothingIsLost == SettlementSpec => []NothingLost
<1>1. SettlementInit => NothingLost
  BY DEF SettlementInit, NothingLost
<1>2. NothingLost /\ SettlingOK /\ [SettlementNext]_settlementVars
          => NothingLost'
  <2> SUFFICES ASSUME NothingLost, SettlingOK, [SettlementNext]_settlementVars
               PROVE  NothingLost'
    OBVIOUS
  <2> USE DEF NothingLost, SettlingOK, SettlementTypeOK, Settling
  <2>1. ASSUME NEW m \in Messages, Publish(m) PROVE NothingLost'
    BY <2>1 DEF Publish
  <2>2. ASSUME NEW s \in Slots, Settle(s) PROVE NothingLost'
    BY <2>2 DEF Settle, broker
  <2>3. ASSUME NEW s \in Slots, Ack(s) PROVE NothingLost'
    BY <2>3 DEF Ack, Acknowledge
  <2>4. ASSUME NEW s \in Slots, Nack(s) PROVE NothingLost'
    BY <2>4 DEF Nack
  <2>5. ASSUME NEW s \in Slots, NEW m \in Messages, Deliver(s, m)
        PROVE  NothingLost'
    <3>1. unacked[s] = None
      BY <2>5 DEF Deliver
    <3> QED BY <2>5, <3>1, SettlementAssumption DEF Deliver
  <2>6. CASE ChannelBreaks
    BY <2>6 DEF ChannelBreaks, Requeue
  <2>7. CASE ProcessDies
    BY <2>7 DEF ProcessDies, Requeue
  <2>8. CASE UNCHANGED settlementVars
    BY <2>8 DEF settlementVars, broker
  <2> QED BY <2>1, <2>2, <2>3, <2>4, <2>5, <2>6, <2>7, <2>8, SettlementCases
<1> QED BY <1>1, <1>2, SettlingInvariant, PTL DEF SettlementSpec

-----------------------------------------------------------------------------
(* Acknowledged results are settled.                                       *)

\* What a handler is past, is settled; commands are never withdrawn.
SettledSoFar ==
    \A s \in Slots :
        settling[s] # None /\ Terminal(settling[s])
            => \A i \in 1..(next[s] - 1) : Command(settling[s], i) \in commands

SettledInv == AckedIsSettled /\ SettledSoFar

\* The commands of a message are those of its items 1 to the last.
LEMMA CommandsOfItems ==
    ASSUME NEW m \in Messages, NEW C,
           \A i \in 1..Len(Items(m)) : Command(m, i) \in C
    PROVE  Commands(m) \subseteq C
<1>1. Items(m) \in Seq(Reservations)
  BY SettlementAssumption DEF Items
<1>2. DOMAIN Items(m) = 1..Len(Items(m))
  BY <1>1
<1> QED BY <1>2 DEF Commands

\* A step only adds commands.
LEMMA CommandsGrow ==
    ASSUME [SettlementNext]_settlementVars
    PROVE  commands \subseteq commands'
<1>1. ASSUME NEW m \in Messages, Publish(m) PROVE commands \subseteq commands'
  BY <1>1 DEF Publish
<1>2. ASSUME NEW s \in Slots, Settle(s) PROVE commands \subseteq commands'
  BY <1>2 DEF Settle
<1>3. ASSUME NEW s \in Slots, Ack(s) PROVE commands \subseteq commands'
  BY <1>3 DEF Ack
<1>4. ASSUME NEW s \in Slots, Nack(s) PROVE commands \subseteq commands'
  BY <1>4 DEF Nack
<1>5. ASSUME NEW s \in Slots, NEW m \in Messages, Deliver(s, m)
      PROVE  commands \subseteq commands'
  BY <1>5 DEF Deliver
<1>6. ChannelBreaks \/ ProcessDies \/ UNCHANGED settlementVars
          => commands \subseteq commands'
  BY DEF ChannelBreaks, ProcessDies, settlementVars
<1> QED BY <1>1, <1>2, <1>3, <1>4, <1>5, <1>6, SettlementCases

\* Handlers keep being past settled items only, in every step.
LEMMA SettledSoFarStep ==
    ASSUME SettlingOK, SettledSoFar, [SettlementNext]_settlementVars
    PROVE  SettledSoFar'
<1> SUFFICES ASSUME NEW s \in Slots,
                    settling'[s] # None, Terminal(settling'[s]),
                    NEW i \in 1..(next'[s] - 1)
             PROVE  Command(settling'[s], i) \in commands'
  BY DEF SettledSoFar
<1>0. next \in [Slots -> Nat]
  BY DEF SettlingOK, SettlementTypeOK
<1>1. CASE settling'[s] = settling[s] /\ next'[s] = next[s]
  BY <1>1, CommandsGrow DEF SettledSoFar
<1>2. CASE next'[s] \in {0, 1}
  BY <1>2
<1>3. CASE Settle(s)
  <2>1. settling'[s] = settling[s] /\ next'[s] = next[s] + 1
    BY <1>0, <1>3 DEF Settle
  <2>2. CASE i = next[s]
    BY <1>3, <2>1, <2>2 DEF Settle
  <2>3. CASE i # next[s]
    <3>1. i \in 1..(next[s] - 1)
      BY <1>0, <2>1, <2>3
    <3> QED BY <2>1, <3>1, CommandsGrow DEF SettledSoFar
  <2> QED BY <2>2, <2>3
<1>4. \/ settling'[s] = settling[s] /\ next'[s] = next[s]
      \/ next'[s] \in {0, 1}
      \/ Settle(s)
  <2> USE DEF SettlingOK, SettlementTypeOK
  <2>1. ASSUME NEW m \in Messages, Publish(m)
        PROVE  settling'[s] = settling[s] /\ next'[s] = next[s]
    BY <2>1 DEF Publish
  <2>2. ASSUME NEW t \in Slots, Settle(t), t # s
        PROVE  settling'[s] = settling[s] /\ next'[s] = next[s]
    BY <2>2 DEF Settle
  <2>3. ASSUME NEW t \in Slots, Ack(t) \/ Nack(t)
        PROVE  \/ settling'[s] = settling[s] /\ next'[s] = next[s]
               \/ next'[s] \in {0, 1}
    BY <2>3 DEF Ack, Nack, Finish
  <2>4. ASSUME NEW t \in Slots, NEW m \in Messages, Deliver(t, m)
        PROVE  \/ settling'[s] = settling[s] /\ next'[s] = next[s]
               \/ next'[s] \in {0, 1}
    BY <2>4 DEF Deliver
  <2>5. ChannelBreaks \/ UNCHANGED settlementVars
            => settling'[s] = settling[s] /\ next'[s] = next[s]
    BY DEF ChannelBreaks, settlementVars
  <2>6. ProcessDies => next'[s] \in {0, 1}
    BY DEF ProcessDies
  <2> QED BY <2>1, <2>2, <2>3, <2>4, <2>5, <2>6, SettlementCases
<1> QED BY <1>1, <1>2, <1>3, <1>4

\* A message that joins the acknowledged ones was handled to its end.
LEMMA AckedStep ==
    ASSUME SettlingOK, SettledInv, [SettlementNext]_settlementVars
    PROVE  AckedIsSettled'
<1> SUFFICES ASSUME NEW m \in acked', Terminal(m)
             PROVE  Commands(m) \subseteq commands'
  BY DEF AckedIsSettled
<1>1. CASE m \in acked
  BY <1>1, CommandsGrow DEF SettledInv, AckedIsSettled
<1>2. ASSUME NEW s \in Slots, Ack(s), m \notin acked
      PROVE  Commands(m) \subseteq commands'
  <2>1. m = unacked[s] /\ unacked[s] # None
    BY <1>2 DEF Ack, Acknowledge
  <2>2. settling[s] = m /\ m # None /\ m \in Messages /\ next[s] \in Nat
    BY <2>1 DEF SettlingOK, SettlementTypeOK, Settling
  <2>3. next[s] > Len(Items(m))
    BY <1>2, <2>2 DEF Ack
  <2>4. Len(Items(m)) \in Nat
    BY <2>2, SettlementAssumption DEF Items
  <2>5. 1..Len(Items(m)) \subseteq 1..(next[s] - 1)
    BY <2>2, <2>3, <2>4
  <2>6. \A i \in 1..Len(Items(m)) : Command(m, i) \in commands
    BY <2>2, <2>5 DEF SettledInv, SettledSoFar
  <2>7. Commands(m) \subseteq commands
    BY <2>2, <2>6, CommandsOfItems
  <2> QED BY <2>7, CommandsGrow
<1>3. m \in acked \/ \E s \in Slots : Ack(s)
  <2>1. ASSUME NEW s \in Slots, Settle(s) PROVE acked' = acked
    BY <2>1 DEF Settle, broker
  <2>2. ASSUME NEW s \in Slots, Nack(s) PROVE acked' = acked
    BY <2>2 DEF Nack
  <2>3. ASSUME NEW n \in Messages, Publish(n) PROVE acked' = acked
    BY <2>3 DEF Publish
  <2>4. ASSUME NEW s \in Slots, NEW n \in Messages, Deliver(s, n)
        PROVE  acked' = acked
    BY <2>4 DEF Deliver
  <2>5. ChannelBreaks \/ ProcessDies \/ UNCHANGED settlementVars
            => acked' = acked
    BY DEF ChannelBreaks, ProcessDies, Requeue, settlementVars, broker
  <2> QED BY <2>1, <2>2, <2>3, <2>4, <2>5, SettlementCases
<1> QED BY <1>1, <1>2, <1>3

\* An acknowledged result has a command for every reservation in it, whatever
\* items failed, channels broke or processes died before.
THEOREM AckedSettled == SettlementSpec => []AckedIsSettled
<1>1. SettlementInit => SettledInv
  BY DEF SettlementInit, SettledInv, AckedIsSettled, SettledSoFar
<1>2. SettlingOK /\ SettledInv /\ [SettlementNext]_settlementVars
          => SettledInv'
  BY SettledSoFarStep, AckedStep DEF SettledInv
<1>3. SettledInv => AckedIsSettled
  BY DEF SettledInv
<1> QED BY <1>1, <1>2, <1>3, SettlingInvariant, PTL DEF SettlementSpec

-----------------------------------------------------------------------------
(* Reservations are settled as reported.                                   *)

\* Only published messages wait or are handled.
Published ==
    /\ ready \subseteq published
    /\ \A s \in Slots : /\ settling[s] # None => settling[s] \in published
                        /\ unacked[s] # None => unacked[s] \in published

ReportInv == Published /\ SettledAsReported

\* The command of an item settles it as its message reported.
Reported(cmd, m) ==
    /\ \E i \in DOMAIN Result[m].items : Result[m].items[i] = cmd.reservation
    /\ Result[m].status = IF cmd.outcome = "commit" THEN "SUCCEEDED"
                                                    ELSE "FAILED"

\* A command for an item of a published final result is as reported.
LEMMA CommandReported ==
    ASSUME NEW m \in Messages, Terminal(m), NEW i \in 1..Len(Items(m))
    PROVE  Reported(Command(m, i), m)
<1>1. Items(m) \in Seq(Reservations)
  BY SettlementAssumption DEF Items
<1>2. i \in DOMAIN Items(m)
  BY <1>1
<1> QED BY <1>2 DEF Reported, Command, Terminal, Items

\* A handler settles its next item as reported.
LEMMA SettleReported ==
    ASSUME SettlingOK, Published, NEW s \in Slots,
           settling[s] # None, Terminal(settling[s]),
           next[s] <= Len(Items(settling[s]))
    PROVE  /\ settling[s] \in published
           /\ Reported(Command(settling[s], next[s]), settling[s])
<1>1. settling[s] \in Messages /\ next[s] \in Nat /\ next[s] >= 1
  BY DEF SettlingOK, SettlementTypeOK, Settling
<1>2. Len(Items(settling[s])) \in Nat
  BY <1>1, SettlementAssumption DEF Items
<1>3. next[s] \in 1..Len(Items(settling[s]))
  BY <1>1, <1>2
<1> QED BY <1>1, <1>3, CommandReported DEF Published

\* Only published results are handled, so every step settles as reported.
LEMMA ReportInvStep ==
    ASSUME SettlingOK, ReportInv, [SettlementNext]_settlementVars
    PROVE  ReportInv'
<1>0. \A cmd \in commands : \E m \in published : Reported(cmd, m)
  BY DEF ReportInv, SettledAsReported, Reported
<1>a. ASSUME published \subseteq published',
             \A cmd \in commands' \ commands :
                 \E m \in published' : Reported(cmd, m)
      PROVE  SettledAsReported'
  BY <1>0, <1>a DEF SettledAsReported, Reported
<1> USE DEF ReportInv, Published, SettlingOK, SettlementTypeOK
<1>1. ASSUME NEW m \in Messages, Publish(m) PROVE ReportInv'
  BY <1>1, <1>a DEF Publish
<1>2. ASSUME NEW s \in Slots, Settle(s) PROVE ReportInv'
  <2>1. \A cmd \in commands' \ commands :
            \E m \in published' : Reported(cmd, m)
    BY <1>2, SettleReported DEF Settle, broker
  <2> QED BY <1>2, <1>a, <2>1 DEF Settle, broker
<1>3. ASSUME NEW s \in Slots, Ack(s) PROVE ReportInv'
  BY <1>3, <1>a DEF Ack, Acknowledge, Finish
<1>4. ASSUME NEW s \in Slots, Nack(s) PROVE ReportInv'
  <2>1. \A cmd \in commands' \ commands :
            \E m \in published' : Reported(cmd, m)
    BY <1>4, SettleReported DEF Nack
  <2>2. SettledAsReported'
    BY <1>4, <1>a, <2>1 DEF Nack
  <2> QED BY <1>4, <2>2 DEF Nack, Finish
<1>5. ASSUME NEW s \in Slots, NEW m \in Messages, Deliver(s, m)
      PROVE  ReportInv'
  BY <1>5, <1>a DEF Deliver
<1>6. CASE ChannelBreaks
  BY <1>6, <1>a DEF ChannelBreaks, Requeue
<1>7. CASE ProcessDies
  BY <1>7, <1>a DEF ProcessDies, Requeue
<1>8. CASE UNCHANGED settlementVars
  BY <1>8, <1>a DEF settlementVars, broker
<1> QED BY <1>1, <1>2, <1>3, <1>4, <1>5, <1>6, <1>7, <1>8, SettlementCases

\* A reservation is committed only after a published success and rolled back
\* only after a published failure.
THEOREM SettledReported == SettlementSpec => []SettledAsReported
<1>1. SettlementInit => ReportInv
  BY DEF SettlementInit, ReportInv, Published, SettledAsReported
<1>2. SettlingOK /\ ReportInv /\ [SettlementNext]_settlementVars => ReportInv'
  BY ReportInvStep
<1>3. ReportInv => SettledAsReported
  BY DEF ReportInv
<1> QED BY <1>1, <1>2, <1>3, SettlingInvariant, PTL DEF SettlementSpec
=============================================================================
