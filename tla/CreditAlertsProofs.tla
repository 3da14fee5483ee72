------------------------- MODULE CreditAlertsProofs -------------------------
(***************************************************************************)
(* Theorems about CreditAlerts for any number of plans, workers and        *)
(* replicas, any thresholds, and any number of failures and days.          *)
(***************************************************************************)
EXTENDS CreditAlerts, FiniteSetTheorems, TLAPS

-----------------------------------------------------------------------------
(* The thresholds that are claimed.                                        *)

\* A nonempty set of natural numbers has a smallest element: of the segments
\* below its elements, one is minimal under inclusion.
LEMMA Smallest ==
    ASSUME NEW T, T \subseteq Nat, T # {}
    PROVE  \E x \in T : \A y \in T : x <= y
<1> DEFINE Segments == {0..x : x \in T}
<1>1. Segments # {}
  OBVIOUS
<1>2. Segments \subseteq FiniteSubsetsOf(Nat)
  <2>1. ASSUME NEW x \in T PROVE 0..x \in FiniteSubsetsOf(Nat)
    BY FS_Interval DEF FiniteSubsetsOf
  <2> QED BY <2>1
<1>3. PICK S \in Segments :
          \A U \in Segments : <<U, S>> \notin StrictSubsetOrdering(Nat)
  <2> HIDE DEF Segments
  <2> QED BY <1>1, <1>2, FS_StrictSubsetOrderingWellFounded, WFMin
<1>4. PICK x \in T : S = 0..x
  OBVIOUS
<1>5. ASSUME NEW y \in T, y < x PROVE FALSE
  <2>1. 0..y \subseteq 0..x /\ 0..y # 0..x
    BY <1>5
  <2>2. 0..y \in Segments /\ 0..y \subseteq Nat /\ 0..x \subseteq Nat
    OBVIOUS
  <2>3. <<0..y, 0..x>> \in StrictSubsetOrdering(Nat)
    BY <2>1, <2>2 DEF StrictSubsetOrdering
  <2> QED BY <1>3, <1>4, <2>2, <2>3
<1> QED BY <1>5

\* A nonempty set of percentages has a largest element.
LEMMA Largest ==
    ASSUME NEW T, T \subseteq 1..100, T # {}
    PROVE  \E x \in T : \A y \in T : x >= y
<1> DEFINE Rest == {100 - x : x \in T}
<1>1. Rest \subseteq Nat /\ Rest # {}
  <2>1. \A x \in T : 100 - x \in Nat
    OBVIOUS
  <2> QED BY <2>1
<1>2. PICK m \in Rest : \A y \in Rest : m <= y
  <2> HIDE DEF Rest
  <2> QED BY <1>1, Smallest
<1>3. PICK x \in T : m = 100 - x
  OBVIOUS
<1>4. ASSUME NEW y \in T PROVE x >= y
  <2>1. m <= 100 - y
    BY <1>2
  <2> QED BY <1>3, <2>1
<1> QED BY <1>4

\* The threshold a worker claims, and the one a scan claims.
Claimed(w) == Max(Reached(seen[w]))
ScanClaimed(r) == Min(Within(seen[r]))

\* Each is one of the thresholds the plan has come to.
LEMMA ClaimedReached ==
    ASSUME NEW w, Reached(seen[w]) # {}
    PROVE  /\ Claimed(w) \in Reached(seen[w])
           /\ Claimed(w) \in UsageThresholds
           /\ Claimed(w) \in 1..100
           /\ Claimed(w) # None
<1>1. Reached(seen[w]) \subseteq UsageThresholds
  BY DEF Reached
<1>2. \E x \in Reached(seen[w]) : \A y \in Reached(seen[w]) : x >= y
  BY <1>1, Largest, AlertsAssumption
<1>3. Claimed(w) \in Reached(seen[w])
  BY <1>2 DEF Claimed, Max
<1>4. Claimed(w) \in UsageThresholds
  BY <1>1, <1>3
<1>5. \A x \in 1..100 : x # None
  BY AlertsAssumption
<1>6. Claimed(w) \in 1..100
  BY <1>4, AlertsAssumption
<1> QED BY <1>3, <1>4, <1>5, <1>6

\* So is the threshold a scan claims.
LEMMA ScanClaimedWithin ==
    ASSUME NEW r, Within(seen[r]) # {}
    PROVE  /\ ScanClaimed(r) \in Within(seen[r])
           /\ ScanClaimed(r) \in ExpiryThresholds
           /\ ScanClaimed(r) \in Nat
           /\ ScanClaimed(r) # None
<1>1. Within(seen[r]) \subseteq ExpiryThresholds
  BY DEF Within
<1>2. \E x \in Within(seen[r]) : \A y \in Within(seen[r]) : x <= y
  BY <1>1, Smallest, AlertsAssumption
<1>3. ScanClaimed(r) \in Within(seen[r])
  BY <1>2 DEF ScanClaimed, Min
<1>4. ScanClaimed(r) \in ExpiryThresholds
  BY <1>1, <1>3
<1>5. \A x \in Nat : x # None
  BY AlertsAssumption
<1>6. ScanClaimed(r) \in Nat
  BY <1>4, AlertsAssumption
<1> QED BY <1>3, <1>4, <1>5, <1>6

-----------------------------------------------------------------------------
(* Type correctness.                                                       *)

\* A worker past its commit has a threshold to claim, and a replica in a scan
\* works from a day on which there was one; who mails has a plan.
Purpose(x) ==
    /\ x \in Workers /\ pc[x] # "idle" =>
          plan[x] \in Balances /\ Reached(seen[x]) # {}
    /\ x \in Replicas /\ pc[x] # "idle" => Within(seen[x]) # {}
    /\ x \in Replicas /\ pc[x] = "mail" => plan[x] \in Plans

TypeInv == TypeOK /\ \A x \in Processes : Purpose(x)

\* What one process does to its locals leaves those of the others alone.
Others(x) == \A y \in Processes \ {x} : /\ pc'[y] = pc[y]
                                        /\ plan'[y] = plan[y]
                                        /\ seen'[y] = seen[y]

\* When one process moves and keeps a purpose, all do.
LEMMA OthersPurpose ==
    ASSUME TypeInv, NEW x \in Processes, Others(x), Purpose(x)'
    PROVE  \A y \in Processes : Purpose(y)'
<1>1. ASSUME NEW y \in Processes \ {x} PROVE Purpose(y)'
  BY <1>1 DEF TypeInv, Purpose, Others, Reached, Within
<1> QED BY <1>1

\* A process may stop at any time.
LEMMA StopPurpose ==
    ASSUME TypeInv, NEW x \in Processes, Stop(x)
    PROVE  /\ pc' \in [Processes -> {"idle", "claim", "mail"}]
           /\ plan' \in [Processes -> Plans \cup Balances \cup {None}]
           /\ seen' \in [Processes -> Nat \cup {None}]
           /\ todo' \in [Processes -> SUBSET Plans]
           /\ Others(x)
           /\ \A y \in Processes : Purpose(y)'
<1>1. Others(x)
  BY DEF TypeInv, TypeOK, Stop, Others
<1>2. Purpose(x)'
  BY DEF TypeInv, TypeOK, Stop, Purpose
<1> QED BY <1>1, <1>2, OthersPurpose DEF TypeInv, TypeOK, Stop

\* One more mail of an alert is a number of mails.
LEMMA OneMore ==
    ASSUME NEW S, NEW f \in [S -> Nat], NEW a
    PROVE  [f EXCEPT ![a] = @ + 1] \in [S -> Nat]
<1> DEFINE g == [f EXCEPT ![a] = @ + 1]
<1>1. g = [x \in S |-> IF x = a THEN f[a] + 1 ELSE f[x]]
  OBVIOUS
<1>2. \A x \in S : (IF x = a THEN f[a] + 1 ELSE f[x]) \in Nat
  OBVIOUS
<1> QED BY <1>1, <1>2

\* Type correctness of a commit.
LEMMA CommitTypes ==
    ASSUME TypeInv, NEW w \in Workers, NEW p \in Balances, Commit(w, p)
    PROVE  TypeInv'
<1> USE DEF Processes
<1>1. /\ TypeOK
      /\ used[p] + 1 \in 0..Total
      /\ used[p] + 1 \in Nat
  BY AlertsAssumption DEF TypeInv, TypeOK, Commit
<1>2. used' = [used EXCEPT ![p] = used[p] + 1]
  BY DEF Commit
<1>3. TypeOK'
  BY <1>1, <1>2 DEF Commit, TypeOK, mailVars
<1>4. Others(w)
  BY <1>1 DEF Commit, TypeOK, Others
<1>5. Purpose(w)'
  <2>1. CASE Reached(used[p] + 1) # {}
    BY <1>1, <2>1, AlertsAssumption DEF Commit, TypeOK, Purpose, Reached
  <2>2. CASE Reached(used[p] + 1) = {}
    BY <2>2, AlertsAssumption DEF Commit, Purpose, TypeInv, Reached
  <2> QED BY <2>1, <2>2
<1> QED BY <1>3, <1>4, <1>5, OthersPurpose DEF TypeInv

\* Type correctness of the claim of a worker.
LEMMA ClaimUsageTypes ==
    ASSUME TypeInv, NEW w \in Workers, ClaimUsage(w)
    PROVE  TypeInv'
<1> USE DEF Processes
<1>1. /\ TypeOK /\ Purpose(w) /\ pc[w] = "claim"
      /\ plan[w] \in Balances /\ Reached(seen[w]) # {}
      /\ Claimed(w) \in UsageThresholds
  BY ClaimedReached DEF TypeInv, ClaimUsage, At, Purpose
<1>2. CASE /\ lastUsage' = [lastUsage EXCEPT ![plan[w]] = Claimed(w)]
           /\ Goto(w, "mail")
  <2>1. Others(w)
    BY <1>1, <1>2 DEF Goto, Others, TypeOK
  <2>2. Purpose(w)'
    BY <1>1, <1>2, AlertsAssumption DEF Goto, Purpose, TypeOK, Reached
  <2>3. TypeOK'
    BY <1>1, <1>2 DEF ClaimUsage, Goto, TypeOK, mailVars
  <2> QED BY <2>1, <2>2, <2>3, OthersPurpose DEF TypeInv
<1>3. CASE UNCHANGED lastUsage /\ Stop(w)
  BY <1>1, <1>3, StopPurpose DEF ClaimUsage, TypeInv, TypeOK, mailVars
<1> QED BY <1>2, <1>3 DEF ClaimUsage, Claimed

\* Type correctness of the mail of a worker.
LEMMA MailUsageTypes ==
    ASSUME TypeInv, NEW w \in Workers, MailUsage(w)
    PROVE  TypeInv'
<1> USE DEF Processes
<1>1. TypeOK
  BY DEF TypeInv
<1>2. usageMails' \in [UsageAlerts -> Nat]
  BY <1>1, OneMore DEF MailUsage, TypeOK
<1> QED BY <1>1, <1>2, StopPurpose DEF MailUsage, TypeInv, TypeOK, docVars

\* Type correctness of the steps of a scan.
LEMMA ScanTypes ==
    ASSUME TypeInv, NEW r \in Replicas, Scan(r) \/ StartScan(r)
    PROVE  TypeInv'
<1> USE DEF Processes
<1>1. TypeOK /\ Purpose(r) /\ r \notin Workers
  BY AlertsAssumption DEF TypeInv
<1>2. CASE StartScan(r)
  <2>1. Others(r)
    BY <1>1, <1>2 DEF StartScan, Others, TypeOK
  <2>2. Purpose(r)'
    BY <1>1, <1>2 DEF StartScan, Purpose, TypeOK, Within
  <2>3. TypeOK'
    BY <1>1, <1>2, AlertsAssumption DEF StartScan, TypeOK, docVars, mailVars
  <2> QED BY <2>1, <2>2, <2>3, OthersPurpose DEF TypeInv
<1>3. ASSUME NEW p \in Plans, ClaimExpiry(r, p) PROVE TypeInv'
  <2>1. ScanClaimed(r) \in ExpiryThresholds
    BY <1>1, <1>3, ScanClaimedWithin DEF ClaimExpiry, At, Purpose
  <2>2. \/ /\ lastExpiry' = [lastExpiry EXCEPT ![p] = ScanClaimed(r)]
           /\ pc' = [pc EXCEPT ![r] = "mail"]
           /\ plan' = [plan EXCEPT ![r] = p]
           /\ todo' = todo
        \/ /\ todo' = [todo EXCEPT ![r] = todo[r] \ {p}]
           /\ UNCHANGED <<lastExpiry, pc, plan>>
    BY <1>3 DEF ClaimExpiry, ScanClaimed
  <2>3. /\ UNCHANGED <<seen, used, lastUsage, mailVars, day, failures>>
        /\ pc[r] = "claim"
    BY <1>3 DEF ClaimExpiry, At
  <2>4. Others(r)
    BY <1>1, <2>2, <2>3 DEF Others, TypeOK
  <2>5. Purpose(r)'
    BY <1>1, <2>2, <2>3 DEF Purpose, TypeOK, Within
  <2>6. TypeOK'
    BY <1>1, <2>1, <2>2, <2>3 DEF TypeOK, mailVars
  <2> QED BY <2>4, <2>5, <2>6, OthersPurpose DEF TypeInv
<1>4. CASE MailExpiry(r)
  <2>1. expiryMails' \in [ExpiryAlerts -> Nat]
    BY <1>1, <1>4, OneMore DEF MailExpiry, TypeOK
  <2>2. Others(r)
    BY <1>1, <1>4 DEF MailExpiry, NextPlan, Others, TypeOK
  <2>3. Purpose(r)'
    BY <1>1, <1>4 DEF MailExpiry, At, NextPlan, Purpose, TypeOK, Within
  <2>4. TypeOK'
    BY <1>1, <1>4, <2>1 DEF MailExpiry, NextPlan, TypeOK, docVars
  <2> QED BY <2>2, <2>3, <2>4, OthersPurpose DEF TypeInv
<1>5. CASE EndScan(r)
  BY <1>1, <1>5, StopPurpose DEF EndScan, TypeInv, TypeOK, docVars, mailVars
<1> QED BY <1>2, <1>3, <1>4, <1>5 DEF Scan

\* Type correctness of a failure.
LEMMA FailTypes ==
    ASSUME TypeInv, NEW x \in Processes, Fail(x)
    PROVE  TypeInv'
<1>1. failures' \in 0..MaxFailures
  BY AlertsAssumption DEF TypeInv, TypeOK, Fail
<1> QED BY <1>1, StopPurpose DEF Fail, TypeInv, TypeOK, docVars, mailVars

\* Type correctness of an alert that is not mailed.
LEMMA UnsentTypes ==
    ASSUME TypeInv, NEW x \in Processes, Unsent(x)
    PROVE  TypeInv'
<1>1. TypeOK /\ failures' \in 0..MaxFailures
  BY AlertsAssumption DEF TypeInv, TypeOK, Unsent
<1>2. CASE x \in Workers
  BY <1>1, <1>2, StopPurpose
  DEF Unsent, TypeInv, TypeOK, docVars, mailVars
<1>3. CASE x \notin Workers
  <2>1. NextPlan(x) /\ Purpose(x) /\ pc[x] = "mail"
    BY <1>3 DEF Unsent, At, TypeInv
  <2>2. Others(x)
    BY <1>1, <2>1 DEF NextPlan, Others, TypeOK
  <2>3. Purpose(x)'
    BY <1>1, <1>3, <2>1 DEF NextPlan, Purpose, TypeOK, Within
  <2>4. TypeOK'
    BY <1>1, <2>1 DEF Unsent, NextPlan, TypeOK, docVars, mailVars
  <2> QED BY <2>2, <2>3, <2>4, OthersPurpose DEF TypeInv
<1> QED BY <1>2, <1>3

\* Type correctness of midnight.
LEMMA NextDayTypes ==
    ASSUME TypeInv, NextDay \/ UNCHANGED vars
    PROVE  TypeInv'
<1>1. day' \in 0..MaxDay
  BY AlertsAssumption DEF TypeInv, TypeOK, NextDay, vars
<1>2. UNCHANGED <<docVars, mailVars, failures, local>>
  BY DEF NextDay, vars
<1>3. TypeOK'
  BY <1>1, <1>2 DEF TypeInv, TypeOK, docVars, mailVars, local
<1>4. \A x \in Processes : Purpose(x)'
  BY <1>2 DEF TypeInv, Purpose, local, Reached, Within
<1> QED BY <1>3, <1>4 DEF TypeInv

\* TypeInv is inductive.
LEMMA TypeInvariant == Spec => []TypeInv
<1>1. Init => TypeInv
  BY AlertsAssumption DEF Init, TypeInv, TypeOK, Purpose, UsageAlerts, ExpiryAlerts
<1>2. TypeInv /\ [Next]_vars => TypeInv'
  BY CommitTypes, ClaimUsageTypes, MailUsageTypes, ScanTypes, FailTypes,
     UnsentTypes, NextDayTypes
  DEF Next, Alert, NoRecipient, QueueFails
<1> QED BY <1>1, <1>2, PTL DEF Spec

\* Every variable keeps its type: above all, only thresholds are claimed.
THEOREM TypeCorrect == Spec => []TypeOK
<1>1. TypeInv => TypeOK
  BY DEF TypeInv
<1> QED BY <1>1, TypeInvariant, PTL

-----------------------------------------------------------------------------
(* A usage threshold is mailed once.                                       *)

\* Worker w is about to mail threshold t of balance p.
Mailing(w, p, t) == pc[w] = "mail" /\ plan[w] = p /\ Claimed(w) = t

\* The claim of a balance is at least t.
ClaimedUpTo(p, t) == lastUsage[p] # None /\ t <= lastUsage[p]

\* A threshold that was mailed, or is about to be, was claimed; it was mailed
\* once, or one worker is about to mail it, but not both.
UsageInv ==
    \A p \in Balances, t \in UsageThresholds :
        /\ usageMails[<<p, t>>] > 0 => ClaimedUpTo(p, t)
        /\ usageMails[<<p, t>>] <= 1
        /\ \A w \in Workers : Mailing(w, p, t) =>
              /\ ClaimedUpTo(p, t)
              /\ usageMails[<<p, t>>] = 0
              /\ \A v \in Workers : Mailing(v, p, t) => v = w

\* A step that queues no mail, claims nothing lower and starts no mailing.
LEMMA UsageFrame ==
    ASSUME UsageInv, usageMails' = usageMails, lastUsage' = lastUsage,
           \A w \in Workers : \/ pc'[w] # "mail"
                              \/ /\ pc'[w] = pc[w]
                                 /\ plan'[w] = plan[w]
                                 /\ seen'[w] = seen[w]
    PROVE  UsageInv'
<1>1. ASSUME NEW w \in Workers, NEW p \in Balances, NEW t \in UsageThresholds,
             Mailing(w, p, t)'
      PROVE  Mailing(w, p, t)
  BY <1>1 DEF Mailing, Claimed, Reached
<1>2. \A p, t : ClaimedUpTo(p, t)' <=> ClaimedUpTo(p, t)
  BY DEF ClaimedUpTo
<1> QED BY <1>1, <1>2 DEF UsageInv

\* The claim lets a worker mail a threshold above all that were claimed.
LEMMA ClaimUsageOnce ==
    ASSUME UsageInv, TypeInv, NEW w \in Workers, ClaimUsage(w)
    PROVE  UsageInv'
<1> USE DEF Processes
<1>1. /\ TypeOK /\ pc[w] = "claim" /\ plan[w] \in Balances
      /\ Reached(seen[w]) # {}
  BY DEF TypeInv, ClaimUsage, At, Purpose
<1>q. PICK q \in Balances : q = plan[w]
  BY <1>1
<1>2. PICK c \in UsageThresholds : c = Claimed(w) /\ c \in Int /\ c # None
  BY <1>1, ClaimedReached
<1>3. usageMails' = usageMails
  BY DEF ClaimUsage, mailVars
<1>4. CASE UNCHANGED lastUsage /\ Stop(w)
  <2>1. \A v \in Workers : v = w \/ /\ pc'[v] = pc[v]
                                    /\ plan'[v] = plan[v]
                                    /\ seen'[v] = seen[v]
    BY <1>1, <1>4 DEF Stop, TypeOK
  <2>2. pc'[w] # "mail"
    BY <1>1, <1>4 DEF Stop, TypeOK
  <2> QED BY <1>3, <1>4, <2>1, <2>2, UsageFrame
<1>5. CASE /\ UsageUnclaimed(q, c)
           /\ lastUsage' = [lastUsage EXCEPT ![q] = c]
           /\ Goto(w, "mail")
  <2>1. /\ pc' = [pc EXCEPT ![w] = "mail"]
        /\ UNCHANGED <<plan, seen>>
    BY <1>5 DEF Goto
  <2>2. /\ lastUsage'[q] = c
        /\ \A p \in Balances : p # q => lastUsage'[p] = lastUsage[p]
    BY <1>1, <1>5 DEF TypeOK
  <2>3. \A p \in Balances : lastUsage[p] \in Int \cup {None}
    <3>1. UsageThresholds \subseteq Int
      BY AlertsAssumption
    <3> QED BY <1>1, <3>1 DEF TypeOK
  <2>4. \A t \in UsageThresholds : t \in Int
    BY AlertsAssumption
  <2>5. \A t \in UsageThresholds : ClaimedUpTo(q, t) => t < c
    <3> SUFFICES ASSUME NEW t \in UsageThresholds,
                        lastUsage[q] # None /\ t <= lastUsage[q]
                 PROVE  t < c
      BY DEF ClaimedUpTo
    <3>1. lastUsage[q] \in Int /\ lastUsage[q] < c
      BY <1>5, <2>3 DEF UsageUnclaimed
    <3> QED BY <1>2, <2>4, <3>1
  <2>6. \A p \in Balances, t \in UsageThresholds :
            ClaimedUpTo(p, t) => ClaimedUpTo(p, t)'
    <3> SUFFICES ASSUME NEW p \in Balances, NEW t \in UsageThresholds,
                        ClaimedUpTo(p, t)
                 PROVE  lastUsage'[p] # None /\ t <= lastUsage'[p]
      BY DEF ClaimedUpTo
    <3>1. CASE p = q
      <4>1. t < c
        BY <2>5, <3>1
      <4>2. lastUsage'[p] = c
        BY <2>2, <3>1
      <4> QED BY <1>2, <2>4, <4>1, <4>2
    <3>2. CASE p # q
      <4>1. lastUsage'[p] = lastUsage[p]
        BY <2>2, <3>2
      <4> QED BY <4>1 DEF ClaimedUpTo
    <3> QED BY <3>1, <3>2
  <2>7. ClaimedUpTo(q, c)'
    BY <1>1, <1>2, <2>2 DEF ClaimedUpTo
  <2>8. ~ClaimedUpTo(q, c)
    BY <1>2, <2>5
  <2>9. \A v \in Workers, p \in Balances, t \in UsageThresholds :
            Mailing(v, p, t)' => \/ Mailing(v, p, t)
                                 \/ v = w /\ p = q /\ t = c
    BY <1>1, <1>q, <1>2, <2>1 DEF Mailing, Claimed, Reached, TypeOK
  <2>10. usageMails[<<q, c>>] = 0
    <3>1. usageMails[<<q, c>>] \in Nat
      BY <1>1, <1>2 DEF TypeOK, UsageAlerts
    <3> QED BY <1>1, <1>2, <2>8, <3>1 DEF UsageInv
  <2>11. \A v \in Workers : ~Mailing(v, q, c)
    BY <1>1, <1>2, <2>8 DEF UsageInv
  <2> SUFFICES ASSUME NEW p \in Balances, NEW t \in UsageThresholds
               PROVE  (/\ usageMails[<<p, t>>] > 0 => ClaimedUpTo(p, t)
                       /\ usageMails[<<p, t>>] <= 1
                       /\ \A v \in Workers : Mailing(v, p, t) =>
                             /\ ClaimedUpTo(p, t)
                             /\ usageMails[<<p, t>>] = 0
                             /\ \A u \in Workers : Mailing(u, p, t) => u = v)'
    BY DEF UsageInv
  <2>12. usageMails[<<p, t>>] > 0 => ClaimedUpTo(p, t)'
    BY <2>6 DEF UsageInv
  <2>13. usageMails[<<p, t>>] <= 1
    BY DEF UsageInv
  <2>14. ASSUME NEW v \in Workers, Mailing(v, p, t)'
         PROVE  /\ ClaimedUpTo(p, t)'
                /\ usageMails[<<p, t>>] = 0
                /\ \A u \in Workers : Mailing(u, p, t)' => u = v
    <3>1. CASE p = q /\ t = c
      BY <2>7, <2>9, <2>10, <2>11, <2>14, <3>1
    <3>2. CASE ~(p = q /\ t = c)
      BY <2>6, <2>9, <2>14, <3>2 DEF UsageInv
    <3> QED BY <3>1, <3>2
  <2> QED BY <1>3, <2>12, <2>13, <2>14
<1> QED BY <1>q, <1>2, <1>4, <1>5 DEF ClaimUsage, Claimed

\* The mail is the first of its threshold, and its worker is done.
LEMMA MailUsageOnce ==
    ASSUME UsageInv, TypeInv, NEW w \in Workers, MailUsage(w)
    PROVE  UsageInv'
<1> USE DEF Processes
<1> DEFINE q == plan[w]
           c == Claimed(w)
<1>1. /\ TypeOK /\ pc[w] = "mail" /\ q \in Balances /\ Reached(seen[w]) # {}
  BY DEF TypeInv, MailUsage, At, Purpose
<1>2. c \in UsageThresholds
  BY <1>1, ClaimedReached
<1>3. /\ usageMails' = [usageMails EXCEPT ![<<q, c>>] = usageMails[<<q, c>>] + 1]
      /\ Stop(w) /\ lastUsage' = lastUsage
  BY DEF MailUsage, Claimed, docVars
<1> HIDE DEF c
<1>4. \A v \in Workers : /\ v # w => /\ pc'[v] = pc[v]
                                     /\ plan'[v] = plan[v]
                                     /\ seen'[v] = seen[v]
                         /\ v = w => pc'[v] # "mail"
  BY <1>1, <1>3 DEF Stop, TypeOK
<1>5. \A v \in Workers, p \in Balances, t \in UsageThresholds :
          Mailing(v, p, t)' => Mailing(v, p, t) /\ v # w
  BY <1>4 DEF Mailing, Claimed, Reached
<1>6. Mailing(w, q, c)
  BY <1>1 DEF Mailing, c
<1>7. /\ ClaimedUpTo(q, c) /\ usageMails[<<q, c>>] = 0
      /\ \A v \in Workers : Mailing(v, q, c) => v = w
  BY <1>1, <1>2, <1>6 DEF UsageInv
<1>8. \A p \in Balances, t \in UsageThresholds :
          usageMails'[<<p, t>>] = IF p = q /\ t = c
                                  THEN 1 ELSE usageMails[<<p, t>>]
  BY <1>1, <1>2, <1>3, <1>7 DEF TypeOK, UsageAlerts
<1>9. \A p, t : ClaimedUpTo(p, t)' <=> ClaimedUpTo(p, t)
  BY <1>3 DEF ClaimedUpTo
<1> SUFFICES ASSUME NEW p \in Balances, NEW t \in UsageThresholds
             PROVE  (/\ usageMails[<<p, t>>] > 0 => ClaimedUpTo(p, t)
                     /\ usageMails[<<p, t>>] <= 1
                     /\ \A v \in Workers : Mailing(v, p, t) =>
                           /\ ClaimedUpTo(p, t)
                           /\ usageMails[<<p, t>>] = 0
                           /\ \A u \in Workers : Mailing(u, p, t) => u = v)'
  BY DEF UsageInv
<1>10. CASE p = q /\ t = c
  BY <1>5, <1>7, <1>8, <1>9, <1>10
<1>11. CASE ~(p = q /\ t = c)
  BY <1>5, <1>8, <1>9, <1>11 DEF UsageInv
<1> QED BY <1>10, <1>11

\* UsageInv is inductive.
LEMMA UsageInvStep ==
    ASSUME UsageInv, TypeInv, [Next]_vars
    PROVE  UsageInv'
<1> USE DEF Processes
<1>a. TypeOK
  BY DEF TypeInv
<1>1. ASSUME NEW w \in Workers, NEW p \in Balances, Commit(w, p) PROVE UsageInv'
  <2>1. pc[w] = "idle" /\ UNCHANGED <<lastUsage, usageMails>>
    BY <1>1 DEF Commit, At, mailVars
  <2>2. \A v \in Workers : \/ pc'[v] # "mail"
                           \/ /\ pc'[v] = pc[v]
                              /\ plan'[v] = plan[v]
                              /\ seen'[v] = seen[v]
    BY <1>1, <1>a DEF Commit, TypeOK
  <2> QED BY <2>1, <2>2, UsageFrame
<1>2. ASSUME NEW r \in Replicas, Scan(r) \/ StartScan(r) PROVE UsageInv'
  <2>1. UNCHANGED <<lastUsage, usageMails>>
    BY <1>2 DEF Scan, StartScan, ClaimExpiry, MailExpiry, EndScan, docVars,
                mailVars
  <2>2. \A v \in Workers : /\ pc'[v] = pc[v]
                           /\ plan'[v] = plan[v]
                           /\ seen'[v] = seen[v]
    BY <1>2, <1>a, AlertsAssumption
    DEF Scan, StartScan, ClaimExpiry, MailExpiry, EndScan, NextPlan, Stop,
        TypeOK
  <2> QED BY <2>1, <2>2, UsageFrame
<1>3. ASSUME NEW x \in Processes, Fail(x) \/ Unsent(x) PROVE UsageInv'
  <2>1. UNCHANGED <<lastUsage, usageMails>>
    BY <1>3 DEF Fail, Unsent, docVars, mailVars
  <2>2. \A v \in Workers : \/ pc'[v] # "mail"
                           \/ /\ pc'[v] = pc[v]
                              /\ plan'[v] = plan[v]
                              /\ seen'[v] = seen[v]
    BY <1>3, <1>a DEF Fail, Unsent, Stop, NextPlan, TypeOK
  <2> QED BY <2>1, <2>2, UsageFrame
<1>4. CASE NextDay \/ UNCHANGED vars
  BY <1>4, UsageFrame DEF NextDay, vars, docVars, mailVars, local
<1> QED BY <1>1, <1>2, <1>3, <1>4, ClaimUsageOnce, MailUsageOnce
        DEF Next, Alert, NoRecipient, QueueFails

\* UsageInv holds, for any number of workers that claim in any order.
LEMMA UsageInvariant == Spec => []UsageInv
<1>1. Init => UsageInv
  BY DEF Init, UsageInv, Mailing, UsageAlerts, Processes
<1>2. UsageInv /\ TypeInv /\ [Next]_vars => UsageInv'
  BY UsageInvStep
<1> QED BY <1>1, <1>2, TypeInvariant, PTL DEF Spec

-----------------------------------------------------------------------------
(* An expiry threshold is mailed once.                                     *)

\* The scan of r is about to mail threshold t of plan p.
Warning(r, p, t) == pc[r] = "mail" /\ plan[r] = p /\ ScanClaimed(r) = t

\* The claim of a plan is as low as t.
ClaimedDownTo(p, t) == lastExpiry[p] # None /\ lastExpiry[p] <= t

ExpiryInv ==
    \A p \in Plans, t \in ExpiryThresholds :
        /\ expiryMails[<<p, t>>] > 0 => ClaimedDownTo(p, t)
        /\ expiryMails[<<p, t>>] <= 1
        /\ \A r \in Replicas : Warning(r, p, t) =>
              /\ ClaimedDownTo(p, t)
              /\ expiryMails[<<p, t>>] = 0
              /\ \A s \in Replicas : Warning(s, p, t) => s = r

\* A step that queues no mail, claims nothing and starts no warning.
LEMMA ExpiryFrame ==
    ASSUME ExpiryInv, expiryMails' = expiryMails, lastExpiry' = lastExpiry,
           \A r \in Replicas : \/ pc'[r] # "mail"
                               \/ /\ pc'[r] = pc[r]
                                  /\ plan'[r] = plan[r]
                                  /\ seen'[r] = seen[r]
    PROVE  ExpiryInv'
<1>1. ASSUME NEW r \in Replicas, NEW p \in Plans, NEW t \in ExpiryThresholds,
             Warning(r, p, t)'
      PROVE  Warning(r, p, t)
  BY <1>1 DEF Warning, ScanClaimed, Within
<1>2. \A p, t : ClaimedDownTo(p, t)' <=> ClaimedDownTo(p, t)
  BY DEF ClaimedDownTo
<1> QED BY <1>1, <1>2 DEF ExpiryInv

\* The claim lets a scan mail a threshold below all that were claimed.
LEMMA ClaimExpiryOnce ==
    ASSUME ExpiryInv, TypeInv, NEW r \in Replicas, NEW q \in Plans,
           ClaimExpiry(r, q)
    PROVE  ExpiryInv'
<1> USE DEF Processes
<1>1. /\ TypeOK /\ pc[r] = "claim" /\ Within(seen[r]) # {}
  BY DEF TypeInv, ClaimExpiry, At, Purpose
<1>2. PICK c \in ExpiryThresholds :
          c = ScanClaimed(r) /\ c \in Int /\ c # None
  BY <1>1, ScanClaimedWithin
<1>3. expiryMails' = expiryMails /\ seen' = seen
  BY DEF ClaimExpiry, mailVars
<1>4. CASE UNCHANGED <<lastExpiry, pc, plan>>
  BY <1>3, <1>4, ExpiryFrame
<1>5. CASE /\ ExpiryUnclaimed(q, c)
           /\ lastExpiry' = [lastExpiry EXCEPT ![q] = c]
           /\ pc' = [pc EXCEPT ![r] = "mail"]
           /\ plan' = [plan EXCEPT ![r] = q]
  <2>1. \A s \in Replicas : /\ s # r => pc'[s] = pc[s] /\ plan'[s] = plan[s]
                            /\ s = r => pc'[s] = "mail" /\ plan'[s] = q
    BY <1>1, <1>5 DEF TypeOK
  <2>2. \A p \in Plans : /\ p = q => lastExpiry'[p] = c
                         /\ p # q => lastExpiry'[p] = lastExpiry[p]
    BY <1>1, <1>5 DEF TypeOK
  <2>3. \A p \in Plans : lastExpiry[p] \in Int \cup {None}
    <3>1. ExpiryThresholds \subseteq Int
      BY AlertsAssumption
    <3> QED BY <1>1, <3>1 DEF TypeOK
  <2>4. \A t \in ExpiryThresholds : t \in Int
    BY AlertsAssumption
  <2>5. \A t \in ExpiryThresholds : ClaimedDownTo(q, t) => c < t
    BY <1>1, <1>2, <1>5, <2>3, <2>4 DEF ClaimedDownTo, ExpiryUnclaimed
  <2>6. \A p \in Plans, t \in ExpiryThresholds :
            ClaimedDownTo(p, t) => ClaimedDownTo(p, t)'
    <3> SUFFICES ASSUME NEW p \in Plans, NEW t \in ExpiryThresholds,
                        ClaimedDownTo(p, t)
                 PROVE  lastExpiry'[p] # None /\ lastExpiry'[p] <= t
      BY DEF ClaimedDownTo
    <3>1. CASE p = q
      <4>1. c < t /\ lastExpiry'[p] = c
        BY <2>2, <2>5, <3>1
      <4> QED BY <1>2, <2>4, <4>1
    <3>2. CASE p # q
      BY <2>2, <3>2 DEF ClaimedDownTo
    <3> QED BY <3>1, <3>2
  <2>7. ClaimedDownTo(q, c)'
    BY <1>1, <1>2, <2>2 DEF ClaimedDownTo
  <2>8. ~ClaimedDownTo(q, c)
    BY <1>2, <2>5
  <2>9. \A s \in Replicas, p \in Plans, t \in ExpiryThresholds :
            Warning(s, p, t)' => \/ Warning(s, p, t)
                                 \/ s = r /\ p = q /\ t = c
    BY <1>2, <1>3, <2>1 DEF Warning, ScanClaimed, Within
  <2>10. expiryMails[<<q, c>>] = 0
    <3>1. expiryMails[<<q, c>>] \in Nat
      BY <1>1, <1>2 DEF TypeOK, ExpiryAlerts
    <3> QED BY <1>1, <1>2, <2>8, <3>1 DEF ExpiryInv
  <2>11. \A s \in Replicas : ~Warning(s, q, c)
    BY <1>1, <1>2, <2>8 DEF ExpiryInv
  <2> SUFFICES ASSUME NEW p \in Plans, NEW t \in ExpiryThresholds
               PROVE  (/\ expiryMails[<<p, t>>] > 0 => ClaimedDownTo(p, t)
                       /\ expiryMails[<<p, t>>] <= 1
                       /\ \A s \in Replicas : Warning(s, p, t) =>
                             /\ ClaimedDownTo(p, t)
                             /\ expiryMails[<<p, t>>] = 0
                             /\ \A u \in Replicas : Warning(u, p, t) => u = s)'
    BY DEF ExpiryInv
  <2>12. expiryMails[<<p, t>>] > 0 => ClaimedDownTo(p, t)'
    BY <2>6 DEF ExpiryInv
  <2>13. expiryMails[<<p, t>>] <= 1
    BY DEF ExpiryInv
  <2>14. ASSUME NEW s \in Replicas, Warning(s, p, t)'
         PROVE  /\ ClaimedDownTo(p, t)'
                /\ expiryMails[<<p, t>>] = 0
                /\ \A u \in Replicas : Warning(u, p, t)' => u = s
    <3>1. CASE p = q /\ t = c
      BY <2>7, <2>9, <2>10, <2>11, <2>14, <3>1
    <3>2. CASE ~(p = q /\ t = c)
      BY <2>6, <2>9, <2>14, <3>2 DEF ExpiryInv
    <3> QED BY <3>1, <3>2
  <2> QED BY <1>3, <2>12, <2>13, <2>14
<1> QED BY <1>2, <1>4, <1>5 DEF ClaimExpiry, ScanClaimed

\* The mail is the first of its threshold, and its scan goes on.
LEMMA MailExpiryOnce ==
    ASSUME ExpiryInv, TypeInv, NEW r \in Replicas, MailExpiry(r)
    PROVE  ExpiryInv'
<1> USE DEF Processes
<1> DEFINE q == plan[r]
           c == ScanClaimed(r)
<1>1. /\ TypeOK /\ pc[r] = "mail" /\ q \in Plans /\ Within(seen[r]) # {}
  BY DEF TypeInv, MailExpiry, At, Purpose
<1>2. c \in ExpiryThresholds
  BY <1>1, ScanClaimedWithin
<1>3. /\ expiryMails' =
            [expiryMails EXCEPT ![<<q, c>>] = expiryMails[<<q, c>>] + 1]
      /\ NextPlan(r) /\ lastExpiry' = lastExpiry
  BY DEF MailExpiry, ScanClaimed, docVars
<1> HIDE DEF c
<1>4. \A s \in Replicas : /\ s # r => /\ pc'[s] = pc[s]
                                      /\ plan'[s] = plan[s]
                                      /\ seen'[s] = seen[s]
                          /\ s = r => pc'[s] # "mail"
  BY <1>1, <1>3 DEF NextPlan, TypeOK
<1>5. \A s \in Replicas, p \in Plans, t \in ExpiryThresholds :
          Warning(s, p, t)' => Warning(s, p, t) /\ s # r
  BY <1>4 DEF Warning, ScanClaimed, Within
<1>6. Warning(r, q, c)
  BY <1>1 DEF Warning, c
<1>7. /\ ClaimedDownTo(q, c) /\ expiryMails[<<q, c>>] = 0
      /\ \A s \in Replicas : Warning(s, q, c) => s = r
  BY <1>1, <1>2, <1>6 DEF ExpiryInv
<1>8. \A p \in Plans, t \in ExpiryThresholds :
          expiryMails'[<<p, t>>] = IF p = q /\ t = c
                                   THEN 1 ELSE expiryMails[<<p, t>>]
  BY <1>1, <1>2, <1>3, <1>7 DEF TypeOK, ExpiryAlerts
<1>9. \A p, t : ClaimedDownTo(p, t)' <=> ClaimedDownTo(p, t)
  BY <1>3 DEF ClaimedDownTo
<1> SUFFICES ASSUME NEW p \in Plans, NEW t \in ExpiryThresholds
             PROVE  (/\ expiryMails[<<p, t>>] > 0 => ClaimedDownTo(p, t)
                     /\ expiryMails[<<p, t>>] <= 1
                     /\ \A s \in Replicas : Warning(s, p, t) =>
                           /\ ClaimedDownTo(p, t)
                           /\ expiryMails[<<p, t>>] = 0
                           /\ \A u \in Replicas : Warning(u, p, t) => u = s)'
  BY DEF ExpiryInv
<1>10. CASE p = q /\ t = c
  BY <1>5, <1>7, <1>8, <1>9, <1>10
<1>11. CASE ~(p = q /\ t = c)
  BY <1>5, <1>8, <1>9, <1>11 DEF ExpiryInv
<1> QED BY <1>10, <1>11

\* ExpiryInv is inductive.
LEMMA ExpiryInvStep ==
    ASSUME ExpiryInv, TypeInv, [Next]_vars
    PROVE  ExpiryInv'
<1> USE DEF Processes
<1>a. TypeOK
  BY DEF TypeInv
<1>1. ASSUME NEW w \in Workers,
             Alert(w) \/ \E p \in Balances : Commit(w, p)
      PROVE  ExpiryInv'
  <2>1. UNCHANGED <<lastExpiry, expiryMails>>
    BY <1>1 DEF Alert, ClaimUsage, MailUsage, Commit, docVars, mailVars
  <2>2. \A s \in Replicas : /\ pc'[s] = pc[s]
                            /\ plan'[s] = plan[s]
                            /\ seen'[s] = seen[s]
    BY <1>1, <1>a, AlertsAssumption
    DEF Alert, ClaimUsage, MailUsage, Commit, Goto, Stop, TypeOK
  <2> QED BY <2>1, <2>2, ExpiryFrame
<1>2. ASSUME NEW r \in Replicas, StartScan(r) \/ EndScan(r) PROVE ExpiryInv'
  <2>1. UNCHANGED <<lastExpiry, expiryMails>>
    BY <1>2 DEF StartScan, EndScan, docVars, mailVars
  <2>2. \A s \in Replicas : \/ pc'[s] # "mail"
                            \/ /\ pc'[s] = pc[s]
                               /\ plan'[s] = plan[s]
                               /\ seen'[s] = seen[s]
    BY <1>2, <1>a DEF StartScan, EndScan, Stop, TypeOK
  <2> QED BY <2>1, <2>2, ExpiryFrame
<1>3. ASSUME NEW x \in Processes, Fail(x) \/ Unsent(x) PROVE ExpiryInv'
  <2>1. UNCHANGED <<lastExpiry, expiryMails>>
    BY <1>3 DEF Fail, Unsent, docVars, mailVars
  <2>2. \A s \in Replicas : \/ pc'[s] # "mail"
                            \/ /\ pc'[s] = pc[s]
                               /\ plan'[s] = plan[s]
                               /\ seen'[s] = seen[s]
    BY <1>3, <1>a DEF Fail, Unsent, Stop, NextPlan, TypeOK
  <2> QED BY <2>1, <2>2, ExpiryFrame
<1>4. CASE NextDay \/ UNCHANGED vars
  BY <1>4, ExpiryFrame DEF NextDay, vars, docVars, mailVars, local
<1> QED BY <1>1, <1>2, <1>3, <1>4, ClaimExpiryOnce, MailExpiryOnce
        DEF Next, Scan, NoRecipient, QueueFails

\* ExpiryInv holds, for any number of replicas whose scans overlap and last
\* beyond midnight.
LEMMA ExpiryInvariant == Spec => []ExpiryInv
<1>1. Init => ExpiryInv
  BY DEF Init, ExpiryInv, Warning, ExpiryAlerts, Processes
<1>2. ExpiryInv /\ TypeInv /\ [Next]_vars => ExpiryInv'
  BY ExpiryInvStep
<1> QED BY <1>1, <1>2, TypeInvariant, PTL DEF Spec

\* No threshold of a balance's usage or of a plan's expiry is mailed twice,
\* for any number of plans, workers, replicas, thresholds and failures.
THEOREM AlertsOnce == Spec => []MailedOnce
<1>1. UsageInv /\ ExpiryInv => MailedOnce
  BY DEF UsageInv, ExpiryInv, MailedOnce, UsageAlerts, ExpiryAlerts
<1> QED BY <1>1, UsageInvariant, ExpiryInvariant, PTL

-----------------------------------------------------------------------------
(* The claims follow the usage.                                            *)

\* The percentage that decides, and with it the thresholds reached, only grow
\* with the usage.
LEMMA ReachedGrows ==
    ASSUME NEW u \in Nat, NEW v \in Nat, u <= v
    PROVE  Reached(u) \subseteq Reached(v)
<1>1. Total \in Nat \ {0} /\ UsageThresholds \subseteq 1..100
  BY AlertsAssumption
<1>2. u * 100 \in Nat /\ v * 100 \in Nat /\ u * 100 <= v * 100
  OBVIOUS
<1> DEFINE a == u * 100
           b == v * 100
<1> HIDE DEF a, b
<1>3. (a \div Total) <= (b \div Total)
  BY <1>1, <1>2 DEF a, b
<1>4. a \div Total \in Int /\ b \div Total \in Int
  BY <1>1, <1>2 DEF a, b
<1>5. ASSUME NEW t \in UsageThresholds, a \div Total >= t
      PROVE  b \div Total >= t
  BY <1>1, <1>3, <1>4, <1>5
<1> QED BY <1>5 DEF Reached, a, b

\* Worker w has charged a commit to balance b and not claimed its threshold.
Claiming(w, b) == pc[w] = "claim" /\ plan[w] = b

\* The claim of a balance is a threshold its usage has reached, and what a
\* worker has yet to claim it saw when no more was used than now.
ClaimsSound ==
    \A b \in Balances :
        /\ lastUsage[b] # None => lastUsage[b] \in Reached(used[b])
        /\ \A w \in Workers :
              Claiming(w, b) => seen[w] \in Nat /\ seen[w] <= used[b]

\* If nothing failed, every threshold reached is claimed, or there is a worker
\* that is going to claim as much.
ClaimsComplete ==
    failures = 0 =>
        \A b \in Balances : \A t \in Reached(used[b]) :
            \/ ClaimedUpTo(b, t)
            \/ \E w \in Workers : Claiming(w, b) /\ t \in Reached(seen[w])

ClaimsInv == ClaimsSound /\ ClaimsComplete

\* A step that charges and claims nothing, and after which those who claim are
\* the same, unless something failed.
LEMMA ClaimsFrame ==
    ASSUME ClaimsInv, used' = used, lastUsage' = lastUsage,
           failures' # 0 \/ failures' = failures,
           \A w \in Workers :
              \/ /\ pc'[w] = pc[w]
                 /\ plan'[w] = plan[w]
                 /\ seen'[w] = seen[w]
              \/ /\ pc'[w] # "claim"
                 /\ pc[w] # "claim" \/ failures' # 0
    PROVE  ClaimsInv'
<1>1. \A n : Reached(n)' = Reached(n)
  BY DEF Reached
<1>2. \A w \in Workers, b \in Balances :
          Claiming(w, b)' => Claiming(w, b) /\ seen'[w] = seen[w]
  BY DEF Claiming
<1>3. ClaimsSound'
  BY <1>1, <1>2 DEF ClaimsInv, ClaimsSound, Reached
<1>4. ASSUME failures' = 0, NEW w \in Workers, NEW b \in Balances,
             Claiming(w, b)
      PROVE  Claiming(w, b)' /\ seen'[w] = seen[w]
  BY <1>4 DEF Claiming
<1>5. \A b, t : ClaimedUpTo(b, t)' <=> ClaimedUpTo(b, t)
  BY DEF ClaimedUpTo
<1>6. ASSUME failures' = 0, NEW b \in Balances, NEW t \in Reached(used'[b])
      PROVE  \/ ClaimedUpTo(b, t)'
             \/ \E w \in Workers : Claiming(w, b)' /\ t \in Reached(seen'[w])
  <2>1. \/ ClaimedUpTo(b, t)
        \/ \E w \in Workers : Claiming(w, b) /\ t \in Reached(seen[w])
    BY <1>6 DEF ClaimsInv, ClaimsComplete
  <2> QED BY <1>4, <1>5, <1>6, <2>1
<1>7. ClaimsComplete'
  BY <1>6 DEF ClaimsComplete, Reached
<1> QED BY <1>3, <1>7 DEF ClaimsInv

\* A commit: the worker that charged it answers for every threshold that is
\* reached by now.
LEMMA CommitClaims ==
    ASSUME ClaimsInv, TypeInv, NEW v \in Workers, NEW q \in Balances,
           Commit(v, q)
    PROVE  ClaimsInv'
<1> USE DEF Processes
<1>1. /\ TypeOK /\ pc[v] = "idle" /\ v \in Processes
      /\ used[q] \in Nat /\ used[q] + 1 \in Nat
  BY AlertsAssumption DEF TypeInv, TypeOK, Commit, At
<1>2. /\ \A b \in Balances :
            used'[b] = IF b = q THEN used[q] + 1 ELSE used[b]
      /\ lastUsage' = lastUsage /\ failures' = failures
  BY <1>1 DEF Commit, TypeOK
<1>3. \A b \in Balances : /\ used[b] \in Nat /\ used'[b] \in Nat
                          /\ used[b] <= used'[b]
  BY <1>1, <1>2, AlertsAssumption DEF TypeOK
<1>4. \A w \in Workers, b \in Balances :
          Claiming(w, b) <=> Claiming(w, b)' /\ w # v
  BY <1>1 DEF Commit, TypeOK, Claiming
<1>5. \A w \in Workers : w # v => seen'[w] = seen[w]
  BY <1>1 DEF Commit, TypeOK
<1>6. \A b \in Balances :
          Claiming(v, b)' => b = q /\ seen'[v] = used[q] + 1
  BY <1>1 DEF Commit, TypeOK, Claiming
<1>7. Reached(used[q] + 1) # {} => Claiming(v, q)'
  BY <1>1 DEF Commit, TypeOK, Claiming
<1>8. ClaimsSound'
  <2>1. ASSUME NEW b \in Balances, lastUsage'[b] # None
        PROVE  lastUsage'[b] \in Reached(used'[b])
    <3>1. lastUsage[b] \in Reached(used[b])
      BY <1>2, <2>1 DEF ClaimsInv, ClaimsSound
    <3>2. Reached(used[b]) \subseteq Reached(used'[b])
      BY <1>3, ReachedGrows
    <3> QED BY <1>2, <3>1, <3>2
  <2>2. ASSUME NEW b \in Balances, NEW w \in Workers, Claiming(w, b)'
        PROVE  seen'[w] \in Nat /\ seen'[w] <= used'[b]
    <3>1. CASE w = v
      BY <1>1, <1>2, <1>6, <2>2, <3>1
    <3>2. CASE w # v
      <4>1. seen[w] \in Nat /\ seen[w] <= used[b] /\ seen'[w] = seen[w]
        BY <1>4, <1>5, <2>2, <3>2 DEF ClaimsInv, ClaimsSound
      <4> QED BY <1>3, <4>1
    <3> QED BY <3>1, <3>2
  <2> QED BY <2>1, <2>2 DEF ClaimsSound, Reached
<1>9. ASSUME failures' = 0, NEW b \in Balances, NEW t \in Reached(used'[b])
      PROVE  \/ ClaimedUpTo(b, t)'
             \/ \E w \in Workers : Claiming(w, b)' /\ t \in Reached(seen'[w])
  <2>1. CASE b = q
    <3>1. t \in Reached(used[q] + 1)
      BY <1>2, <1>9, <2>1
    <3> QED BY <1>6, <1>7, <2>1, <3>1
  <2>2. CASE b # q
    <3>1. t \in Reached(used[b]) /\ failures = 0
      BY <1>2, <1>9, <2>2
    <3>2. \/ ClaimedUpTo(b, t)
          \/ \E w \in Workers : Claiming(w, b) /\ t \in Reached(seen[w])
      BY <3>1 DEF ClaimsInv, ClaimsComplete
    <3> QED BY <1>2, <1>4, <1>5, <3>2 DEF ClaimedUpTo
  <2> QED BY <2>1, <2>2
<1>10. ClaimsComplete'
  BY <1>9 DEF ClaimsComplete, Reached
<1> QED BY <1>8, <1>10 DEF ClaimsInv

\* A claim: the document is left with the higher of the two thresholds, which
\* is at least all that this worker answered for.
LEMMA ClaimUsageClaims ==
    ASSUME ClaimsInv, TypeInv, NEW v \in Workers, ClaimUsage(v)
    PROVE  ClaimsInv'
<1> USE DEF Processes
<1> DEFINE q == plan[v]
           c == Claimed(v)
<1>1. /\ TypeOK /\ pc[v] = "claim" /\ q \in Balances
      /\ Reached(seen[v]) # {} /\ Claiming(v, q)
  BY DEF TypeInv, ClaimUsage, At, Purpose, Claiming
<1>2. /\ c \in Reached(seen[v]) /\ c \in 1..100 /\ c # None
      /\ \A t \in Reached(seen[v]) : t <= c
  <2>1. Reached(seen[v]) \subseteq 1..100
    BY AlertsAssumption DEF Reached
  <2>2. \E x \in Reached(seen[v]) : \A y \in Reached(seen[v]) : x >= y
    BY <1>1, <2>1, Largest
  <2>3. \A y \in Reached(seen[v]) : c >= y
    BY <2>2 DEF Claimed, Max
  <2>4. c \in Reached(seen[v]) /\ c \in 1..100 /\ c # None
    BY <1>1, ClaimedReached
  <2> QED BY <2>1, <2>3, <2>4
<1>3. seen[v] \in Nat /\ seen[v] <= used[q] /\ used[q] \in Nat
  BY <1>1, AlertsAssumption DEF ClaimsInv, ClaimsSound, TypeOK
<1>4. c \in Reached(used[q])
  BY <1>2, <1>3, ReachedGrows
<1>5. /\ used' = used /\ failures' = failures
      /\ \/ /\ lastUsage' = [lastUsage EXCEPT ![q] = c]
            /\ UsageUnclaimed(q, c) /\ Goto(v, "mail")
         \/ /\ lastUsage' = lastUsage
            /\ ~UsageUnclaimed(q, c) /\ Stop(v)
  BY DEF ClaimUsage, Claimed
<1> HIDE DEF q, c
<1>6. \A w \in Workers : /\ w = v => pc'[w] # "claim"
                         /\ w # v => /\ pc'[w] = pc[w]
                                     /\ plan'[w] = plan[w]
                                     /\ seen'[w] = seen[w]
  BY <1>1, <1>5 DEF Goto, Stop, TypeOK
<1>7. \A b \in Balances : b # q => lastUsage'[b] = lastUsage[b]
  BY <1>1, <1>5 DEF TypeOK
<1>8. lastUsage[q] # None => lastUsage[q] \in 1..100
  BY <1>1, AlertsAssumption DEF TypeOK
<1>9. /\ lastUsage'[q] = c \/ lastUsage'[q] = lastUsage[q]
      /\ lastUsage'[q] # None /\ c <= lastUsage'[q]
      /\ lastUsage[q] # None => lastUsage[q] <= lastUsage'[q]
      /\ lastUsage'[q] \in 1..100
  <2>1. CASE lastUsage' = [lastUsage EXCEPT ![q] = c] /\ UsageUnclaimed(q, c)
    <3>1. lastUsage'[q] = c
      BY <1>1, <2>1 DEF TypeOK
    <3> QED BY <1>2, <1>8, <2>1, <3>1 DEF UsageUnclaimed
  <2>2. CASE lastUsage' = lastUsage /\ ~UsageUnclaimed(q, c)
    BY <1>2, <1>8, <2>2 DEF UsageUnclaimed
  <2> QED BY <1>5, <2>1, <2>2
<1>10. ClaimsSound'
  <2>1. ASSUME NEW b \in Balances, lastUsage'[b] # None
        PROVE  lastUsage'[b] \in Reached(used[b])
    BY <1>4, <1>7, <1>9, <2>1 DEF ClaimsInv, ClaimsSound
  <2>2. ASSUME NEW b \in Balances, NEW w \in Workers, Claiming(w, b)'
        PROVE  seen'[w] \in Nat /\ seen'[w] <= used[b]
    BY <1>6, <2>2 DEF ClaimsInv, ClaimsSound, Claiming
  <2> QED BY <1>5, <2>1, <2>2 DEF ClaimsSound, Reached
<1>11. ASSUME failures' = 0, NEW b \in Balances, NEW t \in Reached(used'[b])
       PROVE  \/ ClaimedUpTo(b, t)'
              \/ \E w \in Workers : Claiming(w, b)' /\ t \in Reached(seen'[w])
  <2>1. \/ ClaimedUpTo(b, t)
        \/ \E w \in Workers : Claiming(w, b) /\ t \in Reached(seen[w])
    BY <1>5, <1>11 DEF ClaimsInv, ClaimsComplete
  <2>2. t \in 1..100
    BY <1>11, AlertsAssumption DEF Reached
  <2>3. CASE ClaimedUpTo(b, t)
    <3>1. CASE b = q
      BY <1>8, <1>9, <2>2, <2>3, <3>1 DEF ClaimedUpTo
    <3>2. CASE b # q
      BY <1>7, <2>3, <3>2 DEF ClaimedUpTo
    <3> QED BY <3>1, <3>2
  <2>4. ASSUME NEW w \in Workers, Claiming(w, b), t \in Reached(seen[w])
        PROVE  \/ ClaimedUpTo(b, t)'
               \/ \E u \in Workers : Claiming(u, b)' /\ t \in Reached(seen'[u])
    <3>1. CASE w = v
      <4>1. b = q /\ t <= c
        BY <1>2, <2>4, <3>1 DEF Claiming, q
      <4> QED BY <1>2, <1>9, <2>2, <4>1 DEF ClaimedUpTo
    <3>2. CASE w # v
      BY <1>6, <2>4, <3>2 DEF Claiming
    <3> QED BY <3>1, <3>2
  <2> QED BY <2>1, <2>3, <2>4
<1>12. ClaimsComplete'
  BY <1>11 DEF ClaimsComplete, Reached
<1> QED BY <1>10, <1>12 DEF ClaimsInv

\* The other steps neither charge nor claim.
LEMMA ClaimsInvStep ==
    ASSUME ClaimsInv, TypeInv, [Next]_vars
    PROVE  ClaimsInv'
<1> USE DEF Processes
<1>a. TypeOK
  BY DEF TypeInv
<1>1. ASSUME NEW w \in Workers, MailUsage(w) PROVE ClaimsInv'
  <2>1. used' = used /\ lastUsage' = lastUsage /\ failures' = failures
    BY <1>1 DEF MailUsage, docVars
  <2>2. \A x \in Workers : \/ /\ pc'[x] = pc[x]
                              /\ plan'[x] = plan[x]
                              /\ seen'[x] = seen[x]
                           \/ pc'[x] # "claim" /\ pc[x] # "claim"
    BY <1>1, <1>a DEF MailUsage, At, Stop, TypeOK
  <2> QED BY <2>1, <2>2, ClaimsFrame
<1>2. ASSUME NEW r \in Replicas, Scan(r) \/ StartScan(r) PROVE ClaimsInv'
  <2>1. used' = used /\ lastUsage' = lastUsage /\ failures' = failures
    BY <1>2
    DEF Scan, StartScan, ClaimExpiry, MailExpiry, EndScan, docVars
  <2>2. \A x \in Workers : /\ pc'[x] = pc[x]
                           /\ plan'[x] = plan[x]
                           /\ seen'[x] = seen[x]
    BY <1>2, <1>a, AlertsAssumption
    DEF Scan, StartScan, ClaimExpiry, MailExpiry, EndScan, NextPlan, Stop,
        TypeOK
  <2> QED BY <2>1, <2>2, ClaimsFrame
<1>3. ASSUME NEW x \in Processes, Fail(x) \/ Unsent(x) PROVE ClaimsInv'
  <2>1. /\ used' = used /\ lastUsage' = lastUsage
        /\ failures' = failures + 1
    BY <1>3 DEF Fail, Unsent, docVars
  <2>2. failures' # 0
    BY <1>a, <2>1, AlertsAssumption DEF TypeOK
  <2>3. \A w \in Workers : \/ /\ pc'[w] = pc[w]
                              /\ plan'[w] = plan[w]
                              /\ seen'[w] = seen[w]
                           \/ pc'[w] # "claim"
    BY <1>3, <1>a, AlertsAssumption DEF Fail, Unsent, Stop, NextPlan, TypeOK
  <2> QED BY <2>1, <2>2, <2>3, ClaimsFrame
<1>4. CASE NextDay \/ UNCHANGED vars
  <2>1. UNCHANGED <<used, lastUsage, failures, pc, plan, seen>>
    BY <1>4 DEF NextDay, vars, docVars, local
  <2> QED BY <2>1, ClaimsFrame
<1> QED BY <1>1, <1>2, <1>3, <1>4, CommitClaims, ClaimUsageClaims
        DEF Next, Alert, NoRecipient, QueueFails

\* ClaimsInv holds.
LEMMA ClaimsInvariant == Spec => []ClaimsInv
<1>1. Init => ClaimsInv
  <2> SUFFICES ASSUME Init PROVE ClaimsInv
    OBVIOUS
  <2>1. ClaimsSound
    BY DEF Init, ClaimsSound, Claiming, Processes
  <2>2. ASSUME NEW b \in Balances PROVE Reached(used[b]) = {}
    <3>1. used[b] = 0 /\ Total \in Nat \ {0} /\ UsageThresholds \subseteq 1..100
      BY AlertsAssumption DEF Init
    <3>2. (used[b] * 100) \div Total = 0
      BY <3>1
    <3>3. \A t \in UsageThresholds : ~((used[b] * 100) \div Total >= t)
      BY <3>1, <3>2
    <3> QED BY <3>3 DEF Reached
  <2> QED BY <2>1, <2>2 DEF ClaimsInv, ClaimsComplete
<1>2. ClaimsInv /\ TypeInv /\ [Next]_vars => ClaimsInv'
  BY ClaimsInvStep
<1> QED BY <1>1, <1>2, TypeInvariant, PTL DEF Spec

\* ClaimsFollowUsage: in whatever order the workers come to claim, once they
\* did the last threshold claimed is the highest one the usage has reached.
THEOREM ClaimsFollow == Spec => []ClaimsFollowUsage
<1>1. ClaimsInv => ClaimsFollowUsage
  <2> SUFFICES ASSUME ClaimsInv, NEW b \in Balances, failures = 0,
                      Reached(used[b]) # {},
                      \A w \in Workers : ~(At(w, "claim") /\ plan[w] = b)
               PROVE  lastUsage[b] = Max(Reached(used[b]))
    BY DEF ClaimsFollowUsage
  <2> DEFINE R == Reached(used[b])
  <2>1. \A t \in R : ClaimedUpTo(b, t)
    BY DEF ClaimsInv, ClaimsComplete, Claiming, At
  <2>2. lastUsage[b] \in R /\ \A t \in R : t <= lastUsage[b]
    BY <2>1 DEF ClaimedUpTo, ClaimsInv, ClaimsSound
  <2>3. R \subseteq 1..100
    BY AlertsAssumption DEF Reached
  <2> HIDE DEF R
  <2>4. ASSUME NEW x \in R, \A t \in R : x >= t
        PROVE  x = lastUsage[b]
    <3>1. x >= lastUsage[b] /\ x <= lastUsage[b]
      BY <2>2, <2>4
    <3>2. x \in 1..100 /\ lastUsage[b] \in 1..100
      BY <2>2, <2>3
    <3> QED BY <3>1, <3>2
  <2>5. lastUsage[b] \in R /\ \A t \in R : lastUsage[b] >= t
    BY <2>2, <2>3
  <2>6. Max(R) = lastUsage[b]
    BY <2>4, <2>5 DEF Max
  <2> QED BY <2>6 DEF R
<1> QED BY <1>1, ClaimsInvariant, PTL
=============================================================================
