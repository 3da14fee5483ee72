--------------------------- MODULE KycPlansProofs ---------------------------
(***************************************************************************)
(* Theorems about KycPlans for any number of plans, requests, workers and  *)
(* replicas, any balances and validity, and any number of crashes.         *)
(***************************************************************************)
EXTENDS KycPlans, TLAPS

-----------------------------------------------------------------------------
(* Type correctness: the control of the processes.                         *)

OnPlan == {"lookup", "findActive", "create", "load", "setExpiry", "send",
           "granted", "expired", "findOther", "findWaiting"}
OnEvent == {"granted", "expired", "findOther", "findWaiting", "record", "ack"}

\* What the locals of a process are good for at its await: the plan it works
\* on is there, an expiry about to be stored or sent is there, and a worker
\* holds the event it handles.
Sane(x) ==
    /\ pc[x] \in OnPlan => plan[x] # None
    /\ pc[x] \in {"setExpiry", "send"} => expiry[x] # None
    /\ pc[x] \in OnEvent => x \in Workers
    /\ x \in Workers /\ pc[x] # "idle" => event[x] # None
    /\ pc[x] = "granted" => /\ event[x].type = "GRANTED"
                            /\ event[x].plan = plan[x]

LocalOK ==
    /\ pc \in [Processes -> Labels]
    /\ plan \in [Processes -> Plans \cup {None}]
    /\ expiry \in [Processes -> Times \cup {None}]
    /\ event \in [Processes -> Events \cup {None}]
    /\ \A x \in Processes : Sane(x)

StoreOK ==
    /\ status \in [Plans -> {"none", "Inactive", "Active"}]
    /\ expiresAt \in [Plans -> Times \cup {None}]
    /\ used \in [Plans -> 0..Total]
    /\ commands \subseteq [plan : Plans, expires : Times]
    /\ wallet \in [Plans -> Times \cup {None}]
    /\ consumed \in [Plans -> 0..Total]
    /\ queue \subseteq Events
    /\ ledger \subseteq Events
    /\ now \in 0..MaxNow
    /\ crashes \in 0..MaxCrashes

TypeInv == StoreOK /\ LocalOK

\* A process that goes on to an await with what it needs there stays sane.
LEMMA ContinueLocal ==
    ASSUME LocalOK, NEW x \in Processes, NEW l \in Labels,
           NEW p \in Plans \cup {None}, NEW t \in Times \cup {None},
           Continue(x, l, p, t),
           l \in OnPlan => p # None,
           l \in {"setExpiry", "send"} => t # None,
           l \in OnEvent => x \in Workers,
           x \in Workers => pc[x] # "idle",
           l # "granted"
    PROVE  LocalOK'
<1>1. /\ pc' \in [Processes -> Labels]
      /\ plan' \in [Processes -> Plans \cup {None}]
      /\ expiry' \in [Processes -> Times \cup {None}]
      /\ event' \in [Processes -> Events \cup {None}]
  BY DEF LocalOK, Continue
<1>2. ASSUME NEW y \in Processes PROVE Sane(y)'
  <2>1. CASE y = x
    BY <2>1 DEF LocalOK, Sane, Continue
  <2>2. CASE y # x
    BY <2>2 DEF LocalOK, Sane, Continue
  <2> QED BY <2>1, <2>2
<1> QED BY <1>1, <1>2 DEF LocalOK

\* A process that answers, or goes on to record its event, stays sane.
LEMMA DoneLocal ==
    ASSUME LocalOK, NEW x \in Processes, Done(x), pc[x] # "idle"
    PROVE  LocalOK'
<1>1. CASE x \in Workers
  <2>1. Continue(x, "record", None, None)
    BY <1>1 DEF Done
  <2> QED BY <1>1, <2>1, ContinueLocal DEF Labels, OnPlan
<1>2. CASE x \notin Workers
  <2>1. Continue(x, "idle", None, None)
    BY <1>2 DEF Done
  <2> QED BY <1>2, <2>1, ContinueLocal DEF Labels, OnPlan, OnEvent
<1> QED BY <1>1, <1>2

\* A process that ends or dies forgets its locals and stays sane.
LEMMA ResetLocal ==
    ASSUME LocalOK, NEW x \in Processes, Reset(x)
    PROVE  LocalOK'
BY DEF LocalOK, Reset, Sane, Labels, OnPlan, OnEvent

\* The local variables stay sane in every step.
LEMMA LocalStep ==
    ASSUME TypeInv, [Next]_vars
    PROVE  LocalOK'
<1> USE DEF Processes
<1>a. \A t \in 0..MaxNow : t + Validity \in Times
  BY PlansAssumption DEF Times
<1>b. \A x \in Processes : /\ plan[x] \in Plans \cup {None}
                           /\ expiry[x] \in Times \cup {None}
                           /\ Sane(x)
  BY DEF TypeInv, LocalOK
<1>c. now \in 0..MaxNow /\ expiresAt \in [Plans -> Times \cup {None}]
  BY DEF TypeInv, StoreOK
<1>d. (\A t \in Times : t # None) /\ (\A p \in Plans : p # None)
  BY PlansAssumption DEF Times
<1>e. LocalOK
  BY DEF TypeInv
<1>1. ASSUME NEW c \in Callers, NEW p \in Plans, StartGrant(c, p)
      PROVE  LocalOK'
  <2>1. Continue(c, "lookup", p, None) /\ c \notin Workers
    BY <1>1, PlansAssumption DEF StartGrant
  <2> QED BY <1>e, <2>1, ContinueLocal, PlansAssumption DEF Labels, OnEvent
<1>2. ASSUME NEW c \in Callers, NEW p \in Plans, StartActivate(c, p)
      PROVE  LocalOK'
  <2>1. Continue(c, "load", p, None) /\ c \notin Workers
    BY <1>2, PlansAssumption DEF StartActivate
  <2> QED BY <1>e, <2>1, ContinueLocal, PlansAssumption DEF Labels, OnEvent
<1>3. ASSUME NEW c \in Callers, Lookup(c) PROVE LocalOK'
  <2>0. plan[c] \in Plans /\ pc[c] = "lookup" /\ c \notin Workers
    BY <1>3, <1>b, PlansAssumption DEF Lookup, At, Sane, OnPlan
  <2>1. CASE Goto(c, "findActive")
    <3>1. Continue(c, "findActive", plan[c], expiry[c])
      BY <2>1 DEF Goto
    <3> QED BY <1>b, <1>e, <2>0, <3>1, ContinueLocal, PlansAssumption
            DEF Labels, OnEvent
  <2>2. CASE /\ Continue(c, "send", plan[c], expiresAt[plan[c]])
             /\ expiresAt[plan[c]] # None
    BY <1>c, <1>d, <1>e, <2>0, <2>2, ContinueLocal DEF Labels, OnEvent
  <2>3. CASE Done(c)
    BY <1>e, <2>0, <2>3, DoneLocal
  <2> QED BY <1>3, <2>1, <2>2, <2>3 DEF Lookup
<1>4. ASSUME NEW c \in Callers, FindActive(c) PROVE LocalOK'
  <2>0. plan[c] \in Plans /\ pc[c] = "findActive" /\ c \notin Workers
    BY <1>4, <1>b, PlansAssumption
    DEF FindActive, ExpiryFromNow, At, Sane, OnPlan
  <2>1. PICK t \in Times \cup {None} : Continue(c, "create", plan[c], t)
    BY <1>4, <1>a, <1>c DEF FindActive, ExpiryFromNow
  <2> QED BY <1>d, <1>e, <2>0, <2>1, ContinueLocal DEF Labels, OnEvent
<1>5. ASSUME NEW c \in Callers, Create(c) PROVE LocalOK'
  <2>0. plan[c] \in Plans /\ pc[c] = "create" /\ c \notin Workers
    BY <1>5, <1>b, PlansAssumption DEF Create, At, Sane, OnPlan
  <2>1. CASE Done(c)
    BY <1>e, <2>0, <2>1, DoneLocal
  <2>2. CASE ~ Done(c)
    <3>1. expiry[c] \in Times
      BY <1>5, <1>b, <2>2 DEF Create
    <3>2. PICK t \in Times : Continue(c, "send", plan[c], t)
      BY <1>5, <1>c, <2>0, <2>2, <3>1 DEF Create
    <3> QED BY <1>d, <1>e, <2>0, <3>2, ContinueLocal DEF Labels, OnEvent
  <2> QED BY <2>1, <2>2
<1>6. ASSUME NEW x \in Processes, Load(x) PROVE LocalOK'
  <2>0. plan[x] \in Plans /\ pc[x] = "load"
    BY <1>6, <1>b DEF Load, ExpiryFromNow, At, Sane, OnPlan
  <2>1. PICK t \in Times, l \in {"send", "setExpiry"} :
            Continue(x, l, plan[x], t)
    <3>1. CASE expiresAt[plan[x]] # None
      BY <1>6, <1>c, <2>0, <3>1 DEF Load, ExpiryFromNow
    <3>2. CASE expiresAt[plan[x]] = None
      BY <1>6, <1>a, <1>c, <3>2 DEF Load, ExpiryFromNow
    <3> QED BY <3>1, <3>2
  <2> QED BY <1>d, <1>e, <2>0, <2>1, ContinueLocal DEF Labels, OnEvent
<1>7. ASSUME NEW x \in Processes, LoadRefused(x) PROVE LocalOK'
  BY <1>7, <1>e, ResetLocal DEF LoadRefused
<1>8. ASSUME NEW x \in Processes, SetExpiry(x) PROVE LocalOK'
  <2>0. plan[x] \in Plans /\ pc[x] = "setExpiry" /\ expiry[x] \in Times
    BY <1>8, <1>b DEF SetExpiry, At, Sane, OnPlan
  <2>1. PICK t \in Times : Continue(x, "send", plan[x], t)
    BY <1>8, <1>c, <2>0 DEF SetExpiry
  <2> QED BY <1>d, <1>e, <2>0, <2>1, ContinueLocal DEF Labels, OnEvent
<1>9. ASSUME NEW x \in Processes, Send(x) PROVE LocalOK'
  BY <1>9, <1>e, DoneLocal DEF Send, MiddlewareGrant, At
<1>10. ASSUME NEW w \in Workers, NEW e \in Events, Take(w, e) PROVE LocalOK'
  <2> DEFINE l == pc'[w]
             m == IF e \in ledger THEN "ack"
                  ELSE CASE e.type = "GRANTED"  -> "granted"
                         [] e.type = "EXPIRED"  -> "expired"
                         [] e.type = "CRITICAL" -> "findOther"
  <2>0. pc \in [Processes -> Labels] /\ plan \in [Processes -> Plans \cup {None}]
        /\ event \in [Processes -> Events \cup {None}]
        /\ expiry \in [Processes -> Times \cup {None}]
    BY <1>e DEF LocalOK
  <2>1. e.type \in Types /\ e.plan \in Plans /\ e # None
    BY PlansAssumption DEF Events
  <2>2. pc' = [pc EXCEPT ![w] = m]
    BY <1>10 DEF Take
  <2>3. /\ pc' = [pc EXCEPT ![w] = l]
        /\ plan' = [plan EXCEPT ![w] = e.plan]
        /\ event' = [event EXCEPT ![w] = e]
        /\ expiry' = expiry
        /\ l \in {"ack", "granted", "expired", "findOther"}
        /\ l = "granted" => e.type = "GRANTED"
    <3>1. l = m
      BY <2>0, <2>2
    <3>2. m \in {"ack", "granted", "expired", "findOther"}
          /\ (m = "granted" => e.type = "GRANTED")
      BY <2>1 DEF Types
    <3> HIDE DEF m
    <3> QED BY <1>10, <2>2, <3>1, <3>2 DEF Take
  <2>4. /\ pc' \in [Processes -> Labels]
        /\ plan' \in [Processes -> Plans \cup {None}]
        /\ event' \in [Processes -> Events \cup {None}]
    BY <2>0, <2>1, <2>3 DEF Labels
  <2>5. Sane(w)'
    BY <2>0, <2>1, <2>3, PlansAssumption DEF Sane
  <2>6. ASSUME NEW y \in Processes, y # w PROVE Sane(y)'
    BY <1>b, <2>0, <2>3, <2>6 DEF Sane
  <2> HIDE DEF l
  <2> QED BY <2>0, <2>3, <2>4, <2>5, <2>6 DEF LocalOK
<1>11. ASSUME NEW w \in Workers,
              ProcessCreditGranted(w) \/ ProcessPlanExpired(w)
       PROVE  LocalOK'
  BY <1>11, <1>e, DoneLocal
  DEF ProcessCreditGranted, GrantExpiry, ProcessPlanExpired, At
<1>12. ASSUME NEW w \in Workers, FindOther(w) PROVE LocalOK'
  <2>0. plan[w] \in Plans /\ pc[w] = "findOther"
    BY <1>12, <1>b DEF FindOther, At, Sane, OnPlan
  <2>1. CASE Done(w)
    BY <1>e, <2>0, <2>1, DoneLocal
  <2>2. CASE Goto(w, "findWaiting")
    <3>1. Continue(w, "findWaiting", plan[w], expiry[w])
      BY <2>2 DEF Goto
    <3> QED BY <1>b, <1>e, <2>0, <3>1, ContinueLocal, PlansAssumption
            DEF Labels
  <2> QED BY <1>12, <2>1, <2>2 DEF FindOther
<1>13. ASSUME NEW w \in Workers, FindWaiting(w) PROVE LocalOK'
  <2>0. pc[w] = "findWaiting"
    BY <1>13 DEF FindWaiting, At
  <2>1. CASE Done(w)
    BY <1>e, <2>0, <2>1, DoneLocal
  <2>2. ASSUME NEW p \in Plans, Continue(w, "load", p, None) PROVE LocalOK'
    BY <1>d, <1>e, <2>0, <2>2, ContinueLocal, PlansAssumption
    DEF Labels, OnEvent
  <2> QED BY <1>13, <2>1, <2>2 DEF FindWaiting
<1>14. ASSUME NEW w \in Workers, Record(w) PROVE LocalOK'
  <2>1. Continue(w, "ack", plan[w], expiry[w]) /\ pc[w] = "record"
    BY <1>14 DEF Record, Goto, At
  <2> QED BY <1>b, <1>e, <2>1, ContinueLocal DEF Labels, OnPlan
<1>15. ASSUME NEW w \in Workers, Ack(w) PROVE LocalOK'
  BY <1>15, <1>e, ResetLocal DEF Ack
<1>16. ASSUME NEW x \in Processes, Crash(x) PROVE LocalOK'
  BY <1>16, <1>e, ResetLocal DEF Crash
<1>17. ASSUME UNCHANGED local PROVE LocalOK'
  BY <1>17, <1>e DEF local, LocalOK, Sane
<1>18. ASSUME NEW p \in Plans, NEW n \in 1..Total,
              Charge(p, n) \/ SdkConsume(p, n)
       PROVE  LocalOK'
  BY <1>17, <1>18 DEF Charge, SdkConsume
<1>19. ASSUME NEW cmd \in commands, SdkGrant(cmd) PROVE LocalOK'
  BY <1>17, <1>19 DEF SdkGrant
<1>20. CASE Tick \/ UNCHANGED vars
  BY <1>17, <1>20 DEF Tick, vars
<1>21. ASSUME NEW p \in Plans, SdkExpire(p) PROVE LocalOK'
  BY <1>17, <1>21 DEF SdkExpire
<1> QED
  BY <1>1, <1>2, <1>3, <1>4, <1>5, <1>6, <1>7, <1>8, <1>9, <1>10, <1>11,
     <1>12, <1>13, <1>14, <1>15, <1>16, <1>18, <1>19, <1>20, <1>21
  DEF Next, Request, Handle, Activation, Sdk

-----------------------------------------------------------------------------
(* Type correctness: the documents, the wallets and the queues.            *)

\* The process of an action has a plan where the action needs one.
LEMMA PlanOfProcess ==
    ASSUME LocalOK, NEW x \in Processes, pc[x] \in OnPlan
    PROVE  plan[x] \in Plans
BY DEF LocalOK, Sane

\* No step stores, queues or publishes anything ill-typed.
LEMMA StoreStep ==
    ASSUME TypeInv, [Next]_vars
    PROVE  StoreOK'
<1> USE DEF Processes
<1>a. StoreOK /\ LocalOK
  BY DEF TypeInv
<1>b. \A x \in Processes :
          /\ pc[x] \in OnPlan => plan[x] \in Plans
          /\ expiry[x] \in Times \cup {None}
          /\ pc[x] \in {"setExpiry", "send"} => expiry[x] \in Times
          /\ event[x] \in Events \cup {None}
          /\ x \in Workers /\ pc[x] # "idle" => event[x] \in Events
  BY <1>a DEF LocalOK, Sane
<1>1. ASSUME UNCHANGED <<planVars, commands, sdkVars, queue, ledger, now>>,
             crashes' \in 0..MaxCrashes
      PROVE  StoreOK'
  BY <1>1, <1>a DEF StoreOK, planVars, sdkVars
<1>2. crashes \in 0..MaxCrashes
  BY <1>a DEF StoreOK
<1>3. ASSUME NEW c \in Callers, NEW p \in Plans,
             StartGrant(c, p) \/ StartActivate(c, p)
      PROVE  StoreOK'
  BY <1>1, <1>2, <1>3 DEF StartGrant, StartActivate
<1>4. ASSUME NEW c \in Callers, Lookup(c) \/ FindActive(c)
      PROVE  StoreOK'
  BY <1>1, <1>2, <1>4 DEF Lookup, FindActive, ExpiryFromNow
<1>5. ASSUME NEW c \in Callers, Create(c) PROVE StoreOK'
  <2>1. plan[c] \in Plans
    BY <1>5, <1>b DEF Create, At, OnPlan
  <2> QED BY <1>5, <1>a, <1>b, <2>1 DEF Create, StoreOK, sdkVars
<1>6. ASSUME NEW x \in Processes, Load(x) \/ LoadRefused(x)
      PROVE  StoreOK'
  BY <1>1, <1>2, <1>6 DEF Load, ExpiryFromNow, LoadRefused
<1>7. ASSUME NEW x \in Processes, SetExpiry(x) PROVE StoreOK'
  <2>1. plan[x] \in Plans /\ expiry[x] \in Times
    BY <1>7, <1>b DEF SetExpiry, At, OnPlan
  <2> QED BY <1>7, <1>a, <2>1 DEF SetExpiry, StoreOK, sdkVars
<1>8. ASSUME NEW x \in Processes, Send(x) PROVE StoreOK'
  <2>1. plan[x] \in Plans /\ expiry[x] \in Times
    BY <1>8, <1>b DEF Send, MiddlewareGrant, At, OnPlan
  <2> QED BY <1>8, <1>a, <2>1
          DEF Send, MiddlewareGrant, StoreOK, planVars, sdkVars
<1>9. ASSUME NEW w \in Workers, NEW e \in Events, Take(w, e)
      PROVE  StoreOK'
  BY <1>1, <1>2, <1>9 DEF Take
<1>10. ASSUME NEW w \in Workers, ProcessCreditGranted(w) PROVE StoreOK'
  <2>1. plan[w] \in Plans
    BY <1>10, <1>b DEF ProcessCreditGranted, GrantExpiry, At, OnPlan
  <2> QED BY <1>10, <1>a, <2>1
          DEF ProcessCreditGranted, GrantExpiry, StoreOK, sdkVars
<1>11. ASSUME NEW w \in Workers, ProcessPlanExpired(w) PROVE StoreOK'
  BY <1>11, <1>a DEF ProcessPlanExpired, StoreOK, sdkVars
<1>12. ASSUME NEW w \in Workers, FindOther(w) \/ FindWaiting(w)
       PROVE  StoreOK'
  BY <1>1, <1>2, <1>12 DEF FindOther, FindWaiting
<1>13. ASSUME NEW w \in Workers, Record(w) PROVE StoreOK'
  BY <1>13, <1>a, <1>b DEF Record, At, StoreOK, planVars, sdkVars
<1>14. ASSUME NEW w \in Workers, Ack(w) PROVE StoreOK'
  BY <1>14, <1>a DEF Ack, StoreOK, planVars, sdkVars
<1>15. ASSUME NEW x \in Processes, Crash(x) PROVE StoreOK'
  <2>1. crashes' \in 0..MaxCrashes
    BY <1>15, <1>2, PlansAssumption DEF Crash
  <2> QED BY <1>1, <1>15, <2>1 DEF Crash
<1>16. ASSUME NEW p \in Plans, NEW n \in 1..Total, Charge(p, n)
       PROVE  StoreOK'
  <2>1. used[p] + n \in 0..Total
    BY <1>16, <1>a, PlansAssumption DEF Charge, StoreOK
  <2>2. used' \in [Plans -> 0..Total]
    BY <1>16, <1>a, <2>1 DEF Charge, StoreOK
  <2> QED BY <1>16, <1>a, <2>2 DEF Charge, StoreOK, sdkVars
<1>17. ASSUME NEW p \in Plans, NEW n \in 1..Total, SdkConsume(p, n)
       PROVE  StoreOK'
  <2>1. consumed[p] + n \in 0..Total
    BY <1>17, <1>a, PlansAssumption DEF SdkConsume, StoreOK
  <2>2. consumed' \in [Plans -> 0..Total]
    BY <1>17, <1>a, <2>1 DEF SdkConsume, StoreOK
  <2>3. queue' \subseteq Events
    BY <1>17, <1>a DEF SdkConsume, StoreOK, Events, Types
  <2> QED BY <1>17, <1>a, <2>2, <2>3 DEF SdkConsume, StoreOK, planVars
<1>18. ASSUME NEW p \in Plans, SdkExpire(p) PROVE StoreOK'
  <2>1. queue' \subseteq Events
    BY <1>18, <1>a DEF SdkExpire, StoreOK, Events, Types
  <2> QED BY <1>18, <1>a, <2>1 DEF SdkExpire, StoreOK, planVars, sdkVars
<1>19. ASSUME NEW cmd \in commands, SdkGrant(cmd) PROVE StoreOK'
  <2>1. cmd.plan \in Plans /\ cmd.expires \in Times
    BY <1>a DEF StoreOK
  <2>2. queue' \subseteq Events
    BY <1>19, <1>a, <2>1 DEF SdkGrant, StoreOK, Events, Types
  <2> QED BY <1>19, <1>a, <2>1, <2>2 DEF SdkGrant, StoreOK, planVars
<1>20. CASE Tick
  <2>1. now' \in 0..MaxNow
    BY <1>20, <1>a, PlansAssumption DEF Tick, StoreOK
  <2> QED BY <1>20, <1>a, <2>1 DEF Tick, StoreOK, planVars, sdkVars
<1>21. CASE UNCHANGED vars
  BY <1>1, <1>2, <1>21 DEF vars
<1> QED
  BY <1>3, <1>4, <1>5, <1>6, <1>7, <1>8, <1>9, <1>10, <1>11, <1>12, <1>13,
     <1>14, <1>15, <1>16, <1>17, <1>18, <1>19, <1>20, <1>21
  DEF Next, Request, Handle, Activation, Sdk

\* A service starts without plans, commands and events.
LEMMA TypeInvInit ==
    ASSUME Init PROVE TypeInv
<1>1. StoreOK
  BY PlansAssumption DEF Init, StoreOK
<1>2. LocalOK
  BY DEF Init, LocalOK, Sane, Labels, OnPlan, OnEvent
<1> QED BY <1>1, <1>2 DEF TypeInv

\* TypeInv is inductive.
LEMMA TypeInvariant == Spec => []TypeInv
<1>1. TypeInv /\ [Next]_vars => TypeInv'
  BY LocalStep, StoreStep DEF TypeInv
<1> QED BY <1>1, TypeInvInit, PTL DEF Spec

\* Every document, wallet, queue and local variable keeps its type.
THEOREM TypeCorrect == Spec => []TypeOK
<1>1. TypeInv => TypeOK
  BY DEF TypeInv, StoreOK, LocalOK, TypeOK
<1> QED BY <1>1, TypeInvariant, PTL

-----------------------------------------------------------------------------
(* A plan is active only once the SDK granted it.                          *)

\* A confirmation, waiting or in the hands of a worker, is of a wallet that
\* exists: the SDK publishes it in the step that opens the wallet, and no
\* wallet is ever closed.
ConfirmationsGranted ==
    /\ \A e \in queue : e.type = "GRANTED" => wallet[e.plan] # None
    /\ \A w \in Workers :
          event[w] # None /\ event[w].type = "GRANTED"
              => wallet[event[w].plan] # None

GrantInv == ActiveIsGranted /\ ConfirmationsGranted

\* A step that touches no document, wallet or event, and hands no new event to
\* a worker, disturbs nothing.
LEMMA GrantFrame ==
    ASSUME GrantInv,
           UNCHANGED <<status, expiresAt, wallet>>,
           queue' \subseteq queue,
           \A w \in Workers : event'[w] \in {event[w], None}
    PROVE  GrantInv'
BY DEF GrantInv, ActiveIsGranted, ConfirmationsGranted

\* No await of a process gives a worker an event: only taking a job does.
LEMMA ControlEvents ==
    ASSUME TypeInv, NEW x \in Processes,
           \/ \E l, p, t : Continue(x, l, p, t)
           \/ Done(x) \/ Reset(x)
    PROVE  \A w \in Workers : event'[w] \in {event[w], None}
BY DEF TypeInv, LocalOK, Processes, Continue, Done, Reset

\* A plan becomes active by a confirmation only, and keeps its expiry while
\* it is active.
LEMMA GrantInvStep ==
    ASSUME GrantInv, TypeInv, [Next]_vars
    PROVE  GrantInv'
<1> USE DEF Processes
<1>a. StoreOK /\ LocalOK /\ ActiveIsGranted /\ ConfirmationsGranted
  BY DEF TypeInv, GrantInv
<1>b. \A x \in Processes :
          /\ pc[x] \in OnPlan => plan[x] \in Plans
          /\ x \in Workers /\ pc[x] # "idle" => event[x] \in Events
          /\ pc[x] = "granted" => /\ event[x].type = "GRANTED"
                                  /\ event[x].plan = plan[x]
          /\ pc[x] \in OnEvent => x \in Workers
  BY <1>a DEF LocalOK, Sane
<1>1. ASSUME NEW x \in Processes,
             UNCHANGED <<status, expiresAt, wallet>>,
             queue' \subseteq queue,
             (\E l, p, t : Continue(x, l, p, t)) \/ Done(x) \/ Reset(x)
      PROVE  GrantInv'
  BY <1>1, ControlEvents, GrantFrame
<1>2. ASSUME NEW c \in Callers, NEW p \in Plans,
             StartGrant(c, p) \/ StartActivate(c, p)
      PROVE  GrantInv'
  BY <1>1, <1>2 DEF StartGrant, StartActivate, planVars, sdkVars
<1>3. ASSUME NEW c \in Callers, Lookup(c) \/ FindActive(c)
      PROVE  GrantInv'
  BY <1>1, <1>3 DEF Lookup, FindActive, ExpiryFromNow, Goto, planVars, sdkVars
<1>4. ASSUME NEW c \in Callers, Create(c) PROVE GrantInv'
  <2>1. plan[c] \in Plans
    BY <1>4, <1>b DEF Create, At, OnPlan
  <2>2. ActiveIsGranted'
    BY <1>4, <1>a, <2>1 DEF Create, ActiveIsGranted, StoreOK, sdkVars
  <2>3. \A w \in Workers : event'[w] \in {event[w], None}
    BY <1>4, ControlEvents DEF Create
  <2>4. ConfirmationsGranted'
    BY <1>4, <1>a, <2>3 DEF Create, ConfirmationsGranted, sdkVars
  <2> QED BY <2>2, <2>4 DEF GrantInv
<1>5. ASSUME NEW x \in Processes, Load(x) \/ LoadRefused(x)
      PROVE  GrantInv'
  BY <1>1, <1>5 DEF Load, ExpiryFromNow, LoadRefused, planVars, sdkVars
<1>6. ASSUME NEW x \in Processes, SetExpiry(x) PROVE GrantInv'
  <2>1. plan[x] \in Plans
    BY <1>6, <1>b DEF SetExpiry, At, OnPlan
  <2>2. \A p \in Plans : status[p] = "Active" => expiresAt[p] # None
    BY <1>a DEF ActiveIsGranted
  <2>3. ActiveIsGranted'
    BY <1>6, <1>a, <2>1, <2>2 DEF SetExpiry, ActiveIsGranted, StoreOK, sdkVars
  <2>4. \A w \in Workers : event'[w] \in {event[w], None}
    BY <1>6, ControlEvents DEF SetExpiry
  <2>5. ConfirmationsGranted'
    BY <1>6, <1>a, <2>4 DEF SetExpiry, ConfirmationsGranted, sdkVars
  <2> QED BY <2>3, <2>5 DEF GrantInv
<1>7. ASSUME NEW x \in Processes, Send(x) PROVE GrantInv'
  BY <1>1, <1>7 DEF Send, MiddlewareGrant, planVars, sdkVars
<1>8. ASSUME NEW w \in Workers, NEW e \in Events, Take(w, e)
      PROVE  GrantInv'
  <2>1. ActiveIsGranted'
    BY <1>8, <1>a DEF Take, ActiveIsGranted, planVars, sdkVars
  <2>2. \A v \in Workers : event'[v] \in {event[v], e}
    BY <1>8, <1>a DEF Take, LocalOK
  <2>3. e \in queue /\ UNCHANGED <<queue, wallet>>
    BY <1>8 DEF Take, sdkVars
  <2>4. ConfirmationsGranted'
    BY <1>a, <2>2, <2>3 DEF ConfirmationsGranted
  <2> QED BY <2>1, <2>4 DEF GrantInv
<1>9. ASSUME NEW w \in Workers, ProcessCreditGranted(w) PROVE GrantInv'
  <2>1. /\ plan[w] \in Plans
        /\ event[w] \in Events
        /\ event[w].type = "GRANTED"
        /\ event[w].plan = plan[w]
    BY <1>9, <1>b DEF ProcessCreditGranted, GrantExpiry, At, OnPlan
  <2>2. wallet[plan[w]] # None
    BY <1>a, <2>1, PlansAssumption DEF ConfirmationsGranted
  <2>3. ActiveIsGranted'
    BY <1>9, <1>a, <2>1, <2>2
    DEF ProcessCreditGranted, GrantExpiry, ActiveIsGranted, StoreOK, sdkVars
  <2>4. \A v \in Workers : event'[v] \in {event[v], None}
    BY <1>9, ControlEvents DEF ProcessCreditGranted, GrantExpiry
  <2>5. ConfirmationsGranted'
    BY <1>9, <1>a, <2>4
    DEF ProcessCreditGranted, GrantExpiry, ConfirmationsGranted, sdkVars
  <2> QED BY <2>3, <2>5 DEF GrantInv
<1>10. ASSUME NEW w \in Workers, ProcessPlanExpired(w) PROVE GrantInv'
  <2>1. ActiveIsGranted'
    BY <1>10, <1>a DEF ProcessPlanExpired, ActiveIsGranted, StoreOK, sdkVars
  <2>2. \A v \in Workers : event'[v] \in {event[v], None}
    BY <1>10, ControlEvents DEF ProcessPlanExpired
  <2>3. ConfirmationsGranted'
    BY <1>10, <1>a, <2>2 DEF ProcessPlanExpired, ConfirmationsGranted, sdkVars
  <2> QED BY <2>1, <2>3 DEF GrantInv
<1>11. ASSUME NEW w \in Workers, FindOther(w) \/ FindWaiting(w)
       PROVE  GrantInv'
  BY <1>1, <1>11 DEF FindOther, FindWaiting, Goto, planVars, sdkVars
<1>12. ASSUME NEW w \in Workers, Record(w) \/ Ack(w) PROVE GrantInv'
  BY <1>1, <1>12 DEF Record, Ack, Goto, planVars, sdkVars
<1>13. ASSUME NEW x \in Processes, Crash(x) PROVE GrantInv'
  BY <1>1, <1>13 DEF Crash, planVars, sdkVars
<1>14. ASSUME NEW p \in Plans, NEW n \in 1..Total, Charge(p, n)
       PROVE  GrantInv'
  BY <1>14, <1>a
  DEF Charge, GrantInv, ActiveIsGranted, ConfirmationsGranted, StoreOK,
      sdkVars, local
<1>15. ASSUME NEW p \in Plans, NEW n \in 1..Total, SdkConsume(p, n)
       PROVE  GrantInv'
  <2>1. /\ UNCHANGED <<status, expiresAt, wallet, event>>
        /\ \A e \in queue' : e \in queue \/ e.type = "CRITICAL"
    BY <1>15 DEF SdkConsume, planVars, local
  <2> QED BY <1>a, <2>1 DEF GrantInv, ActiveIsGranted, ConfirmationsGranted
<1>16. ASSUME NEW p \in Plans, SdkExpire(p) PROVE GrantInv'
  <2>1. /\ UNCHANGED <<status, expiresAt, wallet, event>>
        /\ \A e \in queue' : e \in queue \/ e.type = "EXPIRED"
    BY <1>16 DEF SdkExpire, planVars, sdkVars, local
  <2> QED BY <1>a, <2>1 DEF GrantInv, ActiveIsGranted, ConfirmationsGranted
<1>17. ASSUME NEW cmd \in commands, SdkGrant(cmd) PROVE GrantInv'
  <2>1. /\ cmd.plan \in Plans
        /\ cmd.expires # None
        /\ wallet[cmd.plan] = None
        /\ wallet' = [wallet EXCEPT ![cmd.plan] = cmd.expires]
        /\ wallet \in [Plans -> Times \cup {None}]
    BY <1>17, <1>a, PlansAssumption DEF SdkGrant, StoreOK, Times
  <2>2. ActiveIsGranted'
    BY <1>17, <1>a, <2>1 DEF SdkGrant, ActiveIsGranted, planVars
  <2>3. /\ \A p \in Plans : wallet[p] # None => wallet'[p] # None
        /\ wallet'[cmd.plan] # None
    BY <2>1
  <2>4. /\ event' = event
        /\ queue' = queue \cup {[type |-> "GRANTED", plan |-> cmd.plan]}
        /\ queue \subseteq Events
        /\ \A w \in Workers : event[w] \in Events \cup {None}
    BY <1>17, <1>a DEF SdkGrant, StoreOK, LocalOK, local
  <2>5. \A e \in Events : e.plan \in Plans
    BY DEF Events
  <2>6. ConfirmationsGranted'
    BY <1>a, <2>3, <2>4, <2>5 DEF ConfirmationsGranted
  <2> QED BY <2>2, <2>6 DEF GrantInv
<1>18. CASE Tick \/ UNCHANGED vars
  BY <1>18, <1>a
  DEF Tick, vars, GrantInv, ActiveIsGranted, ConfirmationsGranted, planVars,
      sdkVars, local
<1> QED
  BY <1>2, <1>3, <1>4, <1>5, <1>6, <1>7, <1>8, <1>9, <1>10, <1>11, <1>12,
     <1>13, <1>14, <1>15, <1>16, <1>17, <1>18
  DEF Next, Request, Handle, Activation, Sdk

\* GrantInv holds from the start and no step disturbs it.
LEMMA GrantInvariant == Spec => []GrantInv
<1>1. Init => GrantInv
  BY DEF Init, GrantInv, ActiveIsGranted, ConfirmationsGranted, Processes
<1>2. GrantInv /\ TypeInv /\ [Next]_vars => GrantInv'
  BY GrantInvStep
<1> QED BY <1>1, <1>2, TypeInvariant, PTL DEF Spec

\* ActiveIsGranted, whatever requests, retries, critical balances and crashes
\* there are: an active plan has a wallet at the SDK, and one expiry.
THEOREM ActiveGranted == Spec => []ActiveIsGranted
<1>1. GrantInv => ActiveIsGranted
  BY DEF GrantInv
<1> QED BY <1>1, GrantInvariant, PTL

-----------------------------------------------------------------------------
(* The clock of a plan.                                                    *)

\* Two requests that grant one plan at once may both find that it is to be
\* created, one of them while another plan is usable, the other not.  If the
\* second comes to a plan created without an expiry, it sends one of its own
\* that no document holds.  This is the one way in which the commands of a plan
\* may disagree.
CreationsAgree ==
    \A c \in Callers :
        pc[c] = "create" /\ expiry[c] # None /\ status[plan[c]] # "none"
            => expiresAt[plan[c]] # None

\* A plan that is about to be activated is there.
PlanThere ==
    \A x \in Processes :
        pc[x] \in {"load", "setExpiry", "send"} => status[plan[x]] # "none"

\* Everything that was told an expiry was told the one in the document.
ExpiryTold ==
    /\ \A cmd \in commands : expiresAt[cmd.plan] = cmd.expires
    /\ \A x \in Processes :
          pc[x] = "send" => expiresAt[plan[x]] = expiry[x]
    /\ \A p \in Plans : wallet[p] # None => expiresAt[p] = wallet[p]

\* A plan that is not there has no expiry, and none is consumed without a
\* wallet.
NotThere ==
    \A p \in Plans : /\ status[p] = "none" => expiresAt[p] = None
                     /\ consumed[p] > 0 => wallet[p] # None

ClockInv == PlanThere /\ ExpiryTold /\ NotThere

\* What a step does to expiries that are set.
ClockKept ==
    \A p \in Plans : expiresAt[p] # None => expiresAt'[p] = expiresAt[p]

\* Steps that leave the documents, the commands and the SDK alone, by a
\* process that keeps what it is about to do or has something sound to do.
LEMMA ClockFrame ==
    ASSUME ClockInv, TypeInv, NEW x \in Processes,
           UNCHANGED <<status, expiresAt, commands, wallet, consumed>>,
           \A y \in Processes \ {x} : /\ pc'[y] = pc[y]
                                      /\ plan'[y] = plan[y]
                                      /\ expiry'[y] = expiry[y],
           pc'[x] \in {"load", "setExpiry", "send"} =>
               status[plan'[x]] # "none",
           pc'[x] = "send" => expiresAt[plan'[x]] = expiry'[x]
    PROVE  ClockInv' /\ ClockKept
<1>1. PlanThere'
  BY DEF ClockInv, PlanThere
<1>2. ExpiryTold'
  BY DEF ClockInv, ExpiryTold
<1> QED BY <1>1, <1>2 DEF ClockInv, NotThere, ClockKept

\* Steps of the SDK, of time and of charging leave the processes alone.
LEMMA ClockOutside ==
    ASSUME ClockInv, UNCHANGED <<expiresAt, commands, local>>,
           \A p \in Plans : status[p] = "none" <=> status'[p] = "none",
           TypeInv,
           \A p \in Plans : wallet'[p] # None => expiresAt[p] = wallet'[p],
           \A p \in Plans : consumed'[p] > 0 => wallet'[p] # None
    PROVE  ClockInv' /\ ClockKept
<1>1. \A x \in Processes :
          pc[x] \in OnPlan => plan[x] \in Plans
  BY DEF TypeInv, LocalOK, Sane
<1>2. PlanThere'
  BY <1>1 DEF ClockInv, PlanThere, local, OnPlan
<1>3. ExpiryTold'
  BY DEF ClockInv, ExpiryTold, local
<1>4. NotThere'
  BY DEF ClockInv, NotThere
<1> QED BY <1>2, <1>3, <1>4 DEF ClockInv, ClockKept

\* What an await changes of the locals of other processes.
LEMMA ControlLocals ==
    ASSUME TypeInv, NEW x \in Processes
    PROVE  /\ \A l, p, t : Continue(x, l, p, t) =>
                  /\ pc'[x] = l /\ plan'[x] = p /\ expiry'[x] = t
                  /\ \A y \in Processes \ {x} : /\ pc'[y] = pc[y]
                                                /\ plan'[y] = plan[y]
                                                /\ expiry'[y] = expiry[y]
           /\ Done(x) \/ Reset(x) =>
                  /\ pc'[x] \in {"record", "idle"}
                  /\ \A y \in Processes \ {x} : /\ pc'[y] = pc[y]
                                                /\ plan'[y] = plan[y]
                                                /\ expiry'[y] = expiry[y]
BY DEF TypeInv, LocalOK, Continue, Done, Reset

\* An activation sets an expiry only where there is none.
LEMMA SetExpiryClock ==
    ASSUME ClockInv, TypeInv, NEW x \in Processes, SetExpiry(x)
    PROVE  ClockInv' /\ ClockKept
<1> DEFINE p == plan[x]
<1>1. StoreOK /\ LocalOK /\ p \in Plans /\ pc[x] = "setExpiry"
  BY PlanOfProcess DEF TypeInv, SetExpiry, At, OnPlan
<1>2. PICK t : /\ expiresAt[p] # None => t = expiresAt[p]
               /\ expiresAt' = [expiresAt EXCEPT ![p] = t]
               /\ Continue(x, "send", p, t)
  BY DEF SetExpiry
<1>3. UNCHANGED <<status, commands, wallet, consumed>>
  BY DEF SetExpiry, sdkVars
<1>4. /\ \A y \in Processes \ {x} : /\ pc'[y] = pc[y]
                                    /\ plan'[y] = plan[y]
                                    /\ expiry'[y] = expiry[y]
      /\ pc'[x] = "send" /\ plan'[x] = p /\ expiry'[x] = t
  BY <1>2, ControlLocals
<1>5. status[p] # "none"
  BY <1>1 DEF ClockInv, PlanThere
<1> HIDE DEF p
<1>6. \A q \in Plans : /\ expiresAt[q] # None => expiresAt'[q] = expiresAt[q]
                       /\ q # p => expiresAt'[q] = expiresAt[q]
                       /\ q = p => expiresAt'[q] = t
  BY <1>1, <1>2 DEF StoreOK
<1>7. PlanThere'
  BY <1>3, <1>4, <1>5 DEF ClockInv, PlanThere
<1>8. \A y \in Processes : pc[y] = "send" =>
          plan[y] \in Plans /\ expiry[y] # None
  BY <1>1 DEF LocalOK, Sane, OnPlan
<1>9. ExpiryTold'
  <2>1. ASSUME NEW cmd \in commands' PROVE expiresAt'[cmd.plan] = cmd.expires
    <3>1. cmd.plan \in Plans /\ cmd.expires # None /\ cmd \in commands
      BY <1>1, <1>3, <2>1, PlansAssumption DEF StoreOK, Times
    <3> QED BY <1>6, <3>1 DEF ClockInv, ExpiryTold
  <2>2. ASSUME NEW y \in Processes, pc'[y] = "send"
        PROVE  expiresAt'[plan'[y]] = expiry'[y]
    <3>1. CASE y = x
      BY <1>1, <1>4, <1>6, <3>1
    <3>2. CASE y # x
      BY <1>4, <1>6, <1>8, <2>2, <3>2 DEF ClockInv, ExpiryTold
    <3> QED BY <3>1, <3>2
  <2>3. \A q \in Plans : wallet'[q] # None => expiresAt'[q] = wallet'[q]
    BY <1>3, <1>6 DEF ClockInv, ExpiryTold
  <2> QED BY <2>1, <2>2, <2>3 DEF ExpiryTold
<1>10. NotThere'
  BY <1>3, <1>5, <1>6 DEF ClockInv, NotThere
<1> QED BY <1>6, <1>7, <1>9, <1>10 DEF ClockInv, ClockKept

\* The confirmation carries the expiry the document already has.
LEMMA GrantedClock ==
    ASSUME ClockInv, TypeInv, GrantInv, NEW w \in Workers,
           ProcessCreditGranted(w)
    PROVE  ClockInv' /\ ClockKept
<1> USE DEF Processes
<1> DEFINE p == plan[w]
<1>1. /\ StoreOK /\ LocalOK /\ p \in Plans /\ pc[w] = "granted"
      /\ event[w] \in Events
      /\ event[w].type = "GRANTED" /\ event[w].plan = p
  <2>1. StoreOK /\ LocalOK /\ pc[w] = "granted" /\ Sane(w)
    BY DEF TypeInv, LocalOK, ProcessCreditGranted, At
  <2> QED BY <2>1 DEF LocalOK, Sane, OnPlan
<1>2. wallet[p] # None
  BY <1>1, PlansAssumption DEF GrantInv, ConfirmationsGranted
<1>3. expiresAt[p] = wallet[p]
  BY <1>1, <1>2 DEF ClockInv, ExpiryTold
<1>4. /\ Done(w) /\ UNCHANGED <<commands, wallet, consumed>>
      /\ \/ /\ status[p] = "Inactive"
            /\ status' = [status EXCEPT ![p] = "Active"]
            /\ expiresAt' = [expiresAt EXCEPT ![p] = expiresAt[p]]
         \/ UNCHANGED <<status, expiresAt>>
  BY <1>3 DEF ProcessCreditGranted, GrantExpiry, sdkVars
<1>5. expiresAt' = expiresAt
  BY <1>1, <1>4 DEF StoreOK
<1>6. \A q \in Plans : status'[q] = "none" <=> status[q] = "none"
  BY <1>1, <1>4 DEF StoreOK
<1>7. /\ \A y \in Processes \ {w} : /\ pc'[y] = pc[y]
                                    /\ plan'[y] = plan[y]
                                    /\ expiry'[y] = expiry[y]
      /\ pc'[w] \in {"record", "idle"}
  BY <1>4, ControlLocals
<1>8. \A y \in Processes : pc[y] \in OnPlan => plan[y] \in Plans
  BY <1>1 DEF LocalOK, Sane
<1> HIDE DEF p
<1>9. PlanThere'
  BY <1>6, <1>7, <1>8 DEF ClockInv, PlanThere, OnPlan
<1>10. ExpiryTold'
  BY <1>4, <1>5, <1>7 DEF ClockInv, ExpiryTold
<1>11. NotThere'
  BY <1>4, <1>5, <1>6 DEF ClockInv, NotThere
<1> QED BY <1>5, <1>9, <1>10, <1>11 DEF ClockInv, ClockKept

\* What is left alone by the steps of a request or handler that only read.
Quiet == UNCHANGED <<status, expiresAt, commands, wallet, consumed>>

\* A process that ends, or is done with its event, is about to do nothing.
LEMMA DoneClock ==
    ASSUME ClockInv, TypeInv, NEW x \in Processes, Quiet, Done(x) \/ Reset(x)
    PROVE  ClockInv' /\ ClockKept
<1>1. /\ pc'[x] \in {"record", "idle"}
      /\ \A y \in Processes \ {x} : /\ pc'[y] = pc[y]
                                    /\ plan'[y] = plan[y]
                                    /\ expiry'[y] = expiry[y]
  BY ControlLocals
<1> QED BY <1>1, ClockFrame DEF Quiet

\* A process that goes on to another await with what it needs there.
LEMMA ContinueClock ==
    ASSUME ClockInv, TypeInv, NEW x \in Processes, Quiet,
           NEW l, NEW p, NEW t, Continue(x, l, p, t),
           l \in {"load", "setExpiry", "send"} => status[p] # "none",
           l = "send" => expiresAt[p] = t
    PROVE  ClockInv' /\ ClockKept
<1>1. /\ pc'[x] = l /\ plan'[x] = p /\ expiry'[x] = t
      /\ \A y \in Processes \ {x} : /\ pc'[y] = pc[y]
                                    /\ plan'[y] = plan[y]
                                    /\ expiry'[y] = expiry[y]
  BY ControlLocals
<1> QED BY <1>1, ClockFrame DEF Quiet

\* The creation of a plan that is not there yet.
LEMMA NewClock ==
    ASSUME ClockInv, TypeInv, NEW c \in Callers, Create(c),
           status[plan[c]] = "none"
    PROVE  ClockInv' /\ ClockKept
<1> USE DEF Processes
<1> DEFINE p == plan[c]
<1>1. StoreOK /\ LocalOK /\ p \in Plans /\ pc[c] = "create"
  BY PlanOfProcess DEF TypeInv, Create, At, OnPlan
<1>2. status[p] = "none" /\ expiresAt[p] = None
  BY <1>1 DEF ClockInv, NotThere
<1>3. /\ status' = [status EXCEPT ![p] = "Inactive"]
      /\ expiresAt' = [expiresAt EXCEPT ![p] = expiry[c]]
      /\ Continue(c, "send", p, expiry[c]) \/ Done(c)
      /\ UNCHANGED <<commands, wallet, consumed>>
  BY <1>2 DEF Create, sdkVars
<1>4. /\ \A y \in Processes \ {c} : /\ pc'[y] = pc[y]
                                    /\ plan'[y] = plan[y]
                                    /\ expiry'[y] = expiry[y]
      /\ \/ pc'[c] = "send" /\ plan'[c] = p /\ expiry'[c] = expiry[c]
         \/ pc'[c] \in {"record", "idle"}
  BY <1>3, ControlLocals
<1> HIDE DEF p
<1>5. \A q \in Plans : /\ q # p => /\ status'[q] = status[q]
                                   /\ expiresAt'[q] = expiresAt[q]
                       /\ q = p => /\ status'[q] = "Inactive"
                                   /\ expiresAt'[q] = expiry[c]
  BY <1>1, <1>3 DEF StoreOK
<1>6. \A y \in Processes : pc[y] \in OnPlan => plan[y] \in Plans
  BY <1>1 DEF LocalOK, Sane
<1>7. PlanThere'
  BY <1>1, <1>4, <1>5, <1>6 DEF ClockInv, PlanThere, OnPlan
<1>8. ASSUME NEW cmd \in commands PROVE cmd.plan \in Plans /\ cmd.plan # p
  <2>1. cmd.plan \in Plans /\ cmd.expires # None
    BY <1>1, PlansAssumption DEF StoreOK, Times
  <2> QED BY <1>2, <2>1 DEF ClockInv, ExpiryTold
<1>9. ASSUME NEW y \in Processes, pc[y] = "send" PROVE plan[y] # p
  BY <1>2, <1>9 DEF ClockInv, PlanThere
<1>10. wallet[p] = None
  BY <1>1, <1>2 DEF ClockInv, ExpiryTold
<1>11. ExpiryTold'
  <2>1. \A cmd \in commands' : expiresAt'[cmd.plan] = cmd.expires
    BY <1>3, <1>5, <1>8 DEF ClockInv, ExpiryTold
  <2>2. ASSUME NEW y \in Processes, pc'[y] = "send"
        PROVE  expiresAt'[plan'[y]] = expiry'[y]
    <3>1. CASE y = c
      BY <1>1, <1>4, <1>5, <2>2, <3>1
    <3>2. CASE y # c
      BY <1>4, <1>5, <1>6, <1>9, <2>2, <3>2
      DEF ClockInv, ExpiryTold, OnPlan
    <3> QED BY <3>1, <3>2
  <2>3. \A q \in Plans : wallet'[q] # None => expiresAt'[q] = wallet'[q]
    BY <1>3, <1>5, <1>10 DEF ClockInv, ExpiryTold
  <2> QED BY <2>1, <2>2, <2>3 DEF ExpiryTold
<1>12. NotThere'
  BY <1>3, <1>5 DEF ClockInv, NotThere
<1>13. ClockKept
  BY <1>2, <1>5 DEF ClockKept
<1> QED BY <1>7, <1>11, <1>12, <1>13 DEF ClockInv

\* The document that is there wins, and its expiry is sent.
LEMMA CreateClock ==
    ASSUME ClockInv, TypeInv, CreationsAgree, NEW c \in Callers, Create(c)
    PROVE  ClockInv' /\ ClockKept
<1> USE DEF Processes
<1> DEFINE p == plan[c]
<1>1. StoreOK /\ LocalOK /\ p \in Plans /\ pc[c] = "create"
  BY PlanOfProcess DEF TypeInv, Create, At, OnPlan
<1>2. CASE status[p] = "none"
  BY <1>2, NewClock
<1>3. CASE status[p] # "none"
  <2>1. expiry[c] # None => expiresAt[p] # None
    BY <1>1, <1>3 DEF CreationsAgree
  <2>2. /\ expiresAt' = [expiresAt EXCEPT ![p] = expiresAt[p]]
        /\ UNCHANGED <<status, commands, wallet, consumed>>
        /\ Continue(c, "send", p, expiresAt[p]) \/ Done(c)
    BY <1>3, <2>1 DEF Create, sdkVars
  <2>3. Quiet
    BY <1>1, <2>2 DEF Quiet, StoreOK
  <2>4. CASE Continue(c, "send", p, expiresAt[p])
    BY <1>3, <2>3, <2>4, ContinueClock
  <2>5. CASE Done(c)
    BY <2>3, <2>5, DoneClock
  <2> QED BY <2>2, <2>4, <2>5
<1> QED BY <1>2, <1>3

\* The awaits that read documents, take a job or end it.
LEMMA ReadingClock ==
    ASSUME ClockInv, TypeInv, NEW x \in Processes,
           \/ x \in Callers /\ \E p \in Plans : StartGrant(x, p)
           \/ x \in Callers /\ \E p \in Plans : StartActivate(x, p)
           \/ x \in Callers /\ (Lookup(x) \/ FindActive(x))
           \/ Load(x) \/ LoadRefused(x) \/ Crash(x)
           \/ x \in Workers /\ (FindOther(x) \/ FindWaiting(x))
           \/ x \in Workers /\ (Record(x) \/ Ack(x))
    PROVE  ClockInv' /\ ClockKept
<1>a. Quiet
  BY DEF Quiet, StartGrant, StartActivate, Lookup, FindActive, Load,
         LoadRefused, Crash, FindOther, FindWaiting, Record, Ack, planVars,
         sdkVars
<1>b. ASSUME Done(x) \/ Reset(x) PROVE ClockInv' /\ ClockKept
  BY <1>a, <1>b, DoneClock
<1>c. ASSUME NEW l, NEW p, NEW t, Continue(x, l, p, t),
             l \notin {"load", "setExpiry", "send"}
      PROVE  ClockInv' /\ ClockKept
  BY <1>a, <1>c, ContinueClock
<1>1. ASSUME NEW p \in Plans, StartGrant(x, p) PROVE ClockInv' /\ ClockKept
  BY <1>1, <1>c DEF StartGrant
<1>2. ASSUME NEW p \in Plans, StartActivate(x, p)
      PROVE  ClockInv' /\ ClockKept
  <2>1. Continue(x, "load", p, None) /\ status[p] # "none"
    BY <1>2 DEF StartActivate
  <2> QED BY <1>a, <2>1, ContinueClock
<1>3. ASSUME x \in Callers, Lookup(x) PROVE ClockInv' /\ ClockKept
  <2>1. \/ Continue(x, "findActive", plan[x], expiry[x])
        \/ Continue(x, "send", plan[x], expiresAt[plan[x]])
              /\ status[plan[x]] # "none"
        \/ Done(x)
    BY <1>3 DEF Lookup, Goto
  <2>2. CASE Continue(x, "send", plan[x], expiresAt[plan[x]])
                /\ status[plan[x]] # "none"
    BY <1>a, <2>2, ContinueClock
  <2> QED BY <1>b, <1>c, <2>1, <2>2
<1>4. ASSUME x \in Callers, FindActive(x) PROVE ClockInv' /\ ClockKept
  <2>1. PICK t : Continue(x, "create", plan[x], t)
    BY <1>4 DEF FindActive
  <2> QED BY <1>c, <2>1
<1>5. ASSUME Load(x) PROVE ClockInv' /\ ClockKept
  <2>1. status[plan[x]] # "none"
    BY <1>5 DEF Load, At, ClockInv, PlanThere
  <2>2. \/ Continue(x, "send", plan[x], expiresAt[plan[x]])
        \/ Continue(x, "setExpiry", plan[x], ExpiryFromNow)
    BY <1>5 DEF Load
  <2>3. CASE Continue(x, "send", plan[x], expiresAt[plan[x]])
    BY <1>a, <2>1, <2>3, ContinueClock
  <2>4. CASE Continue(x, "setExpiry", plan[x], ExpiryFromNow)
    BY <1>a, <2>1, <2>4, ContinueClock
  <2> QED BY <2>2, <2>3, <2>4
<1>6. ASSUME LoadRefused(x) \/ Crash(x) PROVE ClockInv' /\ ClockKept
  BY <1>6, <1>b DEF LoadRefused, Crash
<1>7. ASSUME FindOther(x) PROVE ClockInv' /\ ClockKept
  BY <1>7, <1>b, <1>c DEF FindOther, Goto
<1>8. ASSUME FindWaiting(x) PROVE ClockInv' /\ ClockKept
  <2>1. Done(x) \/ \E p \in Plans : Waiting(p) /\ Continue(x, "load", p, None)
    BY <1>8 DEF FindWaiting
  <2>2. ASSUME NEW p \in Plans, Waiting(p), Continue(x, "load", p, None)
        PROVE  ClockInv' /\ ClockKept
    BY <1>a, <2>2, ContinueClock DEF Waiting
  <2> QED BY <1>b, <2>1, <2>2
<1>9. ASSUME Record(x) \/ Ack(x) PROVE ClockInv' /\ ClockKept
  BY <1>9, <1>b, <1>c DEF Record, Ack, Goto
<1> QED BY <1>1, <1>2, <1>3, <1>4, <1>5, <1>6, <1>7, <1>8, <1>9

\* Taking a job sets the worker on one of the awaits of its event.
LEMMA TakeClock ==
    ASSUME ClockInv, TypeInv, NEW w \in Workers, NEW e \in Events, Take(w, e)
    PROVE  ClockInv' /\ ClockKept
<1>1. w \in Processes /\ LocalOK
  BY DEF Processes, TypeInv
<1>2. e.type \in {"GRANTED", "EXPIRED", "CRITICAL"}
  BY DEF Events, Types
<1>3. /\ pc'[w] \in {"ack", "granted", "expired", "findOther"}
      /\ \A y \in Processes \ {w} : /\ pc'[y] = pc[y]
                                    /\ plan'[y] = plan[y]
                                    /\ expiry'[y] = expiry[y]
      /\ UNCHANGED <<status, expiresAt, commands, wallet, consumed>>
  BY <1>1, <1>2 DEF Take, LocalOK, planVars, sdkVars
<1> QED BY <1>1, <1>3, ClockFrame

\* A command carries the expiry of the document.
LEMMA SendClock ==
    ASSUME ClockInv, TypeInv, NEW x \in Processes, Send(x)
    PROVE  ClockInv' /\ ClockKept
<1>1. /\ pc[x] = "send" /\ Done(x)
      /\ UNCHANGED <<status, expiresAt, wallet, consumed>>
      /\ commands' = commands \cup {[plan |-> plan[x], expires |-> expiry[x]]}
  BY DEF Send, At, MiddlewareGrant, planVars, sdkVars
<1>2. /\ pc'[x] \in {"record", "idle"}
      /\ \A y \in Processes \ {x} : /\ pc'[y] = pc[y]
                                    /\ plan'[y] = plan[y]
                                    /\ expiry'[y] = expiry[y]
  BY <1>1, ControlLocals
<1>3. PlanThere'
  BY <1>1, <1>2 DEF ClockInv, PlanThere
<1>4. expiresAt[plan[x]] = expiry[x]
  BY <1>1 DEF ClockInv, ExpiryTold
<1>5. ExpiryTold'
  BY <1>1, <1>2, <1>4 DEF ClockInv, ExpiryTold
<1>6. NotThere'
  BY <1>1 DEF ClockInv, NotThere
<1> QED BY <1>1, <1>3, <1>5, <1>6 DEF ClockInv, ClockKept

\* An expired plan stays where it is.
LEMMA ExpiredClock ==
    ASSUME ClockInv, TypeInv, NEW w \in Workers, ProcessPlanExpired(w)
    PROVE  ClockInv' /\ ClockKept
<1>1. w \in Processes /\ StoreOK /\ LocalOK
  BY DEF Processes, TypeInv
<1>2. /\ Done(w) /\ UNCHANGED <<expiresAt, commands, wallet, consumed>>
      /\ \/ /\ status[plan[w]] = "Active"
            /\ status' = [status EXCEPT ![plan[w]] = "Inactive"]
         \/ UNCHANGED status
  BY DEF ProcessPlanExpired, sdkVars
<1>3. \A q \in Plans : status'[q] = "none" <=> status[q] = "none"
  BY <1>1, <1>2 DEF StoreOK
<1>4. /\ pc'[w] \in {"record", "idle"}
      /\ \A y \in Processes \ {w} : /\ pc'[y] = pc[y]
                                    /\ plan'[y] = plan[y]
                                    /\ expiry'[y] = expiry[y]
  BY <1>1, <1>2, ControlLocals
<1>5. \A y \in Processes : pc[y] \in OnPlan => plan[y] \in Plans
  BY <1>1 DEF LocalOK, Sane
<1>6. PlanThere'
  BY <1>3, <1>4, <1>5 DEF ClockInv, PlanThere, OnPlan
<1>7. ExpiryTold'
  BY <1>2, <1>4 DEF ClockInv, ExpiryTold
<1>8. NotThere'
  BY <1>2, <1>3 DEF ClockInv, NotThere
<1> QED BY <1>2, <1>6, <1>7, <1>8 DEF ClockInv, ClockKept

\* What was consumed was granted: a plan that is charged is there.
LEMMA ChargedThere ==
    ASSUME ClockInv, TypeInv, NEW p \in Plans, NEW n \in 1..Total, Charge(p, n)
    PROVE  status[p] # "none"
<1>1. StoreOK /\ used[p] + n <= consumed[p]
  BY DEF TypeInv, Charge
<1>2. consumed[p] > 0
  BY <1>1, PlansAssumption DEF StoreOK
<1>3. wallet[p] # None /\ expiresAt[p] = wallet[p]
  BY <1>2 DEF ClockInv, NotThere, ExpiryTold
<1> QED BY <1>3 DEF ClockInv, NotThere

\* Charging a plan changes none of its expiries.
LEMMA ChargeClock ==
    ASSUME ClockInv, TypeInv, NEW p \in Plans, NEW n \in 1..Total, Charge(p, n)
    PROVE  ClockInv' /\ ClockKept
<1>1. /\ StoreOK
      /\ UNCHANGED <<expiresAt, commands, wallet, consumed, local>>
      /\ status' = [status EXCEPT ![p] = "Inactive"] \/ UNCHANGED status
  BY DEF TypeInv, Charge, sdkVars
<1>2. \A q \in Plans : status[q] = "none" <=> status'[q] = "none"
  BY <1>1, ChargedThere DEF StoreOK
<1> QED BY <1>1, <1>2, ClockOutside DEF ClockInv, ExpiryTold, NotThere

\* The SDK opens a wallet with the expiry of a command, and lets no one use a
\* plan without one.
LEMMA SdkClock ==
    ASSUME ClockInv, TypeInv, Sdk
    PROVE  ClockInv' /\ ClockKept
<1>1. StoreOK
  BY DEF TypeInv
<1>2. ASSUME NEW cmd \in commands, SdkGrant(cmd)
      PROVE  ClockInv' /\ ClockKept
  <2>1. /\ cmd.plan \in Plans /\ cmd.expires # None
        /\ expiresAt[cmd.plan] = cmd.expires
    BY <1>1, PlansAssumption DEF StoreOK, Times, ClockInv, ExpiryTold
  <2>2. /\ wallet' = [wallet EXCEPT ![cmd.plan] = cmd.expires]
        /\ UNCHANGED <<status, expiresAt, consumed, commands, local>>
    BY <1>2 DEF SdkGrant, planVars
  <2>3. \A q \in Plans : /\ q # cmd.plan => wallet'[q] = wallet[q]
                         /\ q = cmd.plan => wallet'[q] = cmd.expires
    BY <1>1, <2>1, <2>2 DEF StoreOK
  <2>4. /\ \A q \in Plans : wallet'[q] # None => expiresAt[q] = wallet'[q]
        /\ \A q \in Plans : consumed'[q] > 0 => wallet'[q] # None
    BY <2>1, <2>2, <2>3 DEF ClockInv, ExpiryTold, NotThere
  <2> QED BY <2>2, <2>4, ClockOutside
<1>3. ASSUME NEW p \in Plans, NEW n \in 1..Total, SdkConsume(p, n)
      PROVE  ClockInv' /\ ClockKept
  <2>1. /\ wallet[p] # None
        /\ consumed' = [consumed EXCEPT ![p] = consumed[p] + n]
        /\ UNCHANGED <<status, expiresAt, wallet, commands, local>>
    BY <1>3 DEF SdkConsume, planVars
  <2>2. \A q \in Plans : q # p => consumed'[q] = consumed[q]
    BY <1>1, <2>1 DEF StoreOK
  <2>3. \A q \in Plans : consumed'[q] > 0 => wallet'[q] # None
    BY <2>1, <2>2 DEF ClockInv, NotThere
  <2> QED BY <2>1, <2>3, ClockOutside DEF ClockInv, ExpiryTold
<1>4. ASSUME NEW p \in Plans, SdkExpire(p) PROVE ClockInv' /\ ClockKept
  BY <1>4, ClockOutside
  DEF SdkExpire, planVars, sdkVars, ClockInv, ExpiryTold, NotThere
<1> QED BY <1>2, <1>3, <1>4 DEF Sdk

\* No step sets a clock that runs, or tells anyone another expiry than the one
\* in the document, unless a creation comes too late.
LEMMA ClockStep ==
    ASSUME ClockInv, TypeInv, GrantInv, CreationsAgree, [Next]_vars
    PROVE  ClockInv' /\ ClockKept
<1> USE DEF Processes
<1>1. ASSUME NEW c \in Callers, Request(c) PROVE ClockInv' /\ ClockKept
  BY <1>1, ReadingClock, CreateClock DEF Request
<1>2. ASSUME NEW w \in Workers, Handle(w) PROVE ClockInv' /\ ClockKept
  BY <1>2, ReadingClock, GrantedClock, ExpiredClock DEF Handle
<1>3. ASSUME NEW x \in Processes, Activation(x) \/ Crash(x)
      PROVE  ClockInv' /\ ClockKept
  BY <1>3, ReadingClock, SetExpiryClock, SendClock DEF Activation
<1>4. CASE Tick
  BY <1>4, ClockOutside
  DEF Tick, planVars, sdkVars, ClockInv, ExpiryTold, NotThere
<1>5. CASE UNCHANGED vars
  BY <1>5, ClockOutside
  DEF vars, planVars, sdkVars, ClockInv, ExpiryTold, NotThere
<1> QED BY <1>1, <1>2, <1>3, <1>4, <1>5, TakeClock, ChargeClock, SdkClock
        DEF Next

\* No document, command or wallet is there at the start.
LEMMA ClockInit == Init => ClockInv
BY PlansAssumption
DEF Init, ClockInv, PlanThere, ExpiryTold, NotThere, Processes

\* GrantsAgree, for any number of requests, retries, critical balances and
\* crashes, as long as no request that starts the clock of a plan finds it
\* created by another without one: every GRANT_REQUESTED command of a plan has
\* the expiry of its document.
THEOREM GrantsAgreeUnlessRaced == Spec /\ []CreationsAgree => []GrantsAgree
<1>1. ClockInv => GrantsAgree
  BY DEF ClockInv, ExpiryTold, GrantsAgree
<1>2. ClockInv /\ TypeInv /\ GrantInv /\ CreationsAgree /\ [Next]_vars
          => ClockInv'
  BY ClockStep
<1> QED BY <1>1, <1>2, ClockInit, TypeInvariant, GrantInvariant, PTL DEF Spec

\* ClockStartsOnce under the same condition: an expiry in a document is never
\* set again, by a retry of the grant, an activation that waited for the
\* database while another stored its expiry, or the SDK's confirmation.
THEOREM ClockStartsOnceUnlessRaced ==
    Spec /\ []CreationsAgree => ClockStartsOnce
<1>1. ClockInv /\ TypeInv /\ GrantInv /\ CreationsAgree /\ [Next]_vars
          => ClockInv' /\ [\A p \in Plans : expiresAt[p] # None
                              => expiresAt'[p] = expiresAt[p]]_vars
  BY ClockStep DEF ClockKept
<1> QED BY <1>1, ClockInit, TypeInvariant, GrantInvariant, PTL
        DEF Spec, ClockStartsOnce

-----------------------------------------------------------------------------
(* Requests that grant different plans.                                    *)

\* No two requests are between findActiveCreditForService and create of one
\* plan at once.
GrantsApart ==
    \A c, d \in Callers :
        /\ {pc[c], pc[d]} \subseteq {"findActive", "create"}
        /\ plan[c] = plan[d]
        => c = d

\* Then a plan that is about to be created is not there.
PlanNew ==
    \A c \in Callers :
        pc[c] \in {"findActive", "create"} => status[plan[c]] = "none"

\* A request that is not at work keeps its plan new when no document comes up.
LEMMA NewKept ==
    ASSUME PlanNew, TypeInv, NEW c \in Callers,
           pc'[c] = pc[c], plan'[c] = plan[c],
           \A p \in Plans : status[p] = "none" => status'[p] = "none",
           pc'[c] \in {"findActive", "create"}
    PROVE  status'[plan'[c]] = "none"
<1>1. plan[c] \in Plans
  BY PlanOfProcess DEF TypeInv, Processes, OnPlan
<1> QED BY <1>1 DEF PlanNew

\* Steps of a process that leave the documents that are not there alone, and
\* come to a creation only where there is none.
LEMMA NewFrame ==
    ASSUME PlanNew, TypeInv, NEW x \in Processes,
           \A p \in Plans : status[p] = "none" => status'[p] = "none",
           \A y \in Processes \ {x} : pc'[y] = pc[y] /\ plan'[y] = plan[y],
           pc'[x] \in {"findActive", "create"} => status'[plan'[x]] = "none"
    PROVE  PlanNew'
<1>1. ASSUME NEW c \in Callers, pc'[c] \in {"findActive", "create"}, c # x
      PROVE  status'[plan'[c]] = "none"
  BY <1>1, NewKept DEF Processes
<1> QED BY <1>1 DEF PlanNew

\* While grants of one plan keep apart, it stays new until it is created.
LEMMA NewStep ==
    ASSUME ClockInv, PlanNew, TypeInv, GrantsApart, [Next]_vars
    PROVE  PlanNew'
<1> USE DEF Processes
<1>a. StoreOK /\ LocalOK
  BY DEF TypeInv
<1>b. ASSUME NEW x \in Processes, NEW l, NEW p, NEW t,
             \/ Continue(x, l, p, t) /\ l \notin {"findActive", "create"}
             \/ Done(x) \/ Reset(x),
             \A q \in Plans : status[q] = "none" => status'[q] = "none"
      PROVE  PlanNew'
  <2>1. /\ pc'[x] \notin {"findActive", "create"}
        /\ \A y \in Processes \ {x} : pc'[y] = pc[y] /\ plan'[y] = plan[y]
    BY <1>b, ControlLocals
  <2> QED BY <1>b, <2>1, NewFrame
<1>1. ASSUME NEW c \in Callers, Lookup(c) \/ FindActive(c) PROVE PlanNew'
  <2>1. UNCHANGED status
    BY <1>1 DEF Lookup, FindActive, planVars
  <2>2. PICK l, t : \/ Continue(c, l, plan[c], t)
                          /\ (l # "send" => status[plan[c]] = "none")
                    \/ Done(c)
    BY <1>1 DEF Lookup, FindActive, Goto, At, PlanNew
  <2>3. CASE Done(c)
    BY <1>b, <2>1, <2>3
  <2>4. CASE Continue(c, l, plan[c], t) /\ l = "send"
    BY <1>b, <2>1, <2>4
  <2>5. CASE Continue(c, l, plan[c], t) /\ status[plan[c]] = "none"
    <3>1. /\ plan'[c] = plan[c]
          /\ \A y \in Processes \ {c} : pc'[y] = pc[y] /\ plan'[y] = plan[y]
      BY <2>5, ControlLocals
    <3> QED BY <2>1, <2>5, <3>1, NewFrame
  <2> QED BY <2>2, <2>3, <2>4, <2>5
<1>2. ASSUME NEW c \in Callers, Create(c) PROVE PlanNew'
  <2> DEFINE p == plan[c]
  <2>1. p \in Plans /\ pc[c] = "create" /\ status[p] = "none"
    BY <1>2, <1>a, PlanOfProcess DEF Create, At, OnPlan, PlanNew
  <2>2. /\ status' = [status EXCEPT ![p] = "Inactive"]
        /\ (\E t : Continue(c, "send", p, t)) \/ Done(c)
    BY <1>2, <2>1 DEF Create
  <2>3. /\ pc'[c] \notin {"findActive", "create"}
        /\ \A y \in Processes \ {c} : pc'[y] = pc[y] /\ plan'[y] = plan[y]
    BY <2>2, ControlLocals
  <2>4. ASSUME NEW d \in Callers, pc'[d] \in {"findActive", "create"}
        PROVE  status'[plan'[d]] = "none"
    <3>1. d # c /\ pc[d] = pc'[d] /\ plan'[d] = plan[d]
      BY <2>3, <2>4
    <3>2. plan[d] # p
      BY <2>1, <2>4, <3>1 DEF GrantsApart
    <3>3. plan[d] \in Plans /\ status[plan[d]] = "none"
      BY <1>a, <2>4, <3>1, PlanOfProcess DEF OnPlan, PlanNew
    <3> QED BY <1>a, <2>2, <3>1, <3>2, <3>3 DEF StoreOK
  <2> QED BY <2>4 DEF PlanNew
<1>3. ASSUME NEW c \in Callers, NEW p \in Plans,
             StartGrant(c, p) \/ StartActivate(c, p)
      PROVE  PlanNew'
  <2>1. UNCHANGED status
    BY <1>3 DEF StartGrant, StartActivate, planVars
  <2> QED BY <1>3, <1>b, <2>1 DEF StartGrant, StartActivate
<1>4. ASSUME NEW x \in Processes, Activation(x) \/ Crash(x) PROVE PlanNew'
  <2>1. UNCHANGED status
    BY <1>4 DEF Activation, Load, LoadRefused, SetExpiry, Send, Crash, planVars
  <2>2. PICK l, p, t : \/ Continue(x, l, p, t) /\ l \in {"send", "setExpiry"}
                       \/ Done(x) \/ Reset(x)
    BY <1>4 DEF Activation, Load, LoadRefused, SetExpiry, Send, Crash
  <2> QED BY <1>b, <2>1, <2>2
<1>5. ASSUME NEW w \in Workers, Handle(w) PROVE PlanNew'
  <2>1. \A q \in Plans : status[q] = "none" => status'[q] = "none"
    <3>1. \/ UNCHANGED status
          \/ /\ status[plan[w]] # "none"
             /\ \E s : status' = [status EXCEPT ![plan[w]] = s]
      BY <1>5
      DEF Handle, ProcessCreditGranted, ProcessPlanExpired, FindOther,
          FindWaiting, Record, Ack, planVars
    <3> QED BY <1>a, <3>1 DEF StoreOK
  <2>2. PICK l, p, t :
            \/ Continue(w, l, p, t) /\ l \in {"findWaiting", "load", "ack"}
            \/ Done(w) \/ Reset(w)
    BY <1>5
    DEF Handle, ProcessCreditGranted, ProcessPlanExpired, FindOther,
        FindWaiting, Record, Ack, Goto
  <2> QED BY <1>b, <2>1, <2>2
<1>6. ASSUME NEW w \in Workers, NEW e \in Events, Take(w, e) PROVE PlanNew'
  <2>1. /\ UNCHANGED status
        /\ pc'[w] \notin {"findActive", "create"}
        /\ \A y \in Processes \ {w} : pc'[y] = pc[y] /\ plan'[y] = plan[y]
    <3>1. e.type \in {"GRANTED", "EXPIRED", "CRITICAL"}
      BY DEF Events, Types
    <3> QED BY <1>6, <1>a, <3>1 DEF Take, LocalOK, planVars
  <2> QED BY <2>1, NewFrame
<1>7. ASSUME UNCHANGED local,
             \A q \in Plans : status[q] = "none" => status'[q] = "none"
      PROVE  PlanNew'
  BY <1>7, NewKept DEF local, PlanNew
<1>8. ASSUME NEW p \in Plans, NEW n \in 1..Total, Charge(p, n) PROVE PlanNew'
  <2>1. /\ UNCHANGED local
        /\ status' = [status EXCEPT ![p] = "Inactive"] \/ UNCHANGED status
    BY <1>8 DEF Charge
  <2>2. \A q \in Plans : status[q] = "none" => status'[q] = "none"
    BY <1>8, <1>a, <2>1, ChargedThere DEF StoreOK
  <2> QED BY <1>7, <2>1, <2>2
<1>9. CASE Sdk \/ Tick \/ UNCHANGED vars
  <2>1. UNCHANGED local /\ UNCHANGED status
    BY <1>9 DEF Sdk, SdkGrant, SdkConsume, SdkExpire, Tick, vars, planVars
  <2> QED BY <1>7, <2>1
<1> QED BY <1>1, <1>2, <1>3, <1>4, <1>5, <1>6, <1>8, <1>9 DEF Next, Request

\* Then no creation comes too late.
LEMMA ApartAgree == Spec /\ []GrantsApart => []CreationsAgree
<1>1. Init => PlanNew
  BY DEF Init, PlanNew, Processes
<1>2. PlanNew => CreationsAgree
  BY DEF PlanNew, CreationsAgree
<1>3. ClockInv /\ PlanNew /\ TypeInv /\ GrantInv /\ GrantsApart /\ [Next]_vars
          => ClockInv' /\ PlanNew'
  BY <1>2, ClockStep, NewStep
<1> QED BY <1>1, <1>2, <1>3, ClockInit, TypeInvariant, GrantInvariant, PTL
        DEF Spec

\* One request at a time, as MCKycPlans_safety.cfg has it, is enough for both,
\* with any number of plans, workers, replicas and crashes.
THEOREM GrantsAgreeOneRequest ==
    ASSUME \A c, d \in Callers : c = d
    PROVE  Spec => []GrantsAgree /\ ClockStartsOnce
<1>1. GrantsApart
  BY DEF GrantsApart
<1> QED BY <1>1, ApartAgree, GrantsAgreeUnlessRaced,
           ClockStartsOnceUnlessRaced, PTL
=============================================================================
