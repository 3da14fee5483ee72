------------------------- MODULE SsiAllowanceProofs -------------------------
(***************************************************************************)
(* Theorems about SsiAllowance for any number of plans and requests, any   *)
(* balances, multiplier and validity, and any number of crashes.           *)
(***************************************************************************)
EXTENDS SsiAllowance, FiniteSetTheorems, TLAPS

-----------------------------------------------------------------------------
(* Amounts.                                                                *)

\* What is bought for a plan never exceeds the allowance of a fresh plan.
LEMMA AmountBound ==
    ASSUME NEW u \in 0..Total
    PROVE  /\ (Total - u) * Multiplier \in Amounts
           /\ Total * Multiplier \in Amounts
           /\ u \in Amounts
<1>1. Total \in Nat /\ Multiplier \in Nat /\ Multiplier >= 1 /\ u \in Nat
  BY SsiAssumption
<1>2. \A a, b, c \in Nat : a <= b => a * c <= b * c
  OBVIOUS
<1>3. \A a, b \in Nat : a * b \in Nat /\ a * b = b * a /\ 1 * a = a
  OBVIOUS
<1>4. Total - u \in Nat /\ Total - u <= Total
  BY <1>1
<1>5. (Total - u) * Multiplier <= Total * Multiplier
  BY <1>1, <1>2, <1>4
<1>6. Total <= Total * Multiplier
  BY <1>1, <1>2, <1>3
<1> QED BY <1>1, <1>3, <1>4, <1>5, <1>6 DEF Amounts

\* Buying nothing is an amount.
LEMMA ZeroAmount == 0 \in Amounts
BY AmountBound, SsiAssumption DEF Amounts

-----------------------------------------------------------------------------
(* The inductive invariant.                                                *)

\* The API balance of a plan stays within its total (TypeOK bounds both
\* balances by what the larger one can hold).
ApiWithinTotal == \A p \in Plans : used[p]["api"] <= Total

\* What the documents, the commands and the SDK say of a plan rests on its
\* allowance, and the allowance on a chain grant.
AllowanceFirst ==
    /\ \A p \in Plans :
          /\ allowance[p] # None => granted[p] > 0 /\ status[p] # "none"
          /\ status[p] = "Active" => allowance[p] # None /\ expiresAt[p] # None
    /\ \A c \in commands : allowance[c.plan] # None
    /\ \A g \in unconfirmed : /\ allowance[g[1]] # None
                              /\ wallet[g[1]][g[2]] # None

\* What a request has established when it comes to an await.
Ready(r) ==
    /\ pc[r] # "idle" => plan[r] # None
    /\ pc[r] \in {"idle", "lookup", "findActive", "load"} => expiry[r] = None
    /\ pc[r] = "create" /\ expiry[r] # None => granted[plan[r]] > 0
    /\ pc[r] \in {"query", "broadcast"} =>
          expiry[r] # None /\ after[r] \in {"create", "persist"}
    /\ pc[r] = "load" => status[plan[r]] # "none"
    /\ pc[r] \in {"query", "broadcast"} /\ after[r] = "persist" =>
          status[plan[r]] # "none"
    /\ pc[r] = "persist" =>
          expiry[r] # None /\ granted[plan[r]] > 0 /\ status[plan[r]] # "none"
    /\ pc[r] \in {"sendApi", "sendChain"} =>
          expiry[r] # None /\ allowance[plan[r]] # None

Inv == /\ TypeOK
       /\ ApiWithinTotal
       /\ AllowanceFirst
       /\ \A r \in Requests : Ready(r)

\* What a step of another may do without disturbing a request: nothing that
\* was granted, created or recorded goes away.
Grows ==
    \A p \in Plans :
        /\ granted[p] > 0 => granted'[p] > 0
        /\ status[p] # "none" => status'[p] # "none"
        /\ allowance[p] # None => allowance'[p] # None

\* A request whose locals stay as they are stays ready while things grow.
LEMMA ReadyKept ==
    ASSUME Inv, Grows, NEW r \in Requests,
           pc'[r] = pc[r], plan'[r] = plan[r], expiry'[r] = expiry[r],
           after'[r] = after[r]
    PROVE  Ready(r)'
<1>1. pc[r] # "idle" => plan[r] \in Plans
  BY DEF Inv, TypeOK, Ready
<1> QED BY <1>1 DEF Inv, Ready, Grows

\* A request that dies, throws or answers is ready for the next call.
LEMMA DoneReady ==
    ASSUME Inv, Grows, NEW r \in Requests, Done(r)
    PROVE  \A q \in Requests : Ready(q)'
<1>1. Ready(r)'
  BY DEF Inv, TypeOK, Done, Ready
<1>2. ASSUME NEW q \in Requests, q # r PROVE Ready(q)'
  BY <1>2, ReadyKept DEF Inv, TypeOK, Done
<1> QED BY <1>1, <1>2

\* The locals of all requests but one are untouched.
Others(r) ==
    \A q \in Requests \ {r} : /\ pc'[q] = pc[q]
                              /\ plan'[q] = plan[q]
                              /\ expiry'[q] = expiry[q]
                              /\ after'[q] = after[q]

\* When one request moves and is ready again, all are.
LEMMA OthersReady ==
    ASSUME Inv, Grows, NEW r \in Requests, Others(r), Ready(r)'
    PROVE  \A q \in Requests : Ready(q)'
BY ReadyKept DEF Others

\* A service starts without plans, grants and requests.
LEMMA InitInv ==
    ASSUME Init PROVE Inv
<1>1. 0 \in Amounts /\ 0 \in 0..MaxNow /\ 0 \in 0..MaxCrashes
  BY AmountBound, SsiAssumption DEF Amounts
<1>2. used \in [Plans -> [Buckets -> Amounts]]
  BY <1>1 DEF Init
<1>3. wallet \in [Plans -> [Buckets -> Times \cup {None}]]
  BY DEF Init
<1>4. TypeOK
  BY <1>1, <1>2, <1>3 DEF Init, TypeOK, Labels
<1>5. ApiWithinTotal
  BY SsiAssumption DEF Init, ApiWithinTotal, Buckets
<1> QED BY <1>4, <1>5 DEF Init, Inv, AllowanceFirst, Ready

-----------------------------------------------------------------------------
(* The steps of a request that touch nothing but its locals.               *)

Stored == <<docVars, chainVars, commands, sdkVars, now>>

LocalTypes ==
    /\ pc \in [Requests -> Labels]
    /\ plan \in [Requests -> Plans \cup {None}]
    /\ expiry \in [Requests -> Times \cup {None}]
    /\ bought \in [Requests -> Amounts]
    /\ remaining \in [Requests -> Nat \cup {None}]
    /\ after \in [Requests -> Labels]

\* A step that stores nothing keeps the invariant if its request is ready.
LEMMA LocalInv ==
    ASSUME Inv, NEW r \in Requests, UNCHANGED Stored,
           crashes' \in 0..MaxCrashes,
           LocalTypes', Others(r), Grows => Ready(r)'
    PROVE  Inv'
<1> USE DEF Stored, docVars, chainVars, sdkVars
<1>1. Grows
  BY DEF Grows
<1>2. AllowanceFirst' /\ ApiWithinTotal'
  BY DEF Inv, AllowanceFirst, ApiWithinTotal
<1>3. TypeOK'
  BY DEF Inv, TypeOK, LocalTypes
<1>4. \A q \in Requests : Ready(q)'
  BY <1>1, OthersReady
<1> QED BY <1>2, <1>3, <1>4 DEF Inv

\* A request may end at every await.
LEMMA DoneInv ==
    ASSUME Inv, NEW r \in Requests, Done(r), UNCHANGED Stored,
           crashes' \in 0..MaxCrashes
    PROVE  Inv'
<1>1. LocalTypes'
  BY ZeroAmount DEF Inv, TypeOK, Done, LocalTypes, Labels
<1>2. Others(r)
  BY DEF Inv, TypeOK, Done, Others
<1>3. Grows => Ready(r)'
  BY DoneReady
<1> QED BY <1>1, <1>2, <1>3, LocalInv

\* A request that goes on with an expiry, or with the one it has.
LEMMA GotoInv ==
    ASSUME Inv, NEW r \in Requests, NEW l \in Labels,
           NEW t \in Times \cup {None}, NEW a \in Labels,
           pc' = [pc EXCEPT ![r] = l],
           plan[r] # None, plan' = plan,
           expiry' = [expiry EXCEPT ![r] = t],
           bought' \in [Requests -> Amounts],
           remaining' \in [Requests -> Nat \cup {None}],
           after' = [after EXCEPT ![r] = a],
           UNCHANGED Stored, UNCHANGED crashes,
           l \in {"findActive", "create"} => t = None,
           l \notin {"idle", "lookup", "load"},
           l \in {"query", "broadcast"} =>
               t # None /\ a \in {"create", "persist"},
           l \in {"query", "broadcast"} /\ a = "persist" =>
               status[plan[r]] # "none",
           l = "persist" => /\ t # None
                            /\ granted[plan[r]] > 0
                            /\ status[plan[r]] # "none",
           l \in {"sendApi", "sendChain"} =>
               t # None /\ allowance[plan[r]] # None
    PROVE  Inv'
<1>1. LocalTypes'
  BY DEF Inv, TypeOK, LocalTypes
<1>2. Others(r)
  BY DEF Inv, TypeOK, Others
<1>3. plan[r] \in Plans
  BY DEF Inv, TypeOK
<1>4. pc'[r] = l /\ plan'[r] = plan[r] /\ expiry'[r] = t /\ after'[r] = a
  BY DEF Inv, TypeOK
<1>5. Ready(r)'
  BY <1>3, <1>4 DEF Ready, Stored, docVars, chainVars
<1>6. crashes' \in 0..MaxCrashes
  BY DEF Inv, TypeOK
<1> QED BY <1>1, <1>2, <1>5, <1>6, LocalInv

\* What an activation buys is an amount.
LEMMA NewAmounts ==
    ASSUME Inv, NEW p \in Plans
    PROVE  NewAmount(p) \in Amounts
<1>1. used[p]["api"] \in 0..Total
  BY SsiAssumption DEF Inv, TypeOK, ApiWithinTotal, Buckets, Amounts
<1> QED BY <1>1, AmountBound DEF NewAmount

\* The plan a request works on, and what its label says of it.
LEMMA AtLabel ==
    ASSUME Inv, NEW r \in Requests, pc[r] # "idle"
    PROVE  /\ plan[r] \in Plans
           /\ expiry[r] \in Times \cup {None}
           /\ after[r] \in Labels
           /\ bought[r] \in Amounts
           /\ remaining[r] \in Nat \cup {None}
           /\ Ready(r)
BY DEF Inv, TypeOK, Ready

\* The look-ups, refusals and deaths of a request.
LEMMA LocalStep ==
    ASSUME Inv, NEW r \in Requests,
           \/ \E p \in Plans : StartGrant(r, p) \/ StartActivate(r, p)
           \/ Lookup(r) \/ FindActive(r) \/ Query(r) \/ BroadcastFails(r)
           \/ Load(r) \/ Crash(r)
    PROVE  Inv'
<1>a. /\ pc \in [Requests -> Labels]
      /\ plan \in [Requests -> Plans \cup {None}]
      /\ expiry \in [Requests -> Times \cup {None}]
      /\ bought \in [Requests -> Amounts]
      /\ remaining \in [Requests -> Nat \cup {None}]
      /\ after \in [Requests -> Labels]
      /\ expiresAt \in [Plans -> Times \cup {None}]
      /\ feegrant \in Nat \cup {None}
      /\ now \in 0..MaxNow /\ crashes \in 0..MaxCrashes
  BY DEF Inv, TypeOK
<1>b. \A t \in 0..MaxNow : t + Validity \in Times
  BY SsiAssumption DEF Times
<1>c. \A t \in Times : t # None
  BY SsiAssumption DEF Times
<1>d. None \notin Plans
  BY SsiAssumption
<1>e. /\ after[r] \in Labels
      /\ \A l \in {"create", "persist", "query", "broadcast", "findActive",
                  "sendApi"} : l \in Labels
  BY <1>a DEF Labels
<1>1. ASSUME NEW p \in Plans, StartGrant(r, p) \/ StartActivate(r, p)
      PROVE  Inv'
  <2>1. LocalTypes'
    BY <1>1, <1>a DEF StartGrant, StartActivate, Start, LocalTypes, Labels
  <2>2. Others(r)
    BY <1>1, <1>a DEF StartGrant, StartActivate, Start, Others
  <2>3. UNCHANGED Stored /\ crashes' = crashes
    BY <1>1 DEF StartGrant, StartActivate, Stored
  <2>4. expiry[r] = None
    BY <1>1 DEF StartGrant, StartActivate, Start, At, Inv, Ready
  <2>5. Ready(r)'
    BY <1>1, <1>a, <1>d, <2>3, <2>4
    DEF StartGrant, StartActivate, Start, Ready, Stored, docVars
  <2> QED BY <1>a, <2>1, <2>2, <2>3, <2>5, LocalInv
<1>2. CASE Lookup(r)
  <2>0. /\ plan[r] \in Plans /\ pc[r] = "lookup" /\ expiry[r] = None
        /\ UNCHANGED Stored /\ crashes' = crashes
    BY <1>2, AtLabel DEF Lookup, At, Ready, Stored
  <2>1. CASE Done(r)
    BY <1>a, <2>0, <2>1, DoneInv
  <2>2. CASE Goto(r, "findActive")
    <3>1. /\ pc' = [pc EXCEPT ![r] = "findActive"]
          /\ plan' = plan
          /\ expiry' = [expiry EXCEPT ![r] = None]
          /\ bought' \in [Requests -> Amounts]
          /\ remaining' \in [Requests -> Nat \cup {None}]
          /\ after' = [after EXCEPT ![r] = after[r]]
      BY <1>a, <2>0, <2>2 DEF Goto
    <3> QED BY <1>d, <1>e, <2>0, <3>1, GotoInv
  <2>3. CASE /\ status[plan[r]] = "Active"
             /\ allowance[plan[r]] # None
             /\ GotoWith(r, "sendApi", expiresAt[plan[r]])
    <3>1. /\ pc' = [pc EXCEPT ![r] = "sendApi"]
          /\ plan' = plan
          /\ expiry' = [expiry EXCEPT ![r] = expiresAt[plan[r]]]
          /\ bought' \in [Requests -> Amounts]
          /\ remaining' \in [Requests -> Nat \cup {None}]
          /\ after' = [after EXCEPT ![r] = after[r]]
      BY <1>a, <2>3 DEF GotoWith
    <3>2. PICK t \in Times : t = expiresAt[plan[r]]
      BY <1>a, <2>0, <2>3 DEF Inv, AllowanceFirst
    <3> QED BY <1>c, <1>d, <1>e, <2>0, <2>3, <3>1, <3>2, GotoInv
  <2> QED BY <1>2, <2>1, <2>2, <2>3 DEF Lookup
<1>3. CASE FindActive(r)
  <2>0. /\ plan[r] \in Plans /\ pc[r] = "findActive" /\ expiry[r] = None
        /\ UNCHANGED Stored /\ crashes' = crashes
    BY <1>3, AtLabel DEF FindActive, At, Ready, Stored
  <2>1. CASE Goto(r, "create")
    <3>1. /\ pc' = [pc EXCEPT ![r] = "create"]
          /\ plan' = plan
          /\ expiry' = [expiry EXCEPT ![r] = None]
          /\ bought' \in [Requests -> Amounts]
          /\ remaining' \in [Requests -> Nat \cup {None}]
          /\ after' = [after EXCEPT ![r] = after[r]]
      BY <1>a, <2>0, <2>1 DEF Goto
    <3> QED BY <1>d, <1>e, <2>0, <3>1, GotoInv
  <2>2. CASE GrantThen(r, "create", now + Validity, Total * Multiplier)
    <3>0. Total * Multiplier \in Amounts
      BY ZeroAmount, AmountBound, SsiAssumption
    <3>1. /\ pc' = [pc EXCEPT ![r] = "query"]
          /\ plan' = plan
          /\ expiry' = [expiry EXCEPT ![r] = now + Validity]
          /\ bought' \in [Requests -> Amounts]
          /\ remaining' \in [Requests -> Nat \cup {None}]
          /\ after' = [after EXCEPT ![r] = "create"]
      BY <1>a, <2>2, <3>0 DEF GrantThen
    <3>2. PICK t \in Times : t = now + Validity
      BY <1>a, <1>b
    <3> QED BY <1>c, <1>d, <1>e, <2>0, <3>1, <3>2, GotoInv
  <2> QED BY <1>3, <2>1, <2>2 DEF FindActive
<1>4. CASE Query(r)
  <2>0. /\ plan[r] \in Plans /\ pc[r] = "query" /\ expiry[r] \in Times
        /\ after[r] \in {"create", "persist"}
        /\ after[r] = "persist" => status[plan[r]] # "none"
        /\ UNCHANGED Stored /\ crashes' = crashes
    BY <1>4, AtLabel DEF Query, At, Ready, Stored
  <2>1. /\ pc' = [pc EXCEPT ![r] = "broadcast"]
        /\ plan' = plan
        /\ expiry' = [expiry EXCEPT ![r] = expiry[r]]
        /\ bought' \in [Requests -> Amounts]
        /\ remaining' \in [Requests -> Nat \cup {None}]
        /\ after' = [after EXCEPT ![r] = after[r]]
    BY <1>4, <1>a DEF Query
  <2> QED BY <1>c, <1>d, <1>e, <2>0, <2>1, GotoInv
<1>5. CASE BroadcastFails(r)
  BY <1>5, <1>a, DoneInv DEF BroadcastFails, Stored
<1>6. CASE Load(r)
  <2> DEFINE p == plan[r]
             t == IF expiresAt[p] # None THEN expiresAt[p] ELSE now + Validity
  <2>0. /\ p \in Plans /\ pc[r] = "load" /\ status[p] # "none"
        /\ t \in Times
        /\ UNCHANGED Stored /\ crashes' = crashes
    BY <1>6, <1>a, <1>b, AtLabel DEF Load, AllowanceLeft, At, Ready, Stored
  <2>1. CASE Done(r)
    BY <1>a, <2>0, <2>1, DoneInv
  <2>2. CASE GrantThen(r, "persist", t, NewAmount(p))
    <3>0. NewAmount(p) \in Amounts
      BY <2>0, NewAmounts
    <3>1. /\ pc' = [pc EXCEPT ![r] = "query"]
          /\ plan' = plan
          /\ expiry' = [expiry EXCEPT ![r] = t]
          /\ bought' \in [Requests -> Amounts]
          /\ remaining' \in [Requests -> Nat \cup {None}]
          /\ after' = [after EXCEPT ![r] = "persist"]
      BY <1>a, <2>2, <3>0 DEF GrantThen
    <3> HIDE DEF t
    <3> QED BY <1>c, <1>d, <1>e, <2>0, <3>1, GotoInv
  <2>3. CASE allowance[p] # None /\ GotoWith(r, "persist", t)
    <3>1. /\ pc' = [pc EXCEPT ![r] = "persist"]
          /\ plan' = plan
          /\ expiry' = [expiry EXCEPT ![r] = t]
          /\ bought' \in [Requests -> Amounts]
          /\ remaining' \in [Requests -> Nat \cup {None}]
          /\ after' = [after EXCEPT ![r] = after[r]]
      BY <1>a, <2>3 DEF GotoWith
    <3>2. granted[p] > 0
      BY <2>0, <2>3 DEF Inv, AllowanceFirst
    <3> HIDE DEF t
    <3> QED BY <1>c, <1>d, <1>e, <2>0, <3>1, <3>2, GotoInv
  <2> QED BY <1>6, <2>1, <2>2, <2>3 DEF Load, AllowanceLeft
<1>7. CASE Crash(r)
  <2>1. crashes' \in 0..MaxCrashes
    BY <1>7, <1>a, SsiAssumption DEF Crash
  <2> QED BY <1>7, <2>1, DoneInv DEF Crash, Stored
<1> QED BY <1>1, <1>2, <1>3, <1>4, <1>5, <1>6, <1>7

-----------------------------------------------------------------------------
(* The steps of a request that write.                                      *)

\* Create stores an active plan only for a request that granted first.
LEMMA CreateStep ==
    ASSUME Inv, NEW r \in Requests, Create(r)
    PROVE  Inv'
<1> DEFINE p == plan[r]
<1>a. TypeOK /\ ApiWithinTotal /\ AllowanceFirst
  BY DEF Inv
<1>b. /\ p \in Plans /\ pc[r] = "create" /\ Ready(r)
      /\ expiry[r] \in Times \cup {None}
  BY AtLabel DEF Create, At
<1>c. UNCHANGED <<used, feegrant, granted, disturbed, unsettled, commands,
                  wallet, unconfirmed, now, crashes>>
  BY DEF Create, chainVars, sdkVars
<1>d. bought[r] \in Amounts /\ bought[r] # None
  BY <1>b, AtLabel, SsiAssumption DEF Amounts
<1>1. /\ status' \in [Plans -> {"none", "Inactive", "Active"}]
      /\ expiresAt' \in [Plans -> Times \cup {None}]
      /\ allowance' \in [Plans -> Amounts \cup {None}]
  BY <1>a, <1>b, <1>d DEF Create, TypeOK
<1>2. \A q \in Plans :
          /\ allowance[q] # None => allowance'[q] = allowance[q]
          /\ status[q] # "none" => status'[q] = status[q]
          /\ q # p => /\ status'[q] = status[q]
                      /\ expiresAt'[q] = expiresAt[q]
                      /\ allowance'[q] = allowance[q]
          /\ status[q] # "none" => expiresAt'[q] = expiresAt[q]
  BY <1>a, <1>b DEF Create, TypeOK, AllowanceFirst
<1>3. Grows
  BY <1>2, <1>c DEF Grows
<1>4. status'[p] # "none"
  BY <1>a, <1>b DEF Create, TypeOK
<1>5. /\ allowance'[p] # None => granted[p] > 0
      /\ status'[p] = "Active" => allowance'[p] # None /\ expiresAt'[p] # None
  <2>1. CASE status[p] = "none"
    BY <1>a, <1>b, <1>d, <2>1 DEF Create, TypeOK, Ready
  <2>2. CASE status[p] # "none"
    BY <1>a, <1>b, <2>2 DEF Create, AllowanceFirst
  <2> QED BY <2>1, <2>2
<1>6. AllowanceFirst'
  <2>1. \A q \in Plans :
            /\ allowance'[q] # None => granted'[q] > 0 /\ status'[q] # "none"
            /\ status'[q] = "Active" => /\ allowance'[q] # None
                                        /\ expiresAt'[q] # None
    BY <1>a, <1>2, <1>4, <1>5, <1>c DEF AllowanceFirst
  <2>2. \A c \in commands : c.plan \in Plans
    BY <1>a DEF TypeOK
  <2>3. \A g \in unconfirmed : g[1] \in Plans
    BY <1>a DEF TypeOK
  <2>4. UNCHANGED <<commands, unconfirmed, wallet>>
    BY <1>c
  <2>5. /\ \A c \in commands : allowance'[c.plan] # None
        /\ \A g \in unconfirmed : allowance'[g[1]] # None
    BY <1>a, <1>2, <2>2, <2>3 DEF AllowanceFirst
  <2> QED BY <1>a, <2>1, <2>4, <2>5 DEF AllowanceFirst
<1>7. ApiWithinTotal'
  BY <1>a, <1>c DEF ApiWithinTotal
<1>8. Done(r) \/ /\ GotoWith(r, "sendApi", expiresAt'[p])
                 /\ status'[p] = "Active" /\ allowance'[p] # None
  BY DEF Create
<1>9. /\ \A q \in Requests : Ready(q)'
      /\ LocalTypes'
  <2>1. CASE Done(r)
    BY <1>3, <1>a, <2>1, DoneReady, ZeroAmount
    DEF Done, LocalTypes, TypeOK, Labels
  <2>2. CASE /\ GotoWith(r, "sendApi", expiresAt'[p])
             /\ status'[p] = "Active" /\ allowance'[p] # None
    <3>1. Others(r)
      BY <1>a, <2>2 DEF GotoWith, Others, TypeOK
    <3>2. /\ pc'[r] = "sendApi" /\ plan'[r] = p
          /\ expiry'[r] = expiresAt'[p]
      BY <1>a, <2>2 DEF GotoWith, TypeOK
    <3>3. Ready(r)'
      BY <1>5, <1>b, <2>2, <3>2, SsiAssumption DEF Ready
    <3>4. LocalTypes'
      BY <1>1, <1>a, <1>b, <2>2 DEF GotoWith, LocalTypes, TypeOK, Labels
    <3> QED BY <1>3, <3>1, <3>3, <3>4, OthersReady
  <2> QED BY <1>8, <2>1, <2>2
<1>10. TypeOK'
  BY <1>1, <1>9, <1>a, <1>c DEF TypeOK, LocalTypes
<1> QED BY <1>6, <1>7, <1>9, <1>10 DEF Inv

\* Broadcast is the chain grant that everything else rests on.
LEMMA BroadcastStep ==
    ASSUME Inv, NEW r \in Requests, Broadcast(r)
    PROVE  Inv'
<1>a. TypeOK /\ ApiWithinTotal /\ AllowanceFirst
  BY DEF Inv
<1>b. /\ plan[r] \in Plans /\ pc[r] = "broadcast" /\ Ready(r)
      /\ expiry[r] \in Times \cup {None}
      /\ bought[r] \in Amounts
      /\ remaining[r] \in Nat \cup {None}
  BY AtLabel DEF Broadcast, At
<1>1. feegrant' \in Nat
  BY <1>b DEF Broadcast, Replacement, Amounts
<1>2. /\ granted' \in [Plans -> Nat]
      /\ granted'[plan[r]] > 0
      /\ \A q \in Plans : granted[q] > 0 => granted'[q] > 0
  BY <1>a, <1>b DEF Broadcast, TypeOK
<1>3. disturbed' \in BOOLEAN
  BY DEF Broadcast, Disturb
<1>4. UNCHANGED <<docVars, unsettled, commands, sdkVars, now, crashes>>
  BY DEF Broadcast
<1>5. Grows
  BY <1>2, <1>4 DEF Grows, docVars
<1>6. AllowanceFirst' /\ ApiWithinTotal'
  BY <1>2, <1>4, <1>a DEF AllowanceFirst, ApiWithinTotal, docVars, sdkVars
<1>7. after[r] \in {"create", "persist"}
  BY <1>b DEF Ready
<1>8. LocalTypes'
  BY <1>7, <1>a DEF Broadcast, LocalTypes, TypeOK, Labels
<1>9. Others(r)
  BY <1>a DEF Broadcast, Others, TypeOK
<1>10. Ready(r)'
  <2>1. /\ pc'[r] = after[r] /\ plan'[r] = plan[r] /\ expiry'[r] = expiry[r]
        /\ after'[r] = after[r]
    BY <1>a DEF Broadcast, TypeOK
  <2> QED BY <1>2, <1>4, <1>7, <1>b, <2>1 DEF Ready, docVars
<1>11. TypeOK'
  BY <1>1, <1>2, <1>3, <1>4, <1>8, <1>a
  DEF TypeOK, LocalTypes, docVars, sdkVars
<1> QED BY <1>5, <1>6, <1>9, <1>10, <1>11, OthersReady DEF Inv

\* Persist records an allowance that was granted, or keeps the recorded one.
LEMMA PersistStep ==
    ASSUME Inv, NEW r \in Requests, Persist(r)
    PROVE  Inv'
<1> DEFINE p == plan[r]
           a == IF allowance[p] # None THEN allowance[p] ELSE bought[r]
<1>a. TypeOK /\ ApiWithinTotal /\ AllowanceFirst
  BY DEF Inv
<1>b. /\ p \in Plans /\ pc[r] = "persist" /\ Ready(r)
      /\ expiry[r] \in Times
  BY AtLabel DEF Persist, At, Ready
<1>c. granted[p] > 0 /\ expiry[r] # None
  BY <1>b DEF Ready
<1>1. a \in Amounts /\ a # None
  <2>1. bought[r] \in Amounts
    BY <1>b, AtLabel
  <2>2. None \notin Amounts
    BY SsiAssumption DEF Amounts
  <2> QED BY <1>a, <1>b, <2>1, <2>2 DEF TypeOK
<1>2. PICK s \in {"Active", "Inactive"} : status' = [status EXCEPT ![p] = s]
  BY DEF Persist
<1>3. /\ expiresAt' = [expiresAt EXCEPT ![p] = expiry[r]]
      /\ allowance' = [allowance EXCEPT ![p] = a]
      /\ UNCHANGED <<used, chainVars, commands, sdkVars, now, crashes>>
  BY DEF Persist
<1> HIDE DEF a
<1>4. /\ status' \in [Plans -> {"none", "Inactive", "Active"}]
      /\ expiresAt' \in [Plans -> Times \cup {None}]
      /\ allowance' \in [Plans -> Amounts \cup {None}]
  BY <1>1, <1>2, <1>3, <1>a, <1>b DEF TypeOK
<1>5. \A q \in Plans :
          /\ q # p => /\ status'[q] = status[q]
                      /\ expiresAt'[q] = expiresAt[q]
                      /\ allowance'[q] = allowance[q]
          /\ q = p => /\ status'[q] # "none"
                      /\ expiresAt'[q] # None
                      /\ allowance'[q] # None
  BY <1>1, <1>2, <1>3, <1>a, <1>b, <1>c DEF TypeOK
<1>6. Grows
  BY <1>3, <1>5 DEF Grows, chainVars
<1>7. AllowanceFirst'
  <2>1. \A q \in Plans :
            /\ allowance'[q] # None => granted'[q] > 0 /\ status'[q] # "none"
            /\ status'[q] = "Active" => /\ allowance'[q] # None
                                        /\ expiresAt'[q] # None
    BY <1>3, <1>5, <1>a, <1>c DEF AllowanceFirst, chainVars
  <2>2. /\ \A c \in commands : c.plan \in Plans
        /\ \A g \in unconfirmed : g[1] \in Plans
    BY <1>a DEF TypeOK
  <2>3. /\ \A c \in commands : allowance'[c.plan] # None
        /\ \A g \in unconfirmed : allowance'[g[1]] # None
    BY <1>5, <1>a, <2>2 DEF AllowanceFirst
  <2> QED BY <1>3, <1>a, <2>1, <2>3 DEF AllowanceFirst, sdkVars
<1>8. ApiWithinTotal'
  BY <1>3, <1>a DEF ApiWithinTotal
<1>9. Goto(r, "sendApi") \/ Done(r)
  BY DEF Persist
<1>10. (\A q \in Requests : Ready(q)') /\ LocalTypes'
  <2>1. CASE Done(r)
    BY <1>6, <1>a, <2>1, DoneReady, ZeroAmount
    DEF Done, LocalTypes, TypeOK, Labels
  <2>2. CASE Goto(r, "sendApi")
    <3>1. Others(r)
      BY <1>a, <2>2 DEF Goto, Others, TypeOK
    <3>2. pc'[r] = "sendApi" /\ plan'[r] = p /\ expiry'[r] = expiry[r]
      BY <1>a, <2>2 DEF Goto, TypeOK
    <3>3. Ready(r)'
      BY <1>5, <1>b, <1>c, <3>2, SsiAssumption DEF Ready
    <3>4. LocalTypes'
      BY <1>a, <2>2 DEF Goto, LocalTypes, TypeOK, Labels
    <3> QED BY <1>6, <3>1, <3>3, <3>4, OthersReady
  <2> QED BY <1>9, <2>1, <2>2
<1>11. TypeOK'
  BY <1>3, <1>4, <1>10, <1>a DEF TypeOK, LocalTypes, chainVars, sdkVars
<1> QED BY <1>7, <1>8, <1>10, <1>11 DEF Inv

\* Only requests that recorded an allowance queue commands.
LEMMA SendStep ==
    ASSUME Inv, NEW r \in Requests, SendApi(r) \/ SendChain(r)
    PROVE  Inv'
<1>a. TypeOK /\ ApiWithinTotal /\ AllowanceFirst
  BY DEF Inv
<1>b. /\ plan[r] \in Plans /\ expiry[r] \in Times /\ Ready(r)
      /\ pc[r] \in {"sendApi", "sendChain"}
  BY AtLabel DEF SendApi, SendChain, At, Ready
<1>c. allowance[plan[r]] # None
  BY <1>b DEF Ready
<1>1. PICK b \in Buckets :
          commands' = commands \cup {[plan |-> plan[r], bucket |-> b,
                                      expires |-> expiry[r]]}
  BY DEF SendApi, SendChain, Send, Buckets
<1>2. UNCHANGED <<docVars, chainVars, sdkVars, now, crashes>>
  BY DEF SendApi, SendChain, Send
<1>3. commands' \subseteq [plan : Plans, bucket : Buckets, expires : Times]
  BY <1>1, <1>a, <1>b DEF TypeOK
<1>4. Grows
  BY <1>2 DEF Grows, docVars, chainVars
<1>5. AllowanceFirst' /\ ApiWithinTotal'
  BY <1>1, <1>2, <1>a, <1>c
  DEF AllowanceFirst, ApiWithinTotal, docVars, chainVars, sdkVars
<1>6. Goto(r, "sendChain") \/ Done(r)
  BY DEF SendApi, SendChain
<1>7. (\A q \in Requests : Ready(q)') /\ LocalTypes'
  <2>1. CASE Done(r)
    BY <1>4, <1>a, <2>1, DoneReady, ZeroAmount
    DEF Done, LocalTypes, TypeOK, Labels
  <2>2. CASE Goto(r, "sendChain")
    <3>1. Others(r)
      BY <1>a, <2>2 DEF Goto, Others, TypeOK
    <3>2. /\ pc'[r] = "sendChain" /\ plan'[r] = plan[r]
          /\ expiry'[r] = expiry[r]
      BY <1>a, <2>2 DEF Goto, TypeOK
    <3>3. Ready(r)'
      BY <1>2, <1>b, <1>c, <3>2, SsiAssumption DEF Ready, docVars, Times
    <3>4. LocalTypes'
      BY <1>a, <2>2 DEF Goto, LocalTypes, TypeOK, Labels
    <3> QED BY <1>4, <3>1, <3>3, <3>4, OthersReady
  <2> QED BY <1>6, <2>1, <2>2
<1>8. TypeOK'
  BY <1>2, <1>3, <1>7, <1>a
  DEF TypeOK, LocalTypes, docVars, chainVars, sdkVars
<1> QED BY <1>5, <1>7, <1>8 DEF Inv

-----------------------------------------------------------------------------
(* The steps of the lifecycle handlers, the SDK and the clock.             *)

\* They leave the locals of all requests alone.
LEMMA LocalUntouched ==
    ASSUME Inv, Grows, UNCHANGED local
    PROVE  (\A r \in Requests : Ready(r)') /\ LocalTypes'
<1>1. LocalTypes'
  BY DEF local, Inv, TypeOK, LocalTypes
<1> QED BY <1>1, ReadyKept DEF local

\* A confirmation is of a plan with an allowance; expiries and commits take
\* nothing away.
LEMMA LifecycleStep ==
    ASSUME Inv, NEW p \in Plans, NEW b \in Buckets, Lifecycle(p, b)
    PROVE  Inv'
<1>a. TypeOK /\ ApiWithinTotal /\ AllowanceFirst
  BY DEF Inv
<1>1. CASE ProcessCreditGranted(p, b)
  <2>1. /\ unconfirmed' \subseteq unconfirmed
        /\ UNCHANGED <<allowance, used, chainVars, commands, wallet, now,
                       crashes, local>>
        /\ allowance[p] # None
        /\ wallet[p][b] \in Times /\ wallet[p][b] # None
    BY <1>1, <1>a DEF ProcessCreditGranted, AllowanceFirst, TypeOK
  <2>2. /\ status' \in [Plans -> {"none", "Inactive", "Active"}]
        /\ expiresAt' \in [Plans -> Times \cup {None}]
        /\ \A q \in Plans : status[q] # "none" => status'[q] # "none"
        /\ \A q \in Plans : status'[q] = "Active" =>
              allowance[q] # None /\ expiresAt'[q] # None
    BY <1>1, <1>a, <2>1 DEF ProcessCreditGranted, AllowanceFirst, TypeOK
  <2>3. Grows
    BY <2>1, <2>2 DEF Grows, chainVars
  <2>4. AllowanceFirst' /\ ApiWithinTotal'
    BY <1>a, <2>1, <2>2 DEF AllowanceFirst, ApiWithinTotal, chainVars
  <2>5. TypeOK'
    BY <1>a, <2>1, <2>2, <2>3, LocalUntouched DEF TypeOK, LocalTypes, chainVars
  <2> QED BY <2>1, <2>3, <2>4, <2>5, LocalUntouched DEF Inv
<1>2. CASE ProcessPlanExpired(p, b)
  <2>1. UNCHANGED <<expiresAt, allowance, used, chainVars, commands, sdkVars,
                    now, crashes, local>>
    BY <1>2 DEF ProcessPlanExpired
  <2>2. /\ status' \in [Plans -> {"none", "Inactive", "Active"}]
        /\ \A q \in Plans : status[q] # "none" => status'[q] # "none"
        /\ \A q \in Plans : status'[q] = "Active" => status[q] = "Active"
    BY <1>2, <1>a DEF ProcessPlanExpired, TypeOK
  <2>3. Grows
    BY <2>1, <2>2 DEF Grows, chainVars
  <2>4. AllowanceFirst' /\ ApiWithinTotal'
    BY <1>a, <2>1, <2>2
    DEF AllowanceFirst, ApiWithinTotal, chainVars, sdkVars
  <2>5. TypeOK'
    BY <1>a, <2>1, <2>2, <2>3, LocalUntouched
    DEF TypeOK, LocalTypes, chainVars, sdkVars
  <2> QED BY <2>1, <2>3, <2>4, <2>5, LocalUntouched DEF Inv
<1>3. CASE Commit(p, b)
  <2>1. UNCHANGED <<expiresAt, allowance, feegrant, granted, disturbed,
                    commands, sdkVars, now, crashes, local>>
    BY <1>3 DEF Commit
  <2>2. used[p] \in [Buckets -> Amounts] /\ used[p][b] \in Amounts
    BY <1>a DEF TypeOK
  <2>3. /\ used' = [used EXCEPT ![p] = [used[p] EXCEPT ![b] = used[p][b] + 1]]
        /\ b = "api" => used[p][b] + 1 <= Total
        /\ b # "api" => /\ allowance[p] # None
                        /\ used[p][b] + 1 <= allowance[p]
    BY <1>3, <2>2 DEF Commit, Buckets
  <2>4. used[p][b] + 1 \in Amounts
    <3>1. CASE b = "api"
      <4>1. used[p][b] + 1 \in 0..Total
        BY <2>2, <2>3, <3>1, SsiAssumption DEF Amounts
      <4> QED BY <4>1, AmountBound
    <3>2. CASE b # "api"
      <4>1. allowance[p] \in Amounts
        BY <1>a, <2>3, <3>2 DEF TypeOK
      <4>2. Total * Multiplier \in Int
        BY SsiAssumption
      <4> QED BY <2>2, <2>3, <3>2, <4>1, <4>2 DEF Amounts
    <3> QED BY <3>1, <3>2
  <2>5. used' \in [Plans -> [Buckets -> Amounts]]
    BY <1>a, <2>2, <2>3, <2>4 DEF TypeOK
  <2>6. ApiWithinTotal'
    <3>1. ASSUME NEW q \in Plans PROVE used'[q]["api"] <= Total
      <4>1. CASE q = p /\ b = "api"
        BY <1>a, <2>2, <2>3, <4>1 DEF TypeOK
      <4>2. CASE q # p \/ b # "api"
        <5>1. used'[q]["api"] = used[q]["api"]
          BY <1>a, <2>2, <2>3, <4>2 DEF TypeOK, Buckets
        <5> QED BY <1>a, <5>1 DEF ApiWithinTotal
      <4> QED BY <4>1, <4>2
    <3> QED BY <3>1 DEF ApiWithinTotal
  <2>7. /\ status' \in [Plans -> {"none", "Inactive", "Active"}]
        /\ \A q \in Plans : status[q] # "none" => status'[q] # "none"
        /\ \A q \in Plans : status'[q] = "Active" => status[q] = "Active"
    BY <1>3, <1>a DEF Commit, TypeOK
  <2>8. unsettled' \in Nat
    BY <1>3, <1>a DEF Commit, TypeOK
  <2>9. Grows
    BY <2>1, <2>7 DEF Grows
  <2>10. AllowanceFirst'
    BY <1>a, <2>1, <2>7 DEF AllowanceFirst, sdkVars
  <2>11. TypeOK'
    BY <1>a, <2>1, <2>5, <2>7, <2>8, <2>9, LocalUntouched
    DEF TypeOK, LocalTypes, sdkVars
  <2> QED BY <2>1, <2>6, <2>9, <2>10, <2>11, LocalUntouched DEF Inv
<1> QED BY <1>1, <1>2, <1>3 DEF Lifecycle

\* The SDK confirms plans it got a command for.
LEMMA SdkStep ==
    ASSUME Inv, NEW cmd \in commands, SdkGrant(cmd)
    PROVE  Inv'
<1>a. TypeOK /\ ApiWithinTotal /\ AllowanceFirst
  BY DEF Inv
<1>b. cmd.plan \in Plans /\ cmd.bucket \in Buckets /\ cmd.expires \in Times
  BY <1>a DEF TypeOK
<1>c. cmd.expires # None /\ allowance[cmd.plan] # None
  BY <1>a, <1>b, SsiAssumption DEF Times, AllowanceFirst
<1>1. UNCHANGED <<docVars, chainVars, commands, now, crashes, local>>
  BY DEF SdkGrant
<1>2. wallet' = [wallet EXCEPT ![cmd.plan] =
                    [wallet[cmd.plan] EXCEPT ![cmd.bucket] = cmd.expires]]
  BY DEF SdkGrant
<1>3. /\ wallet' \in [Plans -> [Buckets -> Times \cup {None}]]
      /\ wallet'[cmd.plan][cmd.bucket] # None
      /\ \A p \in Plans, b \in Buckets :
            wallet[p][b] # None => wallet'[p][b] # None
  BY <1>2, <1>a, <1>b, <1>c DEF TypeOK
<1>4. /\ unconfirmed' = unconfirmed \cup {<<cmd.plan, cmd.bucket>>}
      /\ unconfirmed' \subseteq Plans \X Buckets
  BY <1>a, <1>b DEF SdkGrant, TypeOK
<1>5. Grows
  BY <1>1 DEF Grows, docVars, chainVars
<1>6. ASSUME NEW g \in unconfirmed'
      PROVE  allowance[g[1]] # None /\ wallet'[g[1]][g[2]] # None
  <2>1. CASE g \in unconfirmed
    <3>1. g[1] \in Plans /\ g[2] \in Buckets
      BY <1>a, <2>1 DEF TypeOK
    <3> QED BY <1>3, <1>a, <2>1, <3>1 DEF AllowanceFirst
  <2>2. CASE g = <<cmd.plan, cmd.bucket>>
    BY <1>3, <1>c, <2>2
  <2> QED BY <1>4, <2>1, <2>2
<1>7. AllowanceFirst' /\ ApiWithinTotal'
  BY <1>1, <1>6, <1>a DEF AllowanceFirst, ApiWithinTotal, docVars, chainVars
<1>8. TypeOK'
  BY <1>1, <1>3, <1>4, <1>5, <1>a, LocalUntouched
  DEF TypeOK, LocalTypes, docVars, chainVars
<1> QED BY <1>1, <1>5, <1>7, <1>8, LocalUntouched DEF Inv

\* Time changes nothing the invariant speaks of.
LEMMA TickStep ==
    ASSUME Inv, Tick \/ UNCHANGED vars
    PROVE  Inv'
<1>a. TypeOK /\ ApiWithinTotal /\ AllowanceFirst
  BY DEF Inv
<1>1. /\ UNCHANGED <<docVars, chainVars, commands, sdkVars, crashes, local>>
      /\ now' \in 0..MaxNow
  BY <1>a, SsiAssumption DEF Tick, vars, TypeOK
<1>2. Grows
  BY <1>1 DEF Grows, docVars, chainVars
<1>3. AllowanceFirst' /\ ApiWithinTotal'
  BY <1>1, <1>a
  DEF AllowanceFirst, ApiWithinTotal, docVars, chainVars, sdkVars
<1>4. TypeOK'
  BY <1>1, <1>2, <1>a, LocalUntouched
  DEF TypeOK, LocalTypes, docVars, chainVars, sdkVars
<1> QED BY <1>1, <1>2, <1>3, <1>4, LocalUntouched DEF Inv

\* A fee is paid from what there is.
LEMMA PayFeeStep ==
    ASSUME Inv, PayFee
    PROVE  Inv'
<1>a. TypeOK /\ ApiWithinTotal /\ AllowanceFirst
  BY DEF Inv
<1>1. UNCHANGED <<docVars, granted, disturbed, commands, sdkVars, now,
                  crashes, local>>
  BY DEF PayFee
<1>2. feegrant' \in Nat \cup {None} /\ unsettled' \in Nat
  BY <1>a DEF PayFee, TypeOK
<1>3. Grows
  BY <1>1 DEF Grows, docVars
<1>4. AllowanceFirst' /\ ApiWithinTotal'
  BY <1>1, <1>a DEF AllowanceFirst, ApiWithinTotal, docVars, sdkVars
<1>5. TypeOK'
  BY <1>1, <1>2, <1>3, <1>a, LocalUntouched
  DEF TypeOK, LocalTypes, docVars, sdkVars
<1> QED BY <1>1, <1>3, <1>4, <1>5, LocalUntouched DEF Inv

\* Inv is inductive.
LEMMA Invariant == Spec => []Inv
<1>1. Inv /\ [Next]_vars => Inv'
  BY LocalStep, CreateStep, BroadcastStep, PersistStep, SendStep,
     LifecycleStep, SdkStep, PayFeeStep, TickStep
  DEF Next, Request
<1> QED BY <1>1, InitInv, PTL DEF Spec

-----------------------------------------------------------------------------
(* Sums over plans.  MapThenSumSet takes one element of a set, whichever    *)
(* CHOOSE yields, and adds its value to the sum over the others.            *)

One(S) == CHOOSE x \in S : TRUE

\* g[u] is the sum of the f[x] over x in u, for every subset u of S.
Adds(f, S, g) ==
    \A u \in SUBSET S :
        g[u] = IF u = {} THEN 0 ELSE f[One(u)] + g[u \ {One(u)}]

\* A nonempty set has the element that is taken.
LEMMA OneIn ==
    ASSUME NEW S, S # {}
    PROVE  One(S) \in S
BY DEF One

\* A nonempty set of subsets of a finite set has a smallest element.
LEMMA SmallestSet ==
    ASSUME NEW S, IsFiniteSet(S), NEW T, T \subseteq SUBSET S, T # {}
    PROVE  \E u \in T : \A v \in T : v \subseteq u => v = u
<1>1. T \subseteq FiniteSubsetsOf(S)
  BY FS_FiniteSubsetsOfFinite
<1>2. PICK u \in T : \A v \in T : <<v, u>> \notin StrictSubsetOrdering(S)
  BY <1>1, FS_StrictSubsetOrderingWellFounded, WFMin
<1>3. ASSUME NEW v \in T, v \subseteq u, v # u PROVE FALSE
  <2>1. v \in SUBSET S /\ u \in SUBSET S
    OBVIOUS
  <2>2. <<v, u>> \in StrictSubsetOrdering(S)
    BY <1>3, <2>1 DEF StrictSubsetOrdering
  <2> QED BY <1>2, <2>2
<1> QED BY <1>3

\* Two ways to add up agree on the sets they have in common.
LEMMA SumsAgree ==
    ASSUME NEW S, IsFiniteSet(S), NEW f,
           NEW A \in SUBSET S, NEW B \in SUBSET S,
           NEW g, NEW h, Adds(f, A, g), Adds(f, B, h)
    PROVE  \A u \in SUBSET S : u \subseteq A /\ u \subseteq B => g[u] = h[u]
<1> DEFINE Bad == {u \in SUBSET S : /\ u \subseteq A /\ u \subseteq B
                                    /\ g[u] # h[u]}
<1> SUFFICES ASSUME Bad # {} PROVE FALSE
  OBVIOUS
<1>1. PICK u \in Bad : \A v \in Bad : v \subseteq u => v = u
  <2> HIDE DEF Bad
  <2>1. Bad \subseteq SUBSET S
    BY DEF Bad
  <2> QED BY <2>1, SmallestSet
<1>2. u # {}
  BY DEF Adds
<1>3. One(u) \in u
  BY <1>2, OneIn
<1>4. g[u \ {One(u)}] = h[u \ {One(u)}]
  BY <1>1, <1>3
<1> QED BY <1>2, <1>4 DEF Adds

\* Integers can be added up over a finite set.
LEMMA SumExists ==
    ASSUME NEW S, IsFiniteSet(S), NEW f \in [S -> Int]
    PROVE  \E g \in [SUBSET S -> Int] : Adds(f, S, g)
<1> DEFINE Has(u) == \E g \in [SUBSET u -> Int] : Adds(f, u, g)
           Bad == {u \in SUBSET S : ~Has(u)}
<1> SUFFICES ASSUME Bad # {} PROVE FALSE
  OBVIOUS
<1>1. PICK u \in Bad : \A v \in Bad : v \subseteq u => v = u
  <2> HIDE DEF Bad
  <2>1. Bad \subseteq SUBSET S
    BY DEF Bad
  <2> QED BY <2>1, SmallestSet
<1> DEFINE G(v) == CHOOSE g \in [SUBSET v -> Int] : Adds(f, v, g)
           rest == u \ {One(u)}
           new == IF u = {} THEN 0 ELSE f[One(u)] + G(rest)[rest]
           g == [v \in SUBSET u |-> IF v = u THEN new ELSE G(v)[v]]
<1>2. ASSUME NEW v \in SUBSET u, v # u
      PROVE  G(v) \in [SUBSET v -> Int] /\ Adds(f, v, G(v))
  <2>1. Has(v)
    BY <1>1, <1>2
  <2> QED BY <2>1
<1>3. ASSUME u # {}
      PROVE  One(u) \in u /\ One(u) \in S /\ rest \in SUBSET u /\ rest # u
  BY <1>3, OneIn
<1> HIDE DEF G, Bad
<1>4. new \in Int
  <2>1. CASE u = {}
    BY <2>1
  <2>2. CASE u # {}
    <3>1. rest \in SUBSET u /\ rest # u /\ f[One(u)] \in Int
      BY <1>3, <2>2
    <3>2. G(rest) \in [SUBSET rest -> Int]
      BY <1>2, <3>1
    <3>3. G(rest)[rest] \in Int
      BY <3>2
    <3> QED BY <2>2, <3>1, <3>3
  <2> QED BY <2>1, <2>2
<1> HIDE DEF new
<1>5. g \in [SUBSET u -> Int]
  BY <1>2, <1>4
<1>6. ASSUME NEW v \in SUBSET u
      PROVE  g[v] = IF v = {} THEN 0 ELSE f[One(v)] + g[v \ {One(v)}]
  <2>1. CASE v = u
    <3>1. CASE u = {}
      BY <2>1, <3>1 DEF new
    <3>2. CASE u # {}
      <4>1. g[rest] = G(rest)[rest]
        BY <1>3, <3>2
      <4>2. g[u] = f[One(u)] + G(rest)[rest]
        BY <3>2 DEF new
      <4> QED BY <2>1, <3>2, <4>1, <4>2
    <3> QED BY <3>1, <3>2
  <2>2. CASE v # u /\ v = {}
    <3>1. G(v)[v] = 0
      BY <1>2, <2>2 DEF Adds
    <3> QED BY <2>2, <3>1
  <2>3. CASE v # u /\ v # {}
    <3>0. PICK w \in SUBSET u : w = v \ {One(v)}
      OBVIOUS
    <3>1. One(v) \in v
      BY <2>3, OneIn
    <3>2. w \in SUBSET u /\ w # u /\ w \subseteq v
      BY <2>3, <3>0, <3>1
    <3>3. G(v)[v] = f[One(v)] + G(v)[w]
      BY <1>2, <2>3, <3>0 DEF Adds
    <3>4. G(v)[w] = G(w)[w]
      <4>1. w \in SUBSET S /\ v \in SUBSET S
        BY <3>2 DEF Bad
      <4>2. Adds(f, v, G(v)) /\ Adds(f, w, G(w))
        BY <1>2, <2>3, <3>2
      <4>3. \A x \in SUBSET S :
                x \subseteq v /\ x \subseteq w => G(v)[x] = G(w)[x]
        BY <4>1, <4>2, SumsAgree
      <4> QED BY <3>2, <4>1, <4>3
    <3>5. g[v] = G(v)[v] /\ g[w] = G(w)[w]
      BY <2>3, <3>2
    <3> QED BY <2>3, <3>0, <3>3, <3>4, <3>5
  <2> QED BY <2>1, <2>2, <2>3
<1>7. Has(u)
  <2> HIDE DEF g
  <2> QED BY <1>5, <1>6 DEF Adds
<1> QED BY <1>7 DEF Bad

\* What every plan's f adds up to.
Sum(f) == (CHOOSE g \in [SUBSET Plans -> Int] : Adds(f, Plans, g))[Plans]

\* It may be computed any way that adds up.
LEMMA SumIs ==
    ASSUME NEW f \in [Plans -> Int],
           NEW g \in [SUBSET Plans -> Int], Adds(f, Plans, g)
    PROVE  Sum(f) = g[Plans] /\ Sum(f) \in Int
<1> DEFINE h == CHOOSE k \in [SUBSET Plans -> Int] : Adds(f, Plans, k)
<1>1. h \in [SUBSET Plans -> Int] /\ Adds(f, Plans, h)
  OBVIOUS
<1> HIDE DEF h
<1>2. h[Plans] = g[Plans]
  BY <1>1, SumsAgree, FinitePlans
<1>3. Sum(f) = h[Plans]
  BY DEF Sum, h
<1> QED BY <1>2, <1>3

\* When the values grow by no more than d at p, and nowhere else, so does
\* their sum.
LEMMA SumBound ==
    ASSUME NEW f \in [Plans -> Int], NEW h \in [Plans -> Int],
           NEW p, NEW d \in Int,
           \A q \in Plans : h[q] <= f[q] + (IF q = p THEN d ELSE 0)
    PROVE  /\ Sum(f) \in Int /\ Sum(h) \in Int
           /\ Sum(h) <= Sum(f) + (IF p \in Plans THEN d ELSE 0)
<1>1. PICK F \in [SUBSET Plans -> Int] : Adds(f, Plans, F)
  BY SumExists, FinitePlans
<1>2. PICK H \in [SUBSET Plans -> Int] : Adds(h, Plans, H)
  BY SumExists, FinitePlans
<1>3. /\ Sum(f) = F[Plans] /\ Sum(f) \in Int
      /\ Sum(h) = H[Plans] /\ Sum(h) \in Int
  BY <1>1, <1>2, SumIs
<1> DEFINE Bad == {u \in SUBSET Plans :
                      ~(H[u] <= F[u] + (IF p \in u THEN d ELSE 0))}
<1>4. Bad = {}
  <2> SUFFICES ASSUME Bad # {} PROVE FALSE
    OBVIOUS
  <2>1. PICK u \in Bad : \A v \in Bad : v \subseteq u => v = u
    <3> HIDE DEF Bad
    <3>1. Bad \subseteq SUBSET Plans
      BY DEF Bad
    <3> QED BY <3>1, SmallestSet, FinitePlans
  <2>2. CASE u = {}
    <3>1. H[u] = 0 /\ F[u] = 0
      BY <1>1, <1>2, <2>2 DEF Adds
    <3> QED BY <2>2, <3>1
  <2>3. CASE u # {}
    <3>1. PICK x \in u : x = One(u)
      BY <2>3, OneIn
    <3>2. PICK v \in SUBSET u : v = u \ {x}
      OBVIOUS
    <3>3. x \in Plans /\ v \in SUBSET Plans /\ v # u
      BY <3>2
    <3>4. H[v] <= F[v] + (IF p \in v THEN d ELSE 0)
      BY <2>1, <3>3
    <3>5. H[u] = h[x] + H[v] /\ F[u] = f[x] + F[v]
      BY <1>1, <1>2, <2>3, <3>1, <3>2 DEF Adds
    <3>6. h[x] <= f[x] + (IF x = p THEN d ELSE 0)
      BY <3>3
    <3>7. /\ h[x] \in Int /\ f[x] \in Int /\ H[v] \in Int /\ F[v] \in Int
      BY <3>3
    <3>8. ~(H[u] <= F[u] + (IF p \in u THEN d ELSE 0))
      OBVIOUS
    <3> HIDE DEF Bad
    <3>9. CASE x = p
      <4>1. p \in u /\ p \notin v
        BY <3>2, <3>9
      <4> QED BY <3>4, <3>5, <3>6, <3>7, <3>8, <3>9, <4>1
    <3>10. CASE x # p
      <4>1. p \in u <=> p \in v
        BY <3>2, <3>10
      <4>2. CASE p \in v
        BY <3>4, <3>5, <3>6, <3>7, <3>8, <3>10, <4>1, <4>2
      <4>3. CASE p \notin v
        BY <3>4, <3>5, <3>6, <3>7, <3>8, <3>10, <4>1, <4>3
      <4> QED BY <4>2, <4>3
    <3> QED BY <3>9, <3>10
  <2> QED BY <2>2, <2>3
<1>5. H[Plans] <= F[Plans] + (IF p \in Plans THEN d ELSE 0)
  BY <1>4
<1> QED BY <1>3, <1>5

\* Nothing adds up to nothing.
LEMMA SumZero == Sum([p \in Plans |-> 0]) = 0
<1> DEFINE f == [p \in Plans |-> 0]
           g == [u \in SUBSET Plans |-> 0]
<1>1. f \in [Plans -> Int] /\ g \in [SUBSET Plans -> Int]
  OBVIOUS
<1>2. Adds(f, Plans, g)
  <2>1. ASSUME NEW u \in SUBSET Plans, u # {}
        PROVE  f[One(u)] = 0 /\ g[u \ {One(u)}] = 0
    <3>1. One(u) \in Plans
      BY <2>1, OneIn
    <3> QED BY <3>1
  <2> QED BY <2>1 DEF Adds
<1>3. g[Plans] = 0
  OBVIOUS
<1> HIDE DEF f, g
<1>4. Sum(f) = 0
  BY <1>1, <1>2, <1>3, SumIs
<1> QED BY <1>4 DEF f

\* The sum that PlansBacked speaks of.
LEMMA LeftSum ==
    ASSUME NEW f \in [Plans -> Int], \A p \in Plans : f[p] = Left(p)
    PROVE  MapThenSumSet(Left, Plans) = Sum(f)
<1> DEFINE iter[u \in SUBSET Plans] ==
              IF u = {} THEN 0 ELSE Left(One(u)) + iter[u \ {One(u)}]
<1>1. MapThenSumSet(Left, Plans) = iter[Plans]
  BY DEF MapThenSumSet, MapThenFoldSet, One
<1>2. PICK g \in [SUBSET Plans -> Int] : Adds(f, Plans, g)
  BY SumExists, FinitePlans
<1>3. g = [u \in SUBSET Plans |->
              IF u = {} THEN 0 ELSE Left(One(u)) + g[u \ {One(u)}]]
  <2>1. ASSUME NEW u \in SUBSET Plans, u # {}
        PROVE  f[One(u)] = Left(One(u))
    BY <2>1, OneIn
  <2> QED BY <1>2, <2>1 DEF Adds
<1>4. iter = [u \in SUBSET Plans |->
                 IF u = {} THEN 0 ELSE Left(One(u)) + iter[u \ {One(u)}]]
  BY <1>3
<1> HIDE DEF iter
<1>5. Adds(f, Plans, iter)
  <2>1. ASSUME NEW u \in SUBSET Plans, u # {}
        PROVE  f[One(u)] = Left(One(u))
    BY <2>1, OneIn
  <2>2. ASSUME NEW u \in SUBSET Plans
        PROVE  iter[u] = IF u = {} THEN 0
                         ELSE Left(One(u)) + iter[u \ {One(u)}]
    BY <1>4
  <2> QED BY <2>1, <2>2 DEF Adds
<1>6. iter[Plans] = g[Plans]
  BY <1>2, <1>5, SumsAgree, FinitePlans
<1> QED BY <1>1, <1>2, <1>6, SumIs

-----------------------------------------------------------------------------
(* PlansBacked.  The allowance on the chain, with the fees paid from it that *)
(* no document was charged, covers more than the documents record: also what *)
(* a request has granted and not recorded yet.                               *)

\* What an allowance still holds.
HeldOf(f) == IF f = None THEN 0 ELSE f

\* What the wallet may still spend, and with the fees to be charged.
Held == IF feegrant = None THEN 0 ELSE feegrant
Cover == Held + unsettled

\* The allowance of a fresh plan.
Full == Total * Multiplier

\* r has granted the allowance of p and is about to record it.
Paid(r, p) == /\ plan[r] = p
              /\ \/ pc[r] = "persist"
                 \/ pc[r] = "create" /\ expiry[r] # None

\* What the chain must hold for p: what is left of the recorded allowance, or
\* the one that is about to be recorded.
Due(p) == IF allowance[p] # None THEN allowance[p] - used[p]["chain"]
          ELSE IF \E r \in Requests : Paid(r, p) THEN Full ELSE 0

Dues == [p \in Plans |-> Due(p)]

\* A plan is granted by the SDK, and charged, after its allowance is recorded.
Unspent == \A p \in Plans : allowance[p] = None =>
               \A b \in Buckets : wallet[p][b] = None /\ used[p][b] = 0

\* r has fixed the amount it buys and not used it yet.
Buying(r) == \/ pc[r] \in {"query", "broadcast", "persist"}
             \/ pc[r] = "create" /\ expiry[r] # None

\* The amount is that of a fresh plan, for a plan without an allowance.
PricedOf(r) == Buying(r) => bought[r] = Full \/ allowance[plan[r]] # None
Priced == \A r \in Requests : PricedOf(r)

\* The requests about to replace the allowance have read at least what it
\* holds: fees may have been paid since.
Fresh == \A r \in Requests :
             pc[r] = "broadcast" => Held <= HeldOf(remaining[r])

Backed == /\ Unspent
          /\ Priced
          /\ ~disturbed => Fresh /\ Sum(Dues) <= Cover

\* Amounts are natural numbers.
LEMMA AmountNat == \A a \in Amounts : a \in Nat /\ a \in Int
<1>1. Total * Multiplier \in Nat
  BY SsiAssumption
<1> QED BY <1>1 DEF Amounts

\* So is the allowance of a fresh plan.
LEMMA FullNat == Full \in Nat /\ Full \in Int /\ Full \in Amounts
<1>1. Total * Multiplier \in Nat
  BY SsiAssumption
<1> QED BY <1>1 DEF Amounts, Full

\* What is due is a number, and so is what the chain holds.
LEMMA DueInt ==
    ASSUME TypeOK
    PROVE  /\ Dues \in [Plans -> Int]
           /\ \A p \in Plans : Dues[p] = Due(p)
           /\ Held \in Nat /\ Cover \in Nat
<1>1. ASSUME NEW p \in Plans PROVE Due(p) \in Int
  <2>1. /\ used[p] \in [Buckets -> Amounts]
        /\ allowance[p] \in Amounts \cup {None}
    BY <1>1 DEF TypeOK
  <2>2. used[p]["chain"] \in Amounts
    BY <2>1 DEF Buckets
  <2>3. used[p]["chain"] \in Int
    BY <2>2, AmountNat
  <2>4. allowance[p] # None => allowance[p] \in Int
    BY <2>1, AmountNat
  <2> QED BY <2>3, <2>4, FullNat DEF Due
<1> QED BY <1>1 DEF Dues, TypeOK, Held, Cover

\* The same of the next state.
LEMMA DueIntNext ==
    ASSUME TypeOK'
    PROVE  /\ Dues' \in [Plans -> Int]
           /\ \A p \in Plans : Dues'[p] = Due(p)'
           /\ Held' \in Nat /\ Cover' \in Nat
<1>1. ASSUME NEW p \in Plans PROVE Due(p)' \in Int
  <2>1. /\ used'[p] \in [Buckets -> Amounts]
        /\ allowance'[p] \in Amounts \cup {None}
    BY <1>1 DEF TypeOK
  <2>2. used'[p]["chain"] \in Amounts
    BY <2>1 DEF Buckets
  <2>3. used'[p]["chain"] \in Int
    BY <2>2, AmountNat
  <2>4. allowance'[p] # None => allowance'[p] \in Int
    BY <2>1, AmountNat
  <2> QED BY <2>3, <2>4, FullNat DEF Due
<1>2. Held' \in Nat
  <2>1. feegrant' \in Nat \cup {None}
    BY DEF TypeOK
  <2> QED BY <2>1 DEF Held
<1>3. Cover' \in Nat
  <2>1. PICK h \in Nat : h = Held'
    BY <1>2
  <2>2. PICK u \in Nat : u = unsettled'
    BY DEF TypeOK
  <2>3. Cover' = h + u
    BY <2>1, <2>2 DEF Cover
  <2> QED BY <2>3
<1> QED BY <1>1, <1>2, <1>3 DEF Dues, TypeOK

\* Commands, and what the SDK grants on them, come after the allowance.
LEMMA UnspentKept ==
    ASSUME Backed,
           \A p \in Plans : allowance'[p] = None =>
               /\ allowance[p] = None
               /\ wallet'[p] = wallet[p] /\ used'[p] = used[p]
    PROVE  Unspent'
BY DEF Backed, Unspent

\* No other request reads the allowance or fixes an amount.
Reads(r) == \A q \in Requests \ {r} : /\ remaining'[q] = remaining[q]
                                     /\ bought'[q] = bought[q]

\* Amounts stay as they are, and plans keep their allowances.
LEMMA PricedKept ==
    ASSUME Inv, Backed, NEW r \in Requests, Others(r), Reads(r),
           \A q \in Plans : allowance[q] # None => allowance'[q] # None,
           PricedOf(r)'
    PROVE  Priced'
<1>1. ASSUME NEW q \in Requests, q # r PROVE PricedOf(q)'
  <2>1. Buying(q)' => Buying(q)
    BY <1>1 DEF Buying, Others
  <2>2. Buying(q) => plan[q] \in Plans
    BY AtLabel DEF Buying
  <2>3. bought'[q] = bought[q] /\ plan'[q] = plan[q]
    BY <1>1 DEF Others, Reads
  <2> QED BY <2>1, <2>2, <2>3 DEF PricedOf, Backed, Priced
<1> QED BY <1>1 DEF Priced

\* The allowance goes on covering the plans when what is due grows by no more
\* than what it holds, and only for one plan.
LEMMA BackedKept ==
    ASSUME Inv, Inv', Backed, Unspent', Priced', disturbed => disturbed',
           NEW p \in Plans, NEW d \in Int,
           ~disturbed' => /\ Fresh'
                          /\ Cover' >= Cover + d
                          /\ \A q \in Plans :
                                Due(q)' <= Due(q) + (IF q = p THEN d ELSE 0)
    PROVE  Backed'
<1> SUFFICES ASSUME ~disturbed' PROVE Sum(Dues)' <= Cover'
  BY DEF Backed
<1>0. ~disturbed
  OBVIOUS
<1>1. PICK f \in [Plans -> Int] : f = Dues /\ \A q \in Plans : f[q] = Due(q)
  BY DueInt DEF Inv
<1>2. PICK h \in [Plans -> Int] :
          h = Dues' /\ \A q \in Plans : h[q] = Due(q)'
  <2>1. TypeOK'
    BY DEF Inv
  <2>2. Dues' \in [Plans -> Int] /\ \A q \in Plans : Dues'[q] = Due(q)'
    BY <2>1, DueIntNext
  <2> QED BY <2>2
<1>3. /\ Sum(f) \in Int /\ Sum(h) \in Int
      /\ Sum(h) <= Sum(f) + d
  <2>1. ASSUME NEW q \in Plans
        PROVE  h[q] <= f[q] + (IF q = p THEN d ELSE 0)
    BY <1>1, <1>2
  <2>2. /\ Sum(f) \in Int /\ Sum(h) \in Int
        /\ Sum(h) <= Sum(f) + (IF p \in Plans THEN d ELSE 0)
    BY <2>1, SumBound
  <2> QED BY <2>2
<1>4. Sum(f) <= Cover
  BY <1>0, <1>1 DEF Backed
<1>5. Sum(Dues)' = Sum(h)
  BY <1>2 DEF Sum
<1>6. Cover \in Int /\ Cover' \in Int
  <2>1. TypeOK /\ TypeOK'
    BY DEF Inv
  <2> QED BY <2>1, DueInt, DueIntNext
<1> QED BY <1>3, <1>4, <1>5, <1>6

\* Nothing changes for a step that leaves the balances and the requests alone.
LEMMA StillBacked ==
    ASSUME Backed,
           UNCHANGED <<allowance, used, feegrant, disturbed, unsettled, wallet,
                       local>>
    PROVE  Backed'
<1>1. Unspent'
  BY UnspentKept
<1>2. (Fresh => Fresh') /\ (Priced => Priced')
  BY DEF Fresh, Held, Priced, PricedOf, Buying, local
<1>3. Dues' = Dues
  BY DEF Dues, Due, Paid, local
<1>4. Sum(Dues)' = Sum(Dues) /\ Cover' = Cover
  BY <1>3 DEF Sum, Cover, Held
<1> QED BY <1>1, <1>2, <1>4 DEF Backed

\* What was read stays fresh while the allowance does.
LEMMA FreshKept ==
    ASSUME Inv, Backed, ~disturbed, NEW r \in Requests, Others(r), Reads(r),
           feegrant' = feegrant,
           pc'[r] = "broadcast" => remaining'[r] = feegrant
    PROVE  Fresh'
<1>1. Held' = Held /\ Held <= HeldOf(feegrant)
  BY DueInt DEF Inv, Held, HeldOf
<1>2. ASSUME NEW q \in Requests, pc'[q] = "broadcast"
      PROVE  Held <= HeldOf(remaining'[q])
  <2>1. CASE q = r
    BY <1>1, <1>2, <2>1
  <2>2. CASE q # r
    BY <1>2, <2>2 DEF Backed, Fresh, Others, Reads
  <2> QED BY <2>1, <2>2
<1> QED BY <1>1, <1>2 DEF Fresh

\* No more is due for a plan whose balances are left alone and that no request
\* has newly paid.
LEMMA DueKept ==
    ASSUME TypeOK, TypeOK', NEW q \in Plans, NEW r \in Requests, Others(r),
           allowance'[q] = allowance[q], used'[q] = used[q],
           Paid(r, q)' => Paid(r, q) \/ allowance[q] # None
    PROVE  Due(q)' <= Due(q)
<1>1. Due(q) \in Int /\ Due(q)' \in Int
  BY DueInt, DueIntNext
<1>2. ASSUME NEW s \in Requests, s # r, Paid(s, q)'
      PROVE  Paid(s, q)
  BY <1>2 DEF Paid, Others
<1>3. CASE allowance[q] # None
  <2>1. Due(q)' = Due(q)
    BY <1>3 DEF Due
  <2> QED BY <1>1, <2>1
<1>4. CASE allowance[q] = None
  <2>1. (\E s \in Requests : Paid(s, q)') => \E s \in Requests : Paid(s, q)
    BY <1>2, <1>4
  <2>2. Due(q)' = IF \E s \in Requests : Paid(s, q)' THEN Full ELSE 0
    BY <1>4 DEF Due, Full
  <2>3. Due(q) = IF \E s \in Requests : Paid(s, q) THEN Full ELSE 0
    BY <1>4 DEF Due
  <2> QED BY <2>1, <2>2, <2>3, FullNat
<1> QED BY <1>3, <1>4

\* A request that only moves, and has not newly paid.
LEMMA MoveBacked ==
    ASSUME Inv, Inv', Backed, NEW r \in Requests, NEW p \in Plans,
           UNCHANGED <<allowance, used, feegrant, disturbed, unsettled,
                       wallet>>,
           Others(r), Reads(r), PricedOf(r)',
           pc'[r] = "broadcast" => remaining'[r] = feegrant,
           \A q \in Plans : Paid(r, q)' => allowance[q] # None
    PROVE  Backed'
<1>1. TypeOK /\ TypeOK'
  BY DEF Inv
<1>2. Unspent'
  BY UnspentKept
<1>3. (~disturbed => Fresh') /\ Priced'
  BY FreshKept, PricedKept
<1>4. ASSUME NEW q \in Plans
      PROVE  Due(q)' <= Due(q) + (IF q = p THEN 0 ELSE 0)
  <2>1. Due(q)' <= Due(q)
    BY <1>1, DueKept
  <2>2. Due(q) \in Int /\ Due(q)' \in Int
    BY <1>1, DueInt, DueIntNext
  <2> QED BY <2>1, <2>2
<1>5. Cover' >= Cover + 0
  <2>1. Cover \in Int /\ Cover' = Cover
    BY <1>1, DueInt DEF Cover, Held
  <2> QED BY <2>1
<1> QED BY <1>2, <1>3, <1>4, <1>5, BackedKept

\* A request that moves to an await where nothing is paid or read.
LEMMA GoneBacked ==
    ASSUME Inv, Inv', Backed, NEW r \in Requests, NEW p \in Plans,
           UNCHANGED <<allowance, used, feegrant, disturbed, unsettled,
                       wallet>>,
           Others(r), Reads(r),
           pc'[r] \notin {"query", "broadcast", "persist", "create"}
    PROVE  Backed'
<1>1. (\A q \in Plans : ~Paid(r, q)') /\ PricedOf(r)'
  BY DEF Paid, PricedOf, Buying
<1> QED BY <1>1, MoveBacked

\* Before its allowance is recorded a plan is worth a fresh one.
LEMMA NewIsFull ==
    ASSUME Backed, NEW p \in Plans, allowance[p] = None
    PROVE  NewAmount(p) = Full
<1>1. used[p]["api"] = 0
  BY DEF Backed, Unspent, Buckets
<1>2. Total - 0 = Total
  BY SsiAssumption
<1> QED BY <1>1, <1>2 DEF NewAmount, Full

\* The ways a request goes on.
LEMMA MovesOf ==
    ASSUME TypeOK, NEW r \in Requests
    PROVE  /\ Done(r) => Others(r) /\ Reads(r) /\ pc'[r] = "idle"
           /\ \A l : Goto(r, l) => Others(r) /\ Reads(r) /\ pc'[r] = l
           /\ \A l, t : GotoWith(r, l, t) =>
                 Others(r) /\ Reads(r) /\ pc'[r] = l
           /\ \A l, t, a : GrantThen(r, l, t, a) =>
                 /\ Others(r) /\ Reads(r)
                 /\ pc'[r] = "query" /\ bought'[r] = a
           /\ \A l, p : Start(r, l, p) =>
                 Others(r) /\ Reads(r) /\ pc'[r] = l
<1>1. Done(r) => Others(r) /\ Reads(r) /\ pc'[r] = "idle"
  BY DEF Done, TypeOK, Others, Reads
<1>2. ASSUME NEW l, Goto(r, l)
      PROVE  Others(r) /\ Reads(r) /\ pc'[r] = l
  BY <1>2 DEF Goto, TypeOK, Others, Reads
<1>3. ASSUME NEW l, NEW t, GotoWith(r, l, t)
      PROVE  Others(r) /\ Reads(r) /\ pc'[r] = l
  BY <1>3 DEF GotoWith, TypeOK, Others, Reads
<1>4. ASSUME NEW l, NEW t, NEW a, GrantThen(r, l, t, a)
      PROVE  Others(r) /\ Reads(r) /\ pc'[r] = "query" /\ bought'[r] = a
  BY <1>4 DEF GrantThen, TypeOK, Others, Reads
<1>5. ASSUME NEW l, NEW p, Start(r, l, p)
      PROVE  Others(r) /\ Reads(r) /\ pc'[r] = l
  BY <1>5 DEF Start, TypeOK, Others, Reads
<1> QED BY <1>1, <1>2, <1>3, <1>4, <1>5

\* The look-ups, refusals and deaths of a request pay nothing.
LEMMA LocalBacked ==
    ASSUME Inv, Inv', Backed, NEW r \in Requests,
           \/ \E p \in Plans : StartGrant(r, p) \/ StartActivate(r, p)
           \/ Lookup(r) \/ FindActive(r) \/ Query(r) \/ BroadcastFails(r)
           \/ Load(r) \/ Crash(r) \/ SendApi(r) \/ SendChain(r)
    PROVE  Backed'
<1>a. TypeOK
  BY DEF Inv
<1>b. UNCHANGED <<allowance, used, feegrant, disturbed, unsettled, wallet>>
  BY DEF StartGrant, StartActivate, Lookup, FindActive, Query, BroadcastFails,
         Load, Crash, SendApi, SendChain, Send, docVars, chainVars, sdkVars
<1>c. pc[r] # "idle" => plan[r] \in Plans
  BY AtLabel
<1>d. ASSUME Done(r), pc[r] # "idle" PROVE Backed'
  <2>1. Others(r) /\ Reads(r) /\ pc'[r] = "idle"
    BY <1>a, <1>d, MovesOf
  <2> QED BY <1>b, <1>c, <1>d, <2>1, GoneBacked
<1>1. ASSUME NEW p \in Plans, StartGrant(r, p) \/ StartActivate(r, p)
      PROVE  Backed'
  <2>1. Others(r) /\ Reads(r) /\ pc'[r] \in {"lookup", "load"}
    BY <1>a, <1>1, MovesOf DEF StartGrant, StartActivate
  <2> QED BY <1>b, <2>1, GoneBacked
<1>2. CASE Lookup(r)
  <2>1. pc[r] = "lookup"
    BY <1>2 DEF Lookup, At
  <2>2. \/ Done(r) \/ Goto(r, "findActive")
        \/ GotoWith(r, "sendApi", expiresAt[plan[r]])
    BY <1>2 DEF Lookup
  <2>3. Others(r) /\ Reads(r) /\ pc'[r] \in {"idle", "findActive", "sendApi"}
    BY <1>a, <2>2, MovesOf
  <2> QED BY <1>b, <1>c, <2>1, <2>3, GoneBacked
<1>3. CASE FindActive(r)
  <2>1. pc[r] = "findActive" /\ expiry[r] = None /\ plan[r] \in Plans
    BY <1>3, AtLabel DEF FindActive, At, Ready
  <2>2. CASE Goto(r, "create")
    <3>1. Others(r) /\ Reads(r) /\ pc'[r] = "create"
      BY <1>a, <2>2, MovesOf
    <3>2. expiry'[r] = None
      BY <2>1, <2>2 DEF Goto
    <3>3. (\A q \in Plans : ~Paid(r, q)') /\ PricedOf(r)'
      BY <3>1, <3>2 DEF Paid, PricedOf, Buying
    <3> QED BY <1>b, <2>1, <3>1, <3>3, MoveBacked
  <2>3. CASE GrantThen(r, "create", now + Validity, Total * Multiplier)
    <3>1. Others(r) /\ Reads(r) /\ pc'[r] = "query" /\ bought'[r] = Full
      BY <1>a, <2>3, MovesOf DEF Full
    <3>2. (\A q \in Plans : ~Paid(r, q)') /\ PricedOf(r)'
      BY <3>1 DEF Paid, PricedOf
    <3> QED BY <1>b, <2>1, <3>1, <3>2, MoveBacked
  <2> QED BY <1>3, <2>2, <2>3 DEF FindActive
<1>4. CASE Query(r)
  <2>1. pc[r] = "query" /\ plan[r] \in Plans
    BY <1>4, AtLabel DEF Query, At
  <2>2. /\ Others(r) /\ Reads(r)
        /\ pc'[r] = "broadcast" /\ remaining'[r] = feegrant
        /\ bought'[r] = bought[r] /\ plan'[r] = plan[r]
    BY <1>4, <1>a DEF Query, TypeOK, Others, Reads
  <2>3. \A q \in Plans : ~Paid(r, q)'
    BY <2>2 DEF Paid
  <2>4. PricedOf(r)'
    BY <1>b, <2>1, <2>2 DEF Backed, Priced, PricedOf, Buying
  <2> QED BY <1>b, <2>1, <2>2, <2>3, <2>4, MoveBacked
<1>5. CASE BroadcastFails(r)
  BY <1>5, <1>d DEF BroadcastFails, At
<1>6. CASE Load(r)
  <2> DEFINE p == plan[r]
             t == IF expiresAt[p] # None THEN expiresAt[p] ELSE now + Validity
  <2>1. pc[r] = "load" /\ p \in Plans
    BY <1>6, AtLabel DEF Load, At
  <2>2. CASE Done(r)
    BY <1>d, <2>1, <2>2
  <2>3. CASE /\ allowance[p] = None
             /\ GrantThen(r, "persist", t, NewAmount(p))
    <3>1. Others(r) /\ Reads(r) /\ pc'[r] = "query" /\ bought'[r] = Full
      BY <1>a, <2>1, <2>3, MovesOf, NewIsFull
    <3>2. (\A q \in Plans : ~Paid(r, q)') /\ PricedOf(r)'
      BY <3>1 DEF Paid, PricedOf
    <3> QED BY <1>b, <2>1, <3>1, <3>2, MoveBacked
  <2>4. CASE allowance[p] # None /\ GotoWith(r, "persist", t)
    <3>1. Others(r) /\ Reads(r) /\ pc'[r] = "persist"
      BY <1>a, <2>4, MovesOf
    <3>2. plan'[r] = p
      BY <2>4 DEF GotoWith
    <3>3. /\ \A q \in Plans : Paid(r, q)' => allowance[q] # None
          /\ PricedOf(r)'
      BY <1>b, <2>4, <3>2 DEF Paid, PricedOf
    <3> QED BY <1>b, <2>1, <3>1, <3>3, MoveBacked
  <2> QED BY <1>6, <2>2, <2>3, <2>4 DEF Load
<1>7. CASE Crash(r)
  BY <1>7, <1>d DEF Crash, At
<1>8. CASE SendApi(r) \/ SendChain(r)
  <2>1. plan[r] \in Plans
    BY <1>8, AtLabel DEF SendApi, SendChain, At
  <2>2. Others(r) /\ Reads(r) /\ pc'[r] \in {"sendChain", "idle"}
    BY <1>8, <1>a, MovesOf DEF SendApi, SendChain
  <2> QED BY <1>b, <2>1, <2>2, GoneBacked
<1> QED BY <1>1, <1>2, <1>3, <1>4, <1>5, <1>6, <1>7, <1>8

\* One request records the allowance it paid: what was due of the grant is now
\* due of the document.
LEMMA RecordBacked ==
    ASSUME Inv, Inv', Backed, NEW r \in Requests, NEW p \in Plans,
           UNCHANGED <<used, feegrant, disturbed, unsettled, wallet>>,
           Others(r), Reads(r), pc'[r] \in {"sendApi", "idle"},
           \A q \in Plans : q # p => allowance'[q] = allowance[q],
           \/ allowance'[p] = allowance[p]
           \/ allowance[p] = None /\ allowance'[p] = Full /\ Paid(r, p)
    PROVE  Backed'
<1>1. TypeOK /\ TypeOK'
  BY DEF Inv
<1>2. Unspent'
  <2>1. Full # None
    BY FullNat, SsiAssumption
  <2> QED BY <2>1, UnspentKept
<1>3. (~disturbed => Fresh') /\ Priced'
  <2>1. Full # None
    BY FullNat, SsiAssumption
  <2>2. PricedOf(r)'
    BY DEF PricedOf, Buying
  <2>3. \A q \in Plans : allowance[q] # None => allowance'[q] # None
    BY <2>1
  <2> QED BY <2>2, <2>3, FreshKept, PricedKept
<1>4. \A q \in Plans : ~Paid(r, q)'
  BY DEF Paid
<1>5. ASSUME NEW q \in Plans
      PROVE  Due(q)' <= Due(q) + (IF q = p THEN 0 ELSE 0)
  <2>1. Due(q) \in Int /\ Due(q)' \in Int
    BY <1>1, DueInt, DueIntNext
  <2>2. CASE allowance'[q] = allowance[q]
    BY <1>1, <1>4, <2>1, <2>2, DueKept
  <2>3. CASE q = p /\ allowance[p] = None /\ allowance'[p] = Full /\ Paid(r, p)
    <3>1. Due(q) = Full
      BY <2>3 DEF Due
    <3>2. Full # None
      BY FullNat, SsiAssumption
    <3>3. PICK u \in Nat : u = used'[q]["chain"]
      <4>1. used'[q] \in [Buckets -> Amounts]
        BY <1>1 DEF TypeOK
      <4> QED BY <4>1, AmountNat DEF Buckets
    <3>4. Due(q)' = Full - u
      BY <2>3, <3>2, <3>3 DEF Due
    <3> QED BY <3>1, <3>3, <3>4, FullNat
  <2> QED BY <2>2, <2>3
<1>6. Cover' >= Cover + 0
  <2>1. Cover \in Int /\ Cover' = Cover
    BY <1>1, DueInt DEF Cover, Held
  <2> QED BY <2>1
<1> QED BY <1>2, <1>3, <1>5, <1>6, BackedKept

\* Create records the allowance of a new plan if the request paid it.
LEMMA CreateBacked ==
    ASSUME Inv, Inv', Backed, NEW r \in Requests, Create(r)
    PROVE  Backed'
<1> DEFINE p == plan[r]
<1>1. TypeOK /\ AllowanceFirst /\ p \in Plans /\ pc[r] = "create"
  BY AtLabel DEF Inv, Create, At
<1>2. UNCHANGED <<used, feegrant, disturbed, unsettled, wallet>>
  BY DEF Create, chainVars, sdkVars
<1>3. Others(r) /\ Reads(r) /\ pc'[r] \in {"sendApi", "idle"}
  <2>1. Done(r) \/ GotoWith(r, "sendApi", expiresAt'[p])
    BY DEF Create
  <2> QED BY <1>1, <2>1, MovesOf
<1>4. CASE status[p] = "none"
  <2>1. allowance[p] = None
    BY <1>1, <1>4 DEF AllowanceFirst
  <2>2. allowance' = [allowance EXCEPT ![p] =
                         IF expiry[r] # None THEN Full ELSE None]
    <3>1. expiry[r] # None => bought[r] = Full
      BY <1>1, <2>1 DEF Backed, Priced, PricedOf, Buying
    <3> QED BY <1>4, <3>1 DEF Create
  <2>3. \A q \in Plans : q # p => allowance'[q] = allowance[q]
    BY <1>1, <2>2 DEF TypeOK
  <2>4. allowance'[p] = IF expiry[r] # None THEN Full ELSE None
    BY <1>1, <2>2 DEF TypeOK
  <2>5. expiry[r] # None => Paid(r, p)
    BY <1>1 DEF Paid
  <2> QED BY <1>1, <1>2, <1>3, <2>1, <2>3, <2>4, <2>5, RecordBacked
<1>5. CASE status[p] # "none"
  <2>1. allowance' = allowance
    BY <1>5 DEF Create
  <2> QED BY <1>1, <1>2, <1>3, <2>1, RecordBacked
<1> QED BY <1>4, <1>5

\* Persist records the allowance the request paid, unless there is one.
LEMMA PersistBacked ==
    ASSUME Inv, Inv', Backed, NEW r \in Requests, Persist(r)
    PROVE  Backed'
<1> DEFINE p == plan[r]
<1>1. TypeOK /\ p \in Plans /\ pc[r] = "persist"
  BY AtLabel DEF Inv, Persist, At
<1>2. UNCHANGED <<used, feegrant, disturbed, unsettled, wallet>>
  BY DEF Persist, chainVars, sdkVars
<1>3. Others(r) /\ Reads(r) /\ pc'[r] \in {"sendApi", "idle"}
  <2>1. Done(r) \/ Goto(r, "sendApi")
    BY DEF Persist
  <2> QED BY <1>1, <2>1, MovesOf
<1>4. allowance' = [allowance EXCEPT ![p] =
                       IF allowance[p] # None THEN allowance[p] ELSE bought[r]]
  BY DEF Persist
<1>5. \A q \in Plans : q # p => allowance'[q] = allowance[q]
  BY <1>1, <1>4 DEF TypeOK
<1>6. allowance'[p] = IF allowance[p] # None THEN allowance[p] ELSE Full
  BY <1>1, <1>4 DEF TypeOK, Backed, Priced, PricedOf, Buying
<1>7. Paid(r, p)
  BY <1>1 DEF Paid
<1> QED BY <1>1, <1>2, <1>3, <1>5, <1>6, <1>7, RecordBacked

\* The transaction carries over the whole remainder when nobody changed it
\* meanwhile, and adds at least what is due for the plan from now on.
LEMMA BroadcastBacked ==
    ASSUME Inv, Inv', Backed, NEW r \in Requests, Broadcast(r)
    PROVE  Backed'
<1> DEFINE p == plan[r]
<1>1. /\ TypeOK /\ TypeOK' /\ ApiWithinTotal
      /\ p \in Plans /\ pc[r] = "broadcast"
      /\ after[r] \in {"create", "persist"}
  BY AtLabel DEF Inv, Broadcast, At, Ready
<1>2. /\ UNCHANGED <<allowance, used, unsettled, wallet>>
      /\ feegrant' = Replacement(r)
      /\ Disturb(r)
  BY DEF Broadcast, docVars, sdkVars
<1>3. /\ Others(r) /\ Reads(r) /\ pc'[r] = after[r] /\ plan'[r] = p
      /\ bought'[r] = bought[r]
  BY <1>1 DEF Broadcast, TypeOK, Others, Reads
<1>4. PICK d \in Nat : d = bought[r]
  BY <1>1, AtLabel, AmountNat
<1>5. Unspent' /\ Priced'
  <2>1. PricedOf(r)'
    BY <1>1, <1>2, <1>3 DEF Backed, Priced, PricedOf, Buying
  <2> QED BY <1>2, <1>3, <2>1, UnspentKept, PricedKept
<1>6. disturbed => disturbed'
  BY <1>2 DEF Disturb
<1>7. ASSUME ~disturbed'
      PROVE  Fresh' /\ Cover' >= Cover + d
  <2>1. ~disturbed
    BY <1>6, <1>7
  <2>2. \A q \in Requests \ {r} : pc[q] # "broadcast"
    BY <1>2, <1>7 DEF Disturb, At
  <2>3. Fresh'
    BY <1>1, <1>3, <2>2 DEF Fresh, Others
  <2>4. Held <= HeldOf(remaining[r])
    BY <1>1, <2>1 DEF Backed, Fresh
  <2>5. PICK k \in Nat : k = HeldOf(remaining[r])
    BY <1>1, AtLabel DEF HeldOf
  <2>6. feegrant' = d + k
    BY <1>2, <1>4, <2>5 DEF Replacement, HeldOf
  <2>7. Held' = d + k
    BY <2>6, SsiAssumption DEF Held
  <2>8. Held \in Nat /\ unsettled \in Nat
    BY <1>1, DueInt DEF TypeOK
  <2>9. Cover = Held + unsettled /\ Cover' = d + k + unsettled
    BY <1>2, <2>7 DEF Cover
  <2> QED BY <2>3, <2>4, <2>5, <2>8, <2>9
<1>8. ASSUME NEW q \in Plans
      PROVE  Due(q)' <= Due(q) + (IF q = p THEN d ELSE 0)
  <2>1. Due(q) \in Int /\ Due(q)' \in Int
    BY <1>1, DueInt, DueIntNext
  <2>2. CASE q # p \/ allowance[q] # None
    <3>1. Paid(r, q)' => allowance[q] # None
      BY <1>3, <2>2 DEF Paid
    <3>2. Due(q)' <= Due(q)
      BY <1>1, <1>2, <1>3, <3>1, DueKept
    <3> QED BY <2>1, <3>2
  <2>3. CASE q = p /\ allowance[q] = None
    <3>1. d = Full
      BY <1>1, <1>4, <2>3 DEF Backed, Priced, PricedOf, Buying
    <3>2. Due(q)' <= Full
      BY <1>2, <2>3, FullNat DEF Due, Full
    <3>3. Due(q) >= 0
      BY <2>3, FullNat DEF Due
    <3> QED BY <2>1, <2>3, <3>1, <3>2, <3>3
  <2> QED BY <2>2, <2>3
<1> QED BY <1>1, <1>5, <1>6, <1>7, <1>8, BackedKept

\* A fee that was paid is charged to the plan: one unit each.
LEMMA CommitBacked ==
    ASSUME Inv, Inv', Backed, NEW p \in Plans, NEW b \in Buckets, Commit(p, b)
    PROVE  Backed'
<1>1. TypeOK /\ TypeOK'
  BY DEF Inv
<1>2. /\ UNCHANGED <<allowance, feegrant, disturbed, wallet, local>>
      /\ wallet[p][b] # None
      /\ used' = [used EXCEPT ![p] = [used[p] EXCEPT ![b] = used[p][b] + 1]]
  BY DEF Commit, sdkVars
<1>3. allowance[p] # None
  BY <1>2 DEF Backed, Unspent
<1>4. \A q \in Plans : q # p => used'[q] = used[q]
  BY <1>1, <1>2 DEF TypeOK
<1>5. Unspent' /\ Priced' /\ (~disturbed => Fresh')
  <2>1. Unspent'
    BY <1>2, <1>3, <1>4, UnspentKept
  <2>2. Priced' /\ (~disturbed => Fresh')
    BY <1>2 DEF Backed, Priced, PricedOf, Buying, Fresh, Held, local
  <2> QED BY <2>1, <2>2
<1>6. \A q \in Plans : q # p => Due(q)' = Due(q)
  BY <1>2, <1>4 DEF Due, Paid, local
<1>7. \A q \in Plans : Due(q) \in Int /\ Due(q)' \in Int
  BY <1>1, DueInt, DueIntNext
<1>8. Cover \in Int /\ Cover' \in Int /\ Held \in Int
  BY <1>1, DueInt, DueIntNext
<1>9. used[p] \in [Buckets -> Amounts]
  BY <1>1 DEF TypeOK
<1>10. CASE b = "api"
  <2>1. UNCHANGED unsettled
    BY <1>10 DEF Commit
  <2>2. used'[p]["chain"] = used[p]["chain"]
    BY <1>1, <1>2, <1>9, <1>10 DEF TypeOK, Buckets
  <2>3. Due(p)' = Due(p)
    BY <1>2, <1>3, <2>2 DEF Due
  <2>4. Cover' = Cover
    BY <1>2, <2>1 DEF Cover, Held
  <2>5. ASSUME NEW q \in Plans
        PROVE  Due(q)' <= Due(q) + (IF q = p THEN 0 ELSE 0)
    BY <1>6, <1>7, <2>3
  <2>6. Cover' >= Cover + 0
    BY <1>8, <2>4
  <2> QED BY <1>2, <1>5, <2>5, <2>6, BackedKept
<1>11. CASE b = "chain"
  <2>1. unsettled \in Nat /\ unsettled' = unsettled - 1
    BY <1>1, <1>11 DEF Commit, TypeOK
  <2>2. used'[p]["chain"] = used[p]["chain"] + 1
    BY <1>1, <1>2, <1>9, <1>11 DEF TypeOK, Buckets
  <2>3. Due(p)' = Due(p) + -1
    <3>1. allowance[p] \in Amounts /\ used[p]["chain"] \in Amounts
      BY <1>1, <1>3, <1>9 DEF TypeOK, Buckets
    <3>2. PICK a \in Nat, u \in Nat : a = allowance[p] /\ u = used[p]["chain"]
      BY <3>1, AmountNat
    <3>3. Due(p) = a - u
      BY <1>3, <3>2 DEF Due
    <3>4. Due(p)' = a - (u + 1)
      BY <1>2, <1>3, <2>2, <3>2 DEF Due
    <3> QED BY <3>2, <3>3, <3>4
  <2>4. Cover' = Cover + -1
    <3>1. Held' = Held
      BY <1>2 DEF Held
    <3> QED BY <1>8, <2>1, <3>1 DEF Cover
  <2>5. ASSUME NEW q \in Plans
        PROVE  Due(q)' <= Due(q) + (IF q = p THEN -1 ELSE 0)
    BY <1>6, <1>7, <2>3
  <2>6. Cover' >= Cover + -1
    BY <1>8, <2>4
  <2> QED BY <1>2, <1>5, <2>5, <2>6, BackedKept
<1> QED BY <1>10, <1>11 DEF Buckets

\* A fee leaves the allowance and is to be charged: the cover stays the same.
LEMMA PayFeeBacked ==
    ASSUME Inv, Inv', Backed, PayFee
    PROVE  Backed'
<1>1. TypeOK /\ TypeOK'
  BY DEF Inv
<1>2. UNCHANGED <<allowance, used, disturbed, wallet, local>>
  BY DEF PayFee, docVars, sdkVars
<1>3. PICK f \in Nat \ {0} : f = feegrant
  BY <1>1 DEF PayFee, TypeOK
<1>4. Held = f /\ Held' = f - 1
  <2>1. feegrant # None /\ feegrant' = IF f = 1 THEN None ELSE f - 1
    BY <1>3 DEF PayFee
  <2>2. f - 1 # None
    BY <1>3, SsiAssumption
  <2>3. Held = f
    BY <1>3, <2>1 DEF Held
  <2>4. Held' = f - 1
    <3>1. Held' = IF feegrant' = None THEN 0 ELSE feegrant'
      BY DEF Held
    <3>2. CASE f = 1
      BY <2>1, <3>1, <3>2
    <3>3. CASE f # 1
      BY <2>1, <2>2, <3>1, <3>3
    <3> QED BY <3>2, <3>3
  <2> QED BY <2>3, <2>4
<1>5. Cover' = Cover
  BY <1>1, <1>4 DEF PayFee, TypeOK, Cover
<1>6. Unspent' /\ Priced'
  BY <1>2, UnspentKept DEF Backed, Priced, PricedOf, Buying, local
<1>7. ASSUME ~disturbed PROVE Fresh'
  <2>1. ASSUME NEW r \in Requests, pc[r] = "broadcast"
        PROVE  f - 1 <= HeldOf(remaining[r])
    <3>1. PICK k \in Nat : k = HeldOf(remaining[r])
      BY <2>1, AtLabel DEF HeldOf
    <3>2. f <= k
      BY <1>4, <1>7, <2>1, <3>1 DEF Backed, Fresh
    <3> QED BY <3>1, <3>2
  <2> QED BY <1>2, <1>4, <2>1 DEF Fresh, local
<1>8. Dues' = Dues
  BY <1>2 DEF Dues, Due, Paid, local
<1>9. Sum(Dues)' = Sum(Dues)
  BY <1>8 DEF Sum
<1> QED BY <1>2, <1>5, <1>6, <1>7, <1>9 DEF Backed

\* The SDK grants plans whose allowance is recorded.
LEMMA SdkBacked ==
    ASSUME Inv, Inv', Backed, NEW cmd \in commands, SdkGrant(cmd)
    PROVE  Backed'
<1>1. TypeOK /\ cmd.plan \in Plans /\ allowance[cmd.plan] # None
  BY DEF Inv, TypeOK, AllowanceFirst
<1>2. /\ UNCHANGED <<allowance, used, feegrant, disturbed, unsettled, local>>
      /\ wallet' = [wallet EXCEPT ![cmd.plan] =
                       [wallet[cmd.plan] EXCEPT ![cmd.bucket] = cmd.expires]]
  BY DEF SdkGrant, docVars, chainVars
<1>3. Unspent'
  <2>1. \A q \in Plans : q # cmd.plan => wallet'[q] = wallet[q]
    BY <1>1, <1>2 DEF TypeOK
  <2> QED BY <1>1, <1>2, <2>1, UnspentKept
<1>4. (Fresh => Fresh') /\ (Priced => Priced')
  BY <1>2 DEF Fresh, Held, Priced, PricedOf, Buying, local
<1>5. Dues' = Dues
  BY <1>2 DEF Dues, Due, Paid, local
<1>6. Sum(Dues)' = Sum(Dues) /\ Cover' = Cover
  BY <1>2, <1>5 DEF Sum, Cover, Held
<1> QED BY <1>2, <1>3, <1>4, <1>6 DEF Backed

\* A service starts without plans and without an allowance.
LEMMA InitBacked ==
    ASSUME Init PROVE Backed
<1>1. Unspent
  BY DEF Init, Unspent
<1>2. Fresh /\ Priced
  BY DEF Init, Fresh, Priced, PricedOf, Buying
<1>3. Dues = [p \in Plans |-> 0]
  BY DEF Init, Dues, Due, Paid
<1>4. Cover = 0
  BY DEF Init, Cover, Held
<1>5. Sum(Dues) <= Cover
  BY <1>3, <1>4, SumZero
<1> QED BY <1>1, <1>2, <1>5 DEF Backed

\* With Inv, Backed is inductive.
LEMMA BackedInvariant == Spec => []Backed
<1>1. Inv /\ Inv' /\ Backed /\ [Next]_vars => Backed'
  <2> SUFFICES ASSUME Inv, Inv', Backed, [Next]_vars PROVE Backed'
    OBVIOUS
  <2>1. ASSUME NEW r \in Requests, Request(r) \/ Crash(r) PROVE Backed'
    BY <2>1, LocalBacked, CreateBacked, BroadcastBacked, PersistBacked
    DEF Request
  <2>2. ASSUME NEW p \in Plans, NEW b \in Buckets, Lifecycle(p, b)
        PROVE  Backed'
    <3>1. CASE Commit(p, b)
      BY <3>1, CommitBacked
    <3>2. CASE ProcessCreditGranted(p, b) \/ ProcessPlanExpired(p, b)
      <4>1. UNCHANGED <<allowance, used, feegrant, disturbed, unsettled,
                        wallet, local>>
        BY <3>2
        DEF ProcessCreditGranted, ProcessPlanExpired, chainVars, sdkVars
      <4> QED BY <4>1, StillBacked
    <3> QED BY <2>2, <3>1, <3>2 DEF Lifecycle
  <2>3. ASSUME Tick \/ UNCHANGED vars PROVE Backed'
    <3>1. UNCHANGED <<allowance, used, feegrant, disturbed, unsettled,
                      wallet, local>>
      BY <2>3 DEF Tick, vars, docVars, chainVars, sdkVars
    <3> QED BY <3>1, StillBacked
  <2> QED BY <2>1, <2>2, <2>3, SdkBacked, PayFeeBacked DEF Next
<1> QED BY <1>1, Invariant, InitBacked, PTL DEF Spec

-----------------------------------------------------------------------------
(* The theorems.                                                           *)

\* Every variable keeps its type; above all, no balance of a plan is charged
\* beyond what it holds.
THEOREM TypeCorrect == Spec => []TypeOK
<1>1. Inv => TypeOK
  BY DEF Inv
<1> QED BY <1>1, Invariant, PTL

\* ActiveHasAllowance: no plan becomes active, and no command is queued, before
\* the chain granted the plan's allowance and the document records it.
THEOREM ActiveAllowed == Spec => []ActiveHasAllowance
<1>1. Inv => ActiveHasAllowance
  BY DEF Inv, TypeOK, AllowanceFirst, ActiveHasAllowance
<1> QED BY <1>1, Invariant, PTL

\* ActivationSeesUsage: only the update of activateSsiCreditPlan makes a plan
\* active on behalf of a request, and it compares the balances that are stored
\* in that very step, not those the request loaded.
THEOREM ActivationCurrent == Spec => ActivationSeesUsage
<1>1. Inv /\ [Next]_vars =>
          [\A p \in Plans :
              (status[p] = "Inactive" /\ status'[p] = "Active" /\ pc' # pc)
                  => Grantable(p, allowance'[p]) /\ now < expiresAt'[p]]_vars
  <2> SUFFICES ASSUME Inv, Next, NEW p \in Plans,
                      status[p] = "Inactive", status'[p] = "Active", pc' # pc
               PROVE  Grantable(p, allowance'[p]) /\ now < expiresAt'[p]
    OBVIOUS
  <2>1. PICK r \in Requests : Create(r) \/ Persist(r)
    BY DEF Next, Request, Lifecycle, StartGrant, StartActivate, Lookup,
           FindActive, Query, Broadcast, BroadcastFails, Load, SendApi,
           SendChain, Send, Crash, ProcessCreditGranted, ProcessPlanExpired,
           Commit, SdkGrant, PayFee, Tick, docVars, local
  <2>2. TypeOK /\ plan[r] \in Plans
    BY <2>1, AtLabel DEF Inv, Create, Persist, At
  <2>3. ~Create(r)
    BY <2>2 DEF Create, TypeOK
  <2>4. Persist(r) /\ p = plan[r]
    BY <2>1, <2>2, <2>3 DEF Persist, TypeOK
  <2>5. /\ expiresAt'[p] = expiry[r]
        /\ allowance'[p] = IF allowance[p] # None THEN allowance[p]
                                                  ELSE bought[r]
        /\ expiry[r] > now
        /\ Grantable(p, IF allowance[p] # None THEN allowance[p]
                                               ELSE bought[r])
    BY <2>2, <2>4 DEF Persist, TypeOK
  <2>6. expiry[r] \in Times /\ now \in 0..MaxNow
    BY <2>2, <2>4, AtLabel DEF Persist, At, Ready, TypeOK
  <2> QED BY <2>5, <2>6, SsiAssumption DEF Times
<1> QED BY <1>1, Invariant, PTL DEF Spec, ActivationSeesUsage

\* UsageNeverReset: an activation replaces the allowance of the document but
\* never its usage; only usage itself, one unit at a time, is ever written
\* there.
THEOREM UsageKept == Spec => UsageNeverReset
<1>1. Inv /\ [Next]_vars =>
          [\A p \in Plans, b \in Buckets : used'[p][b] >= used[p][b]]_vars
  <2> SUFFICES ASSUME Inv, Next, NEW p \in Plans, NEW b \in Buckets
               PROVE  used'[p][b] >= used[p][b]
    OBVIOUS
  <2>1. /\ used \in [Plans -> [Buckets -> Amounts]]
        /\ used[p][b] \in Nat
    BY SsiAssumption DEF Inv, TypeOK, Amounts
  <2>2. CASE UNCHANGED used
    BY <2>1, <2>2
  <2>3. CASE ~UNCHANGED used
    <3>1. PICK q \in Plans, d \in Buckets : Commit(q, d)
      BY <2>3
      DEF Next, Request, Lifecycle, StartGrant, StartActivate, Lookup,
          FindActive, Create, Query, Broadcast, BroadcastFails, Load, Persist,
          SendApi, SendChain, Send, Crash, ProcessCreditGranted,
          ProcessPlanExpired, SdkGrant, PayFee, Tick, docVars
    <3>2. used' = [used EXCEPT ![q] = [used[q] EXCEPT ![d] = @ + 1]]
      BY <3>1 DEF Commit
    <3>3. used'[p][b] = IF p = q /\ b = d THEN used[p][b] + 1 ELSE used[p][b]
      BY <2>1, <3>2
    <3> QED BY <2>1, <3>3
  <2> QED BY <2>2, <2>3
<1> QED BY <1>1, Invariant, PTL DEF Spec, UsageNeverReset

\* PlansBacked: what all documents together still hold for use on the chain
\* never exceeds the wallet's fee allowance and the fees paid from it that are
\* still to be charged, as long as no two replacements of it overlapped.
THEOREM PlansCovered == Spec => []PlansBacked
<1>1. Inv /\ Backed => PlansBacked
  <2> SUFFICES ASSUME Inv, Backed, ~disturbed
               PROVE  MapThenSumSet(Left, Plans) <= Cover
    BY DEF PlansBacked, Cover, Held
  <2>1. TypeOK
    BY DEF Inv
  <2> DEFINE f == [p \in Plans |-> Left(p)]
  <2>2. ASSUME NEW p \in Plans
        PROVE  Left(p) \in Int /\ Left(p) <= Due(p)
    <3>1. CASE allowance[p] = None
      <4>1. Left(p) = 0
        BY <3>1 DEF Left
      <4>2. Due(p) \in {0, Full}
        BY <3>1 DEF Due
      <4> QED BY <4>1, <4>2, FullNat
    <3>2. CASE allowance[p] # None
      <4>1. Left(p) = Due(p)
        BY <3>2 DEF Left, Due
      <4>2. Due(p) \in Int
        BY <2>1, DueInt
      <4> QED BY <4>1, <4>2
    <3> QED BY <3>1, <3>2
  <2>3. PICK g \in [Plans -> Int] : g = Dues /\ \A p \in Plans : g[p] = Due(p)
    BY <2>1, DueInt
  <2>4. PICK h \in [Plans -> Int] : \A p \in Plans : h[p] = Left(p)
    <3>1. f \in [Plans -> Int] /\ \A p \in Plans : f[p] = Left(p)
      BY <2>2
    <3> QED BY <3>1
  <2>5. MapThenSumSet(Left, Plans) = Sum(h)
    BY <2>4, LeftSum
  <2>6. Sum(h) \in Int /\ Sum(g) \in Int /\ Sum(h) <= Sum(g)
    <3>1. PICK d \in Int : d = 0
      OBVIOUS
    <3>2. \A p \in Plans : h[p] <= g[p] + (IF p = None THEN d ELSE 0)
      BY <2>2, <2>3, <2>4, <3>1
    <3>3. /\ Sum(g) \in Int /\ Sum(h) \in Int
          /\ Sum(h) <= Sum(g) + (IF None \in Plans THEN d ELSE 0)
      BY <3>2, SumBound
    <3> QED BY <3>1, <3>3
  <2>7. Sum(g) <= Cover
    BY <2>3 DEF Backed
  <2>8. Cover \in Int
    BY <2>1, DueInt
  <2> QED BY <2>5, <2>6, <2>7, <2>8
<1> QED BY <1>1, Invariant, BackedInvariant, PTL
=============================================================================
