-------------------------- MODULE OnboardingProofs --------------------------
(***************************************************************************)
(* Theorems about Onboarding for any number of runs, failures, lost        *)
(* answers and overlaps.                                                   *)
(***************************************************************************)
EXTENDS Onboarding, SequenceTheorems, TLAPS

-----------------------------------------------------------------------------
(* What a run knows.                                                       *)

\* The indexes that the logs may have come to: a request without KYB never
\* has its two steps.
Loggable == {n \in 0..13 : kyb \/ n \notin {10, 12}}

\* The index logged last when a run is before the i-th of all steps.
Before(i) == IF ~kyb /\ i \in {11, 13} THEN i - 2 ELSE i - 1

\* What a run is at and what it logged last agree.
Sync(r) ==
    /\ pc[r] = "idle" => snap[r] = NoSnap /\ made[r] = NoIds /\ last[r] = 0
    /\ \A i \in 1..13 :
           pc[r] = AllSteps[i] => last[r] = Before(i) /\ i \in Loggable
    /\ pc[r] = "APPROVED" => last[r] = 13
    /\ last[r] \in Loggable

\* The ids a run works with.
Using(r) == [i \in Ids |-> Use(r, i)]

\* The ids of what the steps up to the n-th make are set.
IdsSet(n, u) == /\ n >= 3 => u["ssi"] # 0
                /\ n >= 5 => u["did"] # 0
                /\ n >= 7 => u["kyc"] # 0

TypeInv ==
    /\ TypeOK
    /\ progress \in Loggable
    /\ IdsSet(progress, ids)
    /\ ~kyb => \A p \in pages : p.type = "kyc"
    /\ \A r \in Runs : Sync(r) /\ IdsSet(last[r], Using(r))
    /\ \A r \in Runs, i \in Ids : snap[r].ids[i] # 0 => ids[i] # 0

-----------------------------------------------------------------------------
(* What the steps have made.                                               *)

\* What the steps up to the n-th make is there, for the ids u.
Real(n, u) ==
    /\ n >= 1 => access
    /\ n >= 2 => role
    /\ n >= 3 => u["ssi"] \in 1..ssis
    /\ n >= 4 => <<"ssi", u["ssi"]>> \in plans
    /\ n >= 5 => /\ u["did"] \in 1..Len(dids)
                 /\ dids[u["did"]] = u["ssi"]
    /\ n >= 6 => u["did"] \in registered
    /\ n >= 7 => /\ u["kyc"] \in 1..Len(kycs)
                 /\ kycs[u["kyc"]] = [ssi |-> u["ssi"], did |-> u["did"]]
    /\ n >= 8 => <<"kyc", u["kyc"]>> \in plans
    /\ n >= 9 => u["kyc"] \in Range(widgets)
    /\ n >= 11 => \E p \in pages : p.kyc = u["kyc"] /\ p.type = "kyc"
    /\ n >= 12 /\ kyb => \E p \in pages : p.kyc = u["kyc"] /\ p.type = "kyb"

\* The document has not changed since a run loaded it, and what the run logged
\* since is there.
Current(r) ==
    /\ snap[r] = [progress |-> progress, ids |-> ids]
    /\ progress <= last[r]
    /\ Real(last[r], Using(r))

\* Without overlaps, one run at a time is in progress.
RealInv ==
    Serial => /\ Real(progress, ids)
              /\ \A r, q \in Runs : r \in Busy /\ q \in Busy => r = q
              /\ \A r \in Busy : Current(r)

\* The n-th step was logged, by the document or by a run.
Once(n) == progress >= n \/ \E r \in Runs : last[r] >= n

\* The c things made by the n-th step were lost, but for one if it was logged.
Counted(c, n) == c <= losses + 1 /\ (Once(n) \/ c <= losses)

\* Whatever was made without being logged is a loss.
CountInv == Serial => /\ Counted(ssis, 3)
                      /\ Counted(Len(dids), 5)
                      /\ Counted(Len(kycs), 7)
                      /\ Counted(Len(widgets), 9)

-----------------------------------------------------------------------------
(* The two lists of steps.                                                 *)

\* The steps, one by one, and that they differ.
LEMMA StepsAre ==
    /\ Len(AllSteps) = 13
    /\ AllSteps[1] = "GIVE_DASHBOARD_ACCESS"
    /\ AllSteps[2] = "CREATE_TEAM_ROLE"
    /\ AllSteps[3] = "CREATE_SSI_SERVICE"
    /\ AllSteps[4] = "CREDIT_SSI_SERVICE"
    /\ AllSteps[5] = "CREATE_DID"
    /\ AllSteps[6] = "REGISTER_DID"
    /\ AllSteps[7] = "CREATE_KYC_SERVICE"
    /\ AllSteps[8] = "CREDIT_KYC_SERVICE"
    /\ AllSteps[9] = "SETUP_KYC_WIDGET"
    /\ AllSteps[10] = "SETUP_KYB_WIDGET"
    /\ AllSteps[11] = "CONFIGURE_KYC_VERIFIER_PAGE"
    /\ AllSteps[12] = "CONFIGURE_KYB_VERIFIER_PAGE"
    /\ AllSteps[13] = "COMPLETED"
BY DEF AllSteps

\* No step is listed twice, or is the label of a run that is not before one.
LEMMA StepsDiffer ==
    /\ \A i, j \in 1..13 : AllSteps[i] = AllSteps[j] => i = j
    /\ \A i \in 1..13 : /\ AllSteps[i] \notin {"idle"} \cup Outcomes
                        /\ AllSteps[i] \in Labels
    /\ Range(AllSteps) = {AllSteps[i] : i \in 1..13}
<1>1. \A i \in 1..13 : \/ i = 1 \/ i = 2 \/ i = 3 \/ i = 4 \/ i = 5 \/ i = 6
                       \/ i = 7 \/ i = 8 \/ i = 9 \/ i = 10 \/ i = 11
                       \/ i = 12 \/ i = 13
  OBVIOUS
<1>2. \A i, j \in 1..13 : AllSteps[i] = AllSteps[j] => i = j
  BY <1>1, StepsAre
<1>3. DOMAIN AllSteps = 1..13
  BY DEF AllSteps
<1>4. Range(AllSteps) = {AllSteps[i] : i \in 1..13}
  BY <1>3 DEF Range
<1>5. \A i \in 1..13 : AllSteps[i] \notin {"idle"} \cup Outcomes
  BY <1>1, StepsAre DEF Outcomes
<1> QED BY <1>2, <1>4, <1>5 DEF Labels

\* IndexOf is the inverse of AllSteps.
LEMMA IndexIs ==
    ASSUME NEW i \in 1..13
    PROVE  IndexOf(AllSteps[i]) = i
BY StepsDiffer, StepsAre DEF IndexOf

\* The place in the list of all steps of the j-th step of a request.
Place(j) == IF kyb \/ j <= 9 THEN j ELSE IF j = 10 THEN 11 ELSE 13

\* How many steps a request has.
Steps == IF kyb THEN 13 ELSE 11

\* The steps of a request are those of all steps at their places.
LEMMA FilteredAre ==
    ASSUME kyb \in BOOLEAN
    PROVE  /\ Len(FilteredSteps) = Steps
           /\ \A j \in 1..Steps : FilteredSteps[j] = AllSteps[Place(j)]
           /\ FilteredSteps \in Seq(Range(AllSteps))
<1>1. AllSteps \in Seq(Range(AllSteps)) /\ Len(AllSteps) = 13
  BY StepsAre DEF AllSteps, Range
<1>2. CASE kyb
  BY <1>1, <1>2 DEF FilteredSteps, Steps, Place
<1>3. CASE ~kyb
  <2> DEFINE front == SubSeq(AllSteps, 1, 9)
             back == <<AllSteps[11], AllSteps[13]>>
  <2>1. /\ front \in Seq(Range(AllSteps)) /\ Len(front) = 9
        /\ \A j \in 1..9 : front[j] = AllSteps[j]
    <3>1. \A i \in 1..9 : AllSteps[i] \in Range(AllSteps)
      BY StepsDiffer
    <3>2. front \in Seq(Range(AllSteps)) /\ Len(front) = 9
      BY <3>1, SubSeqProperties
    <3>3. \A j \in 1..9 - 1 + 1 : front[j] = AllSteps[1 + j - 1]
      BY <3>1, SubSeqProperties
    <3> HIDE DEF front
    <3>4. ASSUME NEW j \in 1..9 PROVE front[j] = AllSteps[j]
      <4>1. j \in 1..9 - 1 + 1 /\ 1 + j - 1 = j
        OBVIOUS
      <4> QED BY <3>3, <4>1
    <3> QED BY <3>2, <3>4
  <2>2. /\ back \in Seq(Range(AllSteps)) /\ Len(back) = 2
        /\ back[1] = AllSteps[11] /\ back[2] = AllSteps[13]
    BY StepsDiffer
  <2>3. FilteredSteps = front \o back
    BY <1>3 DEF FilteredSteps
  <2> HIDE DEF front, back
  <2>4. /\ Len(FilteredSteps) = 11
        /\ \A j \in 1..9 : FilteredSteps[j] = front[j]
        /\ FilteredSteps[10] = back[1] /\ FilteredSteps[11] = back[2]
        /\ FilteredSteps \in Seq(Range(AllSteps))
    <3>1. /\ Len(FilteredSteps) = 11
          /\ FilteredSteps \in Seq(Range(AllSteps))
      <4>1. /\ front \o back \in Seq(Range(AllSteps))
            /\ Len(front \o back) = Len(front) + Len(back)
        BY <2>1, <2>2, ConcatProperties
      <4> QED BY <2>1, <2>2, <2>3, <4>1
    <3>2. \A j \in 1..Len(front) + Len(back) :
              FilteredSteps[j] = IF j <= Len(front) THEN front[j]
                                 ELSE back[j - Len(front)]
      BY <2>1, <2>2, <2>3, ConcatProperties
    <3>3. \A j \in 1..11 : FilteredSteps[j] = IF j <= 9 THEN front[j]
                                                        ELSE back[j - 9]
      BY <2>1, <2>2, <3>2
    <3> QED BY <3>1, <3>3
  <2> QED BY <1>3, <2>1, <2>2, <2>4 DEF Steps, Place
<1> QED BY <1>2, <1>3

\* A retry goes on with the step after the last one that was logged.
LEMMA RemainingIs ==
    ASSUME kyb \in BOOLEAN, progress \in Loggable, Remaining(progress) # <<>>
    PROVE  \E i \in Loggable \ {0} : /\ Head(Remaining(progress)) = AllSteps[i]
                                     /\ progress = Before(i)
<1>1. progress \in 0..13 /\ Steps \in {11, 13}
  BY DEF Loggable, Steps
<1>2. Remaining(progress) \in Seq(Range(AllSteps))
  BY <1>1, FilteredAre DEF Remaining
<1>3. progress + 1 <= Steps
  BY <1>1, <1>2, FilteredAre DEF Remaining
<1>4. Head(Remaining(progress)) = FilteredSteps[progress + 1]
  BY <1>1, <1>2, <1>3, FilteredAre DEF Remaining
<1>5. /\ Head(Remaining(progress)) = AllSteps[Place(progress + 1)]
  BY <1>1, <1>3, <1>4, FilteredAre
<1>6. /\ Place(progress + 1) \in Loggable \ {0}
      /\ progress = Before(Place(progress + 1))
  BY <1>1, <1>3 DEF Loggable, Steps, Place, Before
<1> QED BY <1>5, <1>6

\* In its loop a run goes on with the step that comes before nothing but the
\* one that it logged, or is done.
LEMMA FollowingIs ==
    ASSUME kyb \in BOOLEAN, NEW i \in Loggable, i # 0
    PROVE  \/ i = 13 /\ Following(AllSteps[i]) = "APPROVED"
           \/ \E k \in Loggable \ {0} : /\ Following(AllSteps[i]) = AllSteps[k]
                                        /\ i = Before(k)
<1> DEFINE P(j) == FilteredSteps[j] = AllSteps[i]
           n == CHOOSE j \in 1..Len(FilteredSteps) : P(j)
<1>1. /\ i \in 1..13 /\ Steps \in {11, 13}
      /\ \A j \in 1..Steps : Place(j) \in 1..13
  BY DEF Loggable, Steps, Place
<1>2. \E j \in 1..Steps : Place(j) = i
  <2>1. CASE kyb \/ i <= 9
    BY <1>1, <2>1 DEF Loggable, Steps, Place
  <2>2. CASE ~kyb /\ i > 9
    <3>1. i = 11 \/ i = 13
      BY <1>1, <2>2 DEF Loggable
    <3> QED BY <2>2, <3>1 DEF Steps, Place
  <2> QED BY <1>1, <2>1, <2>2
<1>3. \A j \in 1..Steps : P(j) <=> Place(j) = i
  <2>1. ASSUME NEW j \in 1..Steps
        PROVE  FilteredSteps[j] = AllSteps[i] <=> Place(j) = i
    <3>1. FilteredSteps[j] = AllSteps[Place(j)] /\ Place(j) \in 1..13
      BY <1>1, FilteredAre
    <3> QED BY <1>1, <3>1, StepsDiffer
  <2> QED BY <2>1
<1>4. n \in 1..Steps /\ Place(n) = i
  <2>1. \E j \in 1..Steps : P(j)
    BY <1>2, <1>3
  <2>2. n \in 1..Steps /\ P(n)
    BY <2>1, FilteredAre
  <2> QED BY <1>3, <2>2
<1>5. Following(AllSteps[i]) = IF n = Len(FilteredSteps) THEN "APPROVED"
                               ELSE FilteredSteps[n + 1]
  BY DEF Following
<1> HIDE DEF n
<1>6. CASE n = Steps
  BY <1>4, <1>5, <1>6, FilteredAre DEF Steps, Place
<1>7. CASE n # Steps
  <2>1. n + 1 \in 1..Steps
    BY <1>1, <1>4, <1>7
  <2>2. Following(AllSteps[i]) = AllSteps[Place(n + 1)]
    BY <1>5, <1>7, <2>1, FilteredAre
  <2>3. Place(n + 1) \in Loggable \ {0} /\ i = Before(Place(n + 1))
    BY <1>1, <1>4, <2>1 DEF Loggable, Steps, Place, Before
  <2> QED BY <2>2, <2>3
<1> QED BY <1>6, <1>7

-----------------------------------------------------------------------------
(* What a step of a run does.                                              *)

\* The other runs stay as they are.
Others(r) ==
    \A q \in Runs \ {r} : /\ pc'[q] = pc[q] /\ snap'[q] = snap[q]
                          /\ made'[q] = made[q] /\ last'[q] = last[q]

LocalTypes ==
    /\ pc \in [Runs -> Labels]
    /\ snap \in [Runs -> [progress : 0..Len(AllSteps), ids : [Ids -> Nat]]]
    /\ made \in [Runs -> [Ids -> Nat]]
    /\ widget \in [Runs -> Nat]
    /\ last \in [Runs -> 0..Len(AllSteps)]

EffectTypes ==
    /\ access \in BOOLEAN /\ role \in BOOLEAN
    /\ ssis \in Nat
    /\ dids \in Seq(Made)
    /\ registered \subseteq Made
    /\ kycs \in Seq([ssi : Made, did : Made])
    /\ plans \subseteq {"ssi", "kyc"} \X Made
    /\ widgets \in Seq(Made)
    /\ pages \subseteq Page
    /\ ~kyb => \A p \in pages : p.type = "kyc"

\* The answer of the k-th step, which made the id n for i, arrives.
Answer(r, k, i, n) ==
    /\ last'[r] = k /\ losses' = losses
    /\ made'[r] = IF i \in Ids THEN [made[r] EXCEPT ![i] = n] ELSE made[r]

\* It does not.
Loss(r) ==
    /\ last'[r] = last[r] /\ losses' = losses + 1
    /\ made'[r] = made[r]

\* What every step does, beside its effect.
Stepped(r, k, i, n) ==
    /\ Answer(r, k, i, n) \/ Loss(r)
    /\ pc[r] = AllSteps[k] /\ last[r] = Before(k) /\ k \in Loggable \ {0}
    /\ pc'[r] # "idle" /\ snap'[r] = snap[r]
    /\ Others(r) /\ LocalTypes' /\ Sync(r)' /\ losses' \in 0..MaxLosses
    /\ UNCHANGED <<docVars, asked, failures, overlaps>>

\* The frame of the steps.
LEMMA PerformedIs ==
    ASSUME TypeInv, NEW r \in Runs, NEW k \in 1..13, NEW i, NEW n \in Nat,
           Performed(r, AllSteps[k], i, n)
    PROVE  Stepped(r, k, i, n)
<1>1. /\ LocalTypes /\ Sync(r) /\ kyb \in BOOLEAN /\ losses \in 0..MaxLosses
  BY DEF TypeInv, TypeOK, LocalTypes
<1>2. /\ pc[r] = AllSteps[k]
      /\ Answered(r, AllSteps[k], i, n) \/ Lost(r)
      /\ UNCHANGED <<docVars, asked, failures, overlaps>>
  BY DEF Performed
<1>3. last[r] = Before(k) /\ k \in Loggable \ {0}
  BY <1>1, <1>2 DEF Sync
<1>4. pc[r] # "idle" /\ kyb' = kyb /\ (Loggable = Loggable')
  BY <1>2, StepsDiffer DEF docVars, Loggable
<1>5. CASE Answered(r, AllSteps[k], i, n)
  <2>1. /\ last' = [last EXCEPT ![r] = k]
        /\ pc' = [pc EXCEPT ![r] = Following(AllSteps[k])]
        /\ UNCHANGED <<snap, losses>>
    BY <1>5, IndexIs DEF Answered
  <2>2. /\ made' \in [Runs -> [Ids -> Nat]]
        /\ made'[r] = IF i \in Ids THEN [made[r] EXCEPT ![i] = n] ELSE made[r]
        /\ \A q \in Runs \ {r} : made'[q] = made[q]
    <3>1. CASE i \in Ids
      <4>1. made' = [made EXCEPT ![r] = [made[r] EXCEPT ![i] = n]]
        BY <1>5, <3>1 DEF Answered
      <4> QED BY <1>1, <3>1, <4>1 DEF LocalTypes
    <3>2. CASE i \notin Ids
      BY <1>1, <1>5, <3>2 DEF Answered, LocalTypes
    <3> QED BY <3>1, <3>2
  <2>3. widget' \in [Runs -> Nat]
    BY <1>1, <1>5 DEF Answered, LocalTypes
  <2>4. \/ k = 13 /\ Following(AllSteps[k]) = "APPROVED"
        \/ \E j \in Loggable \ {0} : /\ Following(AllSteps[k]) = AllSteps[j]
                                     /\ k = Before(j)
    BY <1>1, <1>3, FollowingIs
  <2>5. /\ pc' \in [Runs -> Labels] /\ pc'[r] # "idle" /\ Sync(r)'
    <3>0. pc'[r] = Following(AllSteps[k]) /\ last'[r] = k
      BY <1>1, <2>1 DEF LocalTypes
    <3>1. CASE k = 13 /\ Following(AllSteps[k]) = "APPROVED"
      <4>1. \A j \in 1..13 : pc'[r] # AllSteps[j]
        BY <3>0, <3>1, StepsDiffer DEF Outcomes
      <4> QED BY <1>1, <1>3, <1>4, <2>1, <3>0, <3>1, <4>1
              DEF LocalTypes, Labels, Outcomes, Sync
    <3>2. ASSUME NEW j \in Loggable \ {0}, k = Before(j),
                 Following(AllSteps[k]) = AllSteps[j]
          PROVE  pc' \in [Runs -> Labels] /\ pc'[r] # "idle" /\ Sync(r)'
      <4>1. j \in 1..13 /\ Before(j)' = Before(j)
        BY <1>4 DEF Loggable, Before
      <4>2. /\ \A x \in 1..13 : pc'[r] = AllSteps[x] => x = j
            /\ pc'[r] \notin {"idle"} \cup Outcomes /\ pc'[r] \in Labels
        BY <3>0, <3>2, <4>1, StepsDiffer
      <4> QED BY <1>1, <1>3, <1>4, <2>1, <3>0, <3>2, <4>1, <4>2
              DEF LocalTypes, Outcomes, Sync
    <3> QED BY <2>4, <3>1, <3>2
  <2>6. last' \in [Runs -> 0..Len(AllSteps)]
    BY <1>1, <2>1, StepsAre DEF LocalTypes
  <2>7. Others(r) /\ Answer(r, k, i, n)
    BY <1>1, <2>1, <2>2 DEF Others, Answer, LocalTypes
  <2> QED BY <1>1, <1>2, <1>3, <2>1, <2>2, <2>3, <2>5, <2>6, <2>7
          DEF Stepped, LocalTypes
<1>6. CASE Lost(r)
  <2>1. /\ losses < MaxLosses /\ losses' = losses + 1
        /\ pc' = [pc EXCEPT ![r] = "FAILED"]
        /\ UNCHANGED <<snap, made, widget, last>>
    BY <1>6 DEF Lost, Failed
  <2>2. /\ pc' \in [Runs -> Labels] /\ pc'[r] = "FAILED"
        /\ \A q \in Runs \ {r} : pc'[q] = pc[q]
    BY <1>1, <2>1 DEF LocalTypes, Labels, Outcomes
  <2>3. \A j \in 1..13 : pc'[r] # AllSteps[j]
    BY <2>2, StepsDiffer DEF Outcomes
  <2>4. Sync(r)' /\ LocalTypes' /\ Others(r) /\ Loss(r)
    BY <1>1, <1>4, <2>1, <2>2, <2>3 DEF Sync, LocalTypes, Others, Loss
  <2>5. losses' \in 0..MaxLosses
    BY <1>1, <2>1, OnboardingAssumption
  <2> QED BY <1>2, <1>3, <2>1, <2>2, <2>4, <2>5 DEF Stepped
<1> QED BY <1>2, <1>5, <1>6

\* The ids a run works with after it has made the id n for i.
With(u, i, n) == IF i \in Ids THEN [u EXCEPT ![i] = n] ELSE u

\* The ids a run works with are numbers.
LEMMA UsingIs ==
    ASSUME TypeInv, NEW r \in Runs
    PROVE  /\ Using(r) \in [Ids -> Nat] /\ snap[r].ids \in [Ids -> Nat]
           /\ made[r] \in [Ids -> Nat]
           /\ \A j \in Ids : Using(r)[j] = IF made[r][j] # 0 THEN made[r][j]
                                           ELSE snap[r].ids[j]
<1>1. made[r] \in [Ids -> Nat] /\ snap[r].ids \in [Ids -> Nat]
  BY DEF TypeInv, TypeOK
<1> QED BY <1>1 DEF Using, Use

\* An answer changes them by what was made, a loss not at all.
LEMMA UsingNext ==
    ASSUME TypeInv, NEW r \in Runs, NEW k, NEW i, NEW n \in Nat,
           i \in Ids => n # 0, Stepped(r, k, i, n)
    PROVE  /\ Answer(r, k, i, n) => Using(r)' = With(Using(r), i, n)
           /\ Loss(r) => Using(r)' = Using(r)
<1>1. /\ snap'[r] = snap[r]
      /\ made[r] \in [Ids -> Nat] /\ snap[r].ids \in [Ids -> Nat]
  BY UsingIs DEF Stepped
<1>2. \A j \in Ids : Using(r)'[j] = IF made'[r][j] # 0 THEN made'[r][j]
                                    ELSE snap[r].ids[j]
  BY <1>1 DEF Using, Use
<1>3. Using(r)' = [j \in Ids |-> Using(r)'[j]]
  BY DEF Using
<1>4. ASSUME Loss(r)
      PROVE  Using(r)' = Using(r)
  BY <1>1, <1>4 DEF Loss, Using, Use
<1>5. ASSUME Answer(r, k, i, n), i \in Ids
      PROVE  Using(r)' = With(Using(r), i, n)
  <2>1. made'[r] = [made[r] EXCEPT ![i] = n]
    BY <1>5 DEF Answer
  <2>2. \A j \in Ids : Using(r)'[j] = IF j = i THEN n ELSE Using(r)[j]
    BY <1>1, <1>2, <1>5, <2>1, UsingIs
  <2>3. With(Using(r), i, n) = [j \in Ids |-> IF j = i THEN n ELSE Using(r)[j]]
    BY <1>5 DEF With, Using
  <2> QED BY <1>3, <2>2, <2>3
<1>6. ASSUME Answer(r, k, i, n), i \notin Ids
      PROVE  Using(r)' = With(Using(r), i, n)
  BY <1>1, <1>6 DEF Answer, With, Using, Use
<1> QED BY <1>4, <1>5, <1>6

\* What a run that does not move knows stays true.
LEMMA OthersKnow ==
    ASSUME TypeInv, NEW r \in Runs, Others(r), kyb' = kyb,
           Sync(r)', IdsSet(last[r], Using(r))'
    PROVE  \A q \in Runs : (Sync(q) /\ IdsSet(last[q], Using(q)))'
<1> SUFFICES ASSUME NEW q \in Runs, q # r
             PROVE  (Sync(q) /\ IdsSet(last[q], Using(q)))'
  OBVIOUS
<1>1. /\ pc'[q] = pc[q] /\ snap'[q] = snap[q] /\ made'[q] = made[q]
      /\ last'[q] = last[q]
  BY DEF Others
<1>2. Sync(q) /\ IdsSet(last[q], Using(q))
  BY DEF TypeInv
<1>3. Using(q)' = Using(q)
  BY <1>1 DEF Using, Use
<1>4. Loggable' = Loggable /\ (\A i \in 1..13 : Before(i)' = Before(i))
  BY DEF Loggable, Before
<1>5. Sync(q)'
  BY <1>1, <1>2, <1>4 DEF Sync
<1>6. IdsSet(last[q], Using(q))'
  BY <1>1, <1>2, <1>3 DEF IdsSet
<1> QED BY <1>5, <1>6

\* Which id a step makes.
Makes(k, i, n) == /\ k = 3 => i = "ssi"
                  /\ k = 5 => i = "did"
                  /\ k = 7 => i = "kyc"
                  /\ k \in {3, 5, 7} => n # 0
                  /\ k \notin {3, 5, 7} => i \notin Ids

\* A step that makes things of their types keeps the invariant.
LEMMA SteppedInv ==
    ASSUME TypeInv, NEW r \in Runs, NEW k \in 1..13, NEW i,
           NEW n \in Nat, Stepped(r, k, i, n), Makes(k, i, n), EffectTypes'
    PROVE  TypeInv'
<1>1. /\ UNCHANGED docVars /\ Sync(r)' /\ Others(r) /\ LocalTypes'
      /\ UNCHANGED <<asked, failures, overlaps>> /\ losses' \in 0..MaxLosses
  BY DEF Stepped
<1>2. TypeOK' /\ kyb' = kyb
  BY <1>1 DEF TypeInv, TypeOK, docVars, LocalTypes, EffectTypes
<1>3. progress' \in Loggable' /\ IdsSet(progress, ids)'
  BY <1>1 DEF TypeInv, docVars, Loggable, IdsSet
<1>4. IdsSet(last[r], Using(r))'
  <2>0. i \in Ids => n # 0
    BY DEF Makes, Ids
  <2>1. /\ IdsSet(Before(k), Using(r)) /\ Using(r) \in [Ids -> Nat]
        /\ last[r] = Before(k)
    BY UsingIs DEF TypeInv, Stepped
  <2>2. CASE Loss(r)
    <3>1. Using(r)' = Using(r) /\ last'[r] = last[r]
      BY <2>0, <2>2, UsingNext DEF Loss
    <3> QED BY <2>1, <3>1 DEF IdsSet
  <2>3. CASE Answer(r, k, i, n)
    <3>1. Using(r)' = With(Using(r), i, n) /\ last'[r] = k
      BY <2>0, <2>3, UsingNext DEF Answer
    <3>2. IdsSet(k, With(Using(r), i, n))
      <4>1. /\ k >= 4 => Before(k) >= 3
            /\ k >= 6 => Before(k) >= 5
            /\ k >= 8 => Before(k) >= 7
        BY DEF Before
      <4>2. CASE k \notin {3, 5, 7}
        BY <2>1, <4>1, <4>2 DEF With, Makes, IdsSet
      <4>3. CASE k \in {3, 5, 7}
        BY <2>1, <4>1, <4>3 DEF With, Makes, IdsSet, Ids
      <4> QED BY <4>2, <4>3
    <3> QED BY <3>1, <3>2 DEF IdsSet
  <2> QED BY <2>2, <2>3 DEF Stepped
<1>5. \A q \in Runs : (Sync(q) /\ IdsSet(last[q], Using(q)))'
  BY <1>1, <1>2, <1>4, OthersKnow
<1>6. \A q \in Runs, j \in Ids : snap'[q].ids[j] # 0 => ids'[j] # 0
  <2>1. \A q \in Runs : snap'[q] = snap[q]
    BY DEF Stepped, Others
  <2> QED BY <1>1, <2>1 DEF TypeInv, docVars
<1> QED BY <1>2, <1>3, <1>5, <1>6 DEF TypeInv, EffectTypes

-----------------------------------------------------------------------------
(* The steps.                                                              *)

\* Nothing that was made is taken away.
Grows ==
    /\ access => access'
    /\ role => role'
    /\ ssis' \in Nat /\ ssis <= ssis'
    /\ Len(dids) <= Len(dids') /\ \A j \in 1..Len(dids) : dids'[j] = dids[j]
    /\ registered \subseteq registered'
    /\ Len(kycs) <= Len(kycs') /\ \A j \in 1..Len(kycs) : kycs'[j] = kycs[j]
    /\ plans \subseteq plans'
    /\ Range(widgets) \subseteq Range(widgets')
    /\ pages \subseteq pages'

\* What was real stays real.
LEMMA RealGrows ==
    ASSUME EffectTypes, EffectTypes', Grows, kyb' = kyb,
           NEW n, NEW u, Real(n, u)
    PROVE  Real(n, u)'
<1>1. /\ Len(dids) \in Nat /\ Len(dids') \in Nat
      /\ Len(kycs) \in Nat /\ Len(kycs') \in Nat
      /\ ssis \in Nat /\ ssis' \in Nat
  BY DEF EffectTypes
<1>2. /\ n >= 1 => access'
      /\ n >= 2 => role'
  BY Zenon DEF Real, Grows
<1>3. n >= 3 => u["ssi"] \in 1..ssis'
  BY <1>1 DEF Real, Grows
<1>4. /\ n >= 5 => u["did"] \in 1..Len(dids') /\ dids'[u["did"]] = u["ssi"]
      /\ n >= 7 => /\ u["kyc"] \in 1..Len(kycs')
                   /\ kycs'[u["kyc"]] = [ssi |-> u["ssi"], did |-> u["did"]]
  <2>1. ASSUME n >= 5
        PROVE  u["did"] \in 1..Len(dids') /\ dids'[u["did"]] = u["ssi"]
    <3>1. u["did"] \in 1..Len(dids) /\ dids[u["did"]] = u["ssi"]
      BY <2>1 DEF Real
    <3> QED BY <1>1, <3>1 DEF Grows
  <2>2. ASSUME n >= 7
        PROVE  /\ u["kyc"] \in 1..Len(kycs')
               /\ kycs'[u["kyc"]] = [ssi |-> u["ssi"], did |-> u["did"]]
    <3>1. /\ u["kyc"] \in 1..Len(kycs)
          /\ kycs[u["kyc"]] = [ssi |-> u["ssi"], did |-> u["did"]]
      BY <2>2 DEF Real
    <3>2. u["kyc"] \in 1..Len(kycs') /\ kycs'[u["kyc"]] = kycs[u["kyc"]]
      BY <1>1, <3>1 DEF Grows
    <3> QED BY <3>1, <3>2
  <2> QED BY <2>1, <2>2
<1>5. /\ n >= 4 => <<"ssi", u["ssi"]>> \in plans'
      /\ n >= 6 => u["did"] \in registered'
      /\ n >= 8 => <<"kyc", u["kyc"]>> \in plans'
      /\ n >= 9 => u["kyc"] \in Range(widgets')
      /\ n >= 11 => \E p \in pages' : p.kyc = u["kyc"] /\ p.type = "kyc"
      /\ n >= 12 /\ kyb
             => \E p \in pages' : p.kyc = u["kyc"] /\ p.type = "kyb"
  BY Zenon DEF Real, Grows
<1> QED BY <1>2, <1>3, <1>4, <1>5, Zenon DEF Real

\* How many things the k-th step makes of those that are numbered.
Counts(k) == /\ ssis' = IF k = 3 THEN ssis + 1 ELSE ssis
             /\ Len(dids') = IF k = 5 THEN Len(dids) + 1 ELSE Len(dids)
             /\ Len(kycs') = IF k = 7 THEN Len(kycs) + 1 ELSE Len(kycs)
             /\ Len(widgets') = IF k = 9 THEN Len(widgets) + 1
                                ELSE Len(widgets)

\* If what the log calls successful is there, it is there after one more step.
Realizes(r, k, i, n) ==
    \A u \in [Ids -> Nat] :
        u = Using(r) /\ Real(Before(k), u) => Real(k, With(u, i, n))'

\* The k-th step of r, which makes the id n for i.
Does(r, k, i, n) ==
    /\ Stepped(r, k, i, n) /\ Makes(k, i, n)
    /\ EffectTypes' /\ Grows /\ Counts(k)
    /\ Realizes(r, k, i, n)

\* A step whose frame is known does what it should if its effect adds to what
\* was there what the logs then say.
LEMMA DoesIs ==
    ASSUME TypeInv, NEW r \in Runs, NEW k \in 1..13, NEW i,
           NEW n \in Nat, Performed(r, AllSteps[k], i, n),
           Makes(k, i, n), EffectTypes', Grows, Counts(k),
           \A u \in [Ids -> Nat], m \in 0..13 :
               u = Using(r) /\ m = Before(k) /\ Real(m, u)'
                   => Real(k, With(u, i, n))'
    PROVE  Does(r, k, i, n)
<1>1. Stepped(r, k, i, n) /\ EffectTypes /\ kyb' = kyb
  BY PerformedIs DEF Stepped, docVars, TypeInv, TypeOK, EffectTypes
<1>2. ASSUME NEW u \in [Ids -> Nat], u = Using(r), Real(Before(k), u)
      PROVE  Real(k, With(u, i, n))'
  <2>1. \A m : Real(m, u) => Real(m, u)'
    BY <1>1, RealGrows
  <2>2. PICK m : m = Before(k)
    OBVIOUS
  <2>3. m \in 0..13 /\ Real(m, u)'
    BY <1>2, <2>1, <2>2 DEF Before
  <2> QED BY <1>2, <2>2, <2>3
<1> QED BY <1>1, <1>2 DEF Does, Realizes

\* What is known of the ids of a run that is before the k-th step.
LEMMA AtStep ==
    ASSUME TypeInv, NEW r \in Runs, NEW k \in 1..13, pc[r] = AllSteps[k]
    PROVE  /\ last[r] = Before(k) /\ k \in Loggable
           /\ \A i \in Ids : Using(r)[i] = Use(r, i) /\ Use(r, i) \in Nat
           /\ k >= 4 => Use(r, "ssi") \in Made
           /\ k >= 6 => Use(r, "did") \in Made
           /\ k >= 8 => Use(r, "kyc") \in Made
<1>1. last[r] = Before(k) /\ k \in Loggable
  BY DEF TypeInv, Sync
<1>2. \A i \in Ids : Using(r)[i] = Use(r, i) /\ Use(r, i) \in Nat
  BY UsingIs DEF Using
<1>3. IdsSet(Before(k), Using(r))
  BY <1>1 DEF TypeInv
<1>4. /\ k >= 4 => Before(k) >= 3
      /\ k >= 6 => Before(k) >= 5
      /\ k >= 8 => Before(k) >= 7
  BY DEF Before
<1> QED BY <1>1, <1>2, <1>3, <1>4 DEF IdsSet, Made, Ids

\* An update adds the access to the dashboard.
LEMMA GiveDashboardAccessDoes ==
    ASSUME TypeInv, NEW r \in Runs, GiveDashboardAccess(r)
    PROVE  Does(r, 1, "none", 0)
<1>1. Performed(r, AllSteps[1], "none", 0)
  BY StepsAre DEF GiveDashboardAccess
<1>2. pc[r] = AllSteps[1] /\ EffectTypes
  BY <1>1 DEF Performed, TypeInv, TypeOK, EffectTypes
<1>3. kyb' = kyb
  BY <1>1 DEF Performed, docVars
<1>4. /\ access' = TRUE
      /\ UNCHANGED <<role, ssis, dids, registered, kycs, plans,
                    widgets, pages>>
  BY DEF GiveDashboardAccess
<1>5. EffectTypes' /\ Grows /\ Counts(1)
  BY <1>2, <1>3, <1>4 DEF EffectTypes, Grows, Counts, Page
<1>6. ASSUME NEW u \in [Ids -> Nat], NEW m \in 0..13, u = Using(r),
             m = Before(1), Real(m, u)'
      PROVE  Real(1, With(u, "none", 0))'
  <2>1. m = 0
    BY <1>6 DEF Before
  <2>2. Real(1, u)'
    BY <1>2, <1>3, <1>4, <1>6, <2>1, AtStep DEF Real, Ids
  <2> QED BY <2>2 DEF With, Ids
<1> QED BY <1>1, <1>2, <1>5, <1>6, DoesIs DEF Makes, Ids

\* The team has a role.
LEMMA CreateTeamRoleDoes ==
    ASSUME TypeInv, NEW r \in Runs, CreateTeamRole(r)
    PROVE  Does(r, 2, "none", 0)
<1>1. Performed(r, AllSteps[2], "none", 0)
  BY StepsAre DEF CreateTeamRole
<1>2. pc[r] = AllSteps[2] /\ EffectTypes
  BY <1>1 DEF Performed, TypeInv, TypeOK, EffectTypes
<1>3. kyb' = kyb
  BY <1>1 DEF Performed, docVars
<1>4. /\ role' = TRUE
      /\ UNCHANGED <<access, ssis, dids, registered, kycs, plans,
                    widgets, pages>>
  BY DEF CreateTeamRole
<1>5. EffectTypes' /\ Grows /\ Counts(2)
  BY <1>2, <1>3, <1>4 DEF EffectTypes, Grows, Counts, Page
<1>6. ASSUME NEW u \in [Ids -> Nat], NEW m \in 0..13, u = Using(r),
             m = Before(2), Real(m, u)'
      PROVE  Real(2, With(u, "none", 0))'
  <2>1. m = 1
    BY <1>6 DEF Before
  <2>2. Real(2, u)'
    BY <1>2, <1>3, <1>4, <1>6, <2>1, AtStep DEF Real, Ids
  <2> QED BY <2>2 DEF With, Ids
<1> QED BY <1>1, <1>2, <1>5, <1>6, DoesIs DEF Makes, Ids

\* Each SSI service has a new id.
LEMMA CreateSsiServiceDoes ==
    ASSUME TypeInv, NEW r \in Runs, CreateSsiService(r)
    PROVE  \E n \in Nat : Does(r, 3, "ssi", n)
<1>1. PICK n \in Nat : n = ssis + 1
  BY DEF TypeInv, TypeOK
<1>2. Performed(r, AllSteps[3], "ssi", n)
  BY <1>1, StepsAre DEF CreateSsiService
<1>3. pc[r] = AllSteps[3] /\ EffectTypes
  BY <1>2 DEF Performed, TypeInv, TypeOK, EffectTypes
<1>4. kyb' = kyb
  BY <1>2 DEF Performed, docVars
<1>5. /\ ssis' = ssis + 1
      /\ UNCHANGED <<access, role, dids, registered, kycs, plans,
                    widgets, pages>>
  BY DEF CreateSsiService
<1>6. EffectTypes' /\ Grows /\ Counts(3)
  BY <1>3, <1>4, <1>5 DEF EffectTypes, Grows, Counts, Page
<1>7. ASSUME NEW u \in [Ids -> Nat], NEW m \in 0..13, u = Using(r),
             m = Before(3), Real(m, u)'
      PROVE  Real(3, With(u, "ssi", n))'
  <2>1. m = 2
    BY <1>7 DEF Before
  <2>2. PICK w : w = With(u, "ssi", n)
    OBVIOUS
  <2>3. /\ w["ssi"] = n
        /\ w["did"] = u["did"] /\ w["kyc"] = u["kyc"]
    BY <2>2 DEF With, Ids
  <2>4. Real(2, w)' /\ w["ssi"] \in 1..ssis'
    BY <1>1, <1>3, <1>5, <1>7, <2>1, <2>3 DEF Real, EffectTypes
  <2>5. Real(3, w)'
    BY <2>4 DEF Real
  <2> QED BY <2>2, <2>5
<1>8. Makes(3, "ssi", n)
  BY <1>1, <1>3 DEF Makes, Ids, EffectTypes
<1>9. Does(r, 3, "ssi", n)
  BY <1>2, <1>6, <1>7, <1>8, DoesIs
<1> QED BY <1>9

\* The plan is that of the SSI service the run works with.
LEMMA CreditSsiServiceDoes ==
    ASSUME TypeInv, NEW r \in Runs, CreditSsiService(r)
    PROVE  Does(r, 4, "none", 0)
<1>1. Performed(r, AllSteps[4], "none", 0)
  BY StepsAre DEF CreditSsiService, HandleCreditService
<1>2. pc[r] = AllSteps[4] /\ EffectTypes
  BY <1>1 DEF Performed, TypeInv, TypeOK, EffectTypes
<1>3. kyb' = kyb
  BY <1>1 DEF Performed, docVars
<1>4. /\ plans' = plans \cup {<<"ssi", Use(r, "ssi")>>}
      /\ UNCHANGED <<access, role, ssis, dids, registered, kycs,
                    widgets, pages>>
  BY DEF CreditSsiService, HandleCreditService
<1>5. Use(r, "ssi") \in Made
  BY <1>2, AtStep DEF Loggable
<1>6. EffectTypes' /\ Grows /\ Counts(4)
  BY <1>2, <1>3, <1>4, <1>5 DEF EffectTypes, Grows, Counts, Page
<1>7. ASSUME NEW u \in [Ids -> Nat], NEW m \in 0..13, u = Using(r),
             m = Before(4), Real(m, u)'
      PROVE  Real(4, With(u, "none", 0))'
  <2>1. m = 3
    BY <1>7 DEF Before
  <2>2. Real(4, u)'
    BY <1>2, <1>3, <1>4, <1>5, <1>7, <2>1, AtStep DEF Real, Ids
  <2> QED BY <2>2 DEF With, Ids
<1> QED BY <1>1, <1>2, <1>6, <1>7, DoesIs DEF Makes, Ids

\* Each DID has a new id and remembers the SSI service.
LEMMA CreateDidDoes ==
    ASSUME TypeInv, NEW r \in Runs, CreateDid(r)
    PROVE  \E n \in Nat : Does(r, 5, "did", n)
<1>1. PICK n \in Nat : n = Len(dids) + 1
  BY DEF TypeInv, TypeOK
<1>2. Performed(r, AllSteps[5], "did", n)
  BY <1>1, StepsAre DEF CreateDid
<1>3. pc[r] = AllSteps[5] /\ EffectTypes
  BY <1>2 DEF Performed, TypeInv, TypeOK, EffectTypes
<1>4. kyb' = kyb
  BY <1>2 DEF Performed, docVars
<1>5. /\ dids' = Append(dids, Use(r, "ssi"))
      /\ UNCHANGED <<access, role, ssis, registered, kycs, plans,
                    widgets, pages>>
  BY DEF CreateDid
<1>6. Use(r, "ssi") \in Made
  BY <1>3, AtStep DEF Loggable
<1>7. /\ dids' \in Seq(Made)
      /\ Len(dids') = Len(dids) + 1 /\ Len(dids) \in Nat
      /\ \A j \in 1..Len(dids) : dids'[j] = dids[j]
      /\ dids'[Len(dids) + 1] = Use(r, "ssi")
  <2>1. /\ dids \in Seq(Made)
        /\ Use(r, "ssi") \in Made
    BY <1>3, <1>6 DEF EffectTypes
  <2> QED BY <1>5, <2>1, AppendProperties
<1>8. EffectTypes' /\ Grows /\ Counts(5)
  BY <1>3, <1>4, <1>5, <1>6, <1>7 DEF EffectTypes, Grows, Counts, Page
<1>9. ASSUME NEW u \in [Ids -> Nat], NEW m \in 0..13, u = Using(r),
             m = Before(5), Real(m, u)'
      PROVE  Real(5, With(u, "did", n))'
  <2>1. m = 4
    BY <1>9 DEF Before
  <2>2. PICK w : w = With(u, "did", n)
    OBVIOUS
  <2>3. /\ w["did"] = n
        /\ w["ssi"] = u["ssi"] /\ w["kyc"] = u["kyc"]
    BY <2>2 DEF With, Ids
  <2>4. Real(4, w)'
    BY <1>9, <2>1, <2>3 DEF Real, Ids
  <2>5. Use(r, "ssi") = w["ssi"]
    BY <1>3, <1>9, <2>3, AtStep DEF Ids
  <2>6. w["did"] \in 1..Len(dids') /\ dids'[w["did"]] = w["ssi"]
    BY <1>1, <1>7, <2>3, <2>5
  <2>7. Real(5, w)'
    BY <2>4, <2>6 DEF Real
  <2> QED BY <2>2, <2>7
<1>10. Makes(5, "did", n)
  BY <1>1, <1>3 DEF Makes, Ids, EffectTypes
<1>11. Does(r, 5, "did", n)
  BY <1>2, <1>8, <1>9, <1>10, DoesIs
<1> QED BY <1>11

\* The DID registered is the one the run works with.
LEMMA RegisterDidDoes ==
    ASSUME TypeInv, NEW r \in Runs, RegisterDid(r)
    PROVE  Does(r, 6, "none", 0)
<1>1. Performed(r, AllSteps[6], "none", 0)
  BY StepsAre DEF RegisterDid
<1>2. pc[r] = AllSteps[6] /\ EffectTypes
  BY <1>1 DEF Performed, TypeInv, TypeOK, EffectTypes
<1>3. kyb' = kyb
  BY <1>1 DEF Performed, docVars
<1>4. /\ registered' = registered \cup {Use(r, "did")}
      /\ UNCHANGED <<access, role, ssis, dids, kycs, plans, widgets, pages>>
  BY DEF RegisterDid
<1>5. Use(r, "did") \in Made
  BY <1>2, AtStep DEF Loggable
<1>6. EffectTypes' /\ Grows /\ Counts(6)
  BY <1>2, <1>3, <1>4, <1>5 DEF EffectTypes, Grows, Counts, Page
<1>7. ASSUME NEW u \in [Ids -> Nat], NEW m \in 0..13, u = Using(r),
             m = Before(6), Real(m, u)'
      PROVE  Real(6, With(u, "none", 0))'
  <2>1. m = 5
    BY <1>7 DEF Before
  <2>2. Real(6, u)'
    BY <1>2, <1>3, <1>4, <1>5, <1>7, <2>1, AtStep DEF Real, Ids
  <2> QED BY <2>2 DEF With, Ids
<1> QED BY <1>1, <1>2, <1>6, <1>7, DoesIs DEF Makes, Ids

\* Each KYC service has a new id and remembers whom it works with.
LEMMA CreateKycServiceDoes ==
    ASSUME TypeInv, NEW r \in Runs, CreateKycService(r)
    PROVE  \E n \in Nat : Does(r, 7, "kyc", n)
<1>1. PICK n \in Nat : n = Len(kycs) + 1
  BY DEF TypeInv, TypeOK
<1>2. Performed(r, AllSteps[7], "kyc", n)
  BY <1>1, StepsAre DEF CreateKycService
<1>3. pc[r] = AllSteps[7] /\ EffectTypes
  BY <1>2 DEF Performed, TypeInv, TypeOK, EffectTypes
<1>4. kyb' = kyb
  BY <1>2 DEF Performed, docVars
<1>5. /\ kycs' = Append(kycs, [ssi |-> Use(r, "ssi"),
                             did |-> Use(r, "did")])
      /\ UNCHANGED <<access, role, ssis, dids, registered, plans,
                    widgets, pages>>
  BY DEF CreateKycService
<1>6. Use(r, "ssi") \in Made /\ Use(r, "did") \in Made
  BY <1>3, AtStep DEF Loggable
<1>7. /\ kycs' \in Seq([ssi : Made, did : Made])
      /\ Len(kycs') = Len(kycs) + 1 /\ Len(kycs) \in Nat
      /\ \A j \in 1..Len(kycs) : kycs'[j] = kycs[j]
      /\ kycs'[Len(kycs) + 1] =
             [ssi |-> Use(r, "ssi"), did |-> Use(r, "did")]
  <2>1. /\ kycs \in Seq([ssi : Made, did : Made])
        /\ [ssi |-> Use(r, "ssi"), did |-> Use(r, "did")]
               \in [ssi : Made, did : Made]
    BY <1>3, <1>6 DEF EffectTypes
  <2> QED BY <1>5, <2>1, AppendProperties
<1>8. EffectTypes' /\ Grows /\ Counts(7)
  BY <1>3, <1>4, <1>5, <1>6, <1>7 DEF EffectTypes, Grows, Counts, Page
<1>9. ASSUME NEW u \in [Ids -> Nat], NEW m \in 0..13, u = Using(r),
             m = Before(7), Real(m, u)'
      PROVE  Real(7, With(u, "kyc", n))'
  <2>1. m = 6
    BY <1>9 DEF Before
  <2>2. PICK w : w = With(u, "kyc", n)
    OBVIOUS
  <2>3. /\ w["kyc"] = n
        /\ w["ssi"] = u["ssi"] /\ w["did"] = u["did"]
    BY <2>2 DEF With, Ids
  <2>4. Real(6, w)'
    BY <1>9, <2>1, <2>3 DEF Real, Ids
  <2>5. Use(r, "ssi") = w["ssi"] /\ Use(r, "did") = w["did"]
    BY <1>3, <1>9, <2>3, AtStep DEF Ids
  <2>6. /\ w["kyc"] \in 1..Len(kycs')
        /\ kycs'[w["kyc"]] = [ssi |-> w["ssi"], did |-> w["did"]]
    BY <1>1, <1>7, <2>3, <2>5
  <2>7. Real(7, w)'
    BY <2>4, <2>6 DEF Real
  <2> QED BY <2>2, <2>7
<1>10. Makes(7, "kyc", n)
  BY <1>1, <1>3 DEF Makes, Ids, EffectTypes
<1>11. Does(r, 7, "kyc", n)
  BY <1>2, <1>8, <1>9, <1>10, DoesIs
<1> QED BY <1>11

\* The plan is that of the KYC service the run works with.
LEMMA CreditKycServiceDoes ==
    ASSUME TypeInv, NEW r \in Runs, CreditKycService(r)
    PROVE  Does(r, 8, "none", 0)
<1>1. Performed(r, AllSteps[8], "none", 0)
  BY StepsAre DEF CreditKycService, HandleCreditService
<1>2. pc[r] = AllSteps[8] /\ EffectTypes
  BY <1>1 DEF Performed, TypeInv, TypeOK, EffectTypes
<1>3. kyb' = kyb
  BY <1>1 DEF Performed, docVars
<1>4. /\ plans' = plans \cup {<<"kyc", Use(r, "kyc")>>}
      /\ UNCHANGED <<access, role, ssis, dids, registered, kycs,
                    widgets, pages>>
  BY DEF CreditKycService, HandleCreditService
<1>5. Use(r, "kyc") \in Made
  BY <1>2, AtStep DEF Loggable
<1>6. EffectTypes' /\ Grows /\ Counts(8)
  BY <1>2, <1>3, <1>4, <1>5 DEF EffectTypes, Grows, Counts, Page
<1>7. ASSUME NEW u \in [Ids -> Nat], NEW m \in 0..13, u = Using(r),
             m = Before(8), Real(m, u)'
      PROVE  Real(8, With(u, "none", 0))'
  <2>1. m = 7
    BY <1>7 DEF Before
  <2>2. Real(8, u)'
    BY <1>2, <1>3, <1>4, <1>5, <1>7, <2>1, AtStep DEF Real, Ids
  <2> QED BY <2>2 DEF With, Ids
<1> QED BY <1>1, <1>2, <1>6, <1>7, DoesIs DEF Makes, Ids

\* Each widget has a new id and belongs to the KYC service.
LEMMA SetupKycWidgetDoes ==
    ASSUME TypeInv, NEW r \in Runs, SetupKycWidget(r)
    PROVE  \E n \in Nat : Does(r, 9, "widget", n)
<1>1. PICK n \in Nat : n = Len(widgets) + 1
  BY DEF TypeInv, TypeOK
<1>2. Performed(r, AllSteps[9], "widget", n)
  BY <1>1, StepsAre DEF SetupKycWidget
<1>3. pc[r] = AllSteps[9] /\ EffectTypes
  BY <1>2 DEF Performed, TypeInv, TypeOK, EffectTypes
<1>4. kyb' = kyb
  BY <1>2 DEF Performed, docVars
<1>5. /\ widgets' = Append(widgets, Use(r, "kyc"))
      /\ UNCHANGED <<access, role, ssis, dids, registered, kycs,
                    plans, pages>>
  BY DEF SetupKycWidget
<1>6. Use(r, "kyc") \in Made
  BY <1>3, AtStep DEF Loggable
<1>7. /\ widgets' \in Seq(Made)
      /\ Len(widgets') = Len(widgets) + 1 /\ Len(widgets) \in Nat
      /\ \A j \in 1..Len(widgets) : widgets'[j] = widgets[j]
      /\ widgets'[Len(widgets) + 1] = Use(r, "kyc")
  <2>1. /\ widgets \in Seq(Made)
        /\ Use(r, "kyc") \in Made
    BY <1>3, <1>6 DEF EffectTypes
  <2> QED BY <1>5, <2>1, AppendProperties
<1>8. /\ Range(widgets) \subseteq Range(widgets')
     
      /\ Use(r, "kyc") \in Range(widgets')
  <2>1. /\ DOMAIN widgets = 1..Len(widgets)
        /\ DOMAIN widgets' = 1..Len(widgets')
    BY <1>3, <1>7 DEF EffectTypes
  <2> QED BY <1>7, <2>1 DEF Range
<1>9. EffectTypes' /\ Grows /\ Counts(9)
  BY <1>3, <1>4, <1>5, <1>6, <1>7, <1>8 DEF EffectTypes, Grows, Counts, Page
<1>10. ASSUME NEW u \in [Ids -> Nat], NEW m \in 0..13, u = Using(r),
             m = Before(9), Real(m, u)'
      PROVE  Real(9, With(u, "widget", n))'
  <2>1. m = 8
    BY <1>10 DEF Before
  <2>2. Real(9, u)'
    BY <1>3, <1>4, <1>5, <1>6, <1>7, <1>8, <1>10, <2>1, AtStep DEF Real, Ids
  <2> QED BY <2>2 DEF With, Ids
<1>11. Makes(9, "widget", n)
  BY <1>1, <1>3 DEF Makes, Ids, EffectTypes
<1>12. Does(r, 9, "widget", n)
  BY <1>2, <1>9, <1>10, <1>11, DoesIs
<1> QED BY <1>12

\* What the KYB widget makes is not looked at again.
LEMMA SetupKybWidgetDoes ==
    ASSUME TypeInv, NEW r \in Runs, SetupKybWidget(r)
    PROVE  Does(r, 10, "none", 0)
<1>1. Performed(r, AllSteps[10], "none", 0)
  BY StepsAre DEF SetupKybWidget
<1>2. pc[r] = AllSteps[10] /\ EffectTypes
  BY <1>1 DEF Performed, TypeInv, TypeOK, EffectTypes
<1>3. kyb' = kyb
  BY <1>1 DEF Performed, docVars
<1>4. UNCHANGED <<access, role, ssis, dids, registered, kycs,
                    plans, widgets, pages>>
  BY DEF SetupKybWidget, effects
<1>5. EffectTypes' /\ Grows /\ Counts(10)
  BY <1>2, <1>3, <1>4 DEF EffectTypes, Grows, Counts, Page
<1>6. ASSUME NEW u \in [Ids -> Nat], NEW m \in 0..13, u = Using(r),
             m = Before(10), Real(m, u)'
      PROVE  Real(10, With(u, "none", 0))'
  <2>1. m = 9
    BY <1>6 DEF Before
  <2>2. Real(10, u)'
    BY <1>2, <1>3, <1>4, <1>6, <2>1, AtStep DEF Real, Ids
  <2> QED BY <2>2 DEF With, Ids
<1> QED BY <1>1, <1>2, <1>5, <1>6, DoesIs DEF Makes, Ids

\* The page of KYC is made once.
LEMMA ConfigureKycPageDoes ==
    ASSUME TypeInv, NEW r \in Runs, ConfigureKycPage(r)
    PROVE  Does(r, 11, "none", 0)
<1>1. Performed(r, AllSteps[11], "none", 0)
  BY StepsAre DEF ConfigureKycPage, ConfigurePage
<1>2. pc[r] = AllSteps[11] /\ EffectTypes
  BY <1>1 DEF Performed, TypeInv, TypeOK, EffectTypes
<1>3. kyb' = kyb
  BY <1>1 DEF Performed, docVars
<1>4. /\ pages' = pages \cup {[kyc |-> Use(r, "kyc"), type |-> "kyc",
                           widget |-> widget[r]]}
      /\ UNCHANGED <<access, role, ssis, dids, registered, kycs,
                    plans, widgets>>
  BY DEF ConfigureKycPage, ConfigurePage
<1>5. Use(r, "kyc") \in Made /\ widget[r] \in Nat
  BY <1>2, AtStep DEF Loggable, TypeInv, TypeOK
<1>6. EffectTypes' /\ Grows /\ Counts(11)
  <2>1. /\ pages' \subseteq Page
        /\ ~kyb => \A p \in pages' : p.type = "kyc"
    BY <1>2, <1>4, <1>5 DEF EffectTypes, Page
  <2> QED BY <1>2, <1>3, <1>4, <2>1 DEF EffectTypes, Grows, Counts
<1>7. ASSUME NEW u \in [Ids -> Nat], NEW m \in 0..13, u = Using(r),
             m = Before(11), Real(m, u)'
      PROVE  Real(11, With(u, "none", 0))'
  <2>1. m \in {9, 10}
    BY <1>7 DEF Before
  <2>2. Use(r, "kyc") = u["kyc"]
    BY <1>2, <1>7, AtStep DEF Ids
  <2>3. \E p \in pages' : p.kyc = u["kyc"] /\ p.type = "kyc"
    <3>1. PICK p : p = [kyc |-> Use(r, "kyc"), type |-> "kyc",
                        widget |-> widget[r]]
      OBVIOUS
    <3>2. p \in pages'
      BY <1>4, <3>1
    <3> QED BY <2>2, <3>1, <3>2
  <2>4. Real(11, u)'
    BY <1>7, <2>1, <2>3 DEF Real
  <2> QED BY <2>4 DEF With, Ids
<1> QED BY <1>1, <1>2, <1>6, <1>7, DoesIs DEF Makes, Ids

\* The page of KYB is made once, for who is interested in KYB.
LEMMA ConfigureKybPageDoes ==
    ASSUME TypeInv, NEW r \in Runs, ConfigureKybPage(r)
    PROVE  Does(r, 12, "none", 0)
<1>1. Performed(r, AllSteps[12], "none", 0)
  BY StepsAre DEF ConfigureKybPage, ConfigurePage
<1>2. pc[r] = AllSteps[12] /\ EffectTypes
  BY <1>1 DEF Performed, TypeInv, TypeOK, EffectTypes
<1>3. kyb' = kyb
  BY <1>1 DEF Performed, docVars
<1>4. /\ pages' = pages \cup {[kyc |-> Use(r, "kyc"), type |-> "kyb",
                           widget |-> 0]}
      /\ UNCHANGED <<access, role, ssis, dids, registered, kycs,
                    plans, widgets>>
  BY DEF ConfigureKybPage, ConfigurePage
<1>5. Use(r, "kyc") \in Made /\ kyb
  BY <1>2, AtStep DEF Loggable
<1>6. EffectTypes' /\ Grows /\ Counts(12)
  <2>1. /\ pages' \subseteq Page
        /\ ~kyb => \A p \in pages' : p.type = "kyc"
    BY <1>2, <1>4, <1>5 DEF EffectTypes, Page
  <2> QED BY <1>2, <1>3, <1>4, <2>1 DEF EffectTypes, Grows, Counts
<1>7. ASSUME NEW u \in [Ids -> Nat], NEW m \in 0..13, u = Using(r),
             m = Before(12), Real(m, u)'
      PROVE  Real(12, With(u, "none", 0))'
  <2>1. m = 11
    BY <1>7 DEF Before
  <2>2. Use(r, "kyc") = u["kyc"]
    BY <1>2, <1>7, AtStep DEF Ids
  <2>3. \E p \in pages' : p.kyc = u["kyc"] /\ p.type = "kyb"
    <3>1. PICK p : p = [kyc |-> Use(r, "kyc"), type |-> "kyb",
                        widget |-> 0]
      OBVIOUS
    <3>2. p \in pages'
      BY <1>4, <3>1
    <3> QED BY <2>2, <3>1, <3>2
  <2>4. Real(12, u)'
    BY <1>7, <2>1, <2>3 DEF Real
  <2> QED BY <2>4 DEF With, Ids
<1> QED BY <1>1, <1>2, <1>6, <1>7, DoesIs DEF Makes, Ids

\* The last step makes nothing.
LEMMA CompleteDoes ==
    ASSUME TypeInv, NEW r \in Runs, Complete(r)
    PROVE  Does(r, 13, "none", 0)
<1>1. Performed(r, AllSteps[13], "none", 0)
  BY StepsAre DEF Complete, Performed
<1>2. pc[r] = AllSteps[13] /\ EffectTypes
  BY <1>1 DEF Performed, TypeInv, TypeOK, EffectTypes
<1>3. kyb' = kyb
  BY <1>1 DEF Performed, docVars
<1>4. UNCHANGED <<access, role, ssis, dids, registered, kycs,
                    plans, widgets, pages>>
  BY DEF Complete, effects
<1>5. EffectTypes' /\ Grows /\ Counts(13)
  BY <1>2, <1>3, <1>4 DEF EffectTypes, Grows, Counts, Page
<1>6. ASSUME NEW u \in [Ids -> Nat], NEW m \in 0..13, u = Using(r),
             m = Before(13), Real(m, u)'
      PROVE  Real(13, With(u, "none", 0))'
  <2>1. m \in {11, 12} /\ (m = 11 => ~kyb)
    BY <1>6 DEF Before
  <2>2. Real(13, u)'
    BY <1>3, <1>6, <2>1 DEF Real
  <2> QED BY <2>2 DEF With, Ids
<1> QED BY <1>1, <1>2, <1>5, <1>6, DoesIs DEF Makes, Ids

-----------------------------------------------------------------------------
(* The invariants hold at first.                                           *)

\* At first nothing was asked for, logged or made.
LEMMA InitTypeInv ==
    ASSUME Init
    PROVE  TypeInv /\ RealInv /\ CountInv
<1>1. /\ kyb \in BOOLEAN /\ status = "none" /\ progress = 0 /\ ids = NoIds
      /\ asked = FALSE /\ access = FALSE /\ role = FALSE
      /\ ssis = 0 /\ dids = <<>> /\ registered = {} /\ kycs = <<>>
      /\ plans = {} /\ widgets = <<>> /\ pages = {}
      /\ failures = 0 /\ losses = 0 /\ overlaps = 0
  BY DEF Init
<1>2. /\ pc = [r \in Runs |-> "idle"]
      /\ snap = [r \in Runs |-> NoSnap]
      /\ made = [r \in Runs |-> NoIds]
      /\ widget = [r \in Runs |-> 0]
      /\ last = [r \in Runs |-> 0]
  BY DEF Init
<1>3. NoIds \in [Ids -> Nat] /\ Len(AllSteps) = 13 /\ "idle" \in Labels
  BY StepsAre DEF NoIds, Labels
<1>4. LocalTypes
  BY <1>2, <1>3 DEF LocalTypes, NoSnap
<1>5. EffectTypes
  <2>1. <<>> \in Seq(Made) /\ <<>> \in Seq([ssi : Made, did : Made])
    OBVIOUS
  <2>2. access \in BOOLEAN /\ role \in BOOLEAN
    BY <1>1, Zenon
  <2> QED BY <1>1, <2>1, <2>2 DEF EffectTypes
<1>6. TypeOK
  <2>1. /\ progress \in 0..Len(AllSteps) /\ failures \in 0..MaxFailures
        /\ losses \in 0..MaxLosses /\ overlaps \in 0..MaxOverlaps
    BY <1>1, <1>3, OnboardingAssumption
  <2>2. ids \in [Ids -> Nat] /\ asked \in BOOLEAN
    BY <1>1, <1>3, Zenon
  <2> QED BY <1>1, <1>4, <1>5, <2>1, <2>2, Zenon
          DEF TypeOK, LocalTypes, EffectTypes
<1>7. progress \in Loggable /\ IdsSet(progress, ids)
  BY <1>1 DEF Loggable, IdsSet
<1>8. \A r \in Runs : Sync(r) /\ IdsSet(last[r], Using(r))
  <2> TAKE r \in Runs
  <2>1. \A i \in 1..13 : pc[r] # AllSteps[i]
    BY <1>2, StepsDiffer
  <2>2. Sync(r)
    BY <1>2, <2>1 DEF Sync, Loggable
  <2>3. IdsSet(last[r], Using(r))
    BY <1>2 DEF IdsSet
  <2> QED BY <2>2, <2>3
<1>9. TypeInv
  <2>1. \A r \in Runs, i \in Ids : snap[r].ids[i] = 0
    BY <1>2 DEF NoSnap, NoIds
  <2> QED BY <1>1, <1>6, <1>7, <1>8, <2>1 DEF TypeInv
<1>10. RealInv
  BY <1>1, <1>2 DEF RealInv, Real, Busy
<1>11. CountInv
  BY <1>1 DEF CountInv, Counted
<1> QED BY <1>9, <1>10, <1>11

-----------------------------------------------------------------------------
(* The actions that make nothing.                                          *)

\* Some step of a run.
Worked(r) == \E k \in 1..13, n \in Nat :
                \E i \in Ids \cup {"none", "widget"} : Does(r, k, i, n)

\* A step of a run makes something, or it is refused.
LEMMA StepDoes ==
    ASSUME TypeInv, NEW r \in Runs, Step(r)
    PROVE  Worked(r) \/ StepRefused(r)
<1>1. ASSUME NEW k \in 1..13, NEW i \in Ids \cup {"none", "widget"},
             NEW n \in Nat, Does(r, k, i, n)
      PROVE  Worked(r)
  BY <1>1 DEF Worked
<1>2. CASE GiveDashboardAccess(r)
  BY <1>1, <1>2, GiveDashboardAccessDoes
<1>3. CASE CreateTeamRole(r)
  BY <1>1, <1>3, CreateTeamRoleDoes
<1>4. CASE CreateSsiService(r)
  BY <1>1, <1>4, CreateSsiServiceDoes DEF Ids
<1>5. CASE CreditSsiService(r)
  BY <1>1, <1>5, CreditSsiServiceDoes
<1>6. CASE CreateDid(r)
  BY <1>1, <1>6, CreateDidDoes DEF Ids
<1>7. CASE RegisterDid(r)
  BY <1>1, <1>7, RegisterDidDoes
<1>8. CASE CreateKycService(r)
  BY <1>1, <1>8, CreateKycServiceDoes DEF Ids
<1>9. CASE CreditKycService(r)
  BY <1>1, <1>9, CreditKycServiceDoes
<1>10. CASE SetupKycWidget(r)
  BY <1>1, <1>10, SetupKycWidgetDoes
<1>11. CASE SetupKybWidget(r)
  BY <1>1, <1>11, SetupKybWidgetDoes
<1>12. CASE ConfigureKycPage(r)
  BY <1>1, <1>12, ConfigureKycPageDoes
<1>13. CASE ConfigureKybPage(r)
  BY <1>1, <1>13, ConfigureKybPageDoes
<1>14. CASE Complete(r)
  BY <1>1, <1>14, CompleteDoes
<1> QED BY <1>2, <1>3, <1>4, <1>5, <1>6, <1>7, <1>8, <1>9, <1>10, <1>11,
           <1>12, <1>13, <1>14 DEF Step

\* A run stops: what it knows stays.
Stops(r) ==
    /\ pc[r] # "idle" /\ pc' = [pc EXCEPT ![r] = "FAILED"]
    /\ failures' \in 0..MaxFailures
    /\ UNCHANGED <<docVars, asked, effects, snap, made, widget, last, losses,
                   overlaps>>

\* A run is over: what it knew is forgotten.
Leaves(r) ==
    /\ pc[r] # "idle" /\ Ended(r)
    /\ UNCHANGED <<kyb, asked, effects, failures, overlaps>>

\* A step that throws and a step that is refused stop the run.
LEMMA FailureStops ==
    ASSUME TypeInv, NEW r \in Runs, StepFails(r) \/ StepRefused(r)
    PROVE  Stops(r)
<1>0. failures \in 0..MaxFailures
  BY DEF TypeInv, TypeOK
<1>1. CASE StepFails(r)
  <2>1. pc[r] # "idle"
    BY <1>1, StepsDiffer DEF StepFails
  <2> QED BY <1>0, <1>1, <2>1, OnboardingAssumption
          DEF StepFails, Failed, Stops
<1>2. CASE StepRefused(r)
  BY <1>0, <1>2 DEF StepRefused, Failed, Stops, counters
<1> QED BY <1>1, <1>2

\* A run that stops keeps the invariant.
LEMMA StopsInv ==
    ASSUME TypeInv, NEW r \in Runs, Stops(r)
    PROVE  TypeInv'
<1>1. /\ pc' = [pc EXCEPT ![r] = "FAILED"] /\ failures' \in 0..MaxFailures
      /\ UNCHANGED <<kyb, status, progress, ids, asked, access, role, ssis,
                     dids, registered, kycs, plans, widgets, pages>>
      /\ UNCHANGED <<snap, made, widget, last, losses, overlaps>>
  BY DEF Stops, docVars, effects
<1>2. pc \in [Runs -> Labels] /\ "FAILED" \in Labels
  BY DEF TypeInv, TypeOK, Labels, Outcomes
<1>3. /\ pc' \in [Runs -> Labels] /\ pc'[r] = "FAILED"
      /\ \A q \in Runs \ {r} : pc'[q] = pc[q]
  BY <1>1, <1>2
<1>4. TypeOK'
  BY <1>1, <1>3 DEF TypeInv, TypeOK
<1>5. Loggable' = Loggable /\ \A i \in 1..13 : Before(i)' = Before(i)
  BY <1>1 DEF Loggable, Before
<1>6. Sync(r)'
  <2>1. \A j \in 1..13 : pc'[r] # AllSteps[j]
    BY <1>3, StepsDiffer DEF Outcomes
  <2> QED BY <1>1, <1>3, <1>5, <2>1 DEF TypeInv, Sync
<1>7. Others(r) /\ kyb' = kyb
  BY <1>1, <1>3 DEF Others
<1>8. IdsSet(last[r], Using(r))'
  <2>1. Using(r)' = Using(r)
    BY <1>1 DEF Using, Use
  <2> QED BY <1>1, <2>1 DEF TypeInv, IdsSet
<1>9. \A q \in Runs : (Sync(q) /\ IdsSet(last[q], Using(q)))'
  BY <1>6, <1>7, <1>8, OthersKnow
<1>10. progress' \in Loggable' /\ IdsSet(progress, ids)'
  BY <1>1, <1>5 DEF TypeInv, IdsSet
<1> QED BY <1>1, <1>4, <1>9, <1>10 DEF TypeInv

\* What a run that is over leaves.
LEMMA LeavesIs ==
    ASSUME TypeInv, NEW r \in Runs, Leaves(r)
    PROVE  /\ LocalTypes' /\ pc'[r] = "idle" /\ last'[r] = 0
           /\ Others(r) /\ kyb' = kyb
           /\ \A q \in Runs : (Sync(q) /\ IdsSet(last[q], Using(q)))'
<1>1. /\ LocalTypes /\ kyb' = kyb
      /\ pc' = [pc EXCEPT ![r] = "idle"]
      /\ snap' = [snap EXCEPT ![r] = NoSnap]
      /\ made' = [made EXCEPT ![r] = NoIds]
      /\ widget' = [widget EXCEPT ![r] = 0]
      /\ last' = [last EXCEPT ![r] = 0]
  BY DEF Leaves, Ended, LocalTypes, TypeInv, TypeOK
<1>2. /\ NoIds \in [Ids -> Nat] /\ "idle" \in Labels /\ Len(AllSteps) = 13
      /\ NoSnap \in [progress : 0..Len(AllSteps), ids : [Ids -> Nat]]
  BY StepsAre DEF NoIds, Labels, NoSnap
<1>3. LocalTypes'
  BY <1>1, <1>2 DEF LocalTypes
<1>4. /\ pc'[r] = "idle" /\ snap'[r] = NoSnap /\ made'[r] = NoIds
      /\ last'[r] = 0 /\ Others(r)
  BY <1>1 DEF LocalTypes, Others
<1>5. Sync(r)'
  <2>1. \A j \in 1..13 : pc'[r] # AllSteps[j]
    BY <1>4, StepsDiffer
  <2> QED BY <1>4, <2>1 DEF Sync, Loggable
<1>6. IdsSet(last[r], Using(r))'
  BY <1>4 DEF IdsSet
<1> QED BY <1>1, <1>3, <1>4, <1>5, <1>6, OthersKnow

\* Saving keeps the invariant: no id of the document goes back to none.
LEMMA SaveInv ==
    ASSUME TypeInv, NEW r \in Runs, Save(r)
    PROVE  TypeInv' /\ Leaves(r)
<1>1. /\ pc[r] \in Outcomes /\ status' = pc[r] /\ progress' = last[r]
      /\ ids' = [i \in Ids |-> IF made[r][i] # 0 THEN made[r][i] ELSE ids[i]]
      /\ UNCHANGED <<kyb, asked, access, role, ssis, dids, registered, kycs,
                     plans, widgets, pages, failures, losses, overlaps>>
  BY DEF Save, effects, counters
<1>2. Leaves(r)
  BY <1>1 DEF Save, Leaves, Outcomes, effects
<1>3. ids \in [Ids -> Nat] /\ made[r] \in [Ids -> Nat]
  BY DEF TypeInv, TypeOK
<1>4. last[r] \in 0..Len(AllSteps) /\ last[r] \in Loggable
  BY DEF TypeInv, TypeOK, Sync
<1>5. /\ ids' \in [Ids -> Nat]
      /\ \A i \in Ids : ids[i] # 0 => ids'[i] # 0
      /\ \A i \in Ids : Using(r)[i] # 0 => ids'[i] # 0
  <2>1. \A i \in Ids : snap[r].ids[i] # 0 => ids[i] # 0
    BY DEF TypeInv
  <2> QED BY <1>1, <1>3, <2>1, UsingIs
<1>6. TypeOK'
  <2>1. LocalTypes'
    BY <1>2, LeavesIs
  <2> QED BY <1>1, <1>4, <1>5, <2>1 DEF TypeInv, TypeOK, LocalTypes
<1>7. progress' \in Loggable' /\ IdsSet(progress, ids)'
  <2>1. IdsSet(last[r], Using(r))
    BY DEF TypeInv
  <2> QED BY <1>1, <1>4, <1>5, <2>1 DEF IdsSet, Loggable, Ids
<1>8. \A q \in Runs, i \in Ids : snap'[q].ids[i] # 0 => ids'[i] # 0
  <2> TAKE q \in Runs, i \in Ids
  <2>1. snap' = [snap EXCEPT ![r] = NoSnap]
    BY <1>2 DEF Leaves, Ended
  <2>2. snap \in [Runs -> [progress : 0..Len(AllSteps), ids : [Ids -> Nat]]]
    BY DEF TypeInv, TypeOK
  <2>3. CASE q = r
    BY <2>1, <2>2, <2>3 DEF NoSnap, NoIds
  <2>4. CASE q # r
    BY <1>5, <2>1, <2>2, <2>4 DEF TypeInv
  <2> QED BY <2>3, <2>4
<1>9. \A q \in Runs : (Sync(q) /\ IdsSet(last[q], Using(q)))'
  BY <1>2, LeavesIs
<1> QED BY <1>1, <1>2, <1>6, <1>7, <1>8, <1>9 DEF TypeInv

\* A run that dies keeps the invariant.
LEMMA CrashInv ==
    ASSUME TypeInv, NEW r \in Runs, Crash(r)
    PROVE  TypeInv' /\ Leaves(r)
<1>1. /\ pc[r] # "idle" /\ losses < MaxLosses /\ losses' = losses + 1
      /\ UNCHANGED <<kyb, status, progress, ids, asked, access, role, ssis,
                     dids, registered, kycs, plans, widgets, pages,
                     failures, overlaps>>
  BY DEF Crash, effects, docVars
<1>2. Leaves(r)
  BY <1>1 DEF Crash, Leaves, effects
<1>3. losses' \in 0..MaxLosses
  BY <1>1, OnboardingAssumption DEF TypeInv, TypeOK
<1>4. TypeOK'
  <2>1. LocalTypes'
    BY <1>2, LeavesIs
  <2> QED BY <1>1, <1>3, <2>1 DEF TypeInv, TypeOK, LocalTypes
<1>5. progress' \in Loggable' /\ IdsSet(progress, ids)'
  BY <1>1 DEF TypeInv, IdsSet, Loggable
<1>6. \A q \in Runs, i \in Ids : snap'[q].ids[i] # 0 => ids'[i] # 0
  <2> TAKE q \in Runs, i \in Ids
  <2>1. snap' = [snap EXCEPT ![r] = NoSnap]
    BY <1>2 DEF Leaves, Ended
  <2>2. snap \in [Runs -> [progress : 0..Len(AllSteps), ids : [Ids -> Nat]]]
    BY DEF TypeInv, TypeOK
  <2>3. CASE q = r
    BY <2>1, <2>2, <2>3 DEF NoSnap, NoIds
  <2>4. CASE q # r
    BY <1>1, <2>1, <2>2, <2>4 DEF TypeInv
  <2> QED BY <2>3, <2>4
<1>7. \A q \in Runs : (Sync(q) /\ IdsSet(last[q], Using(q)))'
  BY <1>2, LeavesIs
<1> QED BY <1>1, <1>2, <1>4, <1>5, <1>6, <1>7 DEF TypeInv

\* Runs that do not move know what they knew.
LEMMA QuietRuns ==
    ASSUME TypeInv, UNCHANGED <<pc, snap, made, last>>, kyb' = kyb
    PROVE  \A q \in Runs : (Sync(q) /\ IdsSet(last[q], Using(q)))'
<1> TAKE q \in Runs
<1>1. Loggable' = Loggable /\ \A j \in 1..13 : Before(j)' = Before(j)
  BY DEF Loggable, Before
<1>2. Using(q)' = Using(q)
  BY DEF Using, Use
<1>3. Sync(q)'
  BY <1>1 DEF TypeInv, Sync
<1>4. IdsSet(last[q], Using(q))'
  BY <1>2 DEF TypeInv, IdsSet
<1> QED BY <1>3, <1>4

\* What a run does when it starts: nothing, or it takes the progress and the
\* ids of the document and goes to the next step.
Starts(r) ==
    /\ pc[r] = "idle" /\ snap'[r] = [progress |-> progress, ids |-> ids]
    /\ made'[r] = NoIds /\ last'[r] = progress /\ pc'[r] # "idle"
    /\ Others(r)

\* Starting keeps the invariant.
LEMMA LoadInv ==
    ASSUME TypeInv, NEW r \in Runs, Load(r)
    PROVE  TypeInv' /\ (UNCHANGED local \/ Starts(r))
<1>1. /\ pc[r] = "idle" /\ asked' = FALSE
      /\ Busy # {} => overlaps < MaxOverlaps
      /\ overlaps' = IF Busy = {} THEN overlaps ELSE overlaps + 1
      /\ UNCHANGED <<kyb, status, progress, ids, access, role, ssis, dids,
                     registered, kycs, plans, widgets, pages, failures,
                     losses>>
  BY DEF Load, effects, docVars
<1>2. overlaps' \in 0..MaxOverlaps /\ asked' \in BOOLEAN
  <2>1. overlaps' \in 0..MaxOverlaps
    BY <1>1, OnboardingAssumption DEF TypeInv, TypeOK
  <2>2. asked' \in BOOLEAN
    BY <1>1, Zenon
  <2> QED BY <2>1, <2>2
<1>3. /\ progress' \in Loggable' /\ IdsSet(progress, ids)' /\ kyb \in BOOLEAN
      /\ progress \in Loggable /\ IdsSet(progress, ids)
      /\ progress \in 0..Len(AllSteps) /\ ids \in [Ids -> Nat]
  BY <1>1 DEF TypeInv, TypeOK, IdsSet, Loggable
<1>4. CASE UNCHANGED local
  <2>1. UNCHANGED <<pc, snap, made, widget, last>>
    BY <1>4 DEF local
  <2>2. TypeOK'
    BY <1>1, <1>2, <2>1, Zenon DEF TypeInv, TypeOK
  <2>3. \A q \in Runs : (Sync(q) /\ IdsSet(last[q], Using(q)))'
    <3>1. kyb' = kyb
      BY <1>1
    <3> QED BY <2>1, <3>1, QuietRuns
  <2> QED BY <1>1, <1>3, <1>4, <2>1, <2>2, <2>3 DEF TypeInv
<1>5. CASE ~UNCHANGED local
  <2>1. /\ Remaining(progress) # <<>>
        /\ pc' = [pc EXCEPT ![r] = Head(Remaining(progress))]
        /\ snap' = [snap EXCEPT ![r] = [progress |-> progress, ids |-> ids]]
        /\ made' = [made EXCEPT ![r] = NoIds]
        /\ widget' = [widget EXCEPT ![r] = 0]
        /\ last' = [last EXCEPT ![r] = progress]
    BY <1>5 DEF Load
  <2>2. PICK i \in Loggable \ {0} : /\ Head(Remaining(progress)) = AllSteps[i]
                                    /\ progress = Before(i)
    BY <1>3, <2>1, RemainingIs
  <2>3. i \in 1..13
    BY <2>2 DEF Loggable
  <2>4. /\ AllSteps[i] \in Labels /\ AllSteps[i] \notin {"idle"} \cup Outcomes
        /\ \A j \in 1..13 : AllSteps[i] = AllSteps[j] => i = j
        /\ NoIds \in [Ids -> Nat]
    BY <2>3, StepsDiffer DEF NoIds
  <2>5. LocalTypes /\ LocalTypes'
    <3>1. LocalTypes
      BY DEF TypeInv, TypeOK, LocalTypes
    <3> QED BY <1>3, <2>1, <2>2, <2>4, <3>1 DEF LocalTypes
  <2>6. /\ pc'[r] = AllSteps[i] /\ made'[r] = NoIds /\ last'[r] = progress
        /\ snap'[r] = [progress |-> progress, ids |-> ids] /\ Others(r)
    BY <2>1, <2>2, <2>5 DEF LocalTypes, Others
  <2>7. Starts(r)
    BY <1>1, <2>4, <2>6 DEF Starts
  <2>8. Loggable' = Loggable /\ \A j \in 1..13 : Before(j)' = Before(j)
    BY <1>1 DEF Loggable, Before
  <2>9. Sync(r)'
    BY <1>3, <2>2, <2>3, <2>4, <2>6, <2>8 DEF Sync, Outcomes
  <2>10. IdsSet(last[r], Using(r))'
    <3>1. \A j \in Ids : Using(r)'[j] = ids[j]
      BY <2>6 DEF Using, Use, NoIds
    <3> QED BY <1>3, <2>6, <3>1 DEF IdsSet, Ids
  <2>11. \A q \in Runs : (Sync(q) /\ IdsSet(last[q], Using(q)))'
    BY <1>1, <2>6, <2>9, <2>10, OthersKnow
  <2>12. \A q \in Runs, j \in Ids : snap'[q].ids[j] # 0 => ids'[j] # 0
    BY <1>1, <2>6 DEF TypeInv, Others
  <2>13. TypeOK'
    BY <1>1, <1>2, <2>5, Zenon DEF TypeInv, TypeOK, LocalTypes
  <2> QED BY <1>1, <1>3, <2>7, <2>11, <2>12, <2>13 DEF TypeInv
<1> QED BY <1>4, <1>5

\* The requests of the customer keep the invariant.
LEMMA RequestInv ==
    ASSUME TypeInv, Submit \/ AskAgain \/ UNCHANGED vars
    PROVE  TypeInv'
<1>1. /\ asked' = TRUE \/ asked' = asked
      /\ status' = "INITIATED" \/ status' = status
      /\ UNCHANGED <<kyb, progress, ids, access, role, ssis, dids, registered,
                     kycs, plans, widgets, pages, pc, snap, made, widget,
                     last, failures, losses, overlaps>>
  BY DEF Submit, AskAgain, MailSuperAdmins, effects, docVars, local,
         counters, vars
<1>2. asked' \in BOOLEAN
  BY <1>1, Zenon DEF TypeInv, TypeOK
<1>3. TypeOK'
  BY <1>1, <1>2 DEF TypeInv, TypeOK
<1>4. \A q \in Runs : (Sync(q) /\ IdsSet(last[q], Using(q)))'
  BY <1>1, QuietRuns
<1> QED BY <1>1, <1>3, <1>4 DEF TypeInv, Loggable, IdsSet

-----------------------------------------------------------------------------
(* The steps of the whole.                                                 *)

\* A run that did a step.
LEMMA WorkedInv ==
    ASSUME TypeInv, NEW r \in Runs, Worked(r)
    PROVE  TypeInv'
<1>1. PICK k \in 1..13, n \in Nat :
          \E i \in Ids \cup {"none", "widget"} : Does(r, k, i, n)
  BY DEF Worked
<1>2. PICK i \in Ids \cup {"none", "widget"} : Does(r, k, i, n)
  BY <1>1
<1> QED BY <1>2, SteppedInv DEF Does

\* What may happen, seen from the run it happens to.
LEMMA NextCases ==
    ASSUME TypeInv, [Next]_vars
    PROVE  /\ TypeInv'
           /\ \/ Submit \/ AskAgain \/ UNCHANGED vars
              \/ \E r \in Runs : \/ Load(r) /\ (UNCHANGED local \/ Starts(r))
                                 \/ Worked(r) \/ Stops(r)
                                 \/ Save(r) /\ Leaves(r)
                                 \/ Crash(r) /\ Leaves(r)
<1>1. CASE Submit \/ AskAgain \/ UNCHANGED vars
  BY <1>1, RequestInv
<1>2. ASSUME NEW r \in Runs, Load(r)
      PROVE  TypeInv' /\ (UNCHANGED local \/ Starts(r))
  BY <1>2, LoadInv
<1>3. ASSUME NEW r \in Runs, Step(r) \/ StepFails(r)
      PROVE  TypeInv' /\ (Worked(r) \/ Stops(r))
  BY <1>3, StepDoes, WorkedInv, FailureStops, StopsInv
<1>4. ASSUME NEW r \in Runs, Save(r)
      PROVE  TypeInv' /\ Leaves(r)
  BY <1>4, SaveInv
<1>5. ASSUME NEW r \in Runs, Crash(r)
      PROVE  TypeInv' /\ Leaves(r)
  BY <1>5, CrashInv
<1> QED BY <1>1, <1>2, <1>3, <1>4, <1>5 DEF Next

\* What was made stays real while nothing is made.
LEMMA RealStays ==
    ASSUME UNCHANGED effects, kyb' = kyb
    PROVE  \A n, u : Real(n, u)' <=> Real(n, u)
BY DEF effects, Real

\* The part of the document is real whatever is made, if the document stays.
LEMMA DocumentReal ==
    ASSUME UNCHANGED docVars, Real(progress, ids),
           \A n, u : Real(n, u) => Real(n, u)'
    PROVE  Real(progress, ids)'
<1>1. PICK n, u : n = progress /\ u = ids
  OBVIOUS
<1>2. Real(n, u)' /\ n = progress' /\ u = ids'
  BY <1>1 DEF docVars
<1> QED BY <1>2 DEF Real

\* One run at a time: the others know nothing, and log nothing.
LEMMA AloneIs ==
    ASSUME TypeInv, RealInv, Serial, NEW r \in Runs, pc[r] # "idle"
    PROVE  /\ Current(r)
           /\ \A q \in Runs \ {r} : pc[q] = "idle" /\ last[q] = 0
<1>1. \A q \in Runs : pc[q] = "idle" => last[q] = 0
  BY DEF TypeInv, Sync
<1> QED BY <1>1 DEF RealInv, Busy

\* A step keeps what is logged real.
LEMMA DoesReal ==
    ASSUME TypeInv, RealInv, Serial, NEW r \in Runs, NEW k \in 1..13, NEW i,
           NEW n \in Nat, Does(r, k, i, n)
    PROVE  RealInv'
<1>1. /\ UNCHANGED docVars /\ kyb' = kyb /\ pc[r] = AllSteps[k]
      /\ pc'[r] # "idle" /\ snap'[r] = snap[r] /\ Others(r)
      /\ last[r] = Before(k) /\ (Answer(r, k, i, n) \/ Loss(r))
  BY DEF Does, Stepped, docVars
<1>2. pc[r] # "idle"
  BY <1>1, StepsDiffer
<1>3. /\ Current(r) /\ \A q \in Runs \ {r} : pc[q] = "idle" /\ last[q] = 0
  BY <1>2, AloneIs
<1>4. \A m, u : Real(m, u) => Real(m, u)'
  BY <1>1, RealGrows DEF Does, TypeInv, TypeOK, EffectTypes
<1>5. Real(progress, ids)'
  BY <1>1, <1>4, DocumentReal DEF RealInv
<1>6. Busy' = {r}
  BY <1>1, <1>3 DEF Busy, Others
<1>7. last'[r] \in Nat /\ progress \in Nat /\ progress <= last'[r]
  BY <1>1, <1>3
     DEF Current, Answer, Loss, Before, TypeInv, Loggable
<1>8. Real(last[r], Using(r))'
  <2>1. PICK u : u = Using(r)
    OBVIOUS
  <2>2. u \in [Ids -> Nat] /\ Real(last[r], u)
    BY <1>3, <2>1, UsingIs DEF Current
  <2>3. i \in Ids => n # 0
    BY DEF Does, Makes, Ids
  <2>4. CASE Answer(r, k, i, n)
    <3>1. Real(k, With(u, i, n))'
      BY <1>1, <2>1, <2>2 DEF Does, Realizes
    <3>2. PICK w : w = With(u, i, n)
      OBVIOUS
    <3>3. Using(r)' = w /\ last'[r] = k
      BY <2>1, <2>3, <2>4, <3>2, UsingNext DEF Does, Answer
    <3>4. Real(k, w)'
      BY <3>1, <3>2
    <3> QED BY <3>3, <3>4 DEF Real
  <2>5. CASE Loss(r)
    <3>1. PICK m : m = last[r]
      OBVIOUS
    <3>2. Using(r)' = u /\ last'[r] = m
      BY <2>1, <2>3, <2>5, <3>1, UsingNext DEF Does, Loss
    <3>3. Real(m, u)'
      BY <1>4, <2>2, <3>1
    <3> QED BY <3>2, <3>3 DEF Real
  <2> QED BY <1>1, <2>4, <2>5
<1>9. Current(r)'
  BY <1>1, <1>3, <1>7, <1>8 DEF Current, docVars
<1> QED BY <1>5, <1>6, <1>9 DEF RealInv

\* Whoever starts, stops or leaves keeps what is logged real.
LEMMA OthersReal ==
    ASSUME TypeInv, RealInv, NEW r \in Runs,
           \/ Load(r) /\ (UNCHANGED local \/ Starts(r))
           \/ Stops(r)
           \/ Save(r) /\ Leaves(r)
           \/ Crash(r) /\ Leaves(r)
    PROVE  RealInv'
<1> SUFFICES ASSUME Serial'
             PROVE  /\ Real(progress, ids)'
                    /\ \A p, q \in Busy' : p = q
                    /\ \A q \in Busy' : Current(q)'
  BY DEF RealInv
<1>1. CASE Load(r) /\ (UNCHANGED local \/ Starts(r))
  <2>1. /\ UNCHANGED effects /\ UNCHANGED docVars /\ kyb' = kyb
        /\ overlaps' = IF Busy = {} THEN overlaps ELSE overlaps + 1
    BY <1>1 DEF Load, docVars
  <2>2. overlaps \in Nat /\ overlaps' = 0
    BY DEF TypeInv, TypeOK, Serial
  <2>3. Busy = {} /\ Serial
    BY <2>1, <2>2 DEF Serial
  <2>4. Real(progress, ids) /\ \A n, u : Real(n, u)' <=> Real(n, u)
    BY <2>1, <2>3, RealStays DEF RealInv
  <2>5. Real(progress, ids)'
    BY <2>1, <2>4, DocumentReal
  <2>6. CASE UNCHANGED local
    <3>1. Busy' = {}
      BY <2>3, <2>6 DEF Busy, local
    <3> QED BY <2>5, <3>1
  <2>7. CASE Starts(r)
    <3>1. Busy' = {r}
      BY <2>3, <2>7 DEF Busy, Starts, Others
    <3>2. ids \in [Ids -> Nat] /\ progress \in Nat
      BY DEF TypeInv, TypeOK
    <3>3. Using(r)' = ids /\ last'[r] = progress
      <4>1. \A j \in Ids : Using(r)'[j] = ids[j]
        BY <2>7 DEF Starts, Using, Use, NoIds
      <4>2. Using(r)' = [j \in Ids |-> Using(r)'[j]]
        BY DEF Using
      <4> QED BY <2>7, <3>2, <4>1, <4>2 DEF Starts
    <3>4. Real(last[r], Using(r))'
      BY <2>1, <2>5, <3>3 DEF Real, docVars
    <3>5. Current(r)'
      BY <2>1, <2>7, <3>2, <3>3, <3>4 DEF Current, Starts, docVars
    <3> QED BY <2>5, <3>1, <3>5
  <2> QED BY <1>1, <2>6, <2>7
<1>2. CASE Stops(r)
  <2>1. /\ UNCHANGED effects /\ UNCHANGED docVars /\ kyb' = kyb
        /\ pc[r] # "idle" /\ pc' = [pc EXCEPT ![r] = "FAILED"]
        /\ UNCHANGED <<snap, made, last, overlaps>>
    BY <1>2 DEF Stops, docVars
  <2>2. pc \in [Runs -> Labels] /\ Serial
    BY <2>1 DEF TypeInv, TypeOK, Serial
  <2>3. Current(r) /\ \A q \in Runs \ {r} : pc[q] = "idle"
    BY <2>1, <2>2, AloneIs
  <2>4. \A n, u : Real(n, u)' <=> Real(n, u)
    BY <2>1, RealStays
  <2>5. Real(progress, ids)'
    BY <2>1, <2>2, <2>4, DocumentReal DEF RealInv
  <2>6. Busy' = {r}
    BY <2>1, <2>2, <2>3 DEF Busy
  <2>7. Real(last[r], Using(r))'
    <3>1. PICK n, u : n = last[r] /\ u = Using(r)
      OBVIOUS
    <3>2. Using(r)' = u /\ last'[r] = n /\ Real(n, u)
      BY <2>1, <2>3, <3>1 DEF Using, Use, Current
    <3>3. Real(n, u)'
      BY <2>4, <3>2
    <3> QED BY <3>2, <3>3 DEF Real
  <2>8. Current(r)'
    BY <2>1, <2>3, <2>7 DEF Current, docVars
  <2> QED BY <2>5, <2>6, <2>8
<1>3. CASE (Save(r) \/ Crash(r)) /\ Leaves(r)
  <2>1. /\ UNCHANGED effects /\ kyb' = kyb /\ pc[r] # "idle"
        /\ overlaps' = overlaps
    BY <1>3 DEF Leaves
  <2>2. Serial /\ Others(r) /\ pc'[r] = "idle"
    BY <1>3, <2>1, LeavesIs DEF Serial
  <2>3. Current(r) /\ \A q \in Runs \ {r} : pc[q] = "idle"
    BY <2>1, <2>2, AloneIs
  <2>4. Busy' = {}
    BY <2>2, <2>3 DEF Busy, Others
  <2>5. \A n, u : Real(n, u)' <=> Real(n, u)
    BY <2>1, RealStays
  <2>6. CASE Crash(r)
    <3>1. UNCHANGED docVars
      BY <2>6 DEF Crash
    <3>2. Real(progress, ids)'
      BY <2>2, <2>5, <3>1, DocumentReal DEF RealInv
    <3> QED BY <2>4, <3>2
  <2>7. CASE Save(r)
    <3>1. progress' = last[r]
      BY <2>7 DEF Save
    <3>2. ids' = Using(r)
      <4>1. ids' = [j \in Ids |-> IF made[r][j] # 0 THEN made[r][j]
                                  ELSE ids[j]]
        BY <2>7 DEF Save
      <4>2. snap[r].ids = ids
        BY <2>3 DEF Current
      <4> QED BY <4>1, <4>2 DEF Using, Use
    <3>3. PICK n, u : n = last[r] /\ u = Using(r)
      OBVIOUS
    <3>4. Real(n, u)'
      BY <2>3, <2>5, <3>3 DEF Current
    <3>5. Real(progress, ids)'
      BY <3>1, <3>2, <3>3, <3>4 DEF Real
    <3> QED BY <2>4, <3>5
  <2> QED BY <1>3, <2>6, <2>7
<1> QED BY <1>1, <1>2, <1>3

\* What is logged stays real.
LEMMA RealNext ==
    ASSUME TypeInv, RealInv, [Next]_vars
    PROVE  RealInv'
<1>1. CASE Submit \/ AskAgain \/ UNCHANGED vars
  <2>1. /\ UNCHANGED effects /\ UNCHANGED local
        /\ UNCHANGED <<kyb, progress, ids, overlaps>>
    BY <1>1 DEF Submit, AskAgain, docVars, counters, vars
  <2>2. \A n, u : Real(n, u)' <=> Real(n, u)
    BY <2>1, RealStays
  <2>3. UNCHANGED <<pc, snap, made, last>> /\ Busy' = Busy
    BY <2>1 DEF local, Busy
  <2>4. Real(progress, ids) => Real(progress, ids)'
    <3>1. PICK n, u : n = progress /\ u = ids
      OBVIOUS
    <3> QED BY <2>1, <2>2, <3>1 DEF Real
  <2>5. ASSUME NEW r \in Runs, Current(r)
        PROVE  Current(r)'
    <3>1. PICK n, u : n = last[r] /\ u = Using(r)
      OBVIOUS
    <3>2. Using(r)' = u /\ last'[r] = n /\ Real(n, u)'
      BY <2>2, <2>3, <2>5, <3>1 DEF Using, Use, Current
    <3>3. Real(last[r], Using(r))'
      BY <3>2 DEF Real
    <3> QED BY <2>1, <2>3, <2>5, <3>3 DEF Current
  <2> QED BY <2>1, <2>3, <2>4, <2>5 DEF RealInv, Serial, Busy
<1>2. ASSUME NEW r \in Runs, Worked(r)
      PROVE  RealInv'
  <2>1. PICK k \in 1..13, n \in Nat :
            \E i \in Ids \cup {"none", "widget"} : Does(r, k, i, n)
    BY <1>2 DEF Worked
  <2>2. PICK i \in Ids \cup {"none", "widget"} : Does(r, k, i, n)
    BY <2>1
  <2>3. CASE Serial
    BY <2>2, <2>3, DoesReal
  <2>4. CASE ~Serial
    BY <2>2, <2>4 DEF Does, Stepped, Serial, RealInv
  <2> QED BY <2>3, <2>4
<1> QED BY <1>1, <1>2, NextCases, OthersReal

-----------------------------------------------------------------------------
(* How much was made.                                                      *)

\* What was logged stays logged.
OnceGrows == \A n \in 1..13 : Once(n) => Once(n)'

\* What is counted are numbers.
LEMMA Numbers ==
    ASSUME TypeInv
    PROVE  /\ losses \in Nat /\ ssis \in Nat /\ Len(dids) \in Nat
           /\ Len(kycs) \in Nat /\ Len(widgets) \in Nat
           /\ progress \in Nat /\ \A r \in Runs : last[r] \in Nat
<1>1. /\ losses \in 0..MaxLosses /\ ssis \in Nat /\ dids \in Seq(Made)
      /\ kycs \in Seq([ssi : Made, did : Made]) /\ widgets \in Seq(Made)
  BY DEF TypeInv, TypeOK
<1>2. progress \in 0..13 /\ \A r \in Runs : last[r] \in 0..13
  BY DEF TypeInv, Sync, Loggable
<1>3. losses \in Nat
  BY <1>1, OnboardingAssumption
<1>4. Len(dids) \in Nat /\ Len(kycs) \in Nat /\ Len(widgets) \in Nat
  BY <1>1
<1>5. progress \in Nat /\ \A r \in Runs : last[r] \in Nat
  BY <1>2
<1> QED BY <1>1, <1>3, <1>4, <1>5

\* They are after a step.
LEMMA NumbersNext ==
    ASSUME TypeInv'
    PROVE  losses' \in Nat /\ \A r \in Runs : last'[r] \in Nat
<1>1. losses' \in 0..MaxLosses
  BY DEF TypeInv, TypeOK
<1>2. \A r \in Runs : last'[r] \in 0..13
  BY DEF TypeInv, Sync, Loggable
<1> QED BY <1>1, <1>2, OnboardingAssumption

\* A thing that is made is logged, or it is lost.
LEMMA CountedIs ==
    ASSUME NEW c \in Nat, NEW d \in Nat, NEW n \in 1..13, NEW k \in 1..13,
           NEW m \in Nat, NEW o \in Nat, NEW l \in Nat, NEW h \in Nat,
           c <= l + 1, o < n => c <= l,
           k <= n => o < n, k > n => o >= n,
           d = IF k = n THEN c + 1 ELSE c,
           (m = k /\ h = l) \/ (m = o /\ h = l + 1)
    PROVE  d <= h + 1 /\ (m < n => d <= h)
OBVIOUS

\* A thing that is made or lost is counted.
LEMMA DoesCount ==
    ASSUME TypeInv, TypeInv', RealInv, CountInv, Serial, NEW r \in Runs,
           NEW k \in 1..13, NEW i, NEW n \in Nat, Does(r, k, i, n)
    PROVE  CountInv'
<1>1. /\ UNCHANGED docVars /\ pc[r] = AllSteps[k] /\ Others(r)
      /\ last[r] = Before(k) /\ (Answer(r, k, i, n) \/ Loss(r))
      /\ Counts(k)
  BY DEF Does, Stepped
<1>2. pc[r] # "idle"
  BY <1>1, StepsDiffer
<1>3. /\ Current(r) /\ \A q \in Runs \ {r} : pc[q] = "idle" /\ last[q] = 0
  BY <1>2, AloneIs
<1>4. /\ losses \in Nat /\ losses' \in Nat
      /\ ssis \in Nat /\ Len(dids) \in Nat /\ Len(kycs) \in Nat
      /\ Len(widgets) \in Nat
  BY Numbers, NumbersNext
<1>5. PICK o, m : o = last[r] /\ m = last'[r]
  OBVIOUS
<1>6. /\ o \in Nat /\ m \in Nat /\ o = Before(k)
      /\ (m = k /\ losses' = losses) \/ (m = o /\ losses' = losses + 1)
  BY <1>1, <1>5, Numbers, NumbersNext DEF Answer, Loss
<1>7. /\ progress \in Nat /\ progress' = progress
      /\ progress <= o /\ progress <= m
  <2>1. progress \in Nat /\ progress <= o /\ progress' = progress
    BY <1>1, <1>3, <1>5, Numbers DEF Current, docVars
  <2> QED BY <1>6, <2>1 DEF Before
<1>8. /\ \A q \in Runs \ {r} : last'[q] = 0
      /\ \A q \in Runs \ {r} : last[q] = 0
  BY <1>1, <1>3 DEF Others
<1>9. ASSUME NEW a \in 1..13
      PROVE  (Once(a) => o >= a) /\ (m >= a => Once(a)')
  <2>1. ASSUME NEW q \in Runs, last[q] >= a
        PROVE  o >= a
    BY <1>5, <1>8, <2>1
  <2>2. progress >= a => o >= a
    BY <1>6, <1>7
  <2>3. Once(a) => o >= a
    BY <2>1, <2>2, Zenon DEF Once
  <2>4. m >= a => Once(a)'
    BY <1>5, Zenon DEF Once
  <2> QED BY <2>3, <2>4
<1>10. ASSUME NEW a \in {3, 5, 7, 9}
       PROVE  (k <= a => o < a) /\ (k > a => o >= a)
  BY <1>6 DEF Before
<1>11. ASSUME NEW c \in Nat, NEW d \in Nat, NEW a \in {3, 5, 7, 9},
              Counted(c, a), d = IF k = a THEN c + 1 ELSE c
       PROVE  Counted(d, a)'
  <2>1. PICK l, h : l = losses /\ h = losses'
    OBVIOUS
  <2>2. c <= l + 1 /\ (o < a => c <= l)
    <3>1. Once(a) => o >= a
      BY <1>9
    <3> QED BY <1>6, <1>11, <2>1, <3>1 DEF Counted
  <2>3. /\ l \in Nat /\ h \in Nat
        /\ (m = k /\ h = l) \/ (m = o /\ h = l + 1)
    BY <1>4, <1>6, <2>1
  <2>4. d <= h + 1 /\ (m < a => d <= h)
    BY <1>6, <1>10, <1>11, <2>2, <2>3, CountedIs
  <2>5. m >= a => Once(a)'
    BY <1>9
  <2> QED BY <1>6, <2>1, <2>4, <2>5 DEF Counted
<1>12. PICK s, t, u, v : s = ssis' /\ t = Len(dids') /\ u = Len(kycs')
                         /\ v = Len(widgets')
  OBVIOUS
<1>13. PICK w, x, y, z : w = ssis /\ x = Len(dids) /\ y = Len(kycs)
                         /\ z = Len(widgets)
  OBVIOUS
<1>14. /\ s = IF k = 3 THEN w + 1 ELSE w
       /\ t = IF k = 5 THEN x + 1 ELSE x
       /\ u = IF k = 7 THEN y + 1 ELSE y
       /\ v = IF k = 9 THEN z + 1 ELSE z
       /\ s \in Nat /\ t \in Nat /\ u \in Nat /\ v \in Nat
       /\ w \in Nat /\ x \in Nat /\ y \in Nat /\ z \in Nat
  BY <1>1, <1>4, <1>12, <1>13 DEF Counts
<1>15. /\ Counted(w, 3) /\ Counted(x, 5)
       /\ Counted(y, 7) /\ Counted(z, 9)
  BY <1>13 DEF CountInv
<1>16. /\ Counted(s, 3)' /\ Counted(t, 5)'
       /\ Counted(u, 7)' /\ Counted(v, 9)'
  BY <1>11, <1>14, <1>15
<1> QED BY <1>12, <1>16 DEF CountInv, Counted

\* Where nothing is made, what was logged stays logged, or a run has died.
LEMMA QuietCount ==
    ASSUME TypeInv, CountInv, UNCHANGED effects, Serial' => Serial,
           \/ losses' = losses /\ OnceGrows
           \/ losses' = losses + 1
    PROVE  CountInv'
<1>1. /\ losses \in Nat /\ ssis \in Nat /\ Len(dids) \in Nat
      /\ Len(kycs) \in Nat /\ Len(widgets) \in Nat
  BY Numbers
<1>2. ASSUME NEW c \in Nat, NEW a \in 1..13, Counted(c, a)
      PROVE  Counted(c, a)'
  <2>1. CASE losses' = losses /\ OnceGrows
    BY <1>2, <2>1 DEF Counted, OnceGrows
  <2>2. CASE losses' = losses + 1
    BY <1>1, <1>2, <2>2 DEF Counted
  <2> QED BY <2>1, <2>2
<1>3. PICK w, x, y, z : w = ssis /\ x = Len(dids) /\ y = Len(kycs)
                        /\ z = Len(widgets)
  OBVIOUS
<1>4. /\ w = ssis' /\ x = Len(dids') /\ y = Len(kycs') /\ z = Len(widgets')
      /\ w \in Nat /\ x \in Nat /\ y \in Nat /\ z \in Nat
  BY <1>1, <1>3 DEF effects
<1> SUFFICES ASSUME Serial'
             PROVE  CountInv'
  BY DEF CountInv
<1>5. /\ Counted(w, 3) /\ Counted(x, 5)
      /\ Counted(y, 7) /\ Counted(z, 9)
  BY <1>3 DEF CountInv
<1>6. /\ Counted(w, 3)' /\ Counted(x, 5)'
      /\ Counted(y, 7)' /\ Counted(z, 9)'
  BY <1>2, <1>4, <1>5
<1> QED BY <1>4, <1>6 DEF CountInv, Counted

\* Whatever was made without being logged stays a loss.
LEMMA CountNext ==
    ASSUME TypeInv, RealInv, CountInv, [Next]_vars
    PROVE  CountInv'
<1>0. TypeInv'
  BY NextCases
<1>1. CASE Submit \/ AskAgain \/ UNCHANGED vars
  <2>1. /\ UNCHANGED effects
        /\ UNCHANGED <<progress, last, losses, overlaps>>
    BY <1>1 DEF Submit, AskAgain, docVars, counters, local, vars
  <2>2. OnceGrows
    BY <2>1 DEF OnceGrows, Once
  <2> QED BY <2>1, <2>2, QuietCount DEF Serial
<1>2. ASSUME NEW r \in Runs, Worked(r)
      PROVE  CountInv'
  <2>1. PICK k \in 1..13, n \in Nat :
            \E i \in Ids \cup {"none", "widget"} : Does(r, k, i, n)
    BY <1>2 DEF Worked
  <2>2. PICK i \in Ids \cup {"none", "widget"} : Does(r, k, i, n)
    BY <2>1
  <2>3. CASE Serial
    BY <1>0, <2>2, <2>3, DoesCount
  <2>4. CASE ~Serial
    BY <2>2, <2>4 DEF Does, Stepped, Serial, CountInv
  <2> QED BY <2>3, <2>4
<1>3. ASSUME NEW r \in Runs, Load(r), UNCHANGED local \/ Starts(r)
      PROVE  CountInv'
  <2>1. /\ UNCHANGED effects /\ losses' = losses /\ progress' = progress
        /\ overlaps' = IF Busy = {} THEN overlaps ELSE overlaps + 1
    BY <1>3 DEF Load, docVars
  <2>2. Serial' => Serial
    BY <2>1 DEF Serial, TypeInv, TypeOK
  <2>3. progress \in Nat /\ \A q \in Runs : last[q] \in Nat
    BY DEF TypeInv, TypeOK, Loggable, Sync
  <2>4. OnceGrows
    <3>1. CASE UNCHANGED local
      BY <2>1, <3>1 DEF OnceGrows, Once, local
    <3>2. CASE Starts(r)
      <4>1. last[r] = 0 /\ \A q \in Runs \ {r} : last'[q] = last[q]
        BY <3>2 DEF Starts, Others, TypeInv, Sync
      <4> QED BY <2>1, <2>3, <4>1 DEF OnceGrows, Once
    <3> QED BY <1>3, <3>1, <3>2
  <2> QED BY <2>1, <2>2, <2>4, QuietCount
<1>4. ASSUME NEW r \in Runs, Stops(r)
      PROVE  CountInv'
  <2>1. /\ UNCHANGED effects
        /\ UNCHANGED <<progress, last, losses, overlaps>>
    BY <1>4 DEF Stops, docVars
  <2>2. OnceGrows
    BY <2>1 DEF OnceGrows, Once
  <2> QED BY <2>1, <2>2, QuietCount DEF Serial
<1>5. ASSUME NEW r \in Runs, Crash(r)
      PROVE  CountInv'
  <2>1. UNCHANGED effects /\ losses' = losses + 1 /\ overlaps' = overlaps
    BY <1>5 DEF Crash
  <2> QED BY <2>1, QuietCount DEF Serial
<1>6. ASSUME NEW r \in Runs, Save(r), Leaves(r)
      PROVE  CountInv'
  <2>1. /\ UNCHANGED effects /\ progress' = last[r] /\ losses' = losses
        /\ overlaps' = overlaps /\ pc[r] # "idle" /\ last'[r] = 0
        /\ Others(r)
    BY <1>6, LeavesIs DEF Save, Leaves, counters
  <2>2. CASE Serial
    <3>1. /\ progress \in Nat /\ progress <= last[r]
          /\ \A q \in Runs : last[q] \in Nat
      BY <2>1, <2>2, AloneIs, Numbers DEF Current
    <3>2. OnceGrows
      BY <2>1, <3>1 DEF OnceGrows, Once, Others
    <3> QED BY <2>1, <3>2, QuietCount DEF Serial
  <2>3. CASE ~Serial
    BY <2>1, <2>3 DEF Serial, CountInv
  <2> QED BY <2>2, <2>3
<1> QED BY <1>1, <1>2, <1>3, <1>4, <1>5, <1>6, NextCases

-----------------------------------------------------------------------------
(* The theorems.                                                           *)

\* The invariants hold in every reachable state, whatever fails, is lost or
\* overlaps.
LEMMA Invariants == Spec => [](TypeInv /\ RealInv /\ CountInv)
<1>1. Init => TypeInv /\ RealInv /\ CountInv
  BY InitTypeInv
<1>2. TypeInv /\ RealInv /\ CountInv /\ [Next]_vars
          => (TypeInv /\ RealInv /\ CountInv)'
  BY NextCases, RealNext, CountNext
<1> QED BY <1>1, <1>2, PTL DEF Spec

\* Every variable has its type.
THEOREM TypeCorrect == Spec => []TypeOK
<1>1. TypeInv => TypeOK
  BY DEF TypeInv
<1> QED BY <1>1, Invariants, PTL

\* The n-th step was logged.
LEMMA LoggedIs ==
    /\ Logged("GIVE_DASHBOARD_ACCESS") <=> progress >= 1
    /\ Logged("CREATE_TEAM_ROLE") <=> progress >= 2
    /\ Logged("CREATE_SSI_SERVICE") <=> progress >= 3
    /\ Logged("CREDIT_SSI_SERVICE") <=> progress >= 4
    /\ Logged("CREATE_DID") <=> progress >= 5
    /\ Logged("REGISTER_DID") <=> progress >= 6
    /\ Logged("CREATE_KYC_SERVICE") <=> progress >= 7
    /\ Logged("CREDIT_KYC_SERVICE") <=> progress >= 8
    /\ Logged("SETUP_KYC_WIDGET") <=> progress >= 9
    /\ Logged("COMPLETED") <=> progress >= 13
BY IndexIs, StepsAre DEF Logged

\* What the logs of the stored document call successful was made, with the
\* ids that the document has, unless two calls of processCustomerOnboarding
\* have overlapped: a retry can go on from it.
THEOREM ProgressReal == Spec => []ProgressIsReal
<1>1. TypeInv /\ RealInv => ProgressIsReal
  <2> SUFFICES ASSUME TypeInv, RealInv, Serial
               PROVE  ProgressIsReal
    BY DEF ProgressIsReal
  <2>1. Real(progress, ids) /\ progress \in 0..13
    BY DEF RealInv, TypeInv, Loggable
  <2>2. progress >= 13
            => {p.type : p \in {q \in pages : q.kyc = ids["kyc"]}}
                   = IF kyb THEN {"kyc", "kyb"} ELSE {"kyc"}
    <3> SUFFICES ASSUME progress >= 13
                 PROVE  {p.type : p \in {q \in pages : q.kyc = ids["kyc"]}}
                            = IF kyb THEN {"kyc", "kyb"} ELSE {"kyc"}
      OBVIOUS
    <3>1. \A p \in pages : /\ p.type \in {"kyc", "kyb"}
                           /\ ~kyb => p.type = "kyc"
      BY DEF TypeInv, TypeOK, Page
    <3>2. /\ \E p \in pages : p.kyc = ids["kyc"] /\ p.type = "kyc"
          /\ kyb => \E p \in pages : p.kyc = ids["kyc"] /\ p.type = "kyb"
      BY <2>1 DEF Real
    <3>3. CASE kyb
      BY <3>1, <3>2, <3>3
    <3>4. CASE ~kyb
      BY <3>1, <3>2, <3>4
    <3> QED BY <3>3, <3>4
  <2>3. /\ progress >= 1 => access
        /\ progress >= 2 => role
        /\ progress >= 3 => ids["ssi"] \in 1..ssis
        /\ progress >= 4 => <<"ssi", ids["ssi"]>> \in plans
        /\ progress >= 5 => /\ ids["did"] \in 1..Len(dids)
                            /\ dids[ids["did"]] = ids["ssi"]
        /\ progress >= 6 => ids["did"] \in registered
        /\ progress >= 7 => /\ ids["kyc"] \in 1..Len(kycs)
                            /\ kycs[ids["kyc"]] = [ssi |-> ids["ssi"],
                                                   did |-> ids["did"]]
        /\ progress >= 8 => <<"kyc", ids["kyc"]>> \in plans
        /\ progress >= 9 => ids["kyc"] \in Range(widgets)
    BY <2>1, Zenon DEF Real
  <2> QED BY <2>2, <2>3, LoggedIs, Zenon DEF ProgressIsReal
<1> QED BY <1>1, Invariants, PTL

\* A service, a DID or a widget is made a second time only after a run died
\* or an answer was lost: a retry skips what the logs have.
THEOREM RepeatsLosses == Spec => []RepeatsAreLosses
<1>1. TypeInv /\ CountInv => RepeatsAreLosses
  <2> SUFFICES ASSUME TypeInv, CountInv
               PROVE  RepeatsAreLosses
    OBVIOUS
  <2>1. /\ losses \in Nat /\ ssis \in Nat /\ Len(dids) \in Nat
        /\ Len(kycs) \in Nat /\ Len(widgets) \in Nat
    BY Numbers
  <2> QED BY <2>1 DEF CountInv, Counted, RepeatsAreLosses
<1> QED BY <1>1, Invariants, PTL

=============================================================================
