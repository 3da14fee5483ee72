----------------------------- MODULE LoginProofs -----------------------------
(***************************************************************************)
(* Theorems about Login for any number of sessions, requests, codes and    *)
(* authenticators: what holds of the e-mail codes, what holds of the       *)
(* sessions, and both of a login that goes through them.                   *)
(***************************************************************************)
EXTENDS Login, TLAPS

-----------------------------------------------------------------------------
(* A login does to the codes what EmailOtp says, and to the sessions what  *)
(* Sessions says.                                                          *)

\* A step of the sessions, the logins included.
SessionsStep == SessionsNext \/ \E c \in Calls, s \in Sids : SocialLogin(c, s)

LEMMA StepsApart ==
    ASSUME [Next]_vars
    PROVE  [OtpNext]_otpVars /\ [SessionsStep]_sessionVars
BY DEF Next, vars, OtpNext, SessionsStep, LoginByEmail, LoginByOAuth

\* The e-mail codes of a login behave as those of EmailOtp alone: what the
\* sessions do changes nothing of them.
THEOREM LoginIsOtp == Spec => OtpSpec
<1>1. Init => OtpInit
  BY DEF Init
<1>2. [Next]_vars => [OtpNext]_otpVars
  BY StepsApart
<1> QED BY <1>1, <1>2, PTL DEF Spec, OtpSpec

-----------------------------------------------------------------------------
(* The e-mail codes.                                                       *)

\* v has read a code and is not done with it.
Reading(v) == visitAt[v] \in Verifying

\* What a step of the codes is, action by action.
LEMMA OtpCases ==
    ASSUME [OtpNext]_otpVars
    PROVE  \/ \E v \in Visits : AskCode(v)
           \/ \E v \in Visits : SetCooldown(v)
           \/ \E v \in Visits : CountRequest(v)
           \/ \E v \in Visits : SetCountTtl(v)
           \/ \E v \in Visits : StoreCode(v)
           \/ \E v \in Visits : ReadCode(v)
           \/ \E v \in Visits : ReadAttempts(v)
           \/ \E v \in Visits : CountWrong(v)
           \/ \E v \in Visits : ClearAttempts(v)
           \/ \E v \in Visits : UseCode(v)
           \/ \E v \in Visits : AcceptCode(v)
           \/ \E v \in Visits : VisitDies(v)
           \/ CodeExpires
           \/ AttemptsExpire
           \/ CooldownEnds
           \/ HourEnds
           \/ UNCHANGED otpVars
BY DEF OtpNext, OtpStep, OtpTimers

\* The types, and that a request that reads a code has one that was made.
KeysOK == /\ code \in 0..made
          /\ made \in 0..MaxCodes
          /\ attempts \in 0..(MaxAttempts - 1)
          /\ count \in 0..(HourlyLimit + 1)
          /\ lost \in 0..MaxLost

FlagsOK == {outlives, cooldown, countTtl} \subseteq BOOLEAN

VisitsOK == /\ visitAt \in [Visits -> {"idle", "wait", "incr", "expire",
                                      "store"} \cup Verifying]
            /\ seen \in [Visits -> 0..MaxCodes]
            /\ tried \in [Visits -> 0..MaxAttempts]
            /\ \A v \in Visits : Reading(v) => seen[v] \in 1..made

PastOK == /\ wrongs \in [Codes -> Nat]
          /\ logins \in [Codes -> Nat]
          /\ crossed \subseteq Codes
          /\ \A n \in Codes : n > made => wrongs[n] = 0 /\ logins[n] = 0

OtpInv == KeysOK /\ FlagsOK /\ VisitsOK /\ PastOK

\* One more of something that is counted.
LEMMA OneMore ==
    ASSUME NEW S, NEW f \in [S -> Nat], NEW x \in S
    PROVE  [f EXCEPT ![x] = @ + 1] \in [S -> Nat]
OBVIOUS

\* A request that ends keeps nothing it has read.
LEMMA LeaveOK ==
    ASSUME VisitsOK, NEW v \in Visits, Leave(v), made' = made
    PROVE  VisitsOK'
<1> USE EmailOtpAssumption DEF VisitsOK, Leave, Reading, Verifying
<1>1. visitAt' \in [Visits -> {"idle", "wait", "incr", "expire", "store"}
                             \cup Verifying]
  OBVIOUS
<1>2. /\ seen' \in [Visits -> 0..MaxCodes]
      /\ tried' \in [Visits -> 0..MaxAttempts]
  OBVIOUS
<1>3. \A w \in Visits \ {v} : seen'[w] = seen[w] /\ visitAt'[w] = visitAt[w]
  OBVIOUS
<1>4. ~Reading(v)'
  OBVIOUS
<1> QED BY <1>1, <1>2, <1>3, <1>4

LEMMA OtpInvStep ==
    ASSUME OtpInv, [OtpNext]_otpVars
    PROVE  OtpInv'
<1> USE EmailOtpAssumption
    DEF OtpInv, KeysOK, FlagsOK, VisitsOK, PastOK, Codes, Reading, Verifying
<1>1. ASSUME NEW v \in Visits, AskCode(v) PROVE OtpInv'
  <2>1. KeysOK'
    BY <1>1 DEF AskCode, Await, keys, otpPast
  <2>2. VisitsOK'
    BY <1>1 DEF AskCode, Await, keys, otpPast
  <2>3. PastOK'
    BY <1>1 DEF AskCode, Await, keys, otpPast
  <2>4. FlagsOK'
    BY <1>1 DEF AskCode, Await, keys, otpPast
  <2> QED BY <2>1, <2>2, <2>3, <2>4 DEF OtpInv
<1>2. ASSUME NEW v \in Visits, SetCooldown(v) PROVE OtpInv'
  <2>1. KeysOK'
    BY <1>2 DEF SetCooldown, Await, otpPast
  <2>2. VisitsOK'
    BY <1>2 DEF SetCooldown, Await, otpPast
  <2>3. PastOK'
    BY <1>2 DEF SetCooldown, Await, otpPast
  <2>4. FlagsOK'
    BY <1>2 DEF SetCooldown, Await, otpPast
  <2> QED BY <2>1, <2>2, <2>3, <2>4 DEF OtpInv
<1>3. ASSUME NEW v \in Visits, CountRequest(v) PROVE OtpInv'
  <2>1. KeysOK'
    <3>1. lost' = lost
      BY <1>3 DEF CountRequest, Await
    <3>2. count' \in 0..(HourlyLimit + 1)
      BY <1>3 DEF CountRequest
    <3> QED BY <1>3, <3>1, <3>2 DEF CountRequest
  <2>2. VisitsOK'
    <3>1. CASE Leave(v)
      BY <1>3, <3>1, LeaveOK DEF CountRequest
    <3>2. CASE \E label \in {"expire", "store"} : Await(v, label)
      BY <1>3, <3>2 DEF CountRequest, Await
    <3> QED BY <1>3, <3>1, <3>2 DEF CountRequest
  <2>3. PastOK'
    BY <1>3 DEF CountRequest, Await, Leave, otpPast
  <2>4. FlagsOK'
    BY <1>3 DEF CountRequest, Await, Leave, otpPast
  <2> QED BY <2>1, <2>2, <2>3, <2>4 DEF OtpInv
<1>4. ASSUME NEW v \in Visits, SetCountTtl(v) PROVE OtpInv'
  <2>1. KeysOK'
    BY <1>4 DEF SetCountTtl, Await, otpPast
  <2>2. VisitsOK'
    BY <1>4 DEF SetCountTtl, Await, otpPast
  <2>3. PastOK'
    BY <1>4 DEF SetCountTtl, Await, otpPast
  <2>4. FlagsOK'
    BY <1>4 DEF SetCountTtl, Await, otpPast
  <2> QED BY <2>1, <2>2, <2>3, <2>4 DEF OtpInv
<1>5. ASSUME NEW v \in Visits, StoreCode(v) PROVE OtpInv'
  <2>1. KeysOK'
    BY <1>5 DEF StoreCode, Leave, otpPast
  <2>2. VisitsOK'
    BY <1>5 DEF StoreCode, Leave, otpPast
  <2>3. PastOK'
    BY <1>5 DEF StoreCode, Leave, otpPast
  <2>4. FlagsOK'
    BY <1>5 DEF StoreCode, Leave, otpPast
  <2> QED BY <2>1, <2>2, <2>3, <2>4 DEF OtpInv
<1>6. ASSUME NEW v \in Visits, ReadCode(v) PROVE OtpInv'
  <2>1. KeysOK'
    BY <1>6 DEF ReadCode, keys
  <2>2. VisitsOK'
    <3>1. seen' = [seen EXCEPT ![v] = code] /\ code \in 1..made
      BY <1>6 DEF ReadCode
    <3>2. \/ visitAt' = [visitAt EXCEPT ![v] = "right"]
          \/ visitAt' = [visitAt EXCEPT ![v] = "wrong"]
      BY <1>6 DEF ReadCode
    <3>3. made' = made /\ tried' = tried
      BY <1>6 DEF ReadCode, keys
    <3>4. seen' \in [Visits -> 0..MaxCodes]
      BY <3>1
    <3>5. \A w \in Visits \ {v} : /\ seen'[w] = seen[w]
                                  /\ visitAt'[w] = visitAt[w]
      BY <3>1, <3>2
    <3>6. seen'[v] = code
      BY <3>1
    <3>7. visitAt' \in [Visits -> {"idle", "wait", "incr", "expire", "store"}
                                 \cup Verifying]
      BY <3>2
    <3> QED BY <3>1, <3>3, <3>4, <3>5, <3>6, <3>7
  <2>3. PastOK'
    <3>1. code \in Codes /\ code <= made
      BY <1>6 DEF ReadCode
    <3>2. crossed' \subseteq Codes
      <4>1. \A w \in Visits : Reading(w) => seen[w] \in Codes
        OBVIOUS
      <4> DEFINE read == {seen[w] : w \in {w \in Visits \ {v} :
                                            visitAt[w] \in Verifying}}
      <4>2. read \subseteq Codes
        BY <4>1
      <4>3. crossed' = crossed \/ crossed' = crossed \cup {code} \cup read
        BY <1>6 DEF ReadCode
      <4> QED BY <3>1, <4>2, <4>3
    <3>3. wrongs' = wrongs \/ wrongs' = [wrongs EXCEPT ![code] = @ + 1]
      BY <1>6 DEF ReadCode
    <3>4. made' = made /\ logins' = logins
      BY <1>6 DEF ReadCode, keys
    <3>5. wrongs' \in [Codes -> Nat]
      <4> HIDE DEF Codes
      <4> QED BY <3>1, <3>3, OneMore
    <3>6. \A n \in Codes : n > made => wrongs'[n] = 0
      BY <3>1, <3>3
    <3> QED BY <3>2, <3>4, <3>5, <3>6
  <2>4. FlagsOK'
    BY <1>6 DEF ReadCode, keys
  <2> QED BY <2>1, <2>2, <2>3, <2>4 DEF OtpInv
<1>7. ASSUME NEW v \in Visits, ReadAttempts(v) PROVE OtpInv'
  <2>1. KeysOK'
    BY <1>7 DEF ReadAttempts, keys, otpPast
  <2>2. VisitsOK'
    BY <1>7 DEF ReadAttempts, keys, otpPast
  <2>3. PastOK'
    BY <1>7 DEF ReadAttempts, keys, otpPast
  <2>4. FlagsOK'
    BY <1>7 DEF ReadAttempts, keys, otpPast
  <2> QED BY <2>1, <2>2, <2>3, <2>4 DEF OtpInv
<1>8. ASSUME NEW v \in Visits, CountWrong(v) PROVE OtpInv'
  <2>1. KeysOK'
    <3>1. tried[v] \in 0..MaxAttempts
      OBVIOUS
    <3>2. lost' = lost
      BY <1>8 DEF CountWrong, Await
    <3>3. CASE tried[v] >= MaxAttempts
      BY <1>8, <3>2, <3>3 DEF CountWrong
    <3>4. CASE tried[v] < MaxAttempts
      BY <1>8, <3>1, <3>2, <3>4 DEF CountWrong
    <3> QED BY <3>1, <3>3, <3>4
  <2>2. VisitsOK'
    <3>1. CASE tried[v] >= MaxAttempts
      BY <1>8, <3>1 DEF CountWrong, Await
    <3>2. CASE ~(tried[v] >= MaxAttempts)
      BY <1>8, <3>2, LeaveOK DEF CountWrong
    <3> QED BY <3>1, <3>2
  <2>3. PastOK'
    BY <1>8 DEF CountWrong, Await, Leave, otpPast
  <2>4. FlagsOK'
    BY <1>8 DEF CountWrong, Await, Leave, otpPast
  <2> QED BY <2>1, <2>2, <2>3, <2>4 DEF OtpInv
<1>9. ASSUME NEW v \in Visits, ClearAttempts(v) PROVE OtpInv'
  <2>1. KeysOK'
    BY <1>9 DEF ClearAttempts, Leave, otpPast
  <2>2. VisitsOK'
    BY <1>9 DEF ClearAttempts, Leave, otpPast
  <2>3. PastOK'
    BY <1>9 DEF ClearAttempts, Leave, otpPast
  <2>4. FlagsOK'
    BY <1>9 DEF ClearAttempts, Leave, otpPast
  <2> QED BY <2>1, <2>2, <2>3, <2>4 DEF OtpInv
<1>10. ASSUME NEW v \in Visits, UseCode(v) PROVE OtpInv'
  <2>1. KeysOK'
    BY <1>10 DEF UseCode, Await, otpPast
  <2>2. VisitsOK'
    BY <1>10 DEF UseCode, Await, otpPast
  <2>3. PastOK'
    BY <1>10 DEF UseCode, Await, otpPast
  <2>4. FlagsOK'
    BY <1>10 DEF UseCode, Await, otpPast
  <2> QED BY <2>1, <2>2, <2>3, <2>4 DEF OtpInv
<1>11. ASSUME NEW v \in Visits, AcceptCode(v) PROVE OtpInv'
  <2>1. KeysOK'
    BY <1>11 DEF AcceptCode, Leave
  <2>2. VisitsOK'
    BY <1>11 DEF AcceptCode, Leave
  <2>3. PastOK'
    <3>1. seen[v] \in Codes /\ seen[v] <= made
      BY <1>11 DEF AcceptCode
    <3>2. logins' = [logins EXCEPT ![seen[v]] = @ + 1]
      BY <1>11 DEF AcceptCode
    <3>3. logins' \in [Codes -> Nat]
      <4> HIDE DEF Codes
      <4> QED BY <3>1, <3>2, OneMore
    <3>4. \A n \in Codes : n > made => logins'[n] = 0
      BY <3>1, <3>2
    <3>5. made' = made /\ wrongs' = wrongs /\ crossed' = crossed
      BY <1>11 DEF AcceptCode
    <3> QED BY <3>3, <3>4, <3>5
  <2>4. FlagsOK'
    BY <1>11 DEF AcceptCode, Leave
  <2> QED BY <2>1, <2>2, <2>3, <2>4 DEF OtpInv
<1>12. ASSUME NEW v \in Visits, VisitDies(v) PROVE OtpInv'
  <2>1. KeysOK'
    BY <1>12 DEF VisitDies, Leave, keys, otpPast
  <2>2. VisitsOK'
    BY <1>12 DEF VisitDies, Leave, keys, otpPast
  <2>3. PastOK'
    BY <1>12 DEF VisitDies, Leave, keys, otpPast
  <2>4. FlagsOK'
    BY <1>12 DEF VisitDies, Leave, keys, otpPast
  <2> QED BY <2>1, <2>2, <2>3, <2>4 DEF OtpInv
<1>13. CASE CodeExpires
  <2>1. KeysOK'
    BY <1>13 DEF CodeExpires, visitVars, otpPast
  <2>2. FlagsOK'
    BY <1>13 DEF CodeExpires, visitVars, otpPast
  <2> QED BY <1>13, <2>1, <2>2 DEF CodeExpires, visitVars, otpPast
<1>14. CASE AttemptsExpire
  <2>1. KeysOK'
    BY <1>14 DEF AttemptsExpire, visitVars, otpPast
  <2>2. FlagsOK'
    BY <1>14 DEF AttemptsExpire, visitVars, otpPast
  <2> QED BY <1>14, <2>1, <2>2 DEF AttemptsExpire, visitVars, otpPast
<1>15. CASE CooldownEnds
  <2>1. KeysOK'
    BY <1>15 DEF CooldownEnds, visitVars, otpPast
  <2>2. FlagsOK'
    BY <1>15 DEF CooldownEnds, visitVars, otpPast
  <2> QED BY <1>15, <2>1, <2>2 DEF CooldownEnds, visitVars, otpPast
<1>16. CASE HourEnds
  <2>1. KeysOK'
    BY <1>16 DEF HourEnds, visitVars, otpPast
  <2>2. FlagsOK'
    BY <1>16 DEF HourEnds, visitVars, otpPast
  <2> QED BY <1>16, <2>1, <2>2 DEF HourEnds, visitVars, otpPast
<1>17. CASE UNCHANGED otpVars
  <2>1. KeysOK'
    BY <1>17 DEF otpVars, keys, visitVars, otpPast
  <2>2. FlagsOK'
    BY <1>17 DEF otpVars, keys, visitVars, otpPast
  <2> QED BY <1>17, <2>1, <2>2 DEF otpVars, keys, visitVars, otpPast
<1> QED BY <1>1, <1>2, <1>3, <1>4, <1>5, <1>6, <1>7, <1>8, <1>9, <1>10,
        <1>11, <1>12, <1>13, <1>14, <1>15, <1>16, <1>17, OtpCases

LEMMA OtpInvariant == OtpSpec => []OtpInv
<1>1. OtpInit => OtpInv
  <2> SUFFICES ASSUME OtpInit PROVE OtpInv
    OBVIOUS
  <2> USE EmailOtpAssumption DEF OtpInit, Codes
  <2>1. KeysOK
    BY DEF KeysOK
  <2>2. VisitsOK
    BY DEF VisitsOK, Reading, Verifying
  <2>3. PastOK
    BY DEF PastOK
  <2>4. FlagsOK
    BY DEF FlagsOK
  <2> QED BY <2>1, <2>2, <2>3, <2>4 DEF OtpInv
<1> QED BY <1>1, OtpInvStep, PTL DEF OtpSpec

-----------------------------------------------------------------------------
(* One code, one login; and so many guesses.                               *)

\* While a request verifies a code that was never read by two at once, no
\* other request verifies any.
Alone == \A n \in Codes \ crossed : \A v, w \in Visits :
             Reading(v) /\ seen[v] = n /\ Reading(w) => w = v

\* A request that goes on after its code was deleted never meets it again.
Spent == \A v \in Visits : visitAt[v] \in {"clear", "accept"} => seen[v] # code

\* A code that is stored, or about to be accepted, was not accepted before.
Once == \A n \in Codes \ crossed :
            /\ logins[n] <= 1
            /\ code = n => logins[n] = 0
            /\ \A v \in Visits :
                   visitAt[v] \in {"right", "accept"} /\ seen[v] = n =>
                       logins[n] = 0

\* The part of attempts that counts wrong entries of the code stored now.
Counted == IF outlives THEN attempts ELSE 0

\* The wrong entries of the stored code n are those counted, or written by the
\* request that verifies it; while one still verifies an older code, there are
\* none.
Fair(n) ==
    /\ (\A v \in Visits : Reading(v) => seen[v] # n) =>
           wrongs[n] <= Counted + lost
    /\ \A v \in Visits : Reading(v) /\ seen[v] = n =>
           /\ wrongs[n] <= Counted + 1 + lost
           /\ visitAt[v] = "count" => wrongs[n] <= tried[v] + lost
    /\ (\E v \in Visits : Reading(v) /\ seen[v] # n) => wrongs[n] = 0

Guesses == \A n \in Codes \ crossed : /\ wrongs[n] <= MaxAttempts + lost
                                      /\ code = n => Fair(n)

CodesInv == Alone /\ Spent /\ Once /\ Guesses

\* What the end of a request and an await change: nothing of other requests.
LEMMA Leaves ==
    ASSUME VisitsOK, NEW v \in Visits, Leave(v)
    PROVE  /\ visitAt'[v] = "idle"
           /\ \A w \in Visits \ {v} : /\ visitAt'[w] = visitAt[w]
                                     /\ seen'[w] = seen[w]
                                     /\ tried'[w] = tried[w]
BY DEF VisitsOK, Leave

LEMMA Awaits ==
    ASSUME VisitsOK, NEW v \in Visits, NEW label, Await(v, label)
    PROVE  /\ visitAt'[v] = label
           /\ \A w \in Visits \ {v} : visitAt'[w] = visitAt[w]
           /\ seen' = seen /\ tried' = tried /\ lost' = lost
BY DEF VisitsOK, Await

\* No request begins to read.
LEMMA AloneKept ==
    ASSUME Alone, crossed' = crossed,
           \A w \in Visits : Reading(w)' => Reading(w) /\ seen'[w] = seen[w]
    PROVE  Alone'
BY DEF Alone, Codes

\* No request begins to accept a code.
LEMMA OnceKept ==
    ASSUME Once, crossed' = crossed, logins' = logins,
           \A n \in Codes : code' = n => code = n,
           \A w \in Visits : visitAt'[w] \in {"right", "accept"} =>
               visitAt'[w] = visitAt[w] /\ seen'[w] = seen[w]
    PROVE  Once'
BY DEF Once, Codes

LEMMA SumOfNats ==
    ASSUME NEW a \in Nat, NEW b \in Nat
    PROVE  0 <= a + b /\ 0 <= a + 1 + b
OBVIOUS

\* Nobody entered the stored code wrongly.
LEMMA FairZero ==
    ASSUME NEW n, wrongs'[n] = 0, attempts' \in Nat, lost' \in Nat,
           \A w \in Visits : tried'[w] \in Nat
    PROVE  Fair(n)'
<1>1. Counted' \in Nat
  <2>1. CASE outlives'
    BY <2>1 DEF Counted
  <2>2. CASE ~outlives'
    BY <2>2 DEF Counted
  <2> QED BY <2>1, <2>2
<1>2. PICK k \in Nat : k = Counted'
  BY <1>1
<1>3. PICK m \in Nat : m = lost'
  OBVIOUS
<1>5. 0 <= k + m /\ 0 <= k + 1 + m
  BY SumOfNats
<1>4. \A w \in Visits : wrongs'[n] <= tried'[w] + lost'
  OBVIOUS
<1> QED BY <1>2, <1>3, <1>4, <1>5 DEF Fair

\* Nobody but v moves, and v does not read the stored code.
LEMMA FairKept ==
    ASSUME NEW v \in Visits, NEW n, Fair(n), wrongs' = wrongs,
           Counted' = Counted, lost' = lost, ~Reading(v)', ~Reading(v),
           \A w \in Visits \ {v} : /\ visitAt'[w] = visitAt[w]
                                  /\ seen'[w] = seen[w]
                                  /\ tried'[w] = tried[w]
    PROVE  Fair(n)'
BY DEF Fair, Reading

\* Requests that do not verify a code move, or none does, and the stored code
\* and what is counted for it stay.
LEMMA QuietStep ==
    ASSUME CodesInv, code' = code, Counted' = Counted, lost' = lost,
           wrongs' = wrongs, logins' = logins, crossed' = crossed,
           \A w \in Visits : \/ ~Reading(w) /\ ~Reading(w)'
                             \/ /\ visitAt'[w] = visitAt[w]
                                /\ seen'[w] = seen[w]
                                /\ tried'[w] = tried[w]
    PROVE  CodesInv'
<1>1. \A w \in Visits : Reading(w)' => Reading(w) /\ seen'[w] = seen[w]
  BY DEF Reading
<1>2. Alone'
  BY <1>1, AloneKept DEF CodesInv
<1>3. \A w \in Visits : Reading(w)' => visitAt'[w] = visitAt[w]
  BY DEF Reading
<1>4. \A w \in Visits : visitAt'[w] \in {"right", "accept", "clear"} =>
          visitAt'[w] = visitAt[w] /\ seen'[w] = seen[w]
  BY <1>1, <1>3 DEF Reading, Verifying
<1>5. Spent'
  BY <1>4 DEF CodesInv, Spent
<1>6. Once'
  BY <1>4, OnceKept DEF CodesInv
<1>7. ASSUME NEW n \in Codes \ crossed, code = n PROVE Fair(n)'
  <2>1. Fair(n)
    BY <1>7 DEF CodesInv, Guesses
  <2>2. \A w \in Visits : /\ Reading(w)' <=> Reading(w)
                          /\ Reading(w) => /\ visitAt'[w] = visitAt[w]
                                           /\ seen'[w] = seen[w]
                                           /\ tried'[w] = tried[w]
    BY DEF Reading
  <2> QED BY <2>1, <2>2 DEF Fair
<1>8. Guesses'
  BY <1>7 DEF CodesInv, Guesses, Codes
<1> QED BY <1>2, <1>5, <1>6, <1>8 DEF CodesInv

LEMMA CodesInvStep ==
    ASSUME OtpInv, CodesInv, [OtpNext]_otpVars
    PROVE  CodesInv'
<1> USE EmailOtpAssumption
    DEF OtpInv, KeysOK, VisitsOK, PastOK, Codes, Reading, Verifying, CodesInv
<1>1. ASSUME NEW v \in Visits, AskCode(v) PROVE CodesInv'
  <2>1. /\ code' = code /\ Counted' = Counted /\ lost' = lost
        /\ wrongs' = wrongs /\ logins' = logins /\ crossed' = crossed
    BY <1>1 DEF AskCode, Await, keys, otpPast, Counted
  <2>2. ~Reading(v) /\ ~Reading(v)'
    BY <1>1 DEF AskCode, Await
  <2>3. \A w \in Visits \ {v} : /\ visitAt'[w] = visitAt[w]
                               /\ seen'[w] = seen[w]
                               /\ tried'[w] = tried[w]
    BY <1>1, Awaits DEF AskCode
  <2> HIDE DEF Reading
  <2> QED BY <2>1, <2>2, <2>3, QuietStep
<1>2. ASSUME NEW v \in Visits, SetCooldown(v) PROVE CodesInv'
  <2>1. /\ code' = code /\ Counted' = Counted /\ lost' = lost
        /\ wrongs' = wrongs /\ logins' = logins /\ crossed' = crossed
    BY <1>2 DEF SetCooldown, Await, otpPast, Counted
  <2>2. ~Reading(v) /\ ~Reading(v)'
    BY <1>2 DEF SetCooldown, Await
  <2>3. \A w \in Visits \ {v} : /\ visitAt'[w] = visitAt[w]
                               /\ seen'[w] = seen[w]
                               /\ tried'[w] = tried[w]
    BY <1>2, Awaits DEF SetCooldown
  <2> HIDE DEF Reading
  <2> QED BY <2>1, <2>2, <2>3, QuietStep
<1>3. ASSUME NEW v \in Visits, CountRequest(v) PROVE CodesInv'
  <2>1. /\ code' = code /\ Counted' = Counted /\ lost' = lost
        /\ wrongs' = wrongs /\ logins' = logins /\ crossed' = crossed
    BY <1>3 DEF CountRequest, Await, otpPast, Counted
  <2>2. ~Reading(v) /\ ~Reading(v)'
    BY <1>3 DEF CountRequest, Await, Leave
  <2>3. \A w \in Visits \ {v} : /\ visitAt'[w] = visitAt[w]
                               /\ seen'[w] = seen[w]
                               /\ tried'[w] = tried[w]
    <3>1. CASE Leave(v)
      BY <3>1, Leaves
    <3>2. CASE \E label \in {"expire", "store"} : Await(v, label)
      BY <3>2, Awaits
    <3> QED BY <1>3, <3>1, <3>2 DEF CountRequest
  <2> HIDE DEF Reading
  <2> QED BY <2>1, <2>2, <2>3, QuietStep
<1>4. ASSUME NEW v \in Visits, SetCountTtl(v) PROVE CodesInv'
  <2>1. /\ code' = code /\ Counted' = Counted /\ lost' = lost
        /\ wrongs' = wrongs /\ logins' = logins /\ crossed' = crossed
    BY <1>4 DEF SetCountTtl, Await, otpPast, Counted
  <2>2. ~Reading(v) /\ ~Reading(v)'
    BY <1>4 DEF SetCountTtl, Await
  <2>3. \A w \in Visits \ {v} : /\ visitAt'[w] = visitAt[w]
                               /\ seen'[w] = seen[w]
                               /\ tried'[w] = tried[w]
    BY <1>4, Awaits DEF SetCountTtl
  <2> HIDE DEF Reading
  <2> QED BY <2>1, <2>2, <2>3, QuietStep
<1>5. ASSUME NEW v \in Visits, StoreCode(v) PROVE CodesInv'
  <2>1. Alone'
    BY <1>5 DEF StoreCode, Leave, otpPast, Alone
  <2>2. Spent'
    BY <1>5 DEF StoreCode, Leave, otpPast, Spent
  <2>3. Once'
    BY <1>5 DEF StoreCode, Leave, otpPast, Once, Alone, Spent
  <2>4. Guesses'
    BY <1>5 DEF StoreCode, Leave, otpPast, Guesses, Fair, Counted, Alone, Spent
  <2> QED BY <2>1, <2>2, <2>3, <2>4
<1>6. ASSUME NEW v \in Visits, ReadCode(v) PROVE CodesInv'
  <2>a. /\ seen'[v] = code /\ code \in Codes /\ ~Reading(v)
        /\ visitAt'[v] \in {"right", "wrong"}
        /\ \A w \in Visits \ {v} : /\ visitAt'[w] = visitAt[w]
                                  /\ seen'[w] = seen[w]
    BY <1>6 DEF ReadCode
  <2>b. /\ code' = code /\ Counted' = Counted /\ lost' = lost
        /\ logins' = logins
    BY <1>6 DEF ReadCode, keys, Counted
  <2>c. /\ crossed \subseteq crossed'
        /\ code \notin crossed' => \A w \in Visits \ {v} : ~Reading(w)
    BY <1>6 DEF ReadCode
  <2>1. Alone'
    <3>1. /\ seen'[v] = code /\ code \in Codes
          /\ \A w \in Visits \ {v} : /\ visitAt'[w] = visitAt[w]
                                    /\ seen'[w] = seen[w]
      BY <2>a
    <3>2. CASE \E w \in Visits \ {v} : Reading(w)
      <4>1. \A w \in Visits \ {v} : Reading(w) => seen[w] \in crossed'
        BY <1>6, <3>2 DEF ReadCode
      <4>2. code \in crossed' /\ crossed \subseteq crossed'
        BY <1>6, <3>2 DEF ReadCode
      <4>3. \A w \in Visits : Reading(w)' => seen'[w] \in crossed'
        BY <3>1, <4>1, <4>2
      <4> HIDE DEF Reading
      <4> QED BY <4>3 DEF Alone
    <3>3. CASE \A w \in Visits \ {v} : ~Reading(w)
      BY <3>1, <3>3 DEF Alone
    <3> QED BY <3>2, <3>3
  <2>2. Spent'
    BY <2>a, <2>b DEF Spent
  <2>3. Once'
    <3>1. \A n \in Codes \ crossed' : logins[n] <= 1 /\ (code = n => logins[n] = 0)
      BY <2>c DEF Once
    <3>2. ASSUME NEW n \in Codes \ crossed', NEW w \in Visits,
                 visitAt'[w] \in {"right", "accept"}, seen'[w] = n
          PROVE  logins[n] = 0
      <4>1. CASE w = v
        BY <2>a, <3>1, <3>2, <4>1
      <4>2. CASE w # v
        BY <2>a, <2>c, <3>2, <4>2 DEF Once
      <4> QED BY <4>1, <4>2
    <3> QED BY <2>b, <3>1, <3>2 DEF Once
  <2>4. Guesses'
    <3>1. /\ \A n \in Codes \ {code} : wrongs'[n] = wrongs[n]
          /\ wrongs'[code] \in {wrongs[code], wrongs[code] + 1}
          /\ wrongs[code] \in Nat /\ lost \in Nat
      <4>1. wrongs' = wrongs \/ wrongs' = [wrongs EXCEPT ![code] = @ + 1]
        BY <1>6 DEF ReadCode
      <4>2. wrongs \in [Codes -> Nat] /\ lost \in Nat
        OBVIOUS
      <4> HIDE DEF OtpInv, KeysOK, VisitsOK, PastOK, CodesInv, Codes, Reading
      <4> QED BY <2>a, <4>1, <4>2
    <3>2. Counted \in 0..(MaxAttempts - 1)
      BY DEF Counted
    <3>3. ASSUME code \notin crossed'
          PROVE  /\ wrongs[code] <= Counted + lost
                 /\ wrongs'[code] <= Counted + 1 + lost
                 /\ wrongs'[code] <= MaxAttempts + lost
      <4>1. code \in Codes \ crossed
        BY <2>a, <2>c, <3>3
      <4>2. Fair(code)
        BY <4>1 DEF Guesses
      <4>3. \A w \in Visits : Reading(w) => seen[w] # code
        BY <2>a, <2>c, <3>3
      <4>4. wrongs[code] <= Counted + lost
        <5> HIDE DEF Reading, Codes
        <5> QED BY <4>2, <4>3 DEF Fair
      <4> HIDE DEF OtpInv, KeysOK, VisitsOK, PastOK, CodesInv, Codes
      <4> QED BY <3>1, <3>2, <4>4
    <3>4. ASSUME code \notin crossed' PROVE Fair(code)'
      <4>1. \A w \in Visits : Reading(w)' => w = v
        BY <2>a, <2>c, <3>4
      <4>2. Reading(v)' /\ visitAt'[v] # "count"
        BY <2>a
      <4> HIDE DEF Reading
      <4> QED BY <2>a, <2>b, <3>3, <3>4, <4>1, <4>2 DEF Fair
    <3>5. ASSUME NEW n \in Codes \ crossed'
          PROVE  wrongs'[n] <= MaxAttempts + lost
      <4>1. CASE n = code
        BY <3>3, <3>5, <4>1
      <4>2. CASE n # code
        BY <2>c, <3>1, <3>5, <4>2 DEF Guesses
      <4> QED BY <4>1, <4>2
    <3> QED BY <2>b, <3>4, <3>5 DEF Guesses
  <2> QED BY <2>1, <2>2, <2>3, <2>4
<1>7. ASSUME NEW v \in Visits, ReadAttempts(v) PROVE CodesInv'
  <2>1. Alone'
    <3>1. crossed' = crossed
      BY <1>7 DEF ReadAttempts, otpPast
    <3>2. \A w \in Visits : Reading(w)' => Reading(w) /\ seen'[w] = seen[w]
      BY <1>7 DEF ReadAttempts
    <3> HIDE DEF Reading
    <3> QED BY <3>1, <3>2, AloneKept
  <2>2. Spent'
    BY <1>7 DEF ReadAttempts, keys, otpPast, Spent
  <2>3. Once'
    BY <1>7 DEF ReadAttempts, keys, otpPast, Once, Alone, Spent
  <2>4. Guesses'
    <3>1. /\ code' = code /\ Counted' = Counted /\ lost' = lost
          /\ wrongs' = wrongs /\ crossed' = crossed /\ seen' = seen
          /\ tried'[v] = attempts + 1 /\ Reading(v)
          /\ \A w \in Visits \ {v} : visitAt'[w] = visitAt[w]
                                    /\ tried'[w] = tried[w]
          /\ \A w \in Visits : Reading(w)' <=> Reading(w)
      BY <1>7 DEF ReadAttempts, keys, otpPast, Counted
    <3>2. Counted <= attempts /\ Counted \in Nat
      BY DEF Counted
    <3>3. ASSUME NEW n \in Codes \ crossed, code = n PROVE Fair(n)'
      <4>1. Fair(n)
        BY <3>3 DEF Guesses
      <4>2. Reading(v) /\ seen[v] = n => wrongs[n] <= attempts + 1 + lost
        BY <3>2, <4>1 DEF Fair
      <4> QED BY <3>1, <4>1, <4>2 DEF Fair
    <3> QED BY <3>1, <3>3 DEF Guesses
  <2> QED BY <2>1, <2>2, <2>3, <2>4
<1>8. ASSUME NEW v \in Visits, CountWrong(v) PROVE CodesInv'
  <2>a. VisitsOK /\ Reading(v) /\ visitAt[v] = "count"
    BY <1>8 DEF CountWrong
  <2>b. \/ tried[v] >= MaxAttempts /\ code' = 0 /\ Await(v, "clear")
        \/ ~(tried[v] >= MaxAttempts) /\ code' = code /\ Leave(v)
    BY <1>8 DEF CountWrong
  <2>c. /\ \A w \in Visits \ {v} : /\ visitAt'[w] = visitAt[w]
                                  /\ seen'[w] = seen[w]
                                  /\ tried'[w] = tried[w]
        /\ visitAt'[v] \in {"idle", "clear"}
        /\ visitAt'[v] = "clear" => seen'[v] = seen[v] /\ code' = 0
    <3> HIDE DEF OtpInv, KeysOK, VisitsOK, PastOK, CodesInv, Reading
    <3> QED BY <2>a, <2>b, Awaits, Leaves
  <2>1. Alone'
    <3>1. /\ \A w \in Visits \ {v} : /\ visitAt'[w] = visitAt[w]
                                    /\ seen'[w] = seen[w]
                                    /\ tried'[w] = tried[w]
          /\ visitAt'[v] \in {"idle", "clear"}
          /\ Reading(v) /\ (Reading(v)' => seen'[v] = seen[v])
      BY <2>a, <2>c
    <3>2. crossed' = crossed
      BY <1>8 DEF CountWrong, otpPast
    <3>3. \A w \in Visits : Reading(w)' => Reading(w) /\ seen'[w] = seen[w]
      BY <3>1
    <3> QED BY <3>2, <3>3, AloneKept
  <2>2. Spent'
    <3>1. code' = code \/ code' = 0
      BY <2>b
    <3>2. \A w \in Visits : Reading(w) => seen[w] # 0
      OBVIOUS
    <3>3. ASSUME NEW w \in Visits, visitAt'[w] \in {"clear", "accept"}
          PROVE  seen'[w] # code'
      <4>1. CASE w = v
        BY <2>a, <2>c, <3>2, <3>3, <4>1
      <4>2. CASE w # v
        <5>1. visitAt[w] \in {"clear", "accept"} /\ seen'[w] = seen[w]
          BY <2>c, <3>3, <4>2
        <5>2. Reading(w) /\ seen[w] # code
          BY <5>1 DEF Spent
        <5> QED BY <3>1, <3>2, <5>1, <5>2
      <4> QED BY <4>1, <4>2
    <3> QED BY <3>3 DEF Spent
  <2>3. Once'
    <3>1. /\ visitAt'[v] \notin {"right", "accept"}
          /\ \A w \in Visits \ {v} : /\ visitAt'[w] = visitAt[w]
                                    /\ seen'[w] = seen[w]
      BY <2>c
    <3>2. /\ code' \in {code, 0} /\ logins' = logins /\ crossed' = crossed
      BY <1>8 DEF CountWrong, otpPast
    <3>3. \A n \in Codes : code' = n => code = n
      BY <3>2
    <3>4. \A w \in Visits : visitAt'[w] \in {"right", "accept"} =>
              visitAt'[w] = visitAt[w] /\ seen'[w] = seen[w]
      BY <3>1
    <3> QED BY <3>2, <3>3, <3>4, OnceKept
  <2>4. Guesses'
    <3>1. /\ wrongs' = wrongs /\ crossed' = crossed /\ lost' = lost
          /\ Reading(v) /\ visitAt[v] = "count"
      BY <1>8 DEF CountWrong, Await, otpPast
    <3>2. CASE tried[v] >= MaxAttempts
      <4>1. code' = 0
        BY <1>8, <3>2 DEF CountWrong
      <4> QED BY <3>1, <4>1 DEF Guesses
    <3>3. CASE ~(tried[v] >= MaxAttempts)
      <4>1. /\ code' = code /\ Counted' = tried[v] /\ Leave(v)
            /\ tried[v] \in Nat
        BY <1>8, <3>3 DEF CountWrong, Counted
      <4>2. /\ ~Reading(v)'
            /\ \A w \in Visits \ {v} : /\ visitAt'[w] = visitAt[w]
                                      /\ seen'[w] = seen[w]
                                      /\ tried'[w] = tried[w]
        BY <4>1, Leaves
      <4>3. ASSUME NEW n \in Codes \ crossed, code = n PROVE Fair(n)'
        <5>1. Fair(n) /\ wrongs[n] \in Nat /\ lost \in Nat
          BY <4>3 DEF Guesses
        <5>2. CASE seen[v] = n
          <6>1. wrongs[n] <= tried[v] + lost
            BY <3>1, <5>1, <5>2 DEF Fair
          <6>2. \A w \in Visits : ~Reading(w)'
            BY <3>1, <4>2, <5>2 DEF Alone
          <6> QED BY <3>1, <4>1, <6>1, <6>2 DEF Fair
        <5>3. CASE seen[v] # n
          <6>1. wrongs[n] = 0
            BY <3>1, <5>1, <5>3 DEF Fair
          <6>2. wrongs'[n] = 0 /\ lost' \in Nat /\ attempts' \in Nat
            BY <1>8, <3>1, <3>3, <5>1, <6>1 DEF CountWrong
          <6>3. \A w \in Visits : tried'[w] \in Nat
            BY <4>1 DEF Leave
          <6> QED BY <6>2, <6>3, FairZero
        <5> QED BY <5>2, <5>3
      <4> QED BY <3>1, <4>1, <4>3 DEF Guesses
    <3> QED BY <3>2, <3>3
  <2> QED BY <2>1, <2>2, <2>3, <2>4
<1>9. ASSUME NEW v \in Visits, ClearAttempts(v) PROVE CodesInv'
  <2>1. Alone'
    BY <1>9 DEF ClearAttempts, Leave, otpPast, Alone
  <2>2. Spent'
    BY <1>9 DEF ClearAttempts, Leave, otpPast, Spent
  <2>3. Once'
    BY <1>9 DEF ClearAttempts, Leave, otpPast, Once, Alone, Spent
  <2>4. Guesses'
    <3>1. /\ wrongs' = wrongs /\ lost' = lost /\ code' = code
          /\ crossed' = crossed
      BY <1>9 DEF ClearAttempts, otpPast
    <3>2. \A n \in Codes \ crossed : wrongs'[n] <= MaxAttempts + lost'
      BY <3>1 DEF Guesses
    <3>3. seen[v] # code /\ Reading(v)
      BY <1>9 DEF ClearAttempts, Spent
    <3>4. ASSUME code \in Codes, code \notin crossed PROVE Fair(code)'
      <4>1. wrongs[code] = 0
        BY <3>3, <3>4 DEF Guesses, Fair
      <4>2. attempts' \in Nat /\ lost' \in Nat
        BY <1>9 DEF ClearAttempts
      <4>3. \A w \in Visits : tried'[w] \in Nat
        BY <1>9 DEF ClearAttempts, Leave
      <4> HIDE DEF Reading
      <4> QED BY <3>1, <4>1, <4>2, <4>3, FairZero
    <3> QED BY <3>1, <3>2, <3>4 DEF Guesses
  <2> QED BY <2>1, <2>2, <2>3, <2>4
<1>10. ASSUME NEW v \in Visits, UseCode(v) PROVE CodesInv'
  <2>1. Alone'
    <3>1. crossed' = crossed
      BY <1>10 DEF UseCode, otpPast
    <3>2. \A w \in Visits : Reading(w)' => Reading(w) /\ seen'[w] = seen[w]
      BY <1>10 DEF UseCode, Await
    <3> HIDE DEF Reading
    <3> QED BY <3>1, <3>2, AloneKept
  <2>2. Spent'
    BY <1>10 DEF UseCode, Await, otpPast, Spent
  <2>3. Once'
    <3>1. /\ visitAt[v] = "right" /\ seen' = seen /\ logins' = logins
          /\ crossed' = crossed /\ code' = 0
          /\ \A w \in Visits \ {v} : visitAt'[w] = visitAt[w]
      BY <1>10 DEF UseCode, Await, otpPast
    <3>2. Once /\ ~(0 \in Codes)
      OBVIOUS
    <3> HIDE DEF OtpInv, KeysOK, VisitsOK, PastOK, CodesInv, Codes, Reading
    <3>3. ASSUME NEW w \in Visits, visitAt'[w] \in {"right", "accept"}
          PROVE  visitAt[w] \in {"right", "accept"}
      BY <3>1, <3>3
    <3> QED BY <3>1, <3>2, <3>3 DEF Once
  <2>4. Guesses'
    <3>1. /\ code' = 0 /\ wrongs' = wrongs /\ crossed' = crossed
          /\ lost' = lost
      BY <1>10 DEF UseCode, Await, otpPast
    <3> QED BY <3>1 DEF Guesses
  <2> QED BY <2>1, <2>2, <2>3, <2>4
<1>11. ASSUME NEW v \in Visits, AcceptCode(v) PROVE CodesInv'
  <2>1. Alone'
    <3>1. crossed' = crossed
      BY <1>11 DEF AcceptCode
    <3>2. \A w \in Visits : Reading(w)' => Reading(w) /\ seen'[w] = seen[w]
      BY <1>11 DEF AcceptCode, Leave
    <3> HIDE DEF Reading
    <3> QED BY <3>1, <3>2, AloneKept
  <2>2. Spent'
    BY <1>11 DEF AcceptCode, Leave, Spent
  <2>3. Once'
    <3>1. /\ visitAt[v] = "accept" /\ seen[v] \in Codes /\ seen[v] # code
          /\ logins' = [logins EXCEPT ![seen[v]] = @ + 1]
          /\ code' = code /\ crossed' = crossed
      BY <1>11 DEF AcceptCode, Spent
    <3>2. /\ visitAt'[v] = "idle"
          /\ \A w \in Visits \ {v} : visitAt'[w] = visitAt[w]
                                     /\ seen'[w] = seen[w]
      BY <1>11 DEF AcceptCode, Leave
    <3>3. ASSUME NEW n \in Codes \ crossed, n = seen[v]
          PROVE  /\ logins'[n] = 1 /\ code # n
                 /\ \A w \in Visits \ {v} : Reading(w) => seen[w] # n
      <4>1. logins[n] = 0
        BY <3>1, <3>3 DEF Once
      <4>2. Reading(v)
        BY <3>1
      <4> HIDE DEF Reading
      <4> QED BY <3>1, <3>3, <4>1, <4>2 DEF Alone
    <3>4. ASSUME NEW n \in Codes, n # seen[v] PROVE logins'[n] = logins[n]
      BY <3>1, <3>4
    <3>5. ASSUME NEW n \in Codes \ crossed, n = seen[v]
          PROVE  \A w \in Visits : visitAt'[w] \in {"right", "accept"} =>
                     seen'[w] # n
      BY <3>2, <3>3, <3>5
    <3>6. ASSUME NEW n \in Codes \ crossed, n # seen[v]
          PROVE  \A w \in Visits : visitAt'[w] \in {"right", "accept"} =>
                     visitAt[w] = visitAt'[w] /\ seen'[w] = seen[w]
      BY <3>2
    <3>7. ASSUME NEW n \in Codes \ crossed
          PROVE  /\ logins'[n] <= 1
                 /\ code' = n => logins'[n] = 0
      <4>1. logins[n] <= 1 /\ (code = n => logins[n] = 0)
        BY DEF Once
      <4>2. CASE n = seen[v]
        <5>1. logins'[n] = 1 /\ code # n
          BY <3>3, <4>2
        <5>2. code' # n
          BY <3>1, <5>1
        <5> HIDE DEF OtpInv, KeysOK, VisitsOK, PastOK, CodesInv
        <5> QED BY <5>1, <5>2
      <4>3. CASE n # seen[v]
        BY <3>1, <3>4, <4>1, <4>3
      <4> QED BY <4>2, <4>3
    <3>8. ASSUME NEW n \in Codes \ crossed, NEW w \in Visits,
                 visitAt'[w] \in {"right", "accept"}, seen'[w] = n
          PROVE  logins'[n] = 0
      BY <3>4, <3>5, <3>6, <3>8 DEF Once
    <3> QED BY <3>1, <3>7, <3>8 DEF Once
  <2>4. Guesses'
    <3>1. /\ wrongs' = wrongs /\ lost' = lost /\ code' = code
          /\ crossed' = crossed
      BY <1>11 DEF AcceptCode
    <3>2. \A n \in Codes \ crossed : wrongs'[n] <= MaxAttempts + lost'
      BY <3>1 DEF Guesses
    <3>3. seen[v] # code /\ Reading(v)
      BY <1>11 DEF AcceptCode, Spent
    <3>4. ASSUME code \in Codes, code \notin crossed PROVE Fair(code)'
      <4>1. wrongs[code] = 0
        BY <3>3, <3>4 DEF Guesses, Fair
      <4>2. attempts' \in Nat /\ lost' \in Nat
        BY <1>11 DEF AcceptCode
      <4>3. \A w \in Visits : tried'[w] \in Nat
        BY <1>11 DEF AcceptCode, Leave
      <4> HIDE DEF Reading
      <4> QED BY <3>1, <4>1, <4>2, <4>3, FairZero
    <3> QED BY <3>1, <3>2, <3>4 DEF Guesses
  <2> QED BY <2>1, <2>2, <2>3, <2>4
<1>12. ASSUME NEW v \in Visits, VisitDies(v) PROVE CodesInv'
  <2>1. Alone'
    BY <1>12 DEF VisitDies, Leave, keys, otpPast, Alone
  <2>2. Spent'
    BY <1>12 DEF VisitDies, Leave, keys, otpPast, Spent
  <2>3. Once'
    BY <1>12 DEF VisitDies, Leave, keys, otpPast, Once, Alone, Spent
  <2>4. Guesses'
    <3>1. /\ code' = code /\ Counted' = Counted /\ lost' = lost + 1
          /\ wrongs' = wrongs /\ crossed' = crossed
      BY <1>12 DEF VisitDies, keys, otpPast, Counted
    <3>2. /\ ~Reading(v)'
          /\ \A w \in Visits \ {v} : /\ visitAt'[w] = visitAt[w]
                                    /\ seen'[w] = seen[w]
                                    /\ tried'[w] = tried[w]
      BY <1>12, Leaves DEF VisitDies
    <3>3. Counted \in Nat /\ lost \in Nat
      BY DEF Counted
    <3>4. ASSUME NEW n \in Codes \ crossed, code = n PROVE Fair(n)'
      <4>1. Fair(n) /\ wrongs[n] \in Nat
        BY <3>4 DEF Guesses
      <4>2. wrongs[n] <= Counted + lost + 1
        BY <3>3, <4>1 DEF Fair
      <4>3. \A w \in Visits \ {v} : Reading(w) /\ seen[w] = n
                /\ visitAt[w] = "count" => wrongs[n] <= tried[w] + lost
        BY <4>1 DEF Fair
      <4>4. (\E w \in Visits : Reading(w)' /\ seen'[w] # n) => wrongs[n] = 0
        BY <3>2, <4>1 DEF Fair
      <4>5. \A w \in Visits : Reading(w)' => /\ w # v
                                           /\ Reading(w)
                                           /\ seen'[w] = seen[w]
                                           /\ visitAt'[w] = visitAt[w]
                                           /\ tried'[w] = tried[w]
                                           /\ tried[w] \in Nat
        BY <3>2
      <4>6. wrongs'[n] <= Counted' + lost'
        BY <3>1, <3>3, <4>1, <4>2
      <4>7. ASSUME NEW w \in Visits, Reading(w)', seen'[w] = n,
                   visitAt'[w] = "count"
            PROVE  wrongs'[n] <= tried'[w] + lost'
        <5>1. wrongs[n] <= tried[w] + lost /\ tried[w] \in Nat
              /\ tried'[w] = tried[w]
          BY <4>3, <4>5, <4>7
        <5> QED BY <3>1, <3>3, <4>1, <5>1
      <4>8. wrongs'[n] <= Counted' + 1 + lost'
        BY <3>1, <3>3, <4>1, <4>6
      <4>9. (\E w \in Visits : Reading(w)' /\ seen'[w] # n) => wrongs'[n] = 0
        BY <3>1, <4>4
      <4> HIDE DEF Reading
      <4> QED BY <4>6, <4>7, <4>8, <4>9 DEF Fair
    <3> QED BY <3>1, <3>3, <3>4 DEF Guesses
  <2> QED BY <2>1, <2>2, <2>3, <2>4
<1>13. CASE CodeExpires
  <2>1. Guesses'
    BY <1>13 DEF CodeExpires, visitVars, otpPast, Guesses, Fair, Counted
  <2> QED BY <1>13, <2>1 DEF CodeExpires, visitVars, otpPast, Alone, Spent,
             Once
<1>14. CASE AttemptsExpire
  <2>1. Guesses'
    BY <1>14 DEF AttemptsExpire, visitVars, otpPast, Guesses, Fair, Counted
  <2> QED BY <1>14, <2>1 DEF AttemptsExpire, visitVars, otpPast, Alone, Spent,
             Once
<1>15. CASE CooldownEnds
  BY <1>15, QuietStep DEF CooldownEnds, visitVars, otpPast, Counted
<1>16. CASE HourEnds
  BY <1>16, QuietStep DEF HourEnds, visitVars, otpPast, Counted
<1>17. CASE UNCHANGED otpVars
  BY <1>17, QuietStep DEF otpVars, keys, visitVars, otpPast, Counted
<1> QED BY <1>1, <1>2, <1>3, <1>4, <1>5, <1>6, <1>7, <1>8, <1>9, <1>10,
        <1>11, <1>12, <1>13, <1>14, <1>15, <1>16, <1>17, OtpCases

LEMMA CodesInvariant == OtpSpec => []CodesInv
<1>1. OtpInit => CodesInv
  <2> SUFFICES ASSUME OtpInit PROVE CodesInv
    OBVIOUS
  <2> USE EmailOtpAssumption DEF OtpInit, Codes, Reading, Verifying
  <2>1. Alone /\ Spent /\ Once
    BY DEF Alone, Spent, Once
  <2>2. Guesses
    BY DEF Guesses, Fair, Counted
  <2> QED BY <2>1, <2>2 DEF CodesInv
<1> QED BY <1>1, CodesInvStep, OtpInvariant, PTL DEF OtpSpec

\* A code that no two requests verified at once is accepted at most once,
\* however requests, times to live and deaths interleave.
THEOREM CodesOnce == Spec => []OneTimeUse
<1>1. CodesInv => OneTimeUse
  BY DEF CodesInv, Once, OneTimeUse
<1> QED BY <1>1, CodesInvariant, LoginIsOtp, PTL

\* The count of requests of an hour has a time to live, unless the request
\* that began it died before it set one.
THEOREM HourCounted == Spec => []CounterExpires
<1>1. OtpInit => CounterExpires
  BY DEF OtpInit, CounterExpires
<1>2. OtpInv /\ CounterExpires /\ [OtpNext]_otpVars => CounterExpires'
  <2> SUFFICES ASSUME OtpInv, CounterExpires, [OtpNext]_otpVars
               PROVE  CounterExpires'
    OBVIOUS
  <2> USE EmailOtpAssumption DEF CounterExpires, OtpInv, KeysOK, VisitsOK
  <2>1. ASSUME NEW v \in Visits, AskCode(v) PROVE CounterExpires'
    BY <2>1 DEF AskCode, Await, keys, otpPast
  <2>2. ASSUME NEW v \in Visits, SetCooldown(v) PROVE CounterExpires'
    BY <2>2 DEF SetCooldown, Await, otpPast
  <2>3. ASSUME NEW v \in Visits, CountRequest(v) PROVE CounterExpires'
    BY <2>3 DEF CountRequest, Await, Leave, otpPast
  <2>4. ASSUME NEW v \in Visits, SetCountTtl(v) PROVE CounterExpires'
    BY <2>4 DEF SetCountTtl, Await, otpPast
  <2>5. ASSUME NEW v \in Visits, StoreCode(v) PROVE CounterExpires'
    BY <2>5 DEF StoreCode, Leave, otpPast
  <2>6. ASSUME NEW v \in Visits, ReadCode(v) PROVE CounterExpires'
    BY <2>6 DEF ReadCode, keys
  <2>7. ASSUME NEW v \in Visits, ReadAttempts(v) PROVE CounterExpires'
    BY <2>7 DEF ReadAttempts, keys, otpPast
  <2>8. ASSUME NEW v \in Visits, CountWrong(v) PROVE CounterExpires'
    BY <2>8 DEF CountWrong, Await, Leave, otpPast
  <2>9. ASSUME NEW v \in Visits, ClearAttempts(v) PROVE CounterExpires'
    BY <2>9 DEF ClearAttempts, Leave, otpPast
  <2>10. ASSUME NEW v \in Visits, UseCode(v) PROVE CounterExpires'
    BY <2>10 DEF UseCode, Await, otpPast
  <2>11. ASSUME NEW v \in Visits, AcceptCode(v) PROVE CounterExpires'
    BY <2>11 DEF AcceptCode, Leave
  <2>12. ASSUME NEW v \in Visits, VisitDies(v) PROVE CounterExpires'
    BY <2>12 DEF VisitDies, Leave, keys, otpPast
  <2>13. CASE CodeExpires
    BY <2>13 DEF CodeExpires, visitVars, otpPast
  <2>14. CASE AttemptsExpire
    BY <2>14 DEF AttemptsExpire, visitVars, otpPast
  <2>15. CASE CooldownEnds
    BY <2>15 DEF CooldownEnds, visitVars, otpPast
  <2>16. CASE HourEnds
    BY <2>16 DEF HourEnds, visitVars, otpPast
  <2>17. CASE UNCHANGED otpVars
    BY <2>17 DEF otpVars, keys, visitVars, otpPast
  <2> QED BY <2>1, <2>2, <2>3, <2>4, <2>5, <2>6, <2>7, <2>8, <2>9, <2>10,
             <2>11, <2>12, <2>13, <2>14, <2>15, <2>16, <2>17, OtpCases
<1> QED BY <1>1, <1>2, OtpInvariant, LoginIsOtp, PTL DEF OtpSpec

-----------------------------------------------------------------------------
(* The sessions.                                                           *)

SessionsSpec == SessionsInit /\ [][SessionsStep]_sessionVars

LEMMA LoginIsSessions == Spec => SessionsSpec
<1>1. Init => SessionsInit
  BY DEF Init
<1>2. [Next]_vars => [SessionsStep]_sessionVars
  BY StepsApart
<1> QED BY <1>1, <1>2, PTL DEF Spec, SessionsSpec

\* What a step of the sessions is, action by action.
LEMMA SessionCases ==
    ASSUME [SessionsStep]_sessionVars
    PROVE
           \/ \E c \in Calls, s \in Sids : VerifyMfaCode(c, s)
           \/ \E c \in Calls, s \in Sids : VerifyRefreshToken(c, s)
           \/ \E c \in Calls, s \in Sids : Logout(c, s)
           \/ \E c \in Calls, s \in Sids, t \in Types : ConfirmMfaSetup(c, s, t)
           \/ \E c \in Calls, s \in Sids, t \in Types : RemoveMfa(c, s, t)
           \/ \E c \in Calls : CreateSession(c)
           \/ \E c \in Calls : GenerateTokens(c)
           \/ \E c \in Calls : WrongCode(c)
           \/ \E c \in Calls : RightCode(c)
           \/ \E c \in Calls : Refresh(c)
           \/ \E c \in Calls : ConfirmRead(c)
           \/ \E c \in Calls : ConfirmWrite(c)
           \/ \E c \in Calls : ConfirmToken(c)
           \/ \E c \in Calls : RemoveFromSession(c)
           \/ \E c \in Calls : RemoveFromUser(c)
           \/ \E c \in Calls : LogoutToken(c)
           \/ \E s \in Sids, t \in Types : Generate2FA(s, t)
           \/ \E w \in writing : Land(w)
           \/ \E s \in Sids : Expire(s)
           \/ Die
           \/ \E c \in Calls, s \in Sids : SocialLogin(c, s)
           \/ UNCHANGED sessionVars
BY DEF SessionsStep, SessionsNext

\* A request holds a copy of the session from when it has read it.
Holding == {"tokens", "verify", "refresh", "confirmed", "token", "remove",
            "removed"}

StoreOK == /\ sess \in [Sids -> Session \cup {Gone}]
           /\ refresh \subseteq Sids
           /\ access \subseteq Sids \X (1..MaxVersion)

UserOK == /\ authn \in Authenticators
          /\ writing \subseteq Authenticators
          /\ deaths \in 0..MaxDeaths

CallsOK == /\ at \in [Calls -> Labels]
           /\ sid \in [Calls -> Sids \cup {Gone}]
           /\ copy \in [Calls -> Session \cup {Gone}]
           /\ user \in [Calls -> Authenticators \cup {Gone}]

\* What each request has read by the await it is at.
Ready ==
    \A c \in Calls :
        /\ at[c] = "idle" <=> sid[c] = Gone
        /\ at[c] \in Holding => copy[c] \in Session
        /\ at[c] = "refresh" => copy[c].version < MaxVersion
        /\ at[c] = "verify" => Locked(copy[c])
        /\ at[c] \in {"create", "remove", "removed"} =>
               user[c] \in Authenticators

HistoryOK == h \in History

\* What CreateSession writes and how it goes on.
Creates(c, value) ==
    /\ value.version = 1 /\ value.wrong = 0 /\ ~value.verified
    /\ WriteSession(c, value)
    /\ \/ /\ value.required /\ Done(c)
          /\ h' = [h EXCEPT !.locked = @ \cup {sid[c]}]
       \/ ~value.required /\ h' = h /\ Goto(c, "tokens", value)

\* Every value that is written is a session.
LEMMA Updates ==
    ASSUME NEW x \in Session
    PROVE  /\ x.wrong # MaxWrong => [x EXCEPT !.wrong = @ + 1] \in Session
           /\ [x EXCEPT !.wrong = 0, !.verified = TRUE] \in Session
           /\ [x EXCEPT !.required = FALSE, !.verified = FALSE] \in Session
           /\ x.version < MaxVersion =>
                  [x EXCEPT !.version = @ + 1] \in Session
           /\ x.version # MaxVersion =>
                  LET y == [x EXCEPT !.required = TRUE, !.verified = TRUE,
                                     !.version = @ + 1]
                  IN  /\ y \in Session /\ y.verified
                      /\ y.version = x.version + 1
<1> USE SessionsAssumption DEF Session
<1>1. x.wrong # MaxWrong => x.wrong + 1 \in 0..MaxWrong
  OBVIOUS
<1>2. x.version # MaxVersion => x.version + 1 \in 1..MaxVersion
  OBVIOUS
<1>3. 0 \in 0..MaxWrong
  OBVIOUS
<1>4. x.wrong # MaxWrong => [x EXCEPT !.wrong = @ + 1] \in Session
  BY <1>1
<1>5. [x EXCEPT !.wrong = 0, !.verified = TRUE] \in Session
  BY <1>3
<1>6. [x EXCEPT !.required = FALSE, !.verified = FALSE] \in Session
  OBVIOUS
<1>7. x.version # MaxVersion => [x EXCEPT !.version = @ + 1] \in Session
  BY <1>2
<1>8. x.version # MaxVersion =>
          LET y == [x EXCEPT !.required = TRUE, !.verified = TRUE,
                             !.version = @ + 1]
          IN  /\ y \in Session /\ y.verified
              /\ y.version = x.version + 1
  BY <1>2
<1>9. x.version < MaxVersion => x.version # MaxVersion
  OBVIOUS
<1> QED BY <1>4, <1>5, <1>6, <1>7, <1>8, <1>9

LEMMA Created ==
    ASSUME NEW c \in Calls, CreateSession(c)
    PROVE  \E value \in Session : Creates(c, value)
<1> DEFINE required == \E t \in Types : user[c][t] = "active"
           value(r) == [version |-> 1, required |-> r, verified |-> FALSE,
                        wrong |-> 0]
<1>1. \A r \in BOOLEAN : value(r) \in Session
  BY SessionsAssumption DEF Session
<1>2. CASE required
  <2>1. /\ WriteSession(c, value(TRUE)) /\ Done(c)
        /\ h' = [h EXCEPT !.locked = @ \cup {sid[c]}]
    BY <1>2 DEF CreateSession
  <2> QED BY <1>1, <2>1 DEF Creates
<1>3. CASE ~required
  <2>1. /\ WriteSession(c, value(FALSE)) /\ h' = h
        /\ Goto(c, "tokens", value(FALSE))
    BY <1>3 DEF CreateSession
  <2> QED BY <1>1, <2>1 DEF Creates
<1> QED BY <1>2, <1>3

SessionsInv == StoreOK /\ UserOK /\ CallsOK /\ Ready /\ HistoryOK

LEMMA OverlapOK ==
    ASSUME NEW x \in History, NEW s \in Sids
    PROVE  [x EXCEPT !.overlapped = @ \cup {s}] \in History
BY DEF History

LEMMA ForgetOK ==
    ASSUME NEW x \in History, NEW t, NEW b \in BOOLEAN
    PROVE  [x EXCEPT !.told = @ \ {t}, !.mixed = b] \in History
BY DEF History

LEMMA ConfirmOK ==
    ASSUME NEW x \in History, NEW t \in Types, NEW b \in BOOLEAN,
           NEW s \in Sids
    PROVE  [x EXCEPT !.told = @ \cup {t}, !.mixed = b, !.passed = @ \cup {s}]
               \in History
BY DEF History

\* A request that starts adds at most an overlap to the history it is given.
LEMMA StartOK ==
    ASSUME NEW c, NEW label, NEW s \in Sids, NEW value, NEW u,
           NEW past \in History, Start(c, label, s, value, u, past)
    PROVE  h' \in History
BY OverlapOK DEF Start

\* A request that goes on holds a session, and is at one of the awaits.
LEMMA GotoOK ==
    ASSUME CallsOK, NEW c \in Calls, NEW label \in Labels,
           NEW value \in Session \cup {Gone}, Goto(c, label, value)
    PROVE  CallsOK'
BY DEF CallsOK, Goto

\* The session that a confirmation goes on with has its second factor.
LEMMA ConfirmReads ==
    ASSUME StoreOK, CallsOK, NEW c \in Calls, sid[c] \in Sids, ConfirmRead(c)
    PROVE  \/ Done(c)
           \/ \E value \in Session :
                 value.verified /\ Goto(c, "confirmed", value)
<1> DEFINE old == sess[sid[c]]
           next == [old EXCEPT !.required = TRUE, !.verified = TRUE,
                               !.version = @ + 1]
<1>1. \/ Done(c)
      \/ /\ old # Gone /\ old.version # MaxVersion
         /\ Goto(c, "confirmed", next)
  BY DEF ConfirmRead
<1>2. old \in Session \cup {Gone}
  BY DEF StoreOK
<1> HIDE DEF old
<1>3. old # Gone /\ old.version # MaxVersion
          => next \in Session /\ next.verified
  BY <1>2, Updates
<1> HIDE DEF next
<1> QED BY <1>1, <1>3

LEMMA SessionsInvStep ==
    ASSUME SessionsInv, [SessionsStep]_sessionVars
    PROVE  SessionsInv'
<1> USE SessionsAssumption
    DEF SessionsInv, StoreOK, UserOK, CallsOK, Ready, HistoryOK, Session,
        Authenticators, Labels, Holding, Locked, History
<1>1. ASSUME NEW c \in Calls, NEW s \in Sids, VerifyMfaCode(c, s)
     PROVE  SessionsInv'
  <2>1. StoreOK'
    BY <1>1 DEF VerifyMfaCode, Start, store
  <2>2. UserOK'
    BY <1>1 DEF VerifyMfaCode, Start, store
  <2>3. CallsOK'
    BY <1>1 DEF VerifyMfaCode, Start, store
  <2>4. Ready'
    BY <1>1 DEF VerifyMfaCode, Start, store
  <2>5. HistoryOK'
    <3> HIDE DEF History
    <3> QED BY <1>1, StartOK DEF VerifyMfaCode
  <2> QED BY <2>1, <2>2, <2>3, <2>4, <2>5 DEF SessionsInv
<1>2. ASSUME NEW c \in Calls, NEW s \in Sids, VerifyRefreshToken(c, s)
     PROVE  SessionsInv'
  <2>1. StoreOK'
    BY <1>2 DEF VerifyRefreshToken, Start, store
  <2>2. UserOK'
    BY <1>2 DEF VerifyRefreshToken, Start, store
  <2>3. CallsOK'
    BY <1>2 DEF VerifyRefreshToken, Start, store
  <2>4. Ready'
    BY <1>2 DEF VerifyRefreshToken, Start, store
  <2>5. HistoryOK'
    <3> HIDE DEF History
    <3> QED BY <1>2, StartOK DEF VerifyRefreshToken
  <2> QED BY <2>1, <2>2, <2>3, <2>4, <2>5 DEF SessionsInv
<1>3. ASSUME NEW c \in Calls, NEW s \in Sids, Logout(c, s)
     PROVE  SessionsInv'
  <2>1. StoreOK'
    BY <1>3 DEF Logout, Start, Admitted
  <2>2. UserOK'
    BY <1>3 DEF Logout, Start, Admitted
  <2>3. CallsOK'
    BY <1>3 DEF Logout, Start, Admitted
  <2>4. Ready'
    BY <1>3 DEF Logout, Start, Admitted
  <2>5. HistoryOK'
    <3>1. [h EXCEPT !.closed = @ \cup {s}] \in History
      OBVIOUS
    <3> HIDE DEF History
    <3> QED BY <1>3, <3>1, StartOK DEF Logout
  <2> QED BY <2>1, <2>2, <2>3, <2>4, <2>5 DEF SessionsInv
<1>4. ASSUME NEW c \in Calls, NEW s \in Sids, NEW t \in Types,
        ConfirmMfaSetup(c, s, t)
     PROVE  SessionsInv'
  <2>1. StoreOK'
    BY <1>4 DEF ConfirmMfaSetup, Start, store, Admitted
  <2>2. UserOK'
    BY <1>4 DEF ConfirmMfaSetup, Start, store, Admitted
  <2>3. CallsOK'
    BY <1>4 DEF ConfirmMfaSetup, Start, store, Admitted
  <2>4. Ready'
    BY <1>4 DEF ConfirmMfaSetup, Start, store, Admitted
  <2>5. HistoryOK'
    <3>1. PICK b \in BOOLEAN : b = (h.mixed \/ Updating)
      <4>1. CASE h.mixed \/ Updating
        BY <4>1
      <4>2. CASE ~(h.mixed \/ Updating)
        BY <4>2
      <4> QED BY <4>1, <4>2
    <3>2. [h EXCEPT !.told = @ \cup {t}, !.mixed = b, !.passed = @ \cup {s}]
              \in History
      <4> HIDE DEF History
      <4> QED BY ConfirmOK
    <3> HIDE DEF History
    <3> QED BY <1>4, <3>1, <3>2, StartOK DEF ConfirmMfaSetup
  <2> QED BY <2>1, <2>2, <2>3, <2>4, <2>5 DEF SessionsInv
<1>5. ASSUME NEW c \in Calls, NEW s \in Sids, NEW t \in Types, RemoveMfa(c,
        s, t)
     PROVE  SessionsInv'
  <2>1. StoreOK'
    BY <1>5 DEF RemoveMfa, Start, store, Admitted
  <2>2. UserOK'
    BY <1>5 DEF RemoveMfa, Start, store, Admitted
  <2>3. CallsOK'
    BY <1>5 DEF RemoveMfa, Start, store, Admitted
  <2>4. Ready'
    BY <1>5 DEF RemoveMfa, Start, store, Admitted
  <2>5. HistoryOK'
    <3>1. PICK b \in BOOLEAN : b = (h.mixed \/ Updating)
      <4>1. CASE h.mixed \/ Updating
        BY <4>1
      <4>2. CASE ~(h.mixed \/ Updating)
        BY <4>2
      <4> QED BY <4>1, <4>2
    <3>2. [h EXCEPT !.told = @ \ {t}, !.mixed = b] \in History
      <4> HIDE DEF History
      <4> QED BY ForgetOK
    <3> HIDE DEF History
    <3> QED BY <1>5, <3>1, <3>2, StartOK DEF RemoveMfa
  <2> QED BY <2>1, <2>2, <2>3, <2>4, <2>5 DEF SessionsInv
<1>6. ASSUME NEW c \in Calls, CreateSession(c)
     PROVE  SessionsInv'
  <2>1. StoreOK'
    <3>1. PICK value \in Session : Creates(c, value)
      BY <1>6, Created
    <3> QED BY <1>6, <3>1 DEF CreateSession, Creates, WriteSession, Goto, Done
  <2>2. UserOK'
    BY <1>6 DEF CreateSession, WriteSession, Goto, Done
  <2>3. CallsOK'
    <3>1. PICK value \in Session : Creates(c, value)
      BY <1>6, Created
    <3>2. CASE Done(c)
      BY <3>2 DEF Done
    <3>3. CASE Goto(c, "tokens", value)
      <4> HIDE DEF Session
      <4> QED BY <3>3 DEF Goto
    <3> QED BY <3>1, <3>2, <3>3 DEF Creates
  <2>4. Ready'
    <3>1. PICK value \in Session : Creates(c, value)
      BY <1>6, Created
    <3> QED BY <1>6, <3>1 DEF CreateSession, Creates, WriteSession, Goto, Done
  <2>5. HistoryOK'
    <3>1. PICK value \in Session : Creates(c, value)
      BY <1>6, Created
    <3>2. h' \in {h, [h EXCEPT !.locked = @ \cup {sid[c]}]}
      BY <3>1 DEF Creates
    <3>3. sid[c] \in Sids
      BY <1>6 DEF CreateSession
    <3> QED BY <3>2, <3>3
  <2> QED BY <2>1, <2>2, <2>3, <2>4, <2>5 DEF SessionsInv
<1>7. ASSUME NEW c \in Calls, GenerateTokens(c)
     PROVE  SessionsInv'
  <2>1. StoreOK'
    BY <1>7 DEF GenerateTokens, Answer, Done
  <2>2. UserOK'
    BY <1>7 DEF GenerateTokens, Answer, Done
  <2>3. CallsOK'
    BY <1>7 DEF GenerateTokens, Answer, Done
  <2>4. Ready'
    BY <1>7 DEF GenerateTokens, Answer, Done
  <2>5. HistoryOK'
    BY <1>7 DEF GenerateTokens, Answer, Done
  <2> QED BY <2>1, <2>2, <2>3, <2>4, <2>5 DEF SessionsInv
<1>8. ASSUME NEW c \in Calls, WrongCode(c)
     PROVE  SessionsInv'
  <2>1. StoreOK'
    <3>1. copy[c] \in Session /\ sid[c] \in Sids
      BY <1>8 DEF WrongCode
    <3>2. copy[c].wrong # MaxWrong =>
              [copy[c] EXCEPT !.wrong = @ + 1] \in Session
      BY <3>1, Updates
    <3> QED BY <1>8, <3>1, <3>2 DEF WrongCode, WriteSession
  <2>2. UserOK'
    BY <1>8 DEF WrongCode, WriteSession, Done
  <2>3. CallsOK'
    BY <1>8 DEF WrongCode, WriteSession, Done
  <2>4. Ready'
    BY <1>8 DEF WrongCode, WriteSession, Done
  <2>5. HistoryOK'
    <3>1. sid[c] \in Sids
      BY <1>8 DEF WrongCode
    <3>2. [h.wrong EXCEPT ![sid[c]] = @ + 1] \in [Sids -> Nat]
      BY <3>1, OneMore
    <3>3. h' = [h EXCEPT !.wrong = [h.wrong EXCEPT ![sid[c]] = @ + 1]]
      BY <1>8 DEF WrongCode
    <3> QED BY <3>2, <3>3
  <2> QED BY <2>1, <2>2, <2>3, <2>4, <2>5 DEF SessionsInv
<1>9. ASSUME NEW c \in Calls, RightCode(c)
     PROVE  SessionsInv'
  <2>1. StoreOK'
    <3> DEFINE value == [copy[c] EXCEPT !.wrong = 0, !.verified = TRUE]
    <3>1. copy[c] \in Session /\ sid[c] \in Sids
      BY <1>9 DEF RightCode
    <3>2. value \in Session
      BY <3>1, Updates
    <3> HIDE DEF value
    <3> QED BY <1>9, <3>1, <3>2 DEF RightCode, WriteSession, value
  <2>2. UserOK'
    BY <1>9 DEF RightCode, WriteSession, Goto
  <2>3. CallsOK'
    <3> DEFINE value == [copy[c] EXCEPT !.wrong = 0, !.verified = TRUE]
    <3>1. copy[c] \in Session /\ sid[c] \in Sids
      BY <1>9 DEF RightCode
    <3>2. value \in Session
      BY <3>1, Updates
    <3> HIDE DEF value
    <3> QED BY <1>9, <3>1, <3>2 DEF RightCode, Goto, value
  <2>4. Ready'
    <3> DEFINE value == [copy[c] EXCEPT !.wrong = 0, !.verified = TRUE]
    <3>1. copy[c] \in Session /\ sid[c] \in Sids
      BY <1>9 DEF RightCode
    <3>2. value \in Session
      BY <3>1, Updates
    <3> HIDE DEF value
    <3> QED BY <1>9, <3>1, <3>2 DEF RightCode, Goto, value
  <2>5. HistoryOK'
    BY <1>9 DEF RightCode, WriteSession, Goto
  <2> QED BY <2>1, <2>2, <2>3, <2>4, <2>5 DEF SessionsInv
<1>10. ASSUME NEW c \in Calls, Refresh(c)
     PROVE  SessionsInv'
  <2>1. StoreOK'
    BY <1>10 DEF Refresh, WriteSession, Goto
  <2>2. UserOK'
    BY <1>10 DEF Refresh, WriteSession, Goto
  <2>3. CallsOK'
    BY <1>10 DEF Refresh, WriteSession, Goto
  <2>4. Ready'
    BY <1>10 DEF Refresh, WriteSession, Goto
  <2>5. HistoryOK'
    BY <1>10 DEF Refresh, WriteSession, Goto
  <2> QED BY <2>1, <2>2, <2>3, <2>4, <2>5 DEF SessionsInv
<1>11. ASSUME NEW c \in Calls, ConfirmRead(c)
     PROVE  SessionsInv'
  <2>1. StoreOK'
    BY <1>11 DEF ConfirmRead, Goto, Done, store
  <2>2. UserOK'
    BY <1>11 DEF ConfirmRead, Goto, Done, store
  <2>a. sid[c] \in Sids /\ StoreOK /\ CallsOK
    BY <1>11 DEF ConfirmRead
  <2>b. \/ Done(c)
        \/ \E value \in Session :
              value.verified /\ Goto(c, "confirmed", value)
    <3> HIDE DEF SessionsInv, StoreOK, CallsOK, Ready, HistoryOK, Session
    <3> QED BY <1>11, <2>a, ConfirmReads
  <2>3. CallsOK'
    <3>1. CASE Done(c)
      BY <3>1 DEF Done
    <3>2. ASSUME NEW value \in Session, Goto(c, "confirmed", value)
          PROVE  CallsOK'
      <4>1. "confirmed" \in Labels
        BY DEF Labels
      <4> HIDE DEF SessionsInv, StoreOK, CallsOK, Ready, HistoryOK, Session,
                   Labels
      <4> QED BY <2>a, <3>2, <4>1, GotoOK
    <3> QED BY <2>b, <3>1, <3>2
  <2>4. Ready'
    <3>1. CASE Done(c)
      BY <3>1 DEF Done
    <3>2. ASSUME NEW value \in Session, value.verified,
                 Goto(c, "confirmed", value)
          PROVE  Ready'
      <4> HIDE DEF Session
      <4> QED BY <2>a, <3>2 DEF Goto
    <3> QED BY <2>b, <3>1, <3>2
  <2>5. HistoryOK'
    BY <1>11 DEF ConfirmRead, Goto, Done, store
  <2> QED BY <2>1, <2>2, <2>3, <2>4, <2>5 DEF SessionsInv
<1>12. ASSUME NEW c \in Calls, ConfirmWrite(c)
     PROVE  SessionsInv'
  <2>1. StoreOK'
    BY <1>12 DEF ConfirmWrite, WriteSession, Goto
  <2>2. UserOK'
    BY <1>12 DEF ConfirmWrite, WriteSession, Goto
  <2>3. CallsOK'
    BY <1>12 DEF ConfirmWrite, WriteSession, Goto
  <2>4. Ready'
    BY <1>12 DEF ConfirmWrite, WriteSession, Goto
  <2>5. HistoryOK'
    BY <1>12 DEF ConfirmWrite, WriteSession, Goto
  <2> QED BY <2>1, <2>2, <2>3, <2>4, <2>5 DEF SessionsInv
<1>13. ASSUME NEW c \in Calls, ConfirmToken(c)
     PROVE  SessionsInv'
  <2>1. StoreOK'
    BY <1>13 DEF ConfirmToken, AnswerRefresh, Done
  <2>2. UserOK'
    BY <1>13 DEF ConfirmToken, AnswerRefresh, Done
  <2>3. CallsOK'
    BY <1>13 DEF ConfirmToken, AnswerRefresh, Done
  <2>4. Ready'
    BY <1>13 DEF ConfirmToken, AnswerRefresh, Done
  <2>5. HistoryOK'
    BY <1>13 DEF ConfirmToken, AnswerRefresh, Done
  <2> QED BY <2>1, <2>2, <2>3, <2>4, <2>5 DEF SessionsInv
<1>14. ASSUME NEW c \in Calls, RemoveFromSession(c)
     PROVE  SessionsInv'
  <2>1. StoreOK'
    <3>1. copy[c] \in Session /\ sid[c] \in Sids
      BY <1>14 DEF RemoveFromSession
    <3>2. [copy[c] EXCEPT !.required = FALSE, !.verified = FALSE] \in Session
      BY <3>1, Updates
    <3> QED BY <1>14, <3>1, <3>2 DEF RemoveFromSession, WriteSession
  <2>2. UserOK'
    BY <1>14 DEF RemoveFromSession, WriteSession, Goto
  <2>3. CallsOK'
    BY <1>14 DEF RemoveFromSession, WriteSession, Goto
  <2>4. Ready'
    BY <1>14 DEF RemoveFromSession, WriteSession, Goto
  <2>5. HistoryOK'
    BY <1>14 DEF RemoveFromSession, WriteSession, Goto
  <2> QED BY <2>1, <2>2, <2>3, <2>4, <2>5 DEF SessionsInv
<1>15. ASSUME NEW c \in Calls, RemoveFromUser(c)
     PROVE  SessionsInv'
  <2>1. StoreOK'
    BY <1>15 DEF RemoveFromUser, Done, store
  <2>2. UserOK'
    BY <1>15 DEF RemoveFromUser, Done, store
  <2>3. CallsOK'
    BY <1>15 DEF RemoveFromUser, Done, store
  <2>4. Ready'
    BY <1>15 DEF RemoveFromUser, Done, store
  <2>5. HistoryOK'
    BY <1>15 DEF RemoveFromUser, Done, store
  <2> QED BY <2>1, <2>2, <2>3, <2>4, <2>5 DEF SessionsInv
<1>16. ASSUME NEW c \in Calls, LogoutToken(c)
     PROVE  SessionsInv'
  <2>1. StoreOK'
    BY <1>16 DEF LogoutToken, Forget, Done
  <2>2. UserOK'
    BY <1>16 DEF LogoutToken, Forget, Done
  <2>3. CallsOK'
    BY <1>16 DEF LogoutToken, Forget, Done
  <2>4. Ready'
    BY <1>16 DEF LogoutToken, Forget, Done
  <2>5. HistoryOK'
    BY <1>16 DEF LogoutToken, Forget, Done
  <2> QED BY <2>1, <2>2, <2>3, <2>4, <2>5 DEF SessionsInv
<1>17. ASSUME NEW s \in Sids, NEW t \in Types, Generate2FA(s, t)
     PROVE  SessionsInv'
  <2>1. StoreOK'
    BY <1>17 DEF Generate2FA, store, local
  <2>2. UserOK'
    BY <1>17 DEF Generate2FA, store, local
  <2>3. CallsOK'
    BY <1>17 DEF Generate2FA, store, local
  <2>4. Ready'
    BY <1>17 DEF Generate2FA, store, local
  <2>5. HistoryOK'
    BY <1>17 DEF Generate2FA, store, local
  <2> QED BY <2>1, <2>2, <2>3, <2>4, <2>5 DEF SessionsInv
<1>18. ASSUME NEW w \in writing, Land(w)
     PROVE  SessionsInv'
  <2>1. StoreOK'
    BY <1>18 DEF Land, store, local
  <2>2. UserOK'
    BY <1>18 DEF Land, store, local
  <2>3. CallsOK'
    BY <1>18 DEF Land, store, local
  <2>4. Ready'
    BY <1>18 DEF Land, store, local
  <2>5. HistoryOK'
    BY <1>18 DEF Land, store, local
  <2> QED BY <2>1, <2>2, <2>3, <2>4, <2>5 DEF SessionsInv
<1>19. ASSUME NEW s \in Sids, Expire(s)
     PROVE  SessionsInv'
  <2>1. StoreOK'
    BY <1>19 DEF Expire, local
  <2>2. UserOK'
    BY <1>19 DEF Expire, local
  <2>3. CallsOK'
    BY <1>19 DEF Expire, local
  <2>4. Ready'
    BY <1>19 DEF Expire, local
  <2>5. HistoryOK'
    BY <1>19 DEF Expire, local
  <2> QED BY <2>1, <2>2, <2>3, <2>4, <2>5 DEF SessionsInv
<1>20. CASE Die
  <2>1. StoreOK'
    BY <1>20 DEF Die, Done, store, local
  <2>2. UserOK'
    BY <1>20 DEF Die, Done, store, local
  <2>3. CallsOK'
    <3>1. CASE \E c \in Calls : Done(c)
      BY <3>1 DEF Done
    <3>2. CASE UNCHANGED local
      BY <3>2 DEF local
    <3> QED BY <1>20, <3>1, <3>2 DEF Die
  <2>4. Ready'
    <3>1. CASE \E c \in Calls : Done(c)
      BY <3>1 DEF Done
    <3>2. CASE UNCHANGED local
      BY <3>2 DEF local
    <3> QED BY <1>20, <3>1, <3>2 DEF Die
  <2>5. HistoryOK'
    BY <1>20 DEF Die, Done, store, local
  <2> QED BY <2>1, <2>2, <2>3, <2>4, <2>5 DEF SessionsInv
<1>21. ASSUME NEW c \in Calls, NEW s \in Sids, SocialLogin(c, s)
     PROVE  SessionsInv'
  <2>1. StoreOK'
    BY <1>21 DEF SocialLogin, Start, store, Used
  <2>2. UserOK'
    BY <1>21 DEF SocialLogin, Start, store, Used
  <2>3. CallsOK'
    BY <1>21 DEF SocialLogin, Start, store, Used
  <2>4. Ready'
    BY <1>21 DEF SocialLogin, Start, store, Used
  <2>5. HistoryOK'
    BY <1>21 DEF SocialLogin, Start, store, Used
  <2> QED BY <2>1, <2>2, <2>3, <2>4, <2>5 DEF SessionsInv
<1>22. CASE UNCHANGED sessionVars
  BY <1>22 DEF sessionVars, store, local
<1> QED BY <1>1, <1>2, <1>3, <1>4, <1>5, <1>6, <1>7, <1>8, <1>9, <1>10, <1>11,
           <1>12, <1>13, <1>14, <1>15, <1>16, <1>17, <1>18, <1>19, <1>20,
           <1>21, <1>22, SessionCases

LEMMA SessionsInvariant == SessionsSpec => []SessionsInv
<1>1. SessionsInit => SessionsInv
  <2> SUFFICES ASSUME SessionsInit PROVE SessionsInv
    OBVIOUS
  <2> USE SessionsAssumption DEF SessionsInit
  <2>1. StoreOK
    BY DEF StoreOK
  <2>2. UserOK
    BY DEF UserOK, Authenticators
  <2>3. CallsOK
    BY DEF CallsOK, Labels
  <2>4. Ready
    BY DEF Ready, Holding
  <2>5. HistoryOK
    BY DEF HistoryOK, History
  <2> QED BY <2>1, <2>2, <2>3, <2>4, <2>5 DEF SessionsInv
<1> QED BY <1>1, SessionsInvStep, PTL DEF SessionsSpec

\* Every variable of the codes and of the sessions keeps its type.
THEOREM TypeCorrect == Spec => [](OtpTypeOK /\ SessionsTypeOK)
<1>1. OtpInv => OtpTypeOK
  BY EmailOtpAssumption
     DEF OtpInv, KeysOK, FlagsOK, VisitsOK, PastOK, OtpTypeOK
<1>2. SessionsInv => SessionsTypeOK
  BY DEF SessionsInv, StoreOK, UserOK, CallsOK, HistoryOK, SessionsTypeOK
<1> QED BY <1>1, <1>2, OtpInvariant, LoginIsOtp, SessionsInvariant,
           LoginIsSessions, PTL

-----------------------------------------------------------------------------
(* The second factor.                                                      *)

\* A session that is about to be created is nobody's yet.
Fresh ==
    \A c \in Calls : at[c] = "create" =>
        /\ sess[sid[c]] = Gone
        /\ sid[c] \notin h.locked \cup h.closed \cup refresh
        /\ \A v \in 1..MaxVersion : <<sid[c], v>> \notin access
        /\ \A d \in Calls : sid[d] = sid[c] => d = c

\* Where the second factor is missing there are no tokens, and only requests
\* that check codes.
Shut ==
    \A s \in h.locked \ h.passed :
        /\ s \notin refresh
        /\ \A v \in 1..MaxVersion : <<s, v>> \notin access
        /\ sess[s] # Gone => Locked(sess[s])
        /\ \A c \in Calls : sid[c] = s => at[c] = "verify"

LockInv == Fresh /\ Shut

LEMMA LockInvStep ==
    ASSUME SessionsInv, LockInv, [SessionsStep]_sessionVars
    PROVE  LockInv'
<1> USE SessionsAssumption DEF SessionsInv, StoreOK, CallsOK, Ready,
           HistoryOK, Session, Labels, Holding, Locked, History, LockInv,
           Fresh, Shut
<1>1. ASSUME NEW c \in Calls, NEW s \in Sids, VerifyMfaCode(c, s)
     PROVE  LockInv'
  <2>1. Fresh'
    BY <1>1 DEF VerifyMfaCode, Start, store
  <2>2. Shut'
    BY <1>1 DEF VerifyMfaCode, Start, store
  <2> QED BY <2>1, <2>2 DEF LockInv
<1>2. ASSUME NEW c \in Calls, NEW s \in Sids, VerifyRefreshToken(c, s)
     PROVE  LockInv'
  <2>1. Fresh'
    BY <1>2 DEF VerifyRefreshToken, Start, store
  <2>2. Shut'
    BY <1>2 DEF VerifyRefreshToken, Start, store
  <2> QED BY <2>1, <2>2 DEF LockInv
<1>3. ASSUME NEW c \in Calls, NEW s \in Sids, Logout(c, s)
     PROVE  LockInv'
  <2>1. Fresh'
    BY <1>3 DEF Logout, Start, Admitted
  <2>2. Shut'
    BY <1>3 DEF Logout, Start, Admitted
  <2> QED BY <2>1, <2>2 DEF LockInv
<1>4. ASSUME NEW c \in Calls, NEW s \in Sids, NEW t \in Types,
        ConfirmMfaSetup(c, s, t)
     PROVE  LockInv'
  <2>1. Fresh'
    BY <1>4 DEF ConfirmMfaSetup, Start, store, Admitted
  <2>2. Shut'
    BY <1>4 DEF ConfirmMfaSetup, Start, store, Admitted
  <2> QED BY <2>1, <2>2 DEF LockInv
<1>5. ASSUME NEW c \in Calls, NEW s \in Sids, NEW t \in Types, RemoveMfa(c,
        s, t)
     PROVE  LockInv'
  <2>1. Fresh'
    BY <1>5 DEF RemoveMfa, Start, store, Admitted
  <2>2. Shut'
    BY <1>5 DEF RemoveMfa, Start, store, Admitted
  <2> QED BY <2>1, <2>2 DEF LockInv
<1>6. ASSUME NEW c \in Calls, CreateSession(c)
     PROVE  LockInv'
  <2>1. Fresh'
    <3>1. PICK value \in Session : Creates(c, value)
      BY <1>6, Created
    <3> QED BY <1>6, <3>1 DEF CreateSession, Creates, WriteSession, Goto, Done
  <2>2. Shut'
    <3>1. PICK value \in Session : Creates(c, value)
      BY <1>6, Created
    <3> QED BY <1>6, <3>1 DEF CreateSession, Creates, WriteSession, Goto, Done
  <2> QED BY <2>1, <2>2 DEF LockInv
<1>7. ASSUME NEW c \in Calls, GenerateTokens(c)
     PROVE  LockInv'
  <2>1. Fresh'
    BY <1>7 DEF GenerateTokens, Answer, Done
  <2>2. Shut'
    BY <1>7 DEF GenerateTokens, Answer, Done
  <2> QED BY <2>1, <2>2 DEF LockInv
<1>8. ASSUME NEW c \in Calls, WrongCode(c)
     PROVE  LockInv'
  <2>1. Fresh'
    BY <1>8 DEF WrongCode, WriteSession, Done
  <2>2. Shut'
    BY <1>8 DEF WrongCode, WriteSession, Done
  <2> QED BY <2>1, <2>2 DEF LockInv
<1>9. ASSUME NEW c \in Calls, RightCode(c)
     PROVE  LockInv'
  <2>1. Fresh'
    BY <1>9 DEF RightCode, WriteSession, Goto
  <2>2. Shut'
    BY <1>9 DEF RightCode, WriteSession, Goto
  <2> QED BY <2>1, <2>2 DEF LockInv
<1>10. ASSUME NEW c \in Calls, Refresh(c)
     PROVE  LockInv'
  <2>1. Fresh'
    BY <1>10 DEF Refresh, WriteSession, Goto
  <2>2. Shut'
    BY <1>10 DEF Refresh, WriteSession, Goto
  <2> QED BY <2>1, <2>2 DEF LockInv
<1>11. ASSUME NEW c \in Calls, ConfirmRead(c)
     PROVE  LockInv'
  <2>1. Fresh'
    BY <1>11 DEF ConfirmRead, Goto, Done, store
  <2>2. Shut'
    BY <1>11 DEF ConfirmRead, Goto, Done, store
  <2> QED BY <2>1, <2>2 DEF LockInv
<1>12. ASSUME NEW c \in Calls, ConfirmWrite(c)
     PROVE  LockInv'
  <2>1. Fresh'
    BY <1>12 DEF ConfirmWrite, WriteSession, Goto
  <2>2. Shut'
    BY <1>12 DEF ConfirmWrite, WriteSession, Goto
  <2> QED BY <2>1, <2>2 DEF LockInv
<1>13. ASSUME NEW c \in Calls, ConfirmToken(c)
     PROVE  LockInv'
  <2>1. Fresh'
    BY <1>13 DEF ConfirmToken, AnswerRefresh, Done
  <2>2. Shut'
    BY <1>13 DEF ConfirmToken, AnswerRefresh, Done
  <2> QED BY <2>1, <2>2 DEF LockInv
<1>14. ASSUME NEW c \in Calls, RemoveFromSession(c)
     PROVE  LockInv'
  <2>1. Fresh'
    BY <1>14 DEF RemoveFromSession, WriteSession, Goto
  <2>2. Shut'
    BY <1>14 DEF RemoveFromSession, WriteSession, Goto
  <2> QED BY <2>1, <2>2 DEF LockInv
<1>15. ASSUME NEW c \in Calls, RemoveFromUser(c)
     PROVE  LockInv'
  <2>1. Fresh'
    BY <1>15 DEF RemoveFromUser, Done, store
  <2>2. Shut'
    BY <1>15 DEF RemoveFromUser, Done, store
  <2> QED BY <2>1, <2>2 DEF LockInv
<1>16. ASSUME NEW c \in Calls, LogoutToken(c)
     PROVE  LockInv'
  <2>1. Fresh'
    BY <1>16 DEF LogoutToken, Forget, Done
  <2>2. Shut'
    BY <1>16 DEF LogoutToken, Forget, Done
  <2> QED BY <2>1, <2>2 DEF LockInv
<1>17. ASSUME NEW s \in Sids, NEW t \in Types, Generate2FA(s, t)
     PROVE  LockInv'
  <2>1. Fresh'
    BY <1>17 DEF Generate2FA, store, local
  <2>2. Shut'
    BY <1>17 DEF Generate2FA, store, local
  <2> QED BY <2>1, <2>2 DEF LockInv
<1>18. ASSUME NEW w \in writing, Land(w)
     PROVE  LockInv'
  <2>1. Fresh'
    BY <1>18 DEF Land, store, local
  <2>2. Shut'
    BY <1>18 DEF Land, store, local
  <2> QED BY <2>1, <2>2 DEF LockInv
<1>19. ASSUME NEW s \in Sids, Expire(s)
     PROVE  LockInv'
  <2>1. Fresh'
    BY <1>19 DEF Expire, local
  <2>2. Shut'
    BY <1>19 DEF Expire, local
  <2> QED BY <2>1, <2>2 DEF LockInv
<1>20. CASE Die
  <2>1. Fresh'
    BY <1>20 DEF Die, Done, store, local
  <2>2. Shut'
    BY <1>20 DEF Die, Done, store, local
  <2> QED BY <2>1, <2>2 DEF LockInv
<1>21. ASSUME NEW c \in Calls, NEW s \in Sids, SocialLogin(c, s)
     PROVE  LockInv'
  <2>1. Fresh'
    <3>1. /\ sess[s] = Gone /\ s \notin h.locked \cup h.closed \cup refresh
          /\ \A d \in Calls : sid[d] # s
          /\ \A v \in 1..MaxVersion : <<s, v>> \notin access
      BY <1>21 DEF SocialLogin, Used
    <3>2. /\ h'.locked = h.locked /\ h'.closed = h.closed
          /\ UNCHANGED <<sess, refresh, access>>
      BY <1>21 DEF SocialLogin, Start, store
    <3>3. /\ sid'[c] = s /\ at'[c] = "create"
          /\ \A d \in Calls \ {c} : sid'[d] = sid[d] /\ at'[d] = at[d]
      BY <1>21 DEF SocialLogin, Start
    <3>4. at[c] = "idle"
      BY <1>21 DEF SocialLogin, Start
    <3> QED BY <3>1, <3>2, <3>3, <3>4
  <2>2. Shut'
    BY <1>21 DEF SocialLogin, Start, store, Used
  <2> QED BY <2>1, <2>2 DEF LockInv
<1>22. CASE UNCHANGED sessionVars
  BY <1>22 DEF sessionVars, store, local
<1> QED BY <1>1, <1>2, <1>3, <1>4, <1>5, <1>6, <1>7, <1>8, <1>9, <1>10, <1>11,
           <1>12, <1>13, <1>14, <1>15, <1>16, <1>17, <1>18, <1>19, <1>20,
           <1>21, <1>22, SessionCases

LEMMA LockInvariant == SessionsSpec => []LockInv
<1>1. SessionsInit => LockInv
  BY SessionsAssumption DEF SessionsInit, LockInv, Fresh, Shut
<1> QED BY <1>1, LockInvStep, SessionsInvariant, PTL DEF SessionsSpec

\* A session created for a user with a second factor gives out no token and
\* admits no request before a right code was entered in it.
THEOREM SecondFactorHolds == Spec => []SecondFactor
<1>1. LockInv => SecondFactor
  BY DEF LockInv, Shut, SecondFactor
<1> QED BY <1>1, LockInvariant, LoginIsSessions, PTL

-----------------------------------------------------------------------------
(* Logout.                                                                 *)

\* A session that was closed stays deleted, and no request goes on that could
\* write it.
CloseInv ==
    \A s \in h.closed \ h.overlapped :
        /\ sess[s] = Gone
        /\ \A c \in Calls : sid[c] = s => at[c] = "logout"

LEMMA CloseInvStep ==
    ASSUME SessionsInv, CloseInv, [SessionsStep]_sessionVars
    PROVE  CloseInv'
<1> USE SessionsAssumption DEF SessionsInv, StoreOK, CallsOK, Ready,
        HistoryOK, Session, Labels, Holding, History, CloseInv
<1>1. ASSUME NEW c \in Calls, NEW s \in Sids, VerifyMfaCode(c, s)
     PROVE  CloseInv'
  BY <1>1 DEF VerifyMfaCode, Start, store
<1>2. ASSUME NEW c \in Calls, NEW s \in Sids, VerifyRefreshToken(c, s)
     PROVE  CloseInv'
  BY <1>2 DEF VerifyRefreshToken, Start, store
<1>3. ASSUME NEW c \in Calls, NEW s \in Sids, Logout(c, s)
     PROVE  CloseInv'
  BY <1>3 DEF Logout, Start, Admitted
<1>4. ASSUME NEW c \in Calls, NEW s \in Sids, NEW t \in Types,
        ConfirmMfaSetup(c, s, t)
     PROVE  CloseInv'
  BY <1>4 DEF ConfirmMfaSetup, Start, store, Admitted
<1>5. ASSUME NEW c \in Calls, NEW s \in Sids, NEW t \in Types, RemoveMfa(c,
        s, t)
     PROVE  CloseInv'
  BY <1>5 DEF RemoveMfa, Start, store, Admitted
<1>6. ASSUME NEW c \in Calls, CreateSession(c)
     PROVE  CloseInv'
  BY <1>6 DEF CreateSession, WriteSession, Goto, Done
<1>7. ASSUME NEW c \in Calls, GenerateTokens(c)
     PROVE  CloseInv'
  BY <1>7 DEF GenerateTokens, Answer, Done
<1>8. ASSUME NEW c \in Calls, WrongCode(c)
     PROVE  CloseInv'
  BY <1>8 DEF WrongCode, WriteSession, Done
<1>9. ASSUME NEW c \in Calls, RightCode(c)
     PROVE  CloseInv'
  BY <1>9 DEF RightCode, WriteSession, Goto
<1>10. ASSUME NEW c \in Calls, Refresh(c)
     PROVE  CloseInv'
  BY <1>10 DEF Refresh, WriteSession, Goto
<1>11. ASSUME NEW c \in Calls, ConfirmRead(c)
     PROVE  CloseInv'
  BY <1>11 DEF ConfirmRead, Goto, Done, store
<1>12. ASSUME NEW c \in Calls, ConfirmWrite(c)
     PROVE  CloseInv'
  BY <1>12 DEF ConfirmWrite, WriteSession, Goto
<1>13. ASSUME NEW c \in Calls, ConfirmToken(c)
     PROVE  CloseInv'
  BY <1>13 DEF ConfirmToken, AnswerRefresh, Done
<1>14. ASSUME NEW c \in Calls, RemoveFromSession(c)
     PROVE  CloseInv'
  BY <1>14 DEF RemoveFromSession, WriteSession, Goto
<1>15. ASSUME NEW c \in Calls, RemoveFromUser(c)
     PROVE  CloseInv'
  BY <1>15 DEF RemoveFromUser, Done, store
<1>16. ASSUME NEW c \in Calls, LogoutToken(c)
     PROVE  CloseInv'
  BY <1>16 DEF LogoutToken, Forget, Done
<1>17. ASSUME NEW s \in Sids, NEW t \in Types, Generate2FA(s, t)
     PROVE  CloseInv'
  BY <1>17 DEF Generate2FA, store, local
<1>18. ASSUME NEW w \in writing, Land(w)
     PROVE  CloseInv'
  BY <1>18 DEF Land, store, local
<1>19. ASSUME NEW s \in Sids, Expire(s)
     PROVE  CloseInv'
  BY <1>19 DEF Expire, local
<1>20. CASE Die
  BY <1>20 DEF Die, Done, store, local
<1>21. ASSUME NEW c \in Calls, NEW s \in Sids, SocialLogin(c, s)
     PROVE  CloseInv'
  BY <1>21 DEF SocialLogin, Start, store, Used
<1>22. CASE UNCHANGED sessionVars
  BY <1>22 DEF sessionVars, store, local
<1> QED BY <1>1, <1>2, <1>3, <1>4, <1>5, <1>6, <1>7, <1>8, <1>9, <1>10, <1>11,
           <1>12, <1>13, <1>14, <1>15, <1>16, <1>17, <1>18, <1>19, <1>20,
           <1>21, <1>22, SessionCases

LEMMA CloseInvariant == SessionsSpec => []CloseInv
<1>1. SessionsInit => CloseInv
  BY SessionsAssumption DEF SessionsInit, CloseInv
<1> QED BY <1>1, CloseInvStep, SessionsInvariant, PTL DEF SessionsSpec

\* The session of a user who logged out stays deleted, unless another request
\* was at work on it.
THEOREM LogoutIsFinal == Spec => []LogoutFinal
<1>1. CloseInv => LogoutFinal
  BY DEF CloseInv, LogoutFinal
<1> QED BY <1>1, CloseInvariant, LoginIsSessions, PTL

-----------------------------------------------------------------------------
(* The authenticators of the user.                                         *)

Removing == {"remove", "removed"}

\* While no two updates of the user overlapped and none was lost, the
\* authenticators the user was told of are enabled in the document once
\* nothing is on its way, in every array on its way, and in every array that a
\* request is going to write.
EnabledInv ==
    ~h.mixed /\ deaths = 0 =>
        \A t \in h.told :
            /\ writing = {} => authn[t] = "active"
            /\ \A w \in writing : w[t] = "active"
            /\ \A c \in Calls : at[c] \in Removing => user[c][t] = "active"

\* A request that starts notes at most an overlap on its session.
LEMMA StartNotes ==
    ASSUME NEW past \in History, NEW c, NEW label, NEW s, NEW value, NEW u,
           Start(c, label, s, value, u, past)
    PROVE  h'.mixed = past.mixed /\ h'.told = past.told
BY DEF Start, History

\* A step that neither updates the user nor takes up such an update.
LEMMA EnabledFrame ==
    ASSUME EnabledInv, h'.mixed = h.mixed, h'.told = h.told,
           deaths' = deaths, authn' = authn, writing' = writing,
           \A c \in Calls : at'[c] \in Removing =>
               at[c] \in Removing /\ user'[c] = user[c]
    PROVE  EnabledInv'
BY DEF EnabledInv

\* An update that starts alone finds all that the user was told of enabled.
LEMMA UpdateAlone ==
    ASSUME EnabledInv, ~h.mixed, deaths = 0, ~Updating
    PROVE  /\ \A t \in h.told : authn[t] = "active"
           /\ writing = {}
           /\ \A c \in Calls : at[c] \notin Removing
BY DEF EnabledInv, Updating, Removing

\* EnabledInv is inductive, given what each request has read.
LEMMA EnabledInvStep ==
    ASSUME SessionsInv, EnabledInv, [SessionsStep]_sessionVars
    PROVE  EnabledInv'
<1>a. /\ h \in History /\ authn \in Authenticators
      /\ writing \subseteq Authenticators
      /\ deaths \in Nat
      /\ at \in [Calls -> Labels]
      /\ user \in [Calls -> Authenticators \cup {Gone}]
  BY SessionsAssumption DEF SessionsInv, HistoryOK, UserOK, CallsOK
<1>b. /\ h.told \subseteq Types
      /\ h.mixed \in BOOLEAN
  BY <1>a DEF History
<1>1. ASSUME NEW c \in Calls, NEW s \in Sids,
             \/ VerifyMfaCode(c, s) \/ VerifyRefreshToken(c, s)
             \/ SocialLogin(c, s)
      PROVE  EnabledInv'
  <2>1. h'.mixed = h.mixed /\ h'.told = h.told
    BY <1>1, <1>a, StartNotes
    DEF VerifyMfaCode, VerifyRefreshToken, SocialLogin
  <2>2. UNCHANGED <<deaths, authn, writing>>
    BY <1>1 DEF VerifyMfaCode, VerifyRefreshToken, SocialLogin
  <2>3. \A d \in Calls : at'[d] \in Removing =>
            at[d] \in Removing /\ user'[d] = user[d]
    BY <1>1, <1>a
    DEF VerifyMfaCode, VerifyRefreshToken, SocialLogin, Start, Removing
  <2> QED BY <2>1, <2>2, <2>3, EnabledFrame
<1>2. ASSUME NEW c \in Calls, NEW s \in Sids, Logout(c, s)
      PROVE  EnabledInv'
  <2> DEFINE past == [h EXCEPT !.closed = @ \cup {s}]
  <2>1. past \in History /\ past.mixed = h.mixed /\ past.told = h.told
    BY <1>a DEF History
  <2>2. Start(c, "logout", s, Gone, Gone, past)
    BY <1>2 DEF Logout
  <2> HIDE DEF past
  <2>3. h'.mixed = h.mixed /\ h'.told = h.told
    BY <2>1, <2>2, StartNotes
  <2>4. UNCHANGED <<deaths, authn, writing>>
    BY <1>2 DEF Logout
  <2>5. \A d \in Calls : at'[d] \in Removing =>
            at[d] \in Removing /\ user'[d] = user[d]
    BY <2>2, <1>a DEF Start, Removing
  <2> QED BY <2>3, <2>4, <2>5, EnabledFrame
<1>3. ASSUME NEW c \in Calls, NEW s \in Sids, NEW t \in Types,
             ConfirmMfaSetup(c, s, t)
      PROVE  EnabledInv'
  <2> DEFINE past == [h EXCEPT !.told = @ \cup {t},
                               !.mixed = @ \/ Updating,
                               !.passed = @ \cup {s}]
             new == [authn EXCEPT ![t] = "active"]
  <2>1. /\ past.told = h.told \cup {t}
        /\ past.mixed = (h.mixed \/ Updating)
    BY <1>a DEF History
  <2>2. past \in History
    <3>1. PICK b \in BOOLEAN : b = (h.mixed \/ Updating)
      OBVIOUS
    <3> QED BY <1>a, <3>1, ConfirmOK
  <2>3. Start(c, "confirm", s, Gone, Gone, past) /\ deaths' = deaths
    BY <1>3 DEF ConfirmMfaSetup
  <2>4. writing' = writing \cup {new}
    BY <1>3 DEF ConfirmMfaSetup
  <2> HIDE DEF past
  <2>5. h'.told = h.told \cup {t} /\ h'.mixed = (h.mixed \/ Updating)
    BY <2>1, <2>2, <2>3, StartNotes
  <2> SUFFICES ASSUME ~h'.mixed, deaths' = 0, NEW u \in h'.told
               PROVE  /\ writing' # {}
                      /\ \A w \in writing' : w[u] = "active"
                      /\ \A d \in Calls : at'[d] \notin Removing
    BY DEF EnabledInv
  <2>6. ~h.mixed /\ ~Updating /\ deaths = 0
    BY <2>3, <2>5
  <2>7. /\ \A x \in h.told : authn[x] = "active"
        /\ writing = {} /\ \A d \in Calls : at[d] \notin Removing
    BY <2>6, UpdateAlone
  <2>8. new[u] = "active"
    BY <1>a, <1>b, <2>5, <2>7 DEF Authenticators
  <2>9. \A d \in Calls : at'[d] \notin Removing
    BY <1>a, <2>3, <2>7 DEF Start, Removing
  <2> QED BY <2>4, <2>7, <2>8, <2>9
<1>4. ASSUME NEW c \in Calls, NEW s \in Sids, NEW t \in Types,
             RemoveMfa(c, s, t)
      PROVE  EnabledInv'
  <2> DEFINE past == [h EXCEPT !.told = @ \ {t}, !.mixed = @ \/ Updating]
             new == [authn EXCEPT ![t] = "none"]
  <2>1. past.told = h.told \ {t} /\ past.mixed = (h.mixed \/ Updating)
    BY <1>a DEF History
  <2>2. past \in History
    <3>1. PICK b \in BOOLEAN : b = (h.mixed \/ Updating)
      OBVIOUS
    <3> QED BY <1>a, <3>1, ForgetOK
  <2>3. /\ Start(c, "remove", s, sess[s], new, past)
        /\ UNCHANGED <<deaths, authn, writing>>
    BY <1>4 DEF RemoveMfa
  <2> HIDE DEF past
  <2>4. h'.told = h.told \ {t} /\ h'.mixed = (h.mixed \/ Updating)
    BY <2>1, <2>2, <2>3, StartNotes
  <2> SUFFICES ASSUME ~h'.mixed, deaths' = 0, NEW u \in h'.told
               PROVE  /\ writing = {} /\ authn[u] = "active"
                      /\ \A d \in Calls :
                            at'[d] \in Removing => user'[d][u] = "active"
    BY <2>3 DEF EnabledInv
  <2>5. ~h.mixed /\ ~Updating /\ deaths = 0
    BY <2>3, <2>4
  <2>6. /\ \A x \in h.told : authn[x] = "active"
        /\ writing = {} /\ \A d \in Calls : at[d] \notin Removing
    BY <2>5, UpdateAlone
  <2>7. authn[u] = "active" /\ new[u] = "active"
    BY <1>a, <1>b, <2>4, <2>6 DEF Authenticators
  <2> HIDE DEF new
  <2>8. \A d \in Calls : at'[d] \in Removing => user'[d] = new
    BY <1>a, <2>3, <2>6 DEF Start
  <2> QED BY <2>6, <2>7, <2>8
<1>5. ASSUME NEW c \in Calls,
             \/ CreateSession(c) \/ WrongCode(c) \/ RightCode(c)
      PROVE  EnabledInv'
  <2>1. h'.mixed = h.mixed /\ h'.told = h.told
    BY <1>5, <1>a DEF CreateSession, WrongCode, RightCode, History
  <2>2. UNCHANGED <<deaths, authn, writing>>
    BY <1>5 DEF CreateSession, WrongCode, RightCode
  <2>3. \A d \in Calls : at'[d] \in Removing =>
            at[d] \in Removing /\ user'[d] = user[d]
    BY <1>5, <1>a
    DEF CreateSession, WrongCode, RightCode, Goto, Done, Removing
  <2> QED BY <2>1, <2>2, <2>3, EnabledFrame
<1>6. ASSUME NEW c \in Calls,
             \/ GenerateTokens(c) \/ Refresh(c) \/ ConfirmRead(c)
             \/ ConfirmWrite(c) \/ ConfirmToken(c) \/ LogoutToken(c)
             \/ RemoveFromSession(c)
      PROVE  EnabledInv'
  <2>1. UNCHANGED <<h, deaths, authn, writing>>
    BY <1>6
    DEF GenerateTokens, Refresh, ConfirmRead, ConfirmWrite, ConfirmToken,
        LogoutToken, RemoveFromSession, store
  <2>2. \A d \in Calls : at'[d] \in Removing =>
            at[d] \in Removing /\ user'[d] = user[d]
    BY <1>6, <1>a
    DEF GenerateTokens, Refresh, ConfirmRead, ConfirmWrite, ConfirmToken,
        LogoutToken, RemoveFromSession, Goto, Done, Removing
  <2> QED BY <2>1, <2>2, EnabledFrame
<1>7. ASSUME NEW c \in Calls, RemoveFromUser(c)
      PROVE  EnabledInv'
  <2>1. /\ UNCHANGED <<h, deaths, writing>> /\ authn' = user[c]
        /\ at[c] \in Removing
    BY <1>7 DEF RemoveFromUser, Removing
  <2>2. \A d \in Calls : at'[d] \in Removing =>
            at[d] \in Removing /\ user'[d] = user[d]
    BY <1>7, <1>a DEF RemoveFromUser, Done, Removing
  <2> QED BY <2>1, <2>2 DEF EnabledInv
<1>8. ASSUME NEW s \in Sids, NEW t \in Types, Generate2FA(s, t)
      PROVE  EnabledInv'
  <2> DEFINE new == [authn EXCEPT ![t] = "pending"]
  <2>1. h'.told = h.told /\ h'.mixed = (h.mixed \/ Updating)
    BY <1>8, <1>a DEF Generate2FA, History
  <2>2. /\ writing' = writing \cup {new} /\ authn[t] = "none"
        /\ UNCHANGED <<deaths, at, user>>
    BY <1>8 DEF Generate2FA, local
  <2> SUFFICES ASSUME ~h'.mixed, deaths' = 0, NEW u \in h.told
               PROVE  /\ writing' # {}
                      /\ \A w \in writing' : w[u] = "active"
                      /\ \A d \in Calls : at[d] \notin Removing
    BY <2>1, <2>2 DEF EnabledInv
  <2>3. ~h.mixed /\ ~Updating /\ deaths = 0
    BY <2>1, <2>2
  <2>4. /\ \A x \in h.told : authn[x] = "active"
        /\ writing = {} /\ \A d \in Calls : at[d] \notin Removing
    BY <2>3, UpdateAlone
  <2>5. u # t /\ new[u] = "active"
    BY <1>a, <1>b, <2>2, <2>4 DEF Authenticators
  <2> HIDE DEF new
  <2> QED BY <2>2, <2>4, <2>5
<1>9. ASSUME NEW w \in writing, Land(w)
      PROVE  EnabledInv'
  BY <1>9 DEF Land, local, EnabledInv
<1>10. ASSUME NEW s \in Sids, Expire(s)
       PROVE  EnabledInv'
  BY <1>10, EnabledFrame DEF Expire, local
<1>11. CASE Die
  <2>1. deaths' # 0
    BY <1>11, <1>a DEF Die
  <2> QED BY <2>1 DEF EnabledInv
<1>12. CASE UNCHANGED sessionVars
  BY <1>12, EnabledFrame DEF sessionVars, local
<1> QED BY <1>1, <1>2, <1>3, <1>4, <1>5, <1>6, <1>7, <1>8, <1>9, <1>10, <1>11,
           <1>12, SessionCases

LEMMA EnabledInvariant == SessionsSpec => []EnabledInv
<1>1. SessionsInit => EnabledInv
  BY DEF SessionsInit, EnabledInv
<1> QED BY <1>1, EnabledInvStep, SessionsInvariant, PTL DEF SessionsSpec

\* ConfirmedIsEnabled: although the array of the authenticators is written
\* back as a whole, and not waited for, what the user was told is enabled is,
\* or is going to be, unless two such updates overlapped or one was lost.
THEOREM ConfirmedStays == Spec => []ConfirmedIsEnabled
<1>1. EnabledInv => ConfirmedIsEnabled
  <2> SUFFICES ASSUME EnabledInv, ~h.mixed, deaths = 0, NEW t \in h.told
               PROVE  \/ authn[t] = "active"
                      \/ \E w \in writing : w[t] = "active"
    BY DEF ConfirmedIsEnabled
  <2>1. /\ writing = {} => authn[t] = "active"
        /\ \A w \in writing : w[t] = "active"
    BY DEF EnabledInv
  <2> QED BY <2>1
<1> QED BY <1>1, EnabledInvariant, LoginIsSessions, PTL

-----------------------------------------------------------------------------
(* The counts of wrong codes and the versions.                             *)

\* While no two requests have worked on a session at once, one at most does.
Single ==
    \A s \in Sids \ h.overlapped : \A c, d \in Calls :
        sid[c] = s /\ sid[d] = s => c = d

\* A session or a copy of it that waits for the second factor is of a login
\* with one, and only in such a session is a wrong code entered.
Known ==
    /\ \A s \in Sids : sess[s] # Gone /\ Locked(sess[s]) => s \in h.locked
    /\ \A c \in Calls : at[c] \in Holding /\ Locked(copy[c]) =>
                          sid[c] \in h.locked
    /\ \A s \in Sids : h.wrong[s] # 0 => s \in h.locked

\* What waits for the second factor has counted every wrong code.
Counts ==
    \A s \in Sids \ h.overlapped :
        /\ h.wrong[s] <= MaxWrong + 1
        /\ sess[s] # Gone /\ Locked(sess[s]) => h.wrong[s] = sess[s].wrong
        /\ \A c \in Calls : sid[c] = s /\ at[c] \in Holding /\ Locked(copy[c])
                               => h.wrong[s] = copy[c].wrong

\* No token is ahead of its session or of a copy that will be written, and no
\* copy is behind the session.
Ahead ==
    \A s \in Sids \ h.overlapped :
        /\ sess[s] # Gone =>
               \A v \in 1..MaxVersion :
                   <<s, v>> \in access => v <= sess[s].version
        /\ \A c \in Calls : sid[c] = s /\ at[c] \in Holding =>
               /\ \A v \in 1..MaxVersion :
                      <<s, v>> \in access => v <= copy[c].version
               /\ sess[s] # Gone => sess[s].version <= copy[c].version
               /\ sess[s] # Gone /\ at[c] = "tokens" =>
                      sess[s].version = copy[c].version

CountInv == Single /\ Known /\ Counts /\ Ahead

LEMMA CountInvStep ==
    ASSUME SessionsInv, LockInv, CountInv, [SessionsStep]_sessionVars
    PROVE  CountInv'
<1> USE SessionsAssumption DEF SessionsInv, StoreOK, CallsOK, Ready,
        HistoryOK, Session, Labels, Holding, Locked, History, LockInv, Fresh,
        CountInv, Single, Known, Counts, Ahead
<1>1. ASSUME NEW c \in Calls, NEW s \in Sids, VerifyMfaCode(c, s)
     PROVE  CountInv'
  <2>1. Single'
    BY <1>1 DEF VerifyMfaCode, Start, store
  <2>2. Known'
    BY <1>1 DEF VerifyMfaCode, Start, store
  <2>3. Counts'
    BY <1>1 DEF VerifyMfaCode, Start, store
  <2>4. Ahead'
    BY <1>1 DEF VerifyMfaCode, Start, store
  <2> QED BY <2>1, <2>2, <2>3, <2>4 DEF CountInv
<1>2. ASSUME NEW c \in Calls, NEW s \in Sids, VerifyRefreshToken(c, s)
     PROVE  CountInv'
  <2>1. Single'
    BY <1>2 DEF VerifyRefreshToken, Start, store
  <2>2. Known'
    BY <1>2 DEF VerifyRefreshToken, Start, store
  <2>3. Counts'
    BY <1>2 DEF VerifyRefreshToken, Start, store
  <2>4. Ahead'
    BY <1>2 DEF VerifyRefreshToken, Start, store
  <2> QED BY <2>1, <2>2, <2>3, <2>4 DEF CountInv
<1>3. ASSUME NEW c \in Calls, NEW s \in Sids, Logout(c, s)
     PROVE  CountInv'
  <2>1. Single'
    BY <1>3 DEF Logout, Start, Admitted
  <2>2. Known'
    BY <1>3 DEF Logout, Start, Admitted
  <2>3. Counts'
    BY <1>3 DEF Logout, Start, Admitted
  <2>4. Ahead'
    BY <1>3 DEF Logout, Start, Admitted
  <2> QED BY <2>1, <2>2, <2>3, <2>4 DEF CountInv
<1>4. ASSUME NEW c \in Calls, NEW s \in Sids, NEW t \in Types,
        ConfirmMfaSetup(c, s, t)
     PROVE  CountInv'
  <2>1. Single'
    BY <1>4 DEF ConfirmMfaSetup, Start, store, Admitted
  <2>2. Known'
    BY <1>4 DEF ConfirmMfaSetup, Start, store, Admitted
  <2>3. Counts'
    BY <1>4 DEF ConfirmMfaSetup, Start, store, Admitted
  <2>4. Ahead'
    BY <1>4 DEF ConfirmMfaSetup, Start, store, Admitted
  <2> QED BY <2>1, <2>2, <2>3, <2>4 DEF CountInv
<1>5. ASSUME NEW c \in Calls, NEW s \in Sids, NEW t \in Types, RemoveMfa(c,
        s, t)
     PROVE  CountInv'
  <2>1. Single'
    BY <1>5 DEF RemoveMfa, Start, store, Admitted
  <2>2. Known'
    BY <1>5 DEF RemoveMfa, Start, store, Admitted
  <2>3. Counts'
    BY <1>5 DEF RemoveMfa, Start, store, Admitted
  <2>4. Ahead'
    BY <1>5 DEF RemoveMfa, Start, store, Admitted
  <2> QED BY <2>1, <2>2, <2>3, <2>4 DEF CountInv
<1>6. ASSUME NEW c \in Calls, CreateSession(c)
     PROVE  CountInv'
  <2>1. Single'
    BY <1>6 DEF CreateSession, WriteSession, Goto, Done
  <2>2. Known'
    BY <1>6 DEF CreateSession, WriteSession, Goto, Done
  <2>3. Counts'
    BY <1>6 DEF CreateSession, WriteSession, Goto, Done
  <2>4. Ahead'
    BY <1>6 DEF CreateSession, WriteSession, Goto, Done
  <2> QED BY <2>1, <2>2, <2>3, <2>4 DEF CountInv
<1>7. ASSUME NEW c \in Calls, GenerateTokens(c)
     PROVE  CountInv'
  <2>1. Single'
    BY <1>7 DEF GenerateTokens, Answer, Done
  <2>2. Known'
    BY <1>7 DEF GenerateTokens, Answer, Done
  <2>3. Counts'
    BY <1>7 DEF GenerateTokens, Answer, Done
  <2>4. Ahead'
    BY <1>7 DEF GenerateTokens, Answer, Done
  <2> QED BY <2>1, <2>2, <2>3, <2>4 DEF CountInv
<1>8. ASSUME NEW c \in Calls, WrongCode(c)
     PROVE  CountInv'
  <2>1. Single'
    BY <1>8 DEF WrongCode, WriteSession, Done
  <2>2. Known'
    BY <1>8 DEF WrongCode, WriteSession, Done
  <2>3. Counts'
    BY <1>8 DEF WrongCode, WriteSession, Done
  <2>4. Ahead'
    BY <1>8 DEF WrongCode, WriteSession, Done
  <2> QED BY <2>1, <2>2, <2>3, <2>4 DEF CountInv
<1>9. ASSUME NEW c \in Calls, RightCode(c)
     PROVE  CountInv'
  <2>1. Single'
    BY <1>9 DEF RightCode, WriteSession, Goto
  <2>2. Known'
    BY <1>9 DEF RightCode, WriteSession, Goto
  <2>3. Counts'
    BY <1>9 DEF RightCode, WriteSession, Goto
  <2>4. Ahead'
    BY <1>9 DEF RightCode, WriteSession, Goto
  <2> QED BY <2>1, <2>2, <2>3, <2>4 DEF CountInv
<1>10. ASSUME NEW c \in Calls, Refresh(c)
     PROVE  CountInv'
  <2>1. Single'
    BY <1>10 DEF Refresh, WriteSession, Goto
  <2>2. Known'
    BY <1>10 DEF Refresh, WriteSession, Goto
  <2>3. Counts'
    BY <1>10 DEF Refresh, WriteSession, Goto
  <2>4. Ahead'
    BY <1>10 DEF Refresh, WriteSession, Goto
  <2> QED BY <2>1, <2>2, <2>3, <2>4 DEF CountInv
<1>11. ASSUME NEW c \in Calls, ConfirmRead(c)
     PROVE  CountInv'
  <2>1. Single'
    BY <1>11 DEF ConfirmRead, Goto, Done, store
  <2>2. Known'
    <3> DEFINE value == sess[sid[c]]
               next == [value EXCEPT !.required = TRUE, !.verified = TRUE,
                                     !.version = @ + 1]
    <3>1. /\ at[c] = "confirm" /\ value \in Session \cup {Gone}
          /\ UNCHANGED <<sess, refresh, access, h>>
      BY <1>11 DEF ConfirmRead, store
    <3>2. CASE Done(c)
      BY <3>1, <3>2 DEF Done
    <3>3. CASE /\ ~(value = Gone \/ value.version = MaxVersion)
               /\ Goto(c, "confirmed", next)
      <4>1. /\ next \in Session /\ next.verified
            /\ next.version = value.version + 1
        <5> HIDE DEF Session, SessionsInv, StoreOK, CallsOK, Ready, HistoryOK
        <5> QED BY <3>1, <3>3, Updates
      <4> HIDE DEF next
      <4> QED BY <3>1, <3>3, <4>1 DEF Goto
    <3> QED BY <1>11, <3>2, <3>3 DEF ConfirmRead
  <2>3. Counts'
    <3> DEFINE value == sess[sid[c]]
               next == [value EXCEPT !.required = TRUE, !.verified = TRUE,
                                     !.version = @ + 1]
    <3>1. /\ at[c] = "confirm" /\ value \in Session \cup {Gone}
          /\ UNCHANGED <<sess, refresh, access, h>>
      BY <1>11 DEF ConfirmRead, store
    <3>2. CASE Done(c)
      BY <3>1, <3>2 DEF Done
    <3>3. CASE /\ ~(value = Gone \/ value.version = MaxVersion)
               /\ Goto(c, "confirmed", next)
      <4>1. /\ next \in Session /\ next.verified
            /\ next.version = value.version + 1
        <5> HIDE DEF Session, SessionsInv, StoreOK, CallsOK, Ready, HistoryOK
        <5> QED BY <3>1, <3>3, Updates
      <4> HIDE DEF next
      <4> QED BY <3>1, <3>3, <4>1 DEF Goto
    <3> QED BY <1>11, <3>2, <3>3 DEF ConfirmRead
  <2>4. Ahead'
    <3> DEFINE value == sess[sid[c]]
               next == [value EXCEPT !.required = TRUE, !.verified = TRUE,
                                     !.version = @ + 1]
    <3>1. /\ at[c] = "confirm" /\ value \in Session \cup {Gone}
          /\ UNCHANGED <<sess, refresh, access, h>>
      BY <1>11 DEF ConfirmRead, store
    <3>2. CASE Done(c)
      BY <3>1, <3>2 DEF Done
    <3>3. CASE /\ ~(value = Gone \/ value.version = MaxVersion)
               /\ Goto(c, "confirmed", next)
      <4>1. /\ next \in Session /\ next.verified
            /\ next.version = value.version + 1
        <5> HIDE DEF Session, SessionsInv, StoreOK, CallsOK, Ready, HistoryOK
        <5> QED BY <3>1, <3>3, Updates
      <4> HIDE DEF next
      <4> QED BY <3>1, <3>3, <4>1 DEF Goto
    <3> QED BY <1>11, <3>2, <3>3 DEF ConfirmRead
  <2> QED BY <2>1, <2>2, <2>3, <2>4 DEF CountInv
<1>12. ASSUME NEW c \in Calls, ConfirmWrite(c)
     PROVE  CountInv'
  <2>1. Single'
    BY <1>12 DEF ConfirmWrite, WriteSession, Goto
  <2>2. Known'
    BY <1>12 DEF ConfirmWrite, WriteSession, Goto
  <2>3. Counts'
    BY <1>12 DEF ConfirmWrite, WriteSession, Goto
  <2>4. Ahead'
    BY <1>12 DEF ConfirmWrite, WriteSession, Goto
  <2> QED BY <2>1, <2>2, <2>3, <2>4 DEF CountInv
<1>13. ASSUME NEW c \in Calls, ConfirmToken(c)
     PROVE  CountInv'
  <2>1. Single'
    BY <1>13 DEF ConfirmToken, AnswerRefresh, Done
  <2>2. Known'
    BY <1>13 DEF ConfirmToken, AnswerRefresh, Done
  <2>3. Counts'
    BY <1>13 DEF ConfirmToken, AnswerRefresh, Done
  <2>4. Ahead'
    BY <1>13 DEF ConfirmToken, AnswerRefresh, Done
  <2> QED BY <2>1, <2>2, <2>3, <2>4 DEF CountInv
<1>14. ASSUME NEW c \in Calls, RemoveFromSession(c)
     PROVE  CountInv'
  <2>1. Single'
    BY <1>14 DEF RemoveFromSession, WriteSession, Goto
  <2>2. Known'
    BY <1>14 DEF RemoveFromSession, WriteSession, Goto
  <2>3. Counts'
    BY <1>14 DEF RemoveFromSession, WriteSession, Goto
  <2>4. Ahead'
    BY <1>14 DEF RemoveFromSession, WriteSession, Goto
  <2> QED BY <2>1, <2>2, <2>3, <2>4 DEF CountInv
<1>15. ASSUME NEW c \in Calls, RemoveFromUser(c)
     PROVE  CountInv'
  <2>1. Single'
    BY <1>15 DEF RemoveFromUser, Done, store
  <2>2. Known'
    BY <1>15 DEF RemoveFromUser, Done, store
  <2>3. Counts'
    BY <1>15 DEF RemoveFromUser, Done, store
  <2>4. Ahead'
    BY <1>15 DEF RemoveFromUser, Done, store
  <2> QED BY <2>1, <2>2, <2>3, <2>4 DEF CountInv
<1>16. ASSUME NEW c \in Calls, LogoutToken(c)
     PROVE  CountInv'
  <2>1. Single'
    BY <1>16 DEF LogoutToken, Forget, Done
  <2>2. Known'
    BY <1>16 DEF LogoutToken, Forget, Done
  <2>3. Counts'
    BY <1>16 DEF LogoutToken, Forget, Done
  <2>4. Ahead'
    BY <1>16 DEF LogoutToken, Forget, Done
  <2> QED BY <2>1, <2>2, <2>3, <2>4 DEF CountInv
<1>17. ASSUME NEW s \in Sids, NEW t \in Types, Generate2FA(s, t)
     PROVE  CountInv'
  <2>1. Single'
    BY <1>17 DEF Generate2FA, store, local
  <2>2. Known'
    BY <1>17 DEF Generate2FA, store, local
  <2>3. Counts'
    BY <1>17 DEF Generate2FA, store, local
  <2>4. Ahead'
    BY <1>17 DEF Generate2FA, store, local
  <2> QED BY <2>1, <2>2, <2>3, <2>4 DEF CountInv
<1>18. ASSUME NEW w \in writing, Land(w)
     PROVE  CountInv'
  <2>1. Single'
    BY <1>18 DEF Land, store, local
  <2>2. Known'
    BY <1>18 DEF Land, store, local
  <2>3. Counts'
    BY <1>18 DEF Land, store, local
  <2>4. Ahead'
    BY <1>18 DEF Land, store, local
  <2> QED BY <2>1, <2>2, <2>3, <2>4 DEF CountInv
<1>19. ASSUME NEW s \in Sids, Expire(s)
     PROVE  CountInv'
  <2>1. Single'
    BY <1>19 DEF Expire, local
  <2>2. Known'
    BY <1>19 DEF Expire, local
  <2>3. Counts'
    BY <1>19 DEF Expire, local
  <2>4. Ahead'
    BY <1>19 DEF Expire, local
  <2> QED BY <2>1, <2>2, <2>3, <2>4 DEF CountInv
<1>20. CASE Die
  <2>1. Single'
    BY <1>20 DEF Die, Done, store, local
  <2>2. Known'
    BY <1>20 DEF Die, Done, store, local
  <2>3. Counts'
    BY <1>20 DEF Die, Done, store, local
  <2>4. Ahead'
    BY <1>20 DEF Die, Done, store, local
  <2> QED BY <2>1, <2>2, <2>3, <2>4 DEF CountInv
<1>21. ASSUME NEW c \in Calls, NEW s \in Sids, SocialLogin(c, s)
     PROVE  CountInv'
  <2>1. Single'
    BY <1>21 DEF SocialLogin, Start, store, Used
  <2>2. Known'
    BY <1>21 DEF SocialLogin, Start, store, Used
  <2>3. Counts'
    BY <1>21 DEF SocialLogin, Start, store, Used
  <2>4. Ahead'
    BY <1>21 DEF SocialLogin, Start, store, Used
  <2> QED BY <2>1, <2>2, <2>3, <2>4 DEF CountInv
<1>22. CASE UNCHANGED sessionVars
  BY <1>22 DEF sessionVars, store, local
<1> QED BY <1>1, <1>2, <1>3, <1>4, <1>5, <1>6, <1>7, <1>8, <1>9, <1>10, <1>11,
           <1>12, <1>13, <1>14, <1>15, <1>16, <1>17, <1>18, <1>19, <1>20,
           <1>21, <1>22, SessionCases

LEMMA CountInvariant == SessionsSpec => []CountInv
<1>1. SessionsInit => CountInv
  BY SessionsAssumption
     DEF SessionsInit, CountInv, Single, Known, Counts, Ahead, Holding,
         Locked
<1> QED BY <1>1, CountInvStep, SessionsInvariant, LockInvariant, PTL DEF
        SessionsSpec

\* An e-mail code and the second factor of a session each end with the guesses
\* they are given, where no two requests verify them at once.
THEOREM GuessesAreBounded == Spec => []GuessesBounded
<1>1. CodesInv => CodeGuessesBounded
  BY DEF CodesInv, Guesses, CodeGuessesBounded
<1>2. CountInv => MfaGuessesBounded
  BY DEF CountInv, Counts, MfaGuessesBounded
<1> QED BY <1>1, <1>2, CodesInvariant, LoginIsOtp, CountInvariant,
           LoginIsSessions, PTL DEF GuessesBounded

\* What VersionsGrow says of a step.
Grows ==
    \A s \in Sids \ h'.overlapped :
        sess[s] # Gone /\ sess'[s] # Gone =>
            /\ sess'[s].version >= sess[s].version
            /\ \A v \in 1..MaxVersion :
                  <<s, v>> \in access => v <= sess'[s].version

LEMMA GrowsStep ==
    ASSUME SessionsInv, LockInv, CountInv, [SessionsStep]_sessionVars
    PROVE  Grows
<1> USE SessionsAssumption
    DEF SessionsInv, StoreOK, CallsOK, Ready, HistoryOK, Session, Labels,
        Holding, Locked, History, LockInv, Fresh, CountInv, Single, Ahead, Grows
<1>1. ASSUME NEW c \in Calls, NEW s \in Sids, VerifyMfaCode(c, s)
     PROVE  Grows
  BY <1>1 DEF VerifyMfaCode, Start, store
<1>2. ASSUME NEW c \in Calls, NEW s \in Sids, VerifyRefreshToken(c, s)
     PROVE  Grows
  BY <1>2 DEF VerifyRefreshToken, Start, store
<1>3. ASSUME NEW c \in Calls, NEW s \in Sids, Logout(c, s)
     PROVE  Grows
  BY <1>3 DEF Logout, Start, Admitted
<1>4. ASSUME NEW c \in Calls, NEW s \in Sids, NEW t \in Types,
        ConfirmMfaSetup(c, s, t)
     PROVE  Grows
  BY <1>4 DEF ConfirmMfaSetup, Start, store, Admitted
<1>5. ASSUME NEW c \in Calls, NEW s \in Sids, NEW t \in Types, RemoveMfa(c,
        s, t)
     PROVE  Grows
  BY <1>5 DEF RemoveMfa, Start, store, Admitted
<1>6. ASSUME NEW c \in Calls, CreateSession(c)
     PROVE  Grows
  BY <1>6 DEF CreateSession, WriteSession, Goto, Done
<1>7. ASSUME NEW c \in Calls, GenerateTokens(c)
     PROVE  Grows
  BY <1>7 DEF GenerateTokens, Answer, Done
<1>8. ASSUME NEW c \in Calls, WrongCode(c)
     PROVE  Grows
  BY <1>8 DEF WrongCode, WriteSession, Done
<1>9. ASSUME NEW c \in Calls, RightCode(c)
     PROVE  Grows
  BY <1>9 DEF RightCode, WriteSession, Goto
<1>10. ASSUME NEW c \in Calls, Refresh(c)
     PROVE  Grows
  BY <1>10 DEF Refresh, WriteSession, Goto
<1>11. ASSUME NEW c \in Calls, ConfirmRead(c)
     PROVE  Grows
  BY <1>11 DEF ConfirmRead, Goto, Done, store
<1>12. ASSUME NEW c \in Calls, ConfirmWrite(c)
     PROVE  Grows
  BY <1>12 DEF ConfirmWrite, WriteSession, Goto
<1>13. ASSUME NEW c \in Calls, ConfirmToken(c)
     PROVE  Grows
  BY <1>13 DEF ConfirmToken, AnswerRefresh, Done
<1>14. ASSUME NEW c \in Calls, RemoveFromSession(c)
     PROVE  Grows
  BY <1>14 DEF RemoveFromSession, WriteSession, Goto
<1>15. ASSUME NEW c \in Calls, RemoveFromUser(c)
     PROVE  Grows
  BY <1>15 DEF RemoveFromUser, Done, store
<1>16. ASSUME NEW c \in Calls, LogoutToken(c)
     PROVE  Grows
  BY <1>16 DEF LogoutToken, Forget, Done
<1>17. ASSUME NEW s \in Sids, NEW t \in Types, Generate2FA(s, t)
     PROVE  Grows
  BY <1>17 DEF Generate2FA, store, local
<1>18. ASSUME NEW w \in writing, Land(w)
     PROVE  Grows
  BY <1>18 DEF Land, store, local
<1>19. ASSUME NEW s \in Sids, Expire(s)
     PROVE  Grows
  BY <1>19 DEF Expire, local
<1>20. CASE Die
  BY <1>20 DEF Die, Done, store, local
<1>21. ASSUME NEW c \in Calls, NEW s \in Sids, SocialLogin(c, s)
     PROVE  Grows
  BY <1>21 DEF SocialLogin, Start, store, Used
<1>22. CASE UNCHANGED sessionVars
  BY <1>22 DEF sessionVars, store, local
<1> QED BY <1>1, <1>2, <1>3, <1>4, <1>5, <1>6, <1>7, <1>8, <1>9, <1>10, <1>11,
           <1>12, <1>13, <1>14, <1>15, <1>16, <1>17, <1>18, <1>19, <1>20,
           <1>21, <1>22, SessionCases

\* A version of a session never comes back, so no token that was replaced is
\* admitted again, unless requests that overlap write their copies.
THEOREM VersionsOnlyGrow == Spec => VersionsGrow
<1>1. SessionsInv /\ LockInv /\ CountInv /\ [SessionsStep]_sessionVars =>
          [\A s \in Sids \ h'.overlapped :
              sess[s] # Gone /\ sess'[s] # Gone =>
                  /\ sess'[s].version >= sess[s].version
                  /\ \A v \in 1..MaxVersion :
                        <<s, v>> \in access => v <= sess'[s].version]_sessionVars
  BY GrowsStep DEF Grows
<1> QED BY <1>1, SessionsInvariant, LockInvariant, CountInvariant,
           LoginIsSessions, PTL DEF SessionsSpec, VersionsGrow

=============================================================================
