------------------------------ MODULE EmailOtp ------------------------------
(***************************************************************************)
(* One-time passwords by e-mail, for one address:                          *)
(* email-otp-login.service.ts.                                             *)
(*                                                                         *)
(* Four Redis keys: the code, the count of wrong codes, the cooldown       *)
(* between requests and the requests of the hour.  Each is read in one     *)
(* await and written in a later one, and the codes and their counts expire *)
(* on their own.                                                           *)
(***************************************************************************)
EXTENDS Integers

CONSTANTS
    Visits,       \* requests of the two endpoints in progress
    MaxAttempts,  \* MAX_RETRY_ATTEMPT
    HourlyLimit,  \* OTP_HOURLY_LIMIT
    MaxCodes,     \* bound: codes made
    MaxLost       \* bound: requests that die

ASSUME EmailOtpAssumption ==
    /\ MaxAttempts \in Nat \ {0}
    /\ HourlyLimit \in Nat \ {0}
    /\ MaxCodes \in Nat
    /\ MaxLost \in Nat

VARIABLES
    code,      \* otp:<email>: the number of the code, 0 if there is none
    made,      \* codes made so far
    attempts,  \* otp:attempts:<email>, 0 if there is none
    outlives,  \* attempts was written after the code: it expires later
    cooldown,  \* otp:cooldown:<email> exists
    count,     \* otp:count:<email>, 0 if there is none
    countTtl,  \* the count has a time to live
    visitAt,   \* the await a request is at
    seen,      \* the code a verification has read
    tried,     \* the count of wrong codes it writes
    lost,      \* requests that died
    wrongs,    \* history: the wrong codes entered for each code
    logins,    \* history: how often each code was accepted
    crossed    \* history: codes verified by requests that overlapped

keys == <<code, made, attempts, outlives, cooldown, count, countTtl>>
visitVars == <<visitAt, seen, tried>>
otpPast == <<wrongs, logins, crossed>>
otpVars == <<keys, visitVars, lost, otpPast>>

Codes == 1..MaxCodes
Verifying == {"wrong", "count", "clear", "right", "accept"}

OtpTypeOK ==
    /\ code \in 0..MaxCodes
    /\ made \in 0..MaxCodes
    /\ attempts \in 0..(MaxAttempts - 1)
    /\ outlives \in BOOLEAN /\ cooldown \in BOOLEAN /\ countTtl \in BOOLEAN
    /\ count \in 0..(HourlyLimit + 1)
    /\ visitAt \in [Visits -> {"idle", "wait", "incr", "expire", "store"}
                              \cup Verifying]
    /\ seen \in [Visits -> 0..MaxCodes]
    /\ tried \in [Visits -> 0..MaxAttempts]
    /\ lost \in 0..MaxLost
    /\ wrongs \in [Codes -> Nat]
    /\ logins \in [Codes -> Nat]
    /\ crossed \subseteq Codes

OtpInit ==
    /\ code = 0 /\ made = 0 /\ attempts = 0 /\ outlives = FALSE
    /\ cooldown = FALSE /\ count = 0 /\ countTtl = FALSE
    /\ visitAt = [v \in Visits |-> "idle"]
    /\ seen = [v \in Visits |-> 0]
    /\ tried = [v \in Visits |-> 0]
    /\ lost = 0
    /\ wrongs = [n \in Codes |-> 0]
    /\ logins = [n \in Codes |-> 0]
    /\ crossed = {}

Await(v, label) == /\ visitAt' = [visitAt EXCEPT ![v] = label]
                   /\ UNCHANGED <<seen, tried, lost>>

Leave(v) == /\ visitAt' = [visitAt EXCEPT ![v] = "idle"]
            /\ seen' = [seen EXCEPT ![v] = 0]
            /\ tried' = [tried EXCEPT ![v] = 0]

-----------------------------------------------------------------------------
(* generateEmailOtp.                                                       *)

AskCode(v) ==
    /\ visitAt[v] = "idle"
    /\ ~cooldown
    /\ Await(v, "wait")
    /\ UNCHANGED <<keys, otpPast>>

SetCooldown(v) ==
    /\ visitAt[v] = "wait"
    /\ cooldown' = TRUE
    /\ Await(v, "incr")
    /\ UNCHANGED <<code, made, attempts, outlives, count, countTtl, otpPast>>

\* Mutant: the count is compared with 0, as it was before.
Mutant_CountRequest(v) ==
    /\ visitAt[v] = "incr"
    /\ count' = IF count > HourlyLimit THEN count ELSE count + 1
    /\ IF count' > HourlyLimit THEN Leave(v) /\ UNCHANGED lost
                               ELSE Await(v, "store")
    /\ UNCHANGED <<code, made, attempts, outlives, cooldown, countTtl, otpPast>>

\* One counts; the first sets the time to live, and those above the limit
\* (the model counts up to one above) are refused.
CountRequest(v) ==
    /\ visitAt[v] = "incr"
    /\ count' = IF count > HourlyLimit THEN count ELSE count + 1
    /\ IF count' = 1 THEN Await(v, "expire")
       ELSE IF count' > HourlyLimit THEN Leave(v) /\ UNCHANGED lost
                                    ELSE Await(v, "store")
    /\ UNCHANGED <<code, made, attempts, outlives, cooldown, countTtl, otpPast>>

\* expire, of the count that is there by now.
SetCountTtl(v) ==
    /\ visitAt[v] = "expire"
    /\ countTtl' = (count > 0)
    /\ Await(v, "store")
    /\ UNCHANGED <<code, made, attempts, outlives, cooldown, count, otpPast>>

\* The code replaces any older one, the wrong codes stay counted, and it is
\* mailed.
StoreCode(v) ==
    /\ visitAt[v] = "store"
    /\ made < MaxCodes
    /\ made' = made + 1
    /\ code' = made'
    /\ outlives' = FALSE
    /\ Leave(v)
    /\ UNCHANGED <<attempts, cooldown, count, countTtl, lost, otpPast>>

-----------------------------------------------------------------------------
(* verifyEmailOtp.                                                         *)

\* The code is read and compared with the one entered.
ReadCode(v) ==
    /\ visitAt[v] = "idle"
    /\ code # 0
    /\ seen' = [seen EXCEPT ![v] = code]
    /\ crossed' = LET others == {w \in Visits \ {v} : visitAt[w] \in Verifying}
                  IN  IF others = {} THEN crossed
                      ELSE crossed \cup {code} \cup {seen[w] : w \in others}
    /\ \/ /\ visitAt' = [visitAt EXCEPT ![v] = "right"]
          /\ UNCHANGED wrongs
       \/ /\ visitAt' = [visitAt EXCEPT ![v] = "wrong"]
          /\ wrongs' = [wrongs EXCEPT ![code] = @ + 1]
    /\ UNCHANGED <<keys, tried, lost, logins>>

ReadAttempts(v) ==
    /\ visitAt[v] = "wrong"
    /\ tried' = [tried EXCEPT ![v] = attempts + 1]
    /\ visitAt' = [visitAt EXCEPT ![v] = "count"]
    /\ UNCHANGED <<keys, seen, lost, otpPast>>

\* Mutant: one more is allowed.
Mutant_CountWrong(v) ==
    /\ visitAt[v] = "count"
    /\ IF tried[v] > MaxAttempts
       THEN /\ code' = 0
            /\ Await(v, "clear")
            /\ UNCHANGED <<attempts, outlives>>
       ELSE /\ attempts' = tried[v]
            /\ outlives' = TRUE
            /\ Leave(v)
            /\ UNCHANGED <<code, lost>>
    /\ UNCHANGED <<made, cooldown, count, countTtl, otpPast>>

\* The last wrong code deletes whatever code is there by now.
CountWrong(v) ==
    /\ visitAt[v] = "count"
    /\ IF tried[v] >= MaxAttempts
       THEN /\ code' = 0
            /\ Await(v, "clear")
            /\ UNCHANGED <<attempts, outlives>>
       ELSE /\ attempts' = tried[v]
            /\ outlives' = TRUE
            /\ Leave(v)
            /\ UNCHANGED <<code, lost>>
    /\ UNCHANGED <<made, cooldown, count, countTtl, otpPast>>

ClearAttempts(v) ==
    /\ visitAt[v] = "clear"
    /\ attempts' = 0
    /\ Leave(v)
    /\ UNCHANGED <<code, made, outlives, cooldown, count, countTtl, lost, otpPast>>

\* Mutant: the code is left to expire.
Mutant_UseCode(v) ==
    /\ visitAt[v] = "right"
    /\ Await(v, "accept")
    /\ UNCHANGED <<keys, otpPast>>

\* A right code is deleted, again whatever code is there by now.
UseCode(v) ==
    /\ visitAt[v] = "right"
    /\ code' = 0
    /\ Await(v, "accept")
    /\ UNCHANGED <<made, attempts, outlives, cooldown, count, countTtl, otpPast>>

\* The address is verified: the controller goes on with socialLogin.
AcceptCode(v) ==
    /\ visitAt[v] = "accept"
    /\ attempts' = 0
    /\ logins' = [logins EXCEPT ![seen[v]] = @ + 1]
    /\ Leave(v)
    /\ UNCHANGED <<code, made, outlives, cooldown, count, countTtl, lost,
                   wrongs, crossed>>

-----------------------------------------------------------------------------
(* Times to live, and requests that die.                                   *)

CodeExpires ==
    /\ code # 0
    /\ code' = 0
    /\ UNCHANGED <<made, attempts, outlives, cooldown, count, countTtl,
                   visitVars, lost, otpPast>>

\* Both have the same time to live, so a count written for a code is there as
\* long as the code.
AttemptsExpire ==
    /\ attempts # 0
    /\ code # 0 => ~outlives
    /\ attempts' = 0
    /\ UNCHANGED <<code, made, outlives, cooldown, count, countTtl,
                   visitVars, lost, otpPast>>

CooldownEnds ==
    /\ cooldown
    /\ cooldown' = FALSE
    /\ UNCHANGED <<code, made, attempts, outlives, count, countTtl,
                   visitVars, lost, otpPast>>

HourEnds ==
    /\ countTtl
    /\ count' = 0
    /\ countTtl' = FALSE
    /\ UNCHANGED <<code, made, attempts, outlives, cooldown, visitVars, lost,
                   otpPast>>

VisitDies(v) ==
    /\ visitAt[v] # "idle"
    /\ lost < MaxLost
    /\ lost' = lost + 1
    /\ Leave(v)
    /\ UNCHANGED <<keys, otpPast>>

-----------------------------------------------------------------------------

\* All but AcceptCode, which a login goes on from.
OtpStep(v) ==
    \/ AskCode(v) \/ SetCooldown(v) \/ CountRequest(v) \/ SetCountTtl(v)
    \/ StoreCode(v)
    \/ ReadCode(v) \/ ReadAttempts(v) \/ CountWrong(v) \/ ClearAttempts(v)
    \/ UseCode(v)
    \/ VisitDies(v)

OtpTimers == CodeExpires \/ AttemptsExpire \/ CooldownEnds \/ HourEnds

OtpNext == OtpTimers \/ \E v \in Visits : OtpStep(v) \/ AcceptCode(v)

OtpSpec == OtpInit /\ [][OtpNext]_otpVars

-----------------------------------------------------------------------------
(* Properties.                                                             *)

\* "deletes the OTP after successful verification": a code is good for one
\* login, unless two verifications have read it before either deleted it.
OneTimeUse == \A n \in Codes \ crossed : logins[n] <= 1

\* A code takes MaxAttempts wrong guesses and no more, although the count has
\* a time to live of its own and is not kept with the code, unless
\* verifications overlap or die before they write the count.
CodeGuessesBounded ==
    \A n \in Codes \ crossed : wrongs[n] <= MaxAttempts + lost

\* "Try again after 1 hour": the count of requests goes away by itself, unless
\* the request that set it up died between the two awaits.
CounterExpires ==
    count > 0 /\ ~countTtl =>
        lost > 0 \/ \E v \in Visits : visitAt[v] = "expire"
=============================================================================
