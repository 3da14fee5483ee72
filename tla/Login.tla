------------------------------- MODULE Login -------------------------------
(***************************************************************************)
(* A login by e-mail or by the OAuth callback, and the session it starts:  *)
(* EmailOtp and Sessions for one user, side by side.  The e-mail endpoint  *)
(* goes on with socialLogin in the request that verified the code.         *)
(***************************************************************************)
EXTENDS EmailOtp, Sessions

vars == <<otpVars, sessionVars>>

Init == OtpInit /\ SessionsInit

\* verifyEmailOtp of the controller.
LoginByEmail(v, c, s) == AcceptCode(v) /\ SocialLogin(c, s)

\* socialAuthCallback, behind the OAuth provider.
LoginByOAuth(c, s) == SocialLogin(c, s) /\ UNCHANGED otpVars

Next ==
    \/ (OtpTimers \/ \E v \in Visits : OtpStep(v)) /\ UNCHANGED sessionVars
    \/ SessionsNext /\ UNCHANGED otpVars
    \/ \E c \in Calls, s \in Sids : LoginByOAuth(c, s)
    \/ \E v \in Visits, c \in Calls, s \in Sids : LoginByEmail(v, c, s)

Spec == Init /\ [][Next]_vars

-----------------------------------------------------------------------------
(* Properties.                                                             *)

\* Neither secret can be guessed at leisure: an e-mail code and the second
\* factor of a session each end with the guesses they are given.
GuessesBounded == CodeGuessesBounded /\ MfaGuessesBounded
=============================================================================
