------------------------------ MODULE Sessions ------------------------------
(***************************************************************************)
(* The login sessions of one user: social-login.service.ts and the         *)
(* middleware that admits requests.                                        *)
(*                                                                         *)
(* A session is one JSON value under one Redis key.  Every operation reads *)
(* it, changes fields of its copy and writes the copy back, so operations  *)
(* that overlap overwrite each other, and one that read the session before *)
(* it was deleted brings it back.  Access tokens carry the refreshVersion  *)
(* they were made for.  The authenticators of the user are one array of    *)
(* the user document, written back as a whole and not always awaited.      *)
(***************************************************************************)
EXTENDS Integers, FiniteSets

CONSTANTS
    Sids,        \* session ids, each used once
    Calls,       \* the requests in progress
    Types,       \* types of authenticators
    MaxWrong,    \* MAX_MFA_RETRY_ATTEMPT
    MaxVersion,  \* bound: values of refreshVersion
    MaxDeaths,   \* bound: requests that die, updates that are lost
    Gone         \* no session, no value

ASSUME SessionsAssumption ==
    /\ MaxWrong \in Nat
    /\ MaxVersion \in Nat \ {0}
    /\ MaxDeaths \in Nat
    /\ Gone \notin Sids

VARIABLES
    sess,     \* Redis: the session under each id, Gone if there is none
    refresh,  \* the sessions a refresh token is stored for
    access,   \* the access tokens given out: session and version
    authn,    \* user document: what each authenticator is
    writing,  \* updates of the user document nobody waits for
    at,       \* the await a request is at
    sid,      \* the session a request works on
    copy,     \* the session as a request has read or written it
    user,     \* the authenticators as a request has read them
    deaths,   \* requests that died, updates that were lost
    h         \* history, see History

store == <<sess, refresh, access>>
local == <<at, sid, copy, user>>
sessionVars == <<store, authn, writing, local, deaths, h>>

Session == [version : 1..MaxVersion, required : BOOLEAN, verified : BOOLEAN,
            wrong : 0..MaxWrong]
Authenticators == [Types -> {"none", "pending", "active"}]

\* What happened so far:
History == [locked : SUBSET Sids,   \* created for a user with a second factor
            passed : SUBSET Sids,   \* a right code was entered
            closed : SUBSET Sids,   \* logged out
            overlapped : SUBSET Sids,  \* two requests worked on it at once
            wrong : [Sids -> Nat],  \* the wrong codes entered
            told : SUBSET Types,    \* the user was told it is enabled
            mixed : BOOLEAN]        \* two updates of the user overlapped

Labels == {"idle", "create", "tokens", "verify", "refresh", "confirm",
           "confirmed", "token", "remove", "removed", "logout"}

SessionsTypeOK ==
    /\ sess \in [Sids -> Session \cup {Gone}]
    /\ refresh \subseteq Sids
    /\ access \subseteq Sids \X (1..MaxVersion)
    /\ authn \in Authenticators
    /\ writing \subseteq Authenticators
    /\ at \in [Calls -> Labels]
    /\ sid \in [Calls -> Sids \cup {Gone}]
    /\ copy \in [Calls -> Session \cup {Gone}]
    /\ user \in [Calls -> Authenticators \cup {Gone}]
    /\ deaths \in 0..MaxDeaths
    /\ h \in History

SessionsInit ==
    /\ sess = [s \in Sids |-> Gone]
    /\ refresh = {} /\ access = {}
    /\ authn \in {[t \in Types |-> a] : a \in {"none", "active"}}
    /\ writing = {}
    /\ at = [c \in Calls |-> "idle"]
    /\ sid = [c \in Calls |-> Gone]
    /\ copy = [c \in Calls |-> Gone]
    /\ user = [c \in Calls |-> Gone]
    /\ deaths = 0
    /\ h = [locked |-> {}, passed |-> {}, closed |-> {}, overlapped |-> {},
            wrong |-> [s \in Sids |-> 0], told |-> {}, mixed |-> FALSE]

-----------------------------------------------------------------------------
(* Control of a request.                                                   *)

\* c starts on session s: it awaits at label with a copy of the session and
\* of the user; past is the history but for requests that overlap.
Start(c, label, s, value, u, past) ==
    /\ at[c] = "idle"
    /\ at' = [at EXCEPT ![c] = label]
    /\ sid' = [sid EXCEPT ![c] = s]
    /\ copy' = [copy EXCEPT ![c] = value]
    /\ user' = [user EXCEPT ![c] = u]
    /\ h' = IF \E d \in Calls \ {c} : sid[d] = s
            THEN [past EXCEPT !.overlapped = @ \cup {s}] ELSE past

\* c goes on to label with the session value.
Goto(c, label, value) == /\ at' = [at EXCEPT ![c] = label]
                         /\ copy' = [copy EXCEPT ![c] = value]
                         /\ UNCHANGED <<sid, user>>

Done(c) == /\ at' = [at EXCEPT ![c] = "idle"]
           /\ sid' = [sid EXCEPT ![c] = Gone]
           /\ copy' = [copy EXCEPT ![c] = Gone]
           /\ user' = [user EXCEPT ![c] = Gone]

\* redisClient.set of the session c works on, whatever is there now.
WriteSession(c, value) == sess' = [sess EXCEPT ![sid[c]] = value]

Locked(value) == value.required /\ ~value.verified

\* JWTAuthorizeMiddleware: a request has an access token of session s, and the
\* session has that version and its second factor.
Admitted(s) == /\ sess[s] # Gone
               /\ <<s, sess[s].version>> \in access
               /\ ~Locked(sess[s])

-----------------------------------------------------------------------------
(* Login.                                                                  *)

Used(s) == \/ s \in h.locked \cup h.closed \cup refresh
           \/ sess[s] # Gone
           \/ \E c \in Calls : sid[c] = s
           \/ \E v \in 1..MaxVersion : <<s, v>> \in access

\* socialLogin finds or creates the user.
SocialLogin(c, s) ==
    /\ ~Used(s)
    /\ Start(c, "create", s, Gone, authn, h)
    /\ UNCHANGED <<store, authn, writing, deaths>>

\* Mutant: the tokens are made before the second factor.
Mutant_CreateSession(c) ==
    LET required == \E t \in Types : user[c][t] = "active"
        value == [version |-> 1, required |-> required, verified |-> FALSE,
                  wrong |-> 0]
    IN  /\ at[c] = "create"
        /\ WriteSession(c, value)
        /\ h' = IF required THEN [h EXCEPT !.locked = @ \cup {sid[c]}] ELSE h
        /\ Goto(c, "tokens", value)
        /\ UNCHANGED <<refresh, access, authn, writing, deaths>>

\* createSession; with a second factor the answer has no tokens.
CreateSession(c) ==
    LET required == \E t \in Types : user[c][t] = "active"
        value == [version |-> 1, required |-> required, verified |-> FALSE,
                  wrong |-> 0]
    IN  /\ at[c] = "create"
        /\ WriteSession(c, value)
        /\ h' = IF required THEN [h EXCEPT !.locked = @ \cup {sid[c]}] ELSE h
        /\ IF required THEN Done(c) ELSE Goto(c, "tokens", value)
        /\ UNCHANGED <<refresh, access, authn, writing, deaths>>

\* The answer to a login or a refresh sets two cookies: an access token for a
\* version of the session, and a refresh token.
Answer(s, version) == /\ access' = access \cup {<<s, version>>}
                      /\ refresh' = refresh \cup {s}

\* generateTokensForSession, for the version the request holds.
GenerateTokens(c) ==
    /\ at[c] = "tokens"
    /\ Answer(sid[c], copy[c].version)
    /\ Done(c)
    /\ UNCHANGED <<sess, authn, writing, deaths, h>>

-----------------------------------------------------------------------------
(* verifyMFACode, the second factor at login.                              *)

VerifyMfaCode(c, s) ==
    /\ sess[s] # Gone /\ Locked(sess[s])
    /\ Start(c, "verify", s, sess[s], Gone, h)
    /\ UNCHANGED <<store, authn, writing, deaths>>

WrongCode(c) ==
    /\ at[c] = "verify"
    /\ WriteSession(c, IF copy[c].wrong = MaxWrong THEN Gone
                       ELSE [copy[c] EXCEPT !.wrong = @ + 1])
    /\ h' = [h EXCEPT !.wrong[sid[c]] = @ + 1]
    /\ Done(c)
    /\ UNCHANGED <<refresh, access, authn, writing, deaths>>

RightCode(c) ==
    LET value == [copy[c] EXCEPT !.wrong = 0, !.verified = TRUE] IN
    /\ at[c] = "verify"
    /\ WriteSession(c, value)
    /\ h' = [h EXCEPT !.passed = @ \cup {sid[c]}]
    /\ Goto(c, "tokens", value)
    /\ UNCHANGED <<refresh, access, authn, writing, deaths>>

-----------------------------------------------------------------------------
(* verifyAndGenerateRefreshToken.                                          *)

\* Mutant: only the token is looked up, and a session that is gone is made
\* anew from it.
Mutant_VerifyRefreshToken(c, s) ==
    /\ s \in refresh
    /\ LET value == IF sess[s] # Gone THEN sess[s]
                    ELSE [version |-> 1, required |-> FALSE,
                          verified |-> FALSE, wrong |-> 0]
       IN  /\ value.version < MaxVersion
           /\ Start(c, "refresh", s, value, Gone, h)
    /\ UNCHANGED <<store, authn, writing, deaths>>

\* A refresh token leads to a session.  The check of the second factor looks
\* at fields that no session has: it refuses nothing.
VerifyRefreshToken(c, s) ==
    /\ s \in refresh
    /\ sess[s] # Gone
    /\ sess[s].version < MaxVersion
    /\ Start(c, "refresh", s, sess[s], Gone, h)
    /\ UNCHANGED <<store, authn, writing, deaths>>

\* Mutant: the session starts over.
Mutant_Refresh(c) ==
    LET value == [copy[c] EXCEPT !.version = 1] IN
    /\ at[c] = "refresh"
    /\ WriteSession(c, value)
    /\ Goto(c, "tokens", value)
    /\ UNCHANGED <<refresh, access, authn, writing, deaths, h>>

Refresh(c) ==
    LET value == [copy[c] EXCEPT !.version = @ + 1] IN
    /\ at[c] = "refresh"
    /\ WriteSession(c, value)
    /\ Goto(c, "tokens", value)
    /\ UNCHANGED <<refresh, access, authn, writing, deaths, h>>

-----------------------------------------------------------------------------
(* generate2FA, confirmMfaSetup and removeMFA.                             *)

\* An update with the whole array is still on its way.
Updating == writing # {} \/ \E c \in Calls : at[c] \in {"remove", "removed"}

\* Mutant: an authenticator that is there is replaced.
Mutant_Generate2FA(s, t) ==
    /\ Admitted(s)
    /\ writing' = writing \cup {[authn EXCEPT ![t] = "pending"]}
    /\ h' = [h EXCEPT !.mixed = @ \/ Updating]
    /\ UNCHANGED <<store, authn, local, deaths>>

Generate2FA(s, t) ==
    /\ Admitted(s)
    /\ authn[t] = "none"
    /\ writing' = writing \cup {[authn EXCEPT ![t] = "pending"]}
    /\ h' = [h EXCEPT !.mixed = @ \/ Updating]
    /\ UNCHANGED <<store, authn, local, deaths>>

\* A right code for a pending authenticator.
ConfirmMfaSetup(c, s, t) ==
    /\ Admitted(s)
    /\ sess[s].version < MaxVersion
    /\ authn[t] = "pending"
    /\ writing' = writing \cup {[authn EXCEPT ![t] = "active"]}
    /\ Start(c, "confirm", s, Gone, Gone,
             [h EXCEPT !.told = @ \cup {t}, !.mixed = @ \/ Updating,
                       !.passed = @ \cup {s}])
    /\ UNCHANGED <<store, authn, deaths>>

\* The session is read again.
ConfirmRead(c) ==
    LET value == sess[sid[c]] IN
    /\ at[c] = "confirm"
    /\ IF value = Gone \/ value.version = MaxVersion
       THEN Done(c)
       ELSE Goto(c, "confirmed",
                 [value EXCEPT !.required = TRUE, !.verified = TRUE,
                               !.version = @ + 1])
    /\ UNCHANGED <<store, authn, writing, deaths, h>>

ConfirmWrite(c) ==
    /\ at[c] = "confirmed"
    /\ WriteSession(c, copy[c])
    /\ Goto(c, "token", copy[c])
    /\ UNCHANGED <<refresh, access, authn, writing, deaths, h>>

\* A refresh token, but no access token: the client's is out of date now.
AnswerRefresh(s) == refresh' = refresh \cup {s}

ConfirmToken(c) ==
    /\ at[c] = "token"
    /\ AnswerRefresh(sid[c])
    /\ Done(c)
    /\ UNCHANGED <<sess, access, authn, writing, deaths, h>>

\* A right code for an authenticator; the session is read after it.
RemoveMfa(c, s, t) ==
    /\ Admitted(s)
    /\ authn[t] # "none"
    /\ Start(c, "remove", s, sess[s], [authn EXCEPT ![t] = "none"],
             [h EXCEPT !.told = @ \ {t}, !.mixed = @ \/ Updating])
    /\ UNCHANGED <<store, authn, writing, deaths>>

RemoveFromSession(c) ==
    /\ at[c] = "remove"
    /\ WriteSession(c, [copy[c] EXCEPT !.required = FALSE, !.verified = FALSE])
    /\ Goto(c, "removed", copy[c])
    /\ UNCHANGED <<refresh, access, authn, writing, deaths, h>>

RemoveFromUser(c) ==
    /\ at[c] = "removed"
    /\ authn' = user[c]
    /\ Done(c)
    /\ UNCHANGED <<store, writing, deaths, h>>

\* Updates that nobody waits for land in any order.
Land(w) ==
    /\ w \in writing
    /\ writing' = writing \ {w}
    /\ authn' = w
    /\ UNCHANGED <<store, local, deaths, h>>

-----------------------------------------------------------------------------
(* The end of a session.                                                   *)

\* The session is deleted first.
Logout(c, s) ==
    /\ Admitted(s)
    /\ sess' = [sess EXCEPT ![s] = Gone]
    /\ Start(c, "logout", s, Gone, Gone, [h EXCEPT !.closed = @ \cup {s}])
    /\ UNCHANGED <<refresh, access, authn, writing, deaths>>

\* The refresh token in the client's cookie, if it sent one, may be the only
\* one of the session.
Forget(s) == refresh' \in {refresh, refresh \ {s}}

\* Then the refresh token of the client; older ones of the session stay.
LogoutToken(c) ==
    /\ at[c] = "logout"
    /\ Forget(sid[c])
    /\ Done(c)
    /\ UNCHANGED <<sess, access, authn, writing, deaths, h>>

\* The time to live of a key ends.
Expire(s) ==
    /\ \/ sess[s] # Gone /\ sess' = [sess EXCEPT ![s] = Gone]
                         /\ UNCHANGED refresh
       \/ s \in refresh /\ refresh' = refresh \ {s} /\ UNCHANGED sess
    /\ UNCHANGED <<access, authn, writing, local, deaths, h>>

\* A request dies, or an update of the user is lost.
Die ==
    /\ deaths < MaxDeaths
    /\ deaths' = deaths + 1
    /\ \/ /\ \E c \in Calls : at[c] # "idle" /\ Done(c)
          /\ UNCHANGED writing
       \/ /\ \E w \in writing : writing' = writing \ {w}
          /\ UNCHANGED local
    /\ UNCHANGED <<store, authn, h>>

-----------------------------------------------------------------------------

\* Everything but the logins, which are in Login.
SessionsNext ==
    \/ \E c \in Calls, s \in Sids :
          \/ VerifyMfaCode(c, s) \/ VerifyRefreshToken(c, s) \/ Logout(c, s)
          \/ \E t \in Types : ConfirmMfaSetup(c, s, t) \/ RemoveMfa(c, s, t)
    \/ \E c \in Calls :
          \/ CreateSession(c) \/ GenerateTokens(c)
          \/ WrongCode(c) \/ RightCode(c) \/ Refresh(c)
          \/ ConfirmRead(c) \/ ConfirmWrite(c) \/ ConfirmToken(c)
          \/ RemoveFromSession(c) \/ RemoveFromUser(c) \/ LogoutToken(c)
    \/ \E s \in Sids, t \in Types : Generate2FA(s, t)
    \/ \E w \in writing : Land(w)
    \/ \E s \in Sids : Expire(s)
    \/ Die

-----------------------------------------------------------------------------
(* Properties.                                                             *)

\* A session created for a user with a second factor gives out no token, and
\* admits no request, before a right code was entered in it: refreshing,
\* confirming and removing authenticators are no way around it, and neither
\* is any copy written back late.
SecondFactor ==
    \A s \in h.locked \ h.passed :
        /\ s \notin refresh
        /\ \A v \in 1..MaxVersion : <<s, v>> \notin access
        /\ sess[s] # Gone => Locked(sess[s])

\* The session of a user who logged out stays deleted, whatever tokens are
\* left, unless another request was at work on it.
LogoutFinal ==
    \A s \in h.closed \ h.overlapped : sess[s] = Gone

\* A session takes MaxWrong wrong codes and is deleted with the next, unless
\* two requests checked codes at once: each writes its own count.
MfaGuessesBounded ==
    \A s \in Sids \ h.overlapped : h.wrong[s] <= MaxWrong + 1

\* An authenticator the user was told is enabled is asked for at the next
\* logins, as soon as the update has landed; two updates that overlap, each
\* with the whole array, may undo each other.
ConfirmedIsEnabled ==
    ~h.mixed /\ deaths = 0 =>
        \A t \in h.told : \/ authn[t] = "active"
                          \/ \E w \in writing : w[t] = "active"

\* A version never comes back, so a token that was replaced is not admitted
\* again, unless an overlapping request wrote its copy of the session.
VersionsGrow ==
    [][\A s \in Sids \ h'.overlapped :
          sess[s] # Gone /\ sess'[s] # Gone =>
              /\ sess'[s].version >= sess[s].version
              /\ \A v \in 1..MaxVersion :
                    <<s, v>> \in access => v <= sess'[s].version]_sessionVars
=============================================================================
