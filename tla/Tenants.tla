------------------------------ MODULE Tenants ------------------------------
(***************************************************************************)
(* Teammates: how one person is invited to the accounts of admins, acts    *)
(* there as a tenant, and is let out again.  people.service.ts, the roles, *)
(* and the middleware that serves a session as a tenant.                   *)
(*                                                                         *)
(* Memberships are documents, keyed by the user id of the person or, if    *)
(* invited before the first login, by the e-mail address.  The tenant of a *)
(* session is a field of its Redis value, which a switch reads first and   *)
(* writes back later, and so do a refresh of the tokens and the steps of   *)
(* the second factor, which change other fields of it; which sessions act  *)
(* for an admin is kept once more, in an index.                            *)
(***************************************************************************)
EXTENDS Integers

CONSTANTS
    Admins,      \* the accounts the person is invited to
    Roles,       \* the roles of the admins
    Sids,        \* the sessions of the person, each started once
    Calls,       \* the requests in progress
    MaxInvites,  \* bound: invitations made
    MaxEdits,    \* bound: changes of roles
    MaxDeaths,   \* bound: requests that die
    None         \* no document, no session, no tenant

ASSUME TenantsAssumption ==
    /\ MaxInvites \in Nat \ {0}
    /\ MaxEdits \in Nat
    /\ MaxDeaths \in Nat
    /\ None \notin Admins \cup Roles \cup Sids
    /\ Calls \cap Sids = {}

VARIABLES
    registered,  \* the user document of the person exists
    docs,        \* the membership of each admin under each key
    rights,      \* the permissions of each role: a version, 0 if removed
    sess,        \* Redis: the session under each id
    index,       \* Redis: tenant_sessions of each admin
    indexTtl,    \* the indexes that have a time to live
    backfilled,  \* Redis: the admins whose index has been filled
    req,         \* what each request is at, and knows
    owed,        \* sessions other requests have read and will write back
    invites, edits, deaths,  \* how many there were so far
    h            \* history, see History

vars == <<registered, docs, rights, sess, index, indexTtl, backfilled, req,
          owed, invites, edits, deaths, h>>
members == <<registered, docs, rights, invites, edits>>
redis == <<sess, index, indexTtl, backfilled>>

Keys == {"email", "user"}
Doc == [code : 1..MaxInvites, accepted : BOOLEAN, valid : BOOLEAN, role : Roles]

\* A session: its tenant, the permissions there, and whether it has a time to
\* live.
Grants == Roles \X (1..MaxEdits + 1)
Session == [tenant : Admins \cup {None}, grants : Grants \cup {None},
            ttl : BOOLEAN]

ASSUME NoneAssumption == None \notin Doc \cup Session

Labels == {"create", "accept", "delete", "attach",
           "member", "role", "ttl", "set", "srem", "sadd", "expire",
           "mget", "stale", "exists", "scan", "read", "backfill", "flag"}

\* admin, key, code, role: what the request is about; sid, snap: its session
\* as it was read, or as it is to be written; ids: the sessions a listing
\* goes through.
Idle == [at |-> "idle", admin |-> None, key |-> "user", code |-> 0,
         role |-> None, sid |-> None, snap |-> None, old |-> None, ids |-> {}]

History == [joined : SUBSET Admins,    \* once accepted an invitation
            out : SUBSET Admins,       \* told that the person is out
            late : SUBSET Admins,      \* invited by e-mail, then registered
            again : SUBSET Admins,     \* invited or joined once more
            recast : SUBSET (Sids \cup Calls),  \* a role changed since
            raced : SUBSET Sids,       \* two requests were at work on it,
                                       \* or what one wrote was undone
            shortened : SUBSET Admins] \* the index expired
NoHistory == [joined |-> {}, out |-> {}, late |-> {}, again |-> {},
              recast |-> {}, raced |-> {}, shortened |-> {}]

TypeOK ==
    /\ registered \in BOOLEAN
    /\ docs \in [Admins -> [Keys -> Doc \cup {None}]]
    /\ rights \in [Roles -> 0..MaxEdits + 1]
    /\ sess \in [Sids -> Session \cup {None}]
    /\ index \in [Admins -> SUBSET Sids]
    /\ indexTtl \subseteq Admins /\ backfilled \subseteq Admins
    /\ req \in [Calls -> [at : Labels \cup {"idle"},
                          admin : Admins \cup {None}, key : Keys,
                          code : 0..MaxInvites, role : Roles \cup {None},
                          sid : Sids \cup {None}, snap : Session \cup {None},
                          old : Admins \cup {None}, ids : SUBSET Sids]]
    /\ owed \subseteq Sids \X Session
    /\ invites \in 0..MaxInvites
    /\ edits \in 0..MaxEdits
    /\ deaths \in 0..MaxDeaths
    /\ h \in History

NoDocs == [a \in Admins |-> [k \in Keys |-> None]]
NoSessions == [s \in Sids |-> None]

\* A tenant from before the index was introduced.
Legacy == \E a \in Admins, r \in Roles, s \in Sids :
    /\ registered = TRUE
    /\ docs = [NoDocs EXCEPT ![a]["user"] =
                  [code |-> 1, accepted |-> TRUE, valid |-> TRUE, role |-> r]]
    /\ sess = [NoSessions EXCEPT ![s] =
                  [tenant |-> a, grants |-> <<r, 1>>, ttl |-> TRUE]]
    /\ invites = 1
    /\ h = [NoHistory EXCEPT !.joined = {a}]

Init ==
    /\ \/ Legacy
       \/ /\ registered = FALSE /\ docs = NoDocs /\ sess = NoSessions
          /\ invites = 0 /\ h = NoHistory
    /\ rights = [r \in Roles |-> 1]
    /\ index = [a \in Admins |-> {}]
    /\ indexTtl = {} /\ backfilled = {}
    /\ req = [c \in Calls |-> Idle]
    /\ owed = {}
    /\ edits = 0 /\ deaths = 0

-----------------------------------------------------------------------------
(* Control of a request.                                                   *)

\* The sessions that requests other than c are switching, or may be about to
\* take out of an index.
InUse(c) == UNION {{req[d].sid} \cup IF req[d].at \in {"mget", "stale"}
                                    THEN req[d].ids ELSE {} : d \in Calls \ {c}}

Start(c, r) == req[c] = Idle /\ req' = [req EXCEPT ![c] = r]
Done(c) == req' = [req EXCEPT ![c] = Idle]
Goto(c, label) == req' = [req EXCEPT ![c].at = label]

\* The key userDetails?.userId || emailId.
Key == IF registered THEN "user" ELSE "email"

Docs(a) == {k \in Keys : docs[a][k] # None}

-----------------------------------------------------------------------------
(* Invitations.                                                            *)

\* createInvitation, up to the role.
Invite(c, a, r) ==
    /\ docs[a][Key] = None
    /\ rights[r] # 0
    /\ Start(c, [Idle EXCEPT !.at = "create", !.admin = a, !.key = Key,
                             !.role = r])
    /\ UNCHANGED <<members, redis, owed, deaths, h>>

\* The document, unless the unique index refuses it.
CreateInvite(c) ==
    LET a == req[c].admin
        k == req[c].key
    IN  /\ req[c].at = "create"
        /\ IF docs[a][k] # None
           THEN UNCHANGED <<docs, invites, h>>
           ELSE /\ invites < MaxInvites
                /\ invites' = invites + 1
                /\ docs' = [docs EXCEPT ![a][k] =
                              [code |-> invites', accepted |-> FALSE,
                               valid |-> TRUE, role |-> req[c].role]]
                /\ h' = [h EXCEPT !.out = @ \ {a},
                                  !.again = IF a \in h.joined
                                            THEN @ \cup {a} ELSE @,
                                  !.late = IF k = "email" /\ registered
                                           THEN @ \cup {a} ELSE @]
        /\ Done(c)
        /\ UNCHANGED <<registered, rights, edits, redis, owed, deaths>>

\* update: the invitation is valid again, for ten minutes.
Resend(a, k) ==
    /\ docs[a][k] # None
    /\ docs' = [docs EXCEPT ![a][k].valid = TRUE]
    /\ UNCHANGED <<registered, rights, invites, edits, redis, req, owed, deaths,
                   h>>

InvitationExpires(a, k) ==
    /\ docs[a][k] # None
    /\ docs' = [docs EXCEPT ![a][k].valid = FALSE]
    /\ UNCHANGED <<registered, rights, invites, edits, redis, req, owed, deaths,
                   h>>

LoggedIn == \E s \in Sids : sess[s] # None

\* acceptInvite: the invitation is found and checked.
Accept(c, a, k) ==
    /\ LoggedIn
    /\ docs[a][k] # None
    /\ docs[a][k].valid /\ ~docs[a][k].accepted
    /\ Start(c, [Idle EXCEPT !.at = "accept", !.admin = a,
                             !.code = docs[a][k].code])
    /\ UNCHANGED <<members, redis, owed, deaths, h>>

\* Mutant: the update makes the document if it is gone.
Mutant_AcceptWrite(c) ==
    LET a == req[c].admin IN
    /\ req[c].at = "accept"
    /\ \E r \in Roles :
          docs' = [docs EXCEPT ![a]["user"] =
            [code |-> req[c].code, accepted |-> TRUE, valid |-> TRUE, role |-> r]]
    /\ h' = [h EXCEPT !.joined = @ \cup {a}]
    /\ Done(c)
    /\ UNCHANGED <<registered, rights, invites, edits, redis, owed, deaths>>

\* Then updated, wherever it is by now: its user id becomes the real one,
\* unless the unique index refuses that.
AcceptWrite(c) ==
    LET a == req[c].admin
        found == {k \in Docs(a) : docs[a][k].code = req[c].code}
    IN  /\ req[c].at = "accept"
        /\ IF found = {} \/ (found = {"email"} /\ docs[a]["user"] # None)
           THEN UNCHANGED <<docs, h>>
           ELSE \E k \in found :
                  /\ docs' = [docs EXCEPT ![a] =
                        [email |-> IF k = "email" THEN None ELSE @["email"],
                         user |-> [@[k] EXCEPT !.accepted = TRUE]]]
                  /\ h' = [h EXCEPT !.joined = @ \cup {a},
                        !.again = IF a \in h.joined /\ ~docs[a][k].accepted
                                  THEN @ \cup {a} ELSE @]
        /\ Done(c)
        /\ UNCHANGED <<registered, rights, invites, edits, redis, owed, deaths>>

-----------------------------------------------------------------------------
(* Deletion and roles.                                                     *)

\* deletePerson: the key is looked up, and a document under it.
Delete(c, a) ==
    /\ IF docs[a][Key] = None
       THEN /\ req[c] = Idle
            /\ h' = [h EXCEPT !.out = @ \cup {a}]
            /\ UNCHANGED req
       ELSE /\ Start(c, [Idle EXCEPT !.at = "delete", !.admin = a, !.key = Key])
            /\ UNCHANGED h
    /\ UNCHANGED <<members, redis, owed, deaths>>

\* Then whatever is under the key is deleted.
DeleteDoc(c) ==
    /\ req[c].at = "delete"
    /\ docs' = [docs EXCEPT ![req[c].admin][req[c].key] = None]
    /\ h' = [h EXCEPT !.out = @ \cup {req[c].admin}]
    /\ Done(c)
    /\ UNCHANGED <<registered, rights, invites, edits, redis, owed, deaths>>

\* A role of the person changes: what a session was granted is out of date.
\* So is what a switch knows.
Recast == h' = [h EXCEPT !.recast = Calls \cup Sids]

\* attachRole: membership and role are looked up.
Attach(c, a, r) ==
    /\ edits < MaxEdits
    /\ docs[a]["user"] # None /\ docs[a]["user"].accepted
    /\ rights[r] # 0
    /\ Start(c, [Idle EXCEPT !.at = "attach", !.admin = a, !.role = r])
    /\ UNCHANGED <<members, redis, owed, deaths, h>>

AttachWrite(c) ==
    LET a == req[c].admin IN
    /\ req[c].at = "attach"
    /\ edits < MaxEdits
    /\ IF docs[a]["user"] = None
       THEN UNCHANGED <<docs, edits, h>>
       ELSE /\ docs' = [docs EXCEPT ![a]["user"].role = req[c].role]
            /\ edits' = edits + 1
            /\ Recast
    /\ Done(c)
    /\ UNCHANGED <<registered, rights, invites, redis, owed, deaths>>

\* RoleService: update and remove.
EditRole(r) ==
    /\ edits < MaxEdits
    /\ rights[r] # 0
    /\ edits' = edits + 1
    /\ \/ rights' = [rights EXCEPT ![r] = @ + 1]
       \/ rights' = [rights EXCEPT ![r] = 0]
    /\ Recast
    /\ UNCHANGED <<registered, docs, invites, redis, req, owed, deaths>>

-----------------------------------------------------------------------------
(* Sessions.                                                               *)

\* socialLogin; the first one registers the person.
Login(s) ==
    /\ sess[s] = None
    /\ s \notin h.raced
    /\ sess' = [sess EXCEPT ![s] = [tenant |-> None, grants |-> None,
                                    ttl |-> TRUE]]
    /\ registered' = TRUE
    /\ h' = IF registered THEN h
            ELSE [h EXCEPT !.late = @ \cup {a \in Admins :
                    \/ Docs(a) # {}
                    \/ \E c \in Calls : req[c].at = "delete" /\ req[c].admin = a}]
    /\ UNCHANGED <<docs, rights, invites, edits, index, indexTtl, backfilled,
                   req, owed, deaths>>

\* Logout, too many wrong codes of the second factor, or the time to live ends.
EndSession(s) ==
    /\ sess[s] # None
    /\ sess' = [sess EXCEPT ![s] = None]
    /\ h' = IF \E c \in Calls : req[c].sid = s
            THEN [h EXCEPT !.raced = @ \cup {s}] ELSE h
    /\ UNCHANGED <<members, index, indexTtl, backfilled, req, owed, deaths>>

\* switchTenantAccount: the session was read by the middleware.  Back to the
\* own account nothing else is looked up.
Switch(c, s, a) ==
    /\ sess[s] # None
    /\ a # sess[s].tenant
    /\ Start(c, [Idle EXCEPT !.at = IF a = None THEN "ttl" ELSE "member",
                             !.admin = a, !.sid = s,
                             !.snap = [sess[s] EXCEPT !.tenant = None,
                                                      !.grants = None],
                             !.old = sess[s].tenant])
    /\ h' = [h EXCEPT !.recast = @ \ {c},
                      !.raced = IF s \in InUse(c) THEN @ \cup {s} ELSE @]
    /\ UNCHANGED <<members, redis, owed, deaths>>

\* Mutant: an invitation will do.
Mutant_ReadMember(c) ==
    LET doc == docs[req[c].admin]["user"] IN
    /\ req[c].at = "member"
    /\ IF doc # None
       THEN req' = [req EXCEPT ![c].at = "role", ![c].role = doc.role]
       ELSE Done(c)
    /\ UNCHANGED <<members, redis, owed, deaths, h>>

\* Mutant: any role of the admin will do.
Mutant_ReadAnyRole(c) ==
    LET doc == docs[req[c].admin]["user"] IN
    /\ req[c].at = "member"
    /\ IF doc # None /\ doc.accepted
       THEN \E r \in Roles :
              req' = [req EXCEPT ![c].at = "role", ![c].role = r]
       ELSE Done(c)
    /\ UNCHANGED <<members, redis, owed, deaths, h>>

ReadMember(c) ==
    LET doc == docs[req[c].admin]["user"] IN
    /\ req[c].at = "member"
    /\ IF doc # None /\ doc.accepted
       THEN req' = [req EXCEPT ![c].at = "role", ![c].role = doc.role]
       ELSE Done(c)
    /\ UNCHANGED <<members, redis, owed, deaths, h>>

\* The session is to act for the admin with the permissions the role has now.
Granted(c) == [req EXCEPT ![c].at = "ttl",
                          ![c].snap.tenant = req[c].admin,
                          ![c].snap.grants = <<req[c].role, rights[req[c].role]>>]

\* Mutant: a role that was removed is no error.
Mutant_ReadRole(c) ==
    /\ req[c].at = "role"
    /\ req' = Granted(c)
    /\ UNCHANGED <<members, redis, owed, deaths, h>>

ReadRole(c) ==
    /\ req[c].at = "role"
    /\ IF rights[req[c].role] = 0 THEN Done(c) ELSE req' = Granted(c)
    /\ UNCHANGED <<members, redis, owed, deaths, h>>

ReadTtl(c) ==
    LET s == req[c].sid IN
    /\ req[c].at = "ttl"
    /\ req' = [req EXCEPT ![c].at = "set",
                          ![c].snap.ttl = sess[s] # None /\ sess[s].ttl]
    /\ UNCHANGED <<members, redis, owed, deaths, h>>

\* Mutant: the time to live is not kept.
Mutant_WriteSession(c) ==
    /\ req[c].at = "set"
    /\ sess' = [sess EXCEPT ![req[c].sid] = [req[c].snap EXCEPT !.ttl = FALSE]]
    /\ IF req[c].old # None THEN Goto(c, "srem") ELSE Goto(c, "sadd")
    /\ UNCHANGED <<members, index, indexTtl, backfilled, owed, deaths, h>>

\* updateSession; what it does with the index follows.
WriteSession(c) ==
    /\ req[c].at = "set"
    /\ sess' = [sess EXCEPT ![req[c].sid] = req[c].snap]
    /\ IF req[c].old # None THEN Goto(c, "srem") ELSE Goto(c, "sadd")
    /\ h' = [h EXCEPT !.recast = IF c \in @ THEN @ \cup {req[c].sid}
                                            ELSE @ \ {req[c].sid}]
    /\ UNCHANGED <<members, index, indexTtl, backfilled, owed, deaths>>

\* Members S of the index of a; an index without members is no key.
SetIndex(a, S) ==
    /\ index' = [index EXCEPT ![a] = S]
    /\ indexTtl' = IF S = {} THEN indexTtl \ {a} ELSE indexTtl

LeaveIndex(c) ==
    /\ req[c].at = "srem"
    /\ SetIndex(req[c].old, index[req[c].old] \ {req[c].sid})
    /\ IF req[c].admin = None THEN Done(c) ELSE Goto(c, "sadd")
    /\ UNCHANGED <<members, sess, backfilled, owed, deaths, h>>

EnterIndex(c) ==
    /\ req[c].at = "sadd"
    /\ SetIndex(req[c].admin, index[req[c].admin] \cup {req[c].sid})
    /\ IF req[c].snap.ttl THEN Goto(c, "expire") ELSE Done(c)
    /\ UNCHANGED <<members, sess, backfilled, owed, deaths, h>>

ExpireIndex(c) ==
    LET a == req[c].admin IN
    /\ req[c].at = "expire"
    /\ indexTtl' = IF index[a] = {} THEN indexTtl ELSE indexTtl \cup {a}
    /\ Done(c)
    /\ UNCHANGED <<members, sess, index, backfilled, owed, deaths, h>>

\* The time to live of the last session that entered ends; a session that was
\* refreshed since, or entered before, may still be there.
IndexExpires(a) ==
    /\ a \in indexTtl
    /\ SetIndex(a, {})
    /\ h' = [h EXCEPT !.shortened = @ \cup {a}]
    /\ UNCHANGED <<members, sess, backfilled, req, owed, deaths>>

-----------------------------------------------------------------------------
(* The other requests that write a session back: a refresh of its tokens   *)
(* (verifyAndGenerateRefreshToken) and the second factor (verifyMFACode,   *)
(* confirmMfaSetup, removeMFA).  They change none of the fields modelled   *)
(* here, but write the whole value they have read.  Any number may be on.  *)

TakeSession(s) ==
    /\ sess[s] # None
    /\ owed' = owed \cup {<<s, sess[s]>>}
    /\ UNCHANGED <<members, redis, req, deaths, h>>

\* The value is written with a time to live, whatever is stored by then: the
\* session a switch has changed meanwhile, or none.  Another request may still
\* hold the same value.
PutBack(w) ==
    LET s == w[1] IN
    /\ sess' = [sess EXCEPT ![s] = [w[2] EXCEPT !.ttl = TRUE]]
    /\ owed' \in {owed, owed \ {w}}
    /\ h' = IF sess[s] = w[2] THEN h ELSE [h EXCEPT !.raced = @ \cup {s}]
    /\ UNCHANGED <<members, index, indexTtl, backfilled, req, deaths>>

\* The request throws before it writes, or dies.
LetGo(w) ==
    /\ owed' = owed \ {w}
    /\ UNCHANGED <<members, redis, req, deaths, h>>

-----------------------------------------------------------------------------
(* getUsersAccessingAccount: the sessions that act for an admin.           *)

ActFor(a, S) == {s \in S : sess[s] # None /\ sess[s].tenant = a}

\* findTenantSessionsFromIndex.
ReadIndex(c, a) ==
    /\ Start(c, [Idle EXCEPT !.at = IF index[a] = {} THEN "exists" ELSE "mget",
                             !.admin = a, !.ids = index[a]])
    /\ h' = [h EXCEPT !.raced = @ \cup (index[a] \cap InUse(c))]
    /\ UNCHANGED <<members, redis, owed, deaths>>

\* The stale ones are kept, to be taken out.
ReadSessions(c) ==
    LET stale == req[c].ids \ ActFor(req[c].admin, req[c].ids) IN
    /\ req[c].at = "mget"
    /\ req' = [req EXCEPT ![c].at = IF stale = {} THEN "exists" ELSE "stale",
                          ![c].ids = stale]
    /\ UNCHANGED <<members, redis, owed, deaths, h>>

RemoveStale(c) ==
    /\ req[c].at = "stale"
    /\ SetIndex(req[c].admin, index[req[c].admin] \ req[c].ids)
    /\ req' = [req EXCEPT ![c].at = "exists", ![c].ids = {}]
    /\ UNCHANGED <<members, sess, backfilled, owed, deaths, h>>

CheckBackfilled(c) ==
    /\ req[c].at = "exists"
    /\ IF req[c].admin \in backfilled THEN Done(c) ELSE Goto(c, "scan")
    /\ UNCHANGED <<members, redis, owed, deaths, h>>

\* findTenantSessions: one page of session keys, then their values.
Scan(c) ==
    /\ req[c].at = "scan"
    /\ req' = [req EXCEPT ![c].at = "read",
                          ![c].ids = {s \in Sids : sess[s] # None}]
    /\ UNCHANGED <<members, redis, owed, deaths, h>>

ReadPage(c) ==
    LET found == ActFor(req[c].admin, req[c].ids) IN
    /\ req[c].at = "read"
    /\ req' = [req EXCEPT ![c].at = IF found = {} THEN "flag" ELSE "backfill",
                          ![c].ids = found]
    /\ UNCHANGED <<members, redis, owed, deaths, h>>

\* Mutant: the sessions found are only answered.
Mutant_Backfill(c) ==
    /\ req[c].at = "backfill"
    /\ Goto(c, "flag")
    /\ UNCHANGED <<members, redis, owed, deaths, h>>

Backfill(c) ==
    /\ req[c].at = "backfill"
    /\ SetIndex(req[c].admin, index[req[c].admin] \cup req[c].ids)
    /\ Goto(c, "flag")
    /\ UNCHANGED <<members, sess, backfilled, owed, deaths, h>>

FlagBackfilled(c) ==
    /\ req[c].at = "flag"
    /\ backfilled' = backfilled \cup {req[c].admin}
    /\ Done(c)
    /\ UNCHANGED <<members, sess, index, indexTtl, owed, deaths, h>>

Die(c) ==
    /\ req[c] # Idle
    /\ deaths < MaxDeaths
    /\ deaths' = deaths + 1
    /\ Done(c)
    /\ UNCHANGED <<members, redis, owed, h>>

-----------------------------------------------------------------------------

Next ==
    \/ \E a \in Admins, k \in Keys : Resend(a, k) \/ InvitationExpires(a, k)
    \/ \E r \in Roles : EditRole(r)
    \/ \E s \in Sids : Login(s) \/ EndSession(s) \/ TakeSession(s)
    \/ \E w \in owed : PutBack(w) \/ LetGo(w)
    \/ \E a \in Admins : IndexExpires(a)
    \/ \E c \in Calls, a \in Admins :
          \/ \E r \in Roles : Invite(c, a, r) \/ Attach(c, a, r)
          \/ \E k \in Keys : Accept(c, a, k)
          \/ Delete(c, a)
          \/ ReadIndex(c, a)
    \/ \E c \in Calls, s \in Sids, a \in Admins \cup {None} : Switch(c, s, a)
    \/ \E c \in Calls :
          \/ CreateInvite(c) \/ AcceptWrite(c) \/ DeleteDoc(c) \/ AttachWrite(c)
          \/ ReadMember(c) \/ ReadRole(c) \/ ReadTtl(c) \/ WriteSession(c)
          \/ LeaveIndex(c) \/ EnterIndex(c) \/ ExpireIndex(c)
          \/ ReadSessions(c) \/ RemoveStale(c) \/ CheckBackfilled(c)
          \/ Scan(c) \/ ReadPage(c) \/ Backfill(c) \/ FlagBackfilled(c)
          \/ Die(c)

Spec == Init /\ [][Next]_vars

-----------------------------------------------------------------------------
(* Properties.                                                             *)

\* JWTAccessAccountMiddleware serves session s as a tenant of admin a: it
\* looks for a membership, accepted or not.
Serves(s, a) == /\ sess[s] # None
                /\ sess[s].tenant = a
                /\ docs[a]["user"] # None

\* "You must accept the tenant invitation before switching."  Whoever is served
\* as a tenant has accepted an invitation of that admin, and the membership is
\* an accepted one, unless the person was invited again after a deletion and
\* still has a session from before.
ServedHasJoined ==
    \A s \in Sids, a \in Admins : Serves(s, a) =>
        /\ a \in h.joined
        /\ docs[a]["user"].accepted \/ a \in h.again

\* An admin who was told that the person is deleted, or "has already been
\* deleted", has no membership of that person left, unless one made for the
\* e-mail address was there when the person registered.
DeletedMeansOut == \A a \in h.out \ h.late : Docs(a) = {}

\* While the roles of the person stay as they are, a session acts with the
\* permissions its role gives, and with those of no earlier switch, unless
\* another request wrote back what it had read before a switch or a logout.
PermissionsFollowRole ==
    \A s \in Sids \ (h.recast \cup h.raced), a \in Admins \ h.again :
        Serves(s, a) =>
            LET r == docs[a]["user"].role IN sess[s].grants = <<r, rights[r]>>

\* Once an index has been filled it lists every session that acts for the
\* admin, but for one whose switch is not done, or raced with a listing, with
\* another switch, or with a refresh that put back the tenant it had left; a
\* request that dies in between loses a session for good, and so does the time
\* to live of the index.
IndexComplete ==
    deaths = 0 =>
        \A a \in backfilled \ h.shortened, s \in Sids \ h.raced :
            sess[s] # None /\ sess[s].tenant = a =>
                \/ s \in index[a]
                \/ \E c \in Calls : req[c].sid = s /\ req[c].at \in {"srem", "sadd"}

\* A session always has a time to live, but for one that requests raced on: if
\* it ended while a switch was about to write it, it is back, for ever.
SessionsExpire ==
    \A s \in Sids \ h.raced : sess[s] # None => sess[s].ttl
=============================================================================
