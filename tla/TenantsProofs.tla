--------------------------- MODULE TenantsProofs ---------------------------
(***************************************************************************)
(* Theorems about Tenants for any number of admins, roles, sessions and    *)
(* requests, any number of invitations, changes of roles and deaths.       *)
(***************************************************************************)
EXTENDS Tenants, TLAPS

-----------------------------------------------------------------------------
(* Type correctness: the requests.                                         *)

Req == [at : Labels \cup {"idle"}, admin : Admins \cup {None}, key : Keys,
        code : 0..MaxInvites, role : Roles \cup {None},
        sid : Sids \cup {None}, snap : Session \cup {None},
        old : Admins \cup {None}, ids : SUBSET Sids]

\* The awaits of a switch: it knows the session.
Switching == {"member", "role", "ttl", "set", "srem", "sadd", "expire"}

\* What a request knows at its await: the admin, role or invitation it is
\* about to work on is there; a switch has a session and one to write, for the
\* admin it is about, who is not the one the session acted for.
Fit(r) ==
    /\ r.at \notin {"idle", "ttl", "set", "srem"} => r.admin \in Admins
    /\ r.at \in {"create", "attach", "role"} => r.role \in Roles
    /\ r.at = "accept" => r.code # 0
    /\ r.at \in Switching => r.sid \in Sids /\ r.snap \in Session
    /\ r.at \notin Switching => r.sid = None
    /\ r.at \in {"ttl", "set", "srem", "sadd"} => r.snap.tenant = r.admin
    /\ r.at \in Switching \ {"sadd", "expire"} => r.old # r.admin
    /\ r.at = "srem" => r.old \in Admins

Ready == {r \in Req : Fit(r)}

RequestsOK == req \in [Calls -> Ready]

\* The requests a step of c leaves alone.
Others(c) == \A d \in Calls \ {c} : req'[d] = req[d]

\* One field of what a request knows is set, the others stay: one lemma for
\* each field.
LEMMA SetAt ==
    ASSUME NEW r \in Req, NEW v \in Labels \cup {"idle"}
    PROVE  LET q == [r EXCEPT !.at = v] IN
           /\ q \in Req /\ q.at = v
           /\ q.admin = r.admin /\ q.key = r.key
           /\ q.code = r.code /\ q.role = r.role
           /\ q.sid = r.sid /\ q.snap = r.snap
           /\ q.old = r.old /\ q.ids = r.ids
BY DEF Req

\* The admin.
LEMMA SetAdmin ==
    ASSUME NEW r \in Req, NEW v \in Admins \cup {None}
    PROVE  LET q == [r EXCEPT !.admin = v] IN
           /\ q \in Req /\ q.admin = v
           /\ q.at = r.at /\ q.key = r.key
           /\ q.code = r.code /\ q.role = r.role
           /\ q.sid = r.sid /\ q.snap = r.snap
           /\ q.old = r.old /\ q.ids = r.ids
BY DEF Req

\* The key.
LEMMA SetKey ==
    ASSUME NEW r \in Req, NEW v \in Keys
    PROVE  LET q == [r EXCEPT !.key = v] IN
           /\ q \in Req /\ q.key = v
           /\ q.at = r.at /\ q.admin = r.admin
           /\ q.code = r.code /\ q.role = r.role
           /\ q.sid = r.sid /\ q.snap = r.snap
           /\ q.old = r.old /\ q.ids = r.ids
BY DEF Req

\* The code of the invitation.
LEMMA SetCode ==
    ASSUME NEW r \in Req, NEW v \in 0..MaxInvites
    PROVE  LET q == [r EXCEPT !.code = v] IN
           /\ q \in Req /\ q.code = v
           /\ q.at = r.at /\ q.admin = r.admin
           /\ q.key = r.key /\ q.role = r.role
           /\ q.sid = r.sid /\ q.snap = r.snap
           /\ q.old = r.old /\ q.ids = r.ids
BY DEF Req

\* The role.
LEMMA SetRole ==
    ASSUME NEW r \in Req, NEW v \in Roles \cup {None}
    PROVE  LET q == [r EXCEPT !.role = v] IN
           /\ q \in Req /\ q.role = v
           /\ q.at = r.at /\ q.admin = r.admin
           /\ q.key = r.key /\ q.code = r.code
           /\ q.sid = r.sid /\ q.snap = r.snap
           /\ q.old = r.old /\ q.ids = r.ids
BY DEF Req

\* The session.
LEMMA SetSid ==
    ASSUME NEW r \in Req, NEW v \in Sids \cup {None}
    PROVE  LET q == [r EXCEPT !.sid = v] IN
           /\ q \in Req /\ q.sid = v
           /\ q.at = r.at /\ q.admin = r.admin
           /\ q.key = r.key /\ q.code = r.code
           /\ q.role = r.role /\ q.snap = r.snap
           /\ q.old = r.old /\ q.ids = r.ids
BY DEF Req

\* The session as it is to be written.
LEMMA SetSnap ==
    ASSUME NEW r \in Req, NEW v \in Session \cup {None}
    PROVE  LET q == [r EXCEPT !.snap = v] IN
           /\ q \in Req /\ q.snap = v
           /\ q.at = r.at /\ q.admin = r.admin
           /\ q.key = r.key /\ q.code = r.code
           /\ q.role = r.role /\ q.sid = r.sid
           /\ q.old = r.old /\ q.ids = r.ids
BY DEF Req

\* The former tenant.
LEMMA SetOld ==
    ASSUME NEW r \in Req, NEW v \in Admins \cup {None}
    PROVE  LET q == [r EXCEPT !.old = v] IN
           /\ q \in Req /\ q.old = v
           /\ q.at = r.at /\ q.admin = r.admin
           /\ q.key = r.key /\ q.code = r.code
           /\ q.role = r.role /\ q.sid = r.sid
           /\ q.snap = r.snap /\ q.ids = r.ids
BY DEF Req

\* The sessions of a listing.
LEMMA SetIds ==
    ASSUME NEW r \in Req, NEW v \in SUBSET Sids
    PROVE  LET q == [r EXCEPT !.ids = v] IN
           /\ q \in Req /\ q.ids = v
           /\ q.at = r.at /\ q.admin = r.admin
           /\ q.key = r.key /\ q.code = r.code
           /\ q.role = r.role /\ q.sid = r.sid
           /\ q.snap = r.snap /\ q.old = r.old
BY DEF Req

\* A request that knows nothing yet.
LEMMA IdleIs ==
    /\ Idle \in Ready /\ Idle \in Req
    /\ Idle.at = "idle" /\ Idle.admin = None /\ Idle.key = "user"
    /\ Idle.code = 0 /\ Idle.role = None /\ Idle.sid = None
    /\ Idle.snap = None /\ Idle.old = None /\ Idle.ids = {}
BY TenantsAssumption DEF Idle, Req, Keys, Ready, Fit, Switching

\* What a request knows is of the right types.
LEMMA ReadyReq ==
    ASSUME NEW r \in Ready
    PROVE  /\ r \in Req /\ Fit(r)
           /\ r.at \in Labels \cup {"idle"} /\ r.admin \in Admins \cup {None}
           /\ r.key \in Keys /\ r.code \in 0..MaxInvites
           /\ r.role \in Roles \cup {None} /\ r.sid \in Sids \cup {None}
           /\ r.old \in Admins \cup {None} /\ r.ids \subseteq Sids
BY DEF Ready, Req

\* A request begins.
LEMMA StartIs ==
    ASSUME RequestsOK, NEW c \in Calls, NEW r \in Ready, Start(c, r)
    PROVE  RequestsOK' /\ req[c] = Idle /\ req'[c] = r /\ Others(c)
BY DEF RequestsOK, Start, Others

\* A request ends.
LEMMA DoneIs ==
    ASSUME RequestsOK, NEW c \in Calls, Done(c)
    PROVE  RequestsOK' /\ req'[c] = Idle /\ Others(c)
BY IdleIs DEF RequestsOK, Done, Others

\* A request goes on to its next await.
LEMMA GotoIs ==
    ASSUME RequestsOK, NEW c \in Calls, NEW l \in Labels, Goto(c, l)
    PROVE  LET q == req'[c]
               r == req[c]
           IN  /\ q \in Req /\ q.at = l /\ Others(c)
               /\ q.admin = r.admin /\ q.key = r.key /\ q.code = r.code
               /\ q.role = r.role /\ q.sid = r.sid /\ q.snap = r.snap
               /\ q.old = r.old /\ q.ids = r.ids
               /\ Fit(q) => RequestsOK'
<1>1. req[c] \in Req
  BY ReadyReq DEF RequestsOK
<1>2. req' = [req EXCEPT ![c] = [req[c] EXCEPT !.at = l]]
  BY DEF Goto
<1> DEFINE q == [req[c] EXCEPT !.at = l]
<1>3. /\ q \in Req /\ q.at = l
      /\ q.admin = req[c].admin /\ q.key = req[c].key /\ q.code = req[c].code
      /\ q.role = req[c].role /\ q.sid = req[c].sid /\ q.snap = req[c].snap
      /\ q.old = req[c].old /\ q.ids = req[c].ids
  BY <1>1, SetAt
<1> HIDE DEF q
<1>4. req'[c] = q /\ Others(c) /\ req' = [req EXCEPT ![c] = q]
  BY <1>2 DEF RequestsOK, Others, q
<1>5. Fit(q) => RequestsOK'
  BY <1>3, <1>4 DEF RequestsOK, Ready
<1> QED BY <1>3, <1>4, <1>5

\* The awaits, one by one.
LEMMA LabelsAre ==
    /\ "role" \in Labels /\ "ttl" \in Labels /\ "set" \in Labels
    /\ {"exists", "stale", "read", "flag", "backfill"} \subseteq Labels
BY DEF Labels
\* A request goes on with something more it knows.
LEMMA UpdateIs ==
    ASSUME RequestsOK, NEW c \in Calls, NEW q \in Ready,
           req' = [req EXCEPT ![c] = q]
    PROVE  RequestsOK' /\ req'[c] = q /\ Others(c)
BY DEF RequestsOK, Others

-----------------------------------------------------------------------------
(* Type correctness: documents, sessions and history.                      *)

DocsOK == docs \in [Admins -> [Keys -> Doc \cup {None}]]

SessOK == sess \in [Sids -> Session \cup {None}]

StoreOK ==
    /\ registered \in BOOLEAN
    /\ DocsOK
    /\ rights \in [Roles -> 0..MaxEdits + 1]
    /\ SessOK
    /\ index \in [Admins -> SUBSET Sids]
    /\ indexTtl \subseteq Admins /\ backfilled \subseteq Admins
    /\ invites \in 0..MaxInvites
    /\ edits \in 0..MaxEdits
    /\ deaths \in 0..MaxDeaths
    \* A role changes with each edit, and each edit is counted.
    /\ \A r \in Roles : rights[r] <= edits + 1

HistoryOK == h \in History

TypeInv == StoreOK /\ RequestsOK /\ HistoryOK

\* The values that other requests may still write back.
OwedOK == owed \subseteq Sids \X Session

\* A document that is there.
LEMMA DocIs ==
    ASSUME DocsOK, NEW a \in Admins, NEW k \in Keys, docs[a][k] # None
    PROVE  /\ docs[a][k] \in Doc
           /\ docs[a][k].code \in 1..MaxInvites
           /\ docs[a][k].accepted \in BOOLEAN
           /\ docs[a][k].valid \in BOOLEAN
           /\ docs[a][k].role \in Roles
BY DEF DocsOK, Doc

\* A session that is there.
LEMMA SessionIs ==
    ASSUME SessOK, NEW s \in Sids, sess[s] # None
    PROVE  /\ sess[s] \in Session
           /\ sess[s].tenant \in Admins \cup {None}
           /\ sess[s].ttl \in BOOLEAN
BY DEF SessOK, Session

-----------------------------------------------------------------------------
(* What the steps of a request do to it.                                   *)

\* A request to invite the person.
LEMMA InviteIs ==
    ASSUME RequestsOK, NEW c \in Calls, NEW a \in Admins, NEW r \in Roles,
           Invite(c, a, r)
    PROVE  /\ RequestsOK' /\ Others(c) /\ req[c] = Idle
           /\ req'[c].at = "create" /\ req'[c].admin = a
           /\ req'[c].key = Key /\ req'[c].role = r /\ req'[c].sid = None
<1> DEFINE q1 == [Idle EXCEPT !.at = "create"]
           q2 == [q1 EXCEPT !.admin = a]
           q3 == [q2 EXCEPT !.key = Key]
           q4 == [q3 EXCEPT !.role = r]
<1>a. "create" \in Labels /\ Key \in Keys
  BY DEF Labels, Key, Keys
<1>1. q1 \in Req /\ q1.at = "create" /\ q1.sid = None
  BY IdleIs, <1>a, SetAt
<1> HIDE DEF q1
<1>2. q2 \in Req /\ q2.at = "create" /\ q2.admin = a /\ q2.sid = None
  BY <1>1, <1>a, SetAdmin
<1> HIDE DEF q2
<1>3. /\ q3 \in Req /\ q3.at = "create" /\ q3.admin = a /\ q3.key = Key
      /\ q3.sid = None
  BY <1>2, <1>a, SetKey
<1> HIDE DEF q3
<1>4. /\ q4 \in Req /\ q4.at = "create" /\ q4.admin = a /\ q4.key = Key
      /\ q4.role = r /\ q4.sid = None
  BY <1>3, <1>a, SetRole
<1> HIDE DEF q4
<1>5. q4 \in Ready
  BY <1>4, <1>a, TenantsAssumption DEF Ready, Fit, Switching
<1>6. Start(c, q4)
  BY DEF Invite, q1, q2, q3, q4
<1> QED BY <1>4, <1>5, <1>6, StartIs

\* A request to accept an invitation.
LEMMA AcceptIs ==
    ASSUME RequestsOK, DocsOK, NEW c \in Calls,
           NEW a \in Admins, NEW k \in Keys,
           Accept(c, a, k)
    PROVE  /\ RequestsOK' /\ Others(c) /\ req[c] = Idle
           /\ req'[c].at = "accept" /\ req'[c].admin = a
           /\ req'[c].code = docs[a][k].code /\ req'[c].sid = None
<1> DEFINE q1 == [Idle EXCEPT !.at = "accept"]
           q2 == [q1 EXCEPT !.admin = a]
           q3 == [q2 EXCEPT !.code = docs[a][k].code]
<1>a. "accept" \in Labels /\ docs[a][k].code \in 1..MaxInvites
  BY DocIs DEF Labels, Accept
<1>1. q1 \in Req /\ q1.at = "accept" /\ q1.sid = None
  BY IdleIs, <1>a, SetAt
<1> HIDE DEF q1
<1>2. q2 \in Req /\ q2.at = "accept" /\ q2.admin = a /\ q2.sid = None
  BY <1>1, <1>a, SetAdmin
<1> HIDE DEF q2
<1>3. /\ q3 \in Req /\ q3.at = "accept" /\ q3.admin = a
      /\ q3.code = docs[a][k].code /\ q3.sid = None
  BY <1>2, <1>a, SetCode
<1> HIDE DEF q3
<1>4. q3 \in Ready
  BY <1>3, <1>a, TenantsAssumption DEF Ready, Fit, Switching
<1>5. Start(c, q3)
  BY DEF Accept, q1, q2, q3
<1> QED BY <1>3, <1>4, <1>5, StartIs

\* A request to delete the person, who is found.
LEMMA DeleteIs ==
    ASSUME RequestsOK, NEW c \in Calls, NEW a \in Admins, docs[a][Key] # None,
           Delete(c, a)
    PROVE  /\ RequestsOK' /\ Others(c) /\ req[c] = Idle
           /\ req'[c].at = "delete" /\ req'[c].admin = a
           /\ req'[c].key = Key /\ req'[c].sid = None
<1> DEFINE q1 == [Idle EXCEPT !.at = "delete"]
           q2 == [q1 EXCEPT !.admin = a]
           q3 == [q2 EXCEPT !.key = Key]
<1>a. "delete" \in Labels /\ Key \in Keys
  BY DEF Labels, Key, Keys
<1>1. q1 \in Req /\ q1.at = "delete" /\ q1.sid = None
  BY IdleIs, <1>a, SetAt
<1> HIDE DEF q1
<1>2. q2 \in Req /\ q2.at = "delete" /\ q2.admin = a /\ q2.sid = None
  BY <1>1, <1>a, SetAdmin
<1> HIDE DEF q2
<1>3. /\ q3 \in Req /\ q3.at = "delete" /\ q3.admin = a /\ q3.key = Key
      /\ q3.sid = None
  BY <1>2, <1>a, SetKey
<1> HIDE DEF q3
<1>4. q3 \in Ready
  BY <1>3, <1>a, TenantsAssumption DEF Ready, Fit, Switching
<1>5. Start(c, q3)
  BY DEF Delete, q1, q2, q3
<1> QED BY <1>3, <1>4, <1>5, StartIs

\* A request to attach a role.
LEMMA AttachIs ==
    ASSUME RequestsOK, NEW c \in Calls, NEW a \in Admins, NEW r \in Roles,
           Attach(c, a, r)
    PROVE  /\ RequestsOK' /\ Others(c) /\ req[c] = Idle
           /\ req'[c].at = "attach" /\ req'[c].admin = a /\ req'[c].role = r
           /\ req'[c].sid = None
<1> DEFINE q1 == [Idle EXCEPT !.at = "attach"]
           q2 == [q1 EXCEPT !.admin = a]
           q3 == [q2 EXCEPT !.role = r]
<1>a. "attach" \in Labels
  BY DEF Labels
<1>1. q1 \in Req /\ q1.at = "attach" /\ q1.sid = None
  BY IdleIs, <1>a, SetAt
<1> HIDE DEF q1
<1>2. q2 \in Req /\ q2.at = "attach" /\ q2.admin = a /\ q2.sid = None
  BY <1>1, <1>a, SetAdmin
<1> HIDE DEF q2
<1>3. /\ q3 \in Req /\ q3.at = "attach" /\ q3.admin = a /\ q3.role = r
      /\ q3.sid = None
  BY <1>2, <1>a, SetRole
<1> HIDE DEF q3
<1>4. q3 \in Ready
  BY <1>3, <1>a, TenantsAssumption DEF Ready, Fit, Switching
<1>5. Start(c, q3)
  BY DEF Attach, q1, q2, q3
<1> QED BY <1>3, <1>4, <1>5, StartIs

\* A listing of the sessions that act for an admin.
LEMMA ReadIndexIs ==
    ASSUME RequestsOK, StoreOK, NEW c \in Calls, NEW a \in Admins,
           ReadIndex(c, a)
    PROVE  /\ RequestsOK' /\ Others(c) /\ req[c] = Idle
           /\ req'[c].at = (IF index[a] = {} THEN "exists" ELSE "mget")
           /\ req'[c].admin = a /\ req'[c].ids = index[a]
           /\ req'[c].sid = None
<1> DEFINE q1 == [Idle EXCEPT
                    !.at = IF index[a] = {} THEN "exists" ELSE "mget"]
           q2 == [q1 EXCEPT !.admin = a]
           q3 == [q2 EXCEPT !.ids = index[a]]
<1>a. /\ (IF index[a] = {} THEN "exists" ELSE "mget") \in Labels
      /\ (IF index[a] = {} THEN "exists" ELSE "mget") \in {"exists", "mget"}
      /\ index[a] \subseteq Sids
  BY DEF Labels, StoreOK
<1>1. /\ q1 \in Req /\ q1.at = (IF index[a] = {} THEN "exists" ELSE "mget")
      /\ q1.sid = None
  BY IdleIs, <1>a, SetAt
<1> HIDE DEF q1
<1>2. /\ q2 \in Req /\ q2.at = (IF index[a] = {} THEN "exists" ELSE "mget")
      /\ q2.admin = a /\ q2.sid = None
  BY <1>1, <1>a, SetAdmin
<1> HIDE DEF q2
<1>3. /\ q3 \in Req /\ q3.at = (IF index[a] = {} THEN "exists" ELSE "mget")
      /\ q3.admin = a /\ q3.ids = index[a] /\ q3.sid = None
  BY <1>2, <1>a, SetIds
<1> HIDE DEF q3
<1>4. q3 \in Ready
  BY <1>3, <1>a, TenantsAssumption DEF Ready, Fit, Switching
<1>5. Start(c, q3)
  BY DEF ReadIndex, q1, q2, q3
<1> QED BY <1>3, <1>4, <1>5, StartIs

\* A session without a tenant.
LEMMA BlankIs ==
    ASSUME NEW x \in Session
    PROVE  LET y == [x EXCEPT !.tenant = None, !.grants = None] IN
           y \in Session /\ y.tenant = None /\ y.ttl = x.ttl
BY DEF Session

\* A switch of a session to an admin, or back to the own account.
LEMMA SwitchIs ==
    ASSUME RequestsOK, SessOK, NEW c \in Calls, NEW s \in Sids,
           NEW a \in Admins \cup {None}, Switch(c, s, a)
    PROVE  /\ RequestsOK' /\ Others(c) /\ req[c] = Idle
           /\ req'[c].at = (IF a = None THEN "ttl" ELSE "member")
           /\ req'[c].admin = a /\ req'[c].sid = s
           /\ req'[c].snap.tenant = None
           /\ req'[c].old = sess[s].tenant
<1> DEFINE l == IF a = None THEN "ttl" ELSE "member"
           x == [sess[s] EXCEPT !.tenant = None, !.grants = None]
           t == sess[s].tenant
           q1 == [Idle EXCEPT !.at = l]
           q2 == [q1 EXCEPT !.admin = a]
           q3 == [q2 EXCEPT !.sid = s]
           q4 == [q3 EXCEPT !.snap = x]
           q5 == [q4 EXCEPT !.old = t]
<1>a. /\ l \in Labels
      /\ \/ l = "ttl" /\ a = None
         \/ l = "member" /\ a \in Admins /\ a # None
  BY TenantsAssumption DEF Labels
<1>b. x \in Session /\ x.tenant = None /\ t \in Admins \cup {None} /\ t # a
  BY SessionIs, BlankIs DEF Switch
<1>c. Switch(c, s, a) => Start(c, q5)
  BY DEF Switch
<1> HIDE DEF l, x, t
<1>1. q1 \in Req /\ q1.at = l
  BY IdleIs, <1>a, SetAt
<1> HIDE DEF q1
<1>2. q2 \in Req /\ q2.at = l /\ q2.admin = a
  BY <1>1, SetAdmin
<1> HIDE DEF q2
<1>3. q3 \in Req /\ q3.at = l /\ q3.admin = a /\ q3.sid = s
  BY <1>2, SetSid
<1> HIDE DEF q3
<1>4. q4 \in Req /\ q4.at = l /\ q4.admin = a /\ q4.sid = s /\ q4.snap = x
  BY <1>3, <1>b, SetSnap
<1> HIDE DEF q4
<1>5. /\ q5 \in Req /\ q5.at = l /\ q5.admin = a /\ q5.sid = s
      /\ q5.snap = x /\ q5.old = t
  BY <1>4, <1>b, SetOld
<1> HIDE DEF q5
<1>6. q5 \in Ready
  BY <1>5, <1>a, <1>b DEF Ready, Fit, Switching
<1>7. /\ RequestsOK' /\ Others(c) /\ req[c] = Idle /\ req'[c] = q5
  BY <1>6, <1>c, StartIs
<1> QED BY <1>5, <1>7, <1>b DEF l, t

\* A switch finds an accepted membership, or ends.
LEMMA ReadMemberIs ==
    ASSUME RequestsOK, DocsOK, NEW c \in Calls, ReadMember(c)
    PROVE  LET r == req[c]
               q == req'[c]
           IN  /\ RequestsOK' /\ Others(c) /\ r.at = "member"
               /\ \/ q = Idle
                  \/ /\ docs[r.admin]["user"] # None
                     /\ docs[r.admin]["user"].accepted
                     /\ q.at = "role" /\ q.role = docs[r.admin]["user"].role
                     /\ q.admin = r.admin /\ q.sid = r.sid
                     /\ q.snap = r.snap /\ q.old = r.old
<1> DEFINE r == req[c]
           doc == docs[r.admin]["user"]
           q1 == [r EXCEPT !.at = "role"]
           q2 == [q1 EXCEPT !.role = doc.role]
<1>1. r \in Req /\ Fit(r) /\ r.at = "member"
  BY ReadyReq DEF RequestsOK, ReadMember
<1>2. r.admin \in Admins
  BY <1>1 DEF Fit
<1>3. CASE ~(doc # None /\ doc.accepted)
  BY <1>1, <1>3, DoneIs DEF ReadMember
<1>4. CASE doc # None /\ doc.accepted
  <2>1. req' = [req EXCEPT ![c] = q2]
    BY <1>4 DEF ReadMember, RequestsOK
  <2>2. doc.role \in Roles
    BY <1>2, <1>4, DocIs DEF Keys
  <2>3. /\ q1 \in Req /\ q1.at = "role" /\ q1.admin = r.admin
        /\ q1.sid = r.sid /\ q1.snap = r.snap /\ q1.old = r.old
    BY <1>1, SetAt, LabelsAre
  <2> HIDE DEF q1
  <2>4. /\ q2 \in Req /\ q2.at = "role" /\ q2.admin = r.admin
        /\ q2.sid = r.sid /\ q2.snap = r.snap /\ q2.old = r.old
        /\ q2.role = doc.role
    BY <2>2, <2>3, SetRole
  <2> HIDE DEF q2
  <2>5. q2 \in Ready
    BY <1>1, <1>2, <2>2, <2>4 DEF Ready, Fit, Switching
  <2>6. RequestsOK' /\ req'[c] = q2 /\ Others(c)
    BY <2>1, <2>5, UpdateIs
  <2> QED BY <1>1, <1>4, <2>4, <2>6
<1> QED BY <1>3, <1>4

\* One field of a session is set.
LEMMA SessionSet ==
    ASSUME NEW x \in Session
    PROVE  /\ \A a \in Admins \cup {None} :
                  LET y == [x EXCEPT !.tenant = a] IN
                  /\ y \in Session /\ y.tenant = a
                  /\ y.grants = x.grants /\ y.ttl = x.ttl
           /\ \A g \in Grants \cup {None} :
                  LET y == [x EXCEPT !.grants = g] IN
                  /\ y \in Session /\ y.tenant = x.tenant
                  /\ y.grants = g /\ y.ttl = x.ttl
           /\ \A b \in BOOLEAN :
                  LET y == [x EXCEPT !.ttl = b] IN
                  /\ y \in Session /\ y.tenant = x.tenant
                  /\ y.grants = x.grants /\ y.ttl = b
<1> USE DEF Session
<1>1. ASSUME NEW a \in Admins \cup {None}
      PROVE  LET y == [x EXCEPT !.tenant = a] IN
             /\ y \in Session /\ y.tenant = a
             /\ y.grants = x.grants /\ y.ttl = x.ttl
  OBVIOUS
<1>2. ASSUME NEW g \in Grants \cup {None}
      PROVE  LET y == [x EXCEPT !.grants = g] IN
             /\ y \in Session /\ y.tenant = x.tenant
             /\ y.grants = g /\ y.ttl = x.ttl
  OBVIOUS
<1>3. ASSUME NEW b \in BOOLEAN
      PROVE  LET y == [x EXCEPT !.ttl = b] IN
             /\ y \in Session /\ y.tenant = x.tenant
             /\ y.grants = x.grants /\ y.ttl = b
  OBVIOUS
<1> HIDE DEF Session
<1> QED BY <1>1, <1>2, <1>3

\* A switch finds the role, and is to give the session its permissions.
LEMMA ReadRoleIs ==
    ASSUME RequestsOK, StoreOK, NEW c \in Calls, ReadRole(c)
    PROVE  LET r == req[c]
               q == req'[c]
           IN  /\ RequestsOK' /\ Others(c) /\ r.at = "role"
               /\ \/ q = Idle
                  \/ /\ q.at = "ttl" /\ q.admin = r.admin /\ q.sid = r.sid
                     /\ q.old = r.old
                     /\ q.snap.tenant = r.admin
                     /\ q.snap.grants = <<r.role, rights[r.role]>>
<1> DEFINE r == req[c]
           g == <<r.role, rights[r.role]>>
           q1 == [r EXCEPT !.at = "ttl"]
           x1 == [q1.snap EXCEPT !.tenant = r.admin]
           q2 == [q1 EXCEPT !.snap = x1]
           x2 == [q2.snap EXCEPT !.grants = g]
           q3 == [q2 EXCEPT !.snap = x2]
<1>1. r \in Req /\ Fit(r) /\ r.at = "role"
  BY ReadyReq DEF RequestsOK, ReadRole
<1>2. /\ r.admin \in Admins /\ r.role \in Roles /\ r.snap \in Session
      /\ r.sid \in Sids /\ r.old # r.admin
  BY <1>1 DEF Fit, Switching
<1>3. CASE rights[r.role] = 0
  BY <1>1, <1>3, DoneIs DEF ReadRole
<1>4. CASE rights[r.role] # 0
  <2>1. req' = Granted(c)
    BY <1>4 DEF ReadRole
  <2>2. req' = [req EXCEPT ![c] = q3]
    BY <2>1 DEF Granted, RequestsOK
  <2>3. rights[r.role] \in 1..MaxEdits + 1
    BY <1>2, <1>4, TenantsAssumption DEF StoreOK
  <2>4. g \in Grants
    BY <1>2, <2>3 DEF Grants
  <2> HIDE DEF g
  <2>5. /\ q1 \in Req /\ q1.at = "ttl" /\ q1.admin = r.admin
        /\ q1.sid = r.sid /\ q1.snap = r.snap /\ q1.old = r.old
    BY <1>1, SetAt, LabelsAre
  <2> HIDE DEF q1
  <2>6. x1 \in Session /\ x1.tenant = r.admin
    BY <1>2, <2>5, SessionSet
  <2> HIDE DEF x1
  <2>7. /\ q2 \in Req /\ q2.at = "ttl" /\ q2.admin = r.admin
        /\ q2.sid = r.sid /\ q2.snap = x1 /\ q2.old = r.old
    BY <2>5, <2>6, SetSnap
  <2> HIDE DEF q2
  <2>8. x2 \in Session /\ x2.tenant = r.admin /\ x2.grants = g
    BY <2>4, <2>6, <2>7, SessionSet
  <2> HIDE DEF x2
  <2>9. /\ q3 \in Req /\ q3.at = "ttl" /\ q3.admin = r.admin
        /\ q3.sid = r.sid /\ q3.snap = x2 /\ q3.old = r.old
    BY <2>7, <2>8, SetSnap
  <2> HIDE DEF q3
  <2>10. q3 \in Ready
    BY <1>1, <1>2, <2>8, <2>9 DEF Ready, Fit, Switching
  <2>11. RequestsOK' /\ req'[c] = q3 /\ Others(c)
    BY <2>2, <2>10, UpdateIs
  <2> QED BY <1>1, <2>8, <2>9, <2>11 DEF g
<1> QED BY <1>3, <1>4

\* A switch reads the time to live of the session.
LEMMA ReadTtlIs ==
    ASSUME RequestsOK, SessOK, NEW c \in Calls, ReadTtl(c)
    PROVE  LET r == req[c]
               q == req'[c]
           IN  /\ RequestsOK' /\ Others(c) /\ r.at = "ttl"
               /\ q.at = "set" /\ q.admin = r.admin /\ q.sid = r.sid
               /\ q.old = r.old
               /\ q.snap.tenant = r.snap.tenant
               /\ q.snap.grants = r.snap.grants
               /\ q.snap.ttl = (sess[r.sid] # None /\ sess[r.sid].ttl)
<1> DEFINE r == req[c]
           b == sess[r.sid] # None /\ sess[r.sid].ttl
           q1 == [r EXCEPT !.at = "set"]
           x1 == [q1.snap EXCEPT !.ttl = b]
           q2 == [q1 EXCEPT !.snap = x1]
<1>1. r \in Req /\ Fit(r) /\ r.at = "ttl"
  BY ReadyReq DEF RequestsOK, ReadTtl
<1>2. /\ r.snap \in Session /\ r.sid \in Sids /\ r.old # r.admin
      /\ r.old \in Admins \cup {None} /\ r.snap.tenant = r.admin
  BY <1>1 DEF Fit, Switching, Req
<1>3. req' = [req EXCEPT ![c] = q2]
  BY DEF ReadTtl, RequestsOK
<1>4. b \in BOOLEAN
  BY <1>2, SessionIs
<1> HIDE DEF b
<1>5. /\ q1 \in Req /\ q1.at = "set" /\ q1.admin = r.admin
      /\ q1.sid = r.sid /\ q1.snap = r.snap /\ q1.old = r.old
  BY <1>1, SetAt, LabelsAre
<1> HIDE DEF q1
<1>6. /\ x1 \in Session /\ x1.tenant = r.snap.tenant
      /\ x1.grants = r.snap.grants /\ x1.ttl = b
  BY <1>2, <1>4, <1>5, SessionSet
<1> HIDE DEF x1
<1>7. /\ q2 \in Req /\ q2.at = "set" /\ q2.admin = r.admin
      /\ q2.sid = r.sid /\ q2.snap = x1 /\ q2.old = r.old
  BY <1>5, <1>6, SetSnap
<1> HIDE DEF q2
<1>8. q2 \in Ready
  BY <1>1, <1>2, <1>6, <1>7 DEF Ready, Fit, Switching
<1>9. RequestsOK' /\ req'[c] = q2 /\ Others(c)
  BY <1>3, <1>8, UpdateIs
<1> QED BY <1>1, <1>6, <1>7, <1>9 DEF b

\* A listing goes on with the sessions it found.
LEMMA ListIs ==
    ASSUME RequestsOK, NEW c \in Calls,
           NEW l \in {"exists", "stale", "read", "flag", "backfill"},
           NEW S \in SUBSET Sids,
           req[c].at \in {"mget", "stale", "scan", "read"},
           req' = [req EXCEPT ![c].at = l, ![c].ids = S]
    PROVE  LET r == req[c]
               q == req'[c]
           IN  /\ RequestsOK' /\ Others(c) /\ q.at = l /\ q.ids = S
               /\ q.admin = r.admin /\ q.sid = None /\ r.sid = None
               /\ r.admin \in Admins /\ r.ids \subseteq Sids
<1> DEFINE r == req[c]
           q1 == [r EXCEPT !.at = l]
           q2 == [q1 EXCEPT !.ids = S]
<1>1. r \in Req /\ Fit(r)
  BY ReadyReq DEF RequestsOK
<1>2. r.admin \in Admins /\ r.sid = None /\ r.ids \subseteq Sids
  BY <1>1 DEF Fit, Switching, Req
<1>3. req' = [req EXCEPT ![c] = q2]
  BY DEF RequestsOK
<1>4. q1 \in Req /\ q1.at = l /\ q1.admin = r.admin /\ q1.sid = None
  BY <1>1, <1>2, SetAt, LabelsAre
<1> HIDE DEF q1
<1>5. /\ q2 \in Req /\ q2.at = l /\ q2.admin = r.admin /\ q2.sid = None
      /\ q2.ids = S
  BY <1>4, SetIds
<1> HIDE DEF q2
<1>6. q2 \in Ready
  BY <1>2, <1>5 DEF Ready, Fit, Switching
<1>7. RequestsOK' /\ req'[c] = q2 /\ Others(c)
  BY <1>3, <1>6, UpdateIs
<1> QED BY <1>2, <1>5, <1>7

\* The other steps that only go on keep what the request knows.
LEMMA MoveIs ==
    ASSUME RequestsOK, NEW c \in Calls, NEW l \in Labels, Goto(c, l),
           \/ req[c].at = "set" /\ l = "srem" /\ req[c].old # None
           \/ req[c].at = "set" /\ l = "sadd" /\ req[c].old = None
           \/ req[c].at = "srem" /\ l = "sadd" /\ req[c].admin # None
           \/ req[c].at = "sadd" /\ l = "expire"
           \/ req[c].at = "exists" /\ l = "scan"
           \/ req[c].at = "backfill" /\ l = "flag"
    PROVE  LET q == req'[c]
               r == req[c]
           IN  /\ RequestsOK' /\ q.at = l /\ Others(c)
               /\ q.admin = r.admin /\ q.sid = r.sid /\ q.snap = r.snap
               /\ q.old = r.old /\ q.ids = r.ids
<1>1. /\ Fit(req[c]) /\ req[c].old \in Admins \cup {None}
      /\ req[c].admin \in Admins \cup {None}
  BY ReadyReq DEF RequestsOK
<1>2. /\ req'[c].at = l /\ Others(c)
      /\ req'[c].admin = req[c].admin /\ req'[c].sid = req[c].sid
      /\ req'[c].snap = req[c].snap /\ req'[c].old = req[c].old
      /\ req'[c].ids = req[c].ids
      /\ Fit(req'[c]) => RequestsOK'
  BY GotoIs
<1>3. Fit(req'[c])
  BY <1>1, <1>2 DEF Fit, Switching
<1> QED BY <1>2, <1>3

-----------------------------------------------------------------------------
(* What the steps do to documents, indexes and the history.                *)

\* A document is made, changed or deleted.
LEMMA DocSet ==
    ASSUME DocsOK, NEW a \in Admins, NEW k \in Keys,
           NEW d \in Doc \cup {None}, docs' = [docs EXCEPT ![a][k] = d]
    PROVE  /\ DocsOK' /\ docs'[a][k] = d
           /\ \A b \in Admins, j \in Keys :
                  b # a \/ j # k => docs'[b][j] = docs[b][j]
BY DEF DocsOK

\* A document is deleted.
LEMMA DocUnset ==
    ASSUME DocsOK, NEW a \in Admins, NEW k \in Keys,
           docs' = [docs EXCEPT ![a][k] = None]
    PROVE  /\ DocsOK' /\ docs'[a][k] = None
           /\ \A b \in Admins, j \in Keys :
                  b # a \/ j # k => docs'[b][j] = docs[b][j]
BY DEF DocsOK

\* One field of a document is set.
LEMMA DocFieldSet ==
    ASSUME NEW d \in Doc
    PROVE  /\ \A v \in BOOLEAN :
                  LET e == [d EXCEPT !.valid = v] IN
                  /\ e \in Doc /\ e.code = d.code
                  /\ e.accepted = d.accepted /\ e.role = d.role
           /\ LET e == [d EXCEPT !.accepted = TRUE] IN
              /\ e \in Doc /\ e.code = d.code
              /\ e.accepted = TRUE /\ e.role = d.role
           /\ \A r \in Roles :
                  LET e == [d EXCEPT !.role = r] IN
                  /\ e \in Doc /\ e.code = d.code
                  /\ e.accepted = d.accepted /\ e.role = r
BY DEF Doc

\* The members of an index are set.
LEMMA IndexSet ==
    ASSUME StoreOK, NEW a \in Admins, NEW S \in SUBSET Sids, SetIndex(a, S)
    PROVE  /\ (index \in [Admins -> SUBSET Sids])'
           /\ (indexTtl \subseteq Admins)'
           /\ index'[a] = S
           /\ \A b \in Admins \ {a} : index'[b] = index[b]
BY DEF StoreOK, SetIndex

\* An invitation is accepted: the rest of the history stays.
LEMMA HistoryJoined ==
    ASSUME NEW x \in History, NEW v \in SUBSET Admins
    PROVE  LET y == [x EXCEPT !.joined = v] IN
           /\ y \in History /\ y.joined = v
           /\ y.out = x.out /\ y.late = x.late
           /\ y.again = x.again /\ y.recast = x.recast
           /\ y.raced = x.raced /\ y.shortened = x.shortened
BY DEF History

\* The person is out: the rest of the history stays.
LEMMA HistoryOut ==
    ASSUME NEW x \in History, NEW v \in SUBSET Admins
    PROVE  LET y == [x EXCEPT !.out = v] IN
           /\ y \in History /\ y.out = v
           /\ y.joined = x.joined /\ y.late = x.late
           /\ y.again = x.again /\ y.recast = x.recast
           /\ y.raced = x.raced /\ y.shortened = x.shortened
BY DEF History

\* Invited by e-mail, then registered: the rest of the history stays.
LEMMA HistoryLate ==
    ASSUME NEW x \in History, NEW v \in SUBSET Admins
    PROVE  LET y == [x EXCEPT !.late = v] IN
           /\ y \in History /\ y.late = v
           /\ y.joined = x.joined /\ y.out = x.out
           /\ y.again = x.again /\ y.recast = x.recast
           /\ y.raced = x.raced /\ y.shortened = x.shortened
BY DEF History

\* Invited or joined once more: the rest of the history stays.
LEMMA HistoryAgain ==
    ASSUME NEW x \in History, NEW v \in SUBSET Admins
    PROVE  LET y == [x EXCEPT !.again = v] IN
           /\ y \in History /\ y.again = v
           /\ y.joined = x.joined /\ y.out = x.out
           /\ y.late = x.late /\ y.recast = x.recast
           /\ y.raced = x.raced /\ y.shortened = x.shortened
BY DEF History

\* A role changed: the rest of the history stays.
LEMMA HistoryRecast ==
    ASSUME NEW x \in History, NEW v \in SUBSET (Sids \cup Calls)
    PROVE  LET y == [x EXCEPT !.recast = v] IN
           /\ y \in History /\ y.recast = v
           /\ y.joined = x.joined /\ y.out = x.out
           /\ y.late = x.late /\ y.again = x.again
           /\ y.raced = x.raced /\ y.shortened = x.shortened
BY DEF History

\* Two requests are at work on a session: the rest of the history stays.
LEMMA HistoryRaced ==
    ASSUME NEW x \in History, NEW v \in SUBSET Sids
    PROVE  LET y == [x EXCEPT !.raced = v] IN
           /\ y \in History /\ y.raced = v
           /\ y.joined = x.joined /\ y.out = x.out
           /\ y.late = x.late /\ y.again = x.again
           /\ y.recast = x.recast /\ y.shortened = x.shortened
BY DEF History

\* An index expired: the rest of the history stays.
LEMMA HistoryShortened ==
    ASSUME NEW x \in History, NEW v \in SUBSET Admins
    PROVE  LET y == [x EXCEPT !.shortened = v] IN
           /\ y \in History /\ y.shortened = v
           /\ y.joined = x.joined /\ y.out = x.out
           /\ y.late = x.late /\ y.again = x.again
           /\ y.recast = x.recast /\ y.raced = x.raced
BY DEF History

-----------------------------------------------------------------------------
(* What each step changes, spelt out: the facts the invariants below use.  *)

\* The history but for the fields that a step sets.
SameLate == h'.late = h.late
SameJoin == h'.joined = h.joined /\ h'.again = h.again
SameOut == h'.out = h.out /\ h'.late = h.late
SameRace == h'.recast = h.recast /\ h'.raced = h.raced
SameShort == h'.shortened = h.shortened

\* Documents and roles, sessions and indexes as they are.
LEMMA StoreFrame ==
    ASSUME StoreOK, UNCHANGED <<members, redis, deaths>>
    PROVE  StoreOK'
BY DEF StoreOK, DocsOK, SessOK, members, redis

\* A step that ends a request and changes nothing else.
LEMMA NothingDone ==
    ASSUME TypeInv, RequestsOK', UNCHANGED <<members, redis, deaths, h>>
    PROVE  TypeInv'
BY StoreFrame DEF TypeInv, HistoryOK

\* An invitation of admin a is made under key k.
InvitationMade(a, k) ==
    /\ docs[a][k] = None
    /\ docs'[a][k].accepted = FALSE
    /\ docs'[a][k].code = invites + 1 /\ invites' = invites + 1
    /\ \A b \in Admins, j \in Keys :
           b # a \/ j # k => docs'[b][j] = docs[b][j]
    /\ h'.joined = h.joined /\ h'.out = h.out \ {a}
    /\ h'.again = IF a \in h.joined THEN h.again \cup {a} ELSE h.again
    /\ h'.late = IF k = "email" /\ registered THEN h.late \cup {a} ELSE h.late
    /\ SameRace /\ SameShort

\* A document is created, unless there is one under the key.
LEMMA CreateInviteIs ==
    ASSUME TypeInv, NEW c \in Calls, CreateInvite(c)
    PROVE  LET a == req[c].admin
               k == req[c].key
           IN  /\ TypeInv' /\ Others(c) /\ req'[c] = Idle
               /\ req[c].at = "create" /\ a \in Admins /\ k \in Keys
               /\ UNCHANGED <<registered, rights, redis, deaths>>
               /\ UNCHANGED <<docs, invites, h>> \/ InvitationMade(a, k)
<1> DEFINE a == req[c].admin
           k == req[c].key
           r == req[c].role
           d == [code |-> invites + 1, accepted |-> FALSE, valid |-> TRUE,
                 role |-> r]
           A == IF a \in h.joined THEN h.again \cup {a} ELSE h.again
           L == IF k = "email" /\ registered THEN h.late \cup {a} ELSE h.late
           h1 == [h EXCEPT !.out = h.out \ {a}]
           h2 == [h1 EXCEPT !.again = A]
           h3 == [h2 EXCEPT !.late = L]
<1>1. StoreOK /\ RequestsOK /\ h \in History /\ DocsOK
  BY DEF TypeInv, StoreOK, HistoryOK
<1>2. /\ a \in Admins /\ k \in Keys /\ r \in Roles
      /\ req[c].at = "create"
  <2>1. Fit(req[c]) /\ req[c].at = "create" /\ k \in Keys
    BY <1>1, ReadyReq DEF RequestsOK, CreateInvite
  <2> QED BY <2>1 DEF Fit
<1>3. RequestsOK' /\ Others(c) /\ req'[c] = Idle
  BY <1>1, DoneIs DEF CreateInvite
<1>4. UNCHANGED <<registered, rights, edits, redis, deaths>>
  BY DEF CreateInvite
<1>5. CASE docs[a][k] # None
  <2>1. UNCHANGED <<docs, h, invites>>
    BY <1>5 DEF CreateInvite
  <2> HIDE DEF a, k, r
  <2>2. TypeInv'
    BY <1>3, <1>4, <2>1, NothingDone DEF members
  <2> QED BY <1>2, <1>3, <1>4, <2>1, <2>2 DEF a, k
<1>6. CASE docs[a][k] = None
  <2>1. /\ invites < MaxInvites /\ invites' = invites + 1
        /\ docs' = [docs EXCEPT ![a][k] = d]
        /\ h' = h3
    BY <1>6 DEF CreateInvite
  <2> HIDE DEF a, k, r
  <2>2. invites' \in 1..MaxInvites /\ invites + 1 \in 1..MaxInvites
    BY <1>1, <2>1, TenantsAssumption DEF StoreOK
  <2>3. d \in Doc /\ d.accepted = FALSE /\ d.code = invites + 1
    BY <1>2, <2>2 DEF Doc
  <2> HIDE DEF d
  <2>4. /\ DocsOK' /\ docs'[a][k] = d
        /\ \A b \in Admins, j \in Keys :
               b # a \/ j # k => docs'[b][j] = docs[b][j]
    BY <1>1, <1>2, <2>1, <2>3, DocSet
  <2>5. StoreOK'
    BY <1>1, <1>4, <2>2, <2>4, TenantsAssumption DEF StoreOK, SessOK, redis
  <2>6. /\ A \in SUBSET Admins /\ L \in SUBSET Admins
        /\ h.out \ {a} \in SUBSET Admins
    BY <1>1, <1>2 DEF History
  <2> HIDE DEF A, L
  <2>7. /\ h1 \in History /\ h1.out = h.out \ {a}
        /\ h1.joined = h.joined /\ h1.recast = h.recast
        /\ h1.raced = h.raced /\ h1.shortened = h.shortened
    BY <1>1, <2>6, HistoryOut
  <2> HIDE DEF h1
  <2>8. /\ h2 \in History /\ h2.out = h.out \ {a} /\ h2.again = A
        /\ h2.joined = h.joined /\ h2.recast = h.recast
        /\ h2.raced = h.raced /\ h2.shortened = h.shortened
    BY <2>6, <2>7, HistoryAgain
  <2> HIDE DEF h2
  <2>9. /\ h3 \in History /\ h3.out = h.out \ {a} /\ h3.again = A
        /\ h3.late = L
        /\ h3.joined = h.joined /\ h3.recast = h.recast
        /\ h3.raced = h.raced /\ h3.shortened = h.shortened
    BY <2>6, <2>8, HistoryLate
  <2> HIDE DEF h3
  <2>10. TypeInv'
    BY <1>3, <2>1, <2>5, <2>9 DEF TypeInv, HistoryOK
  <2>11. /\ h'.joined = h.joined /\ h'.out = h.out \ {a}
         /\ h'.again = A /\ h'.late = L
         /\ SameRace /\ SameShort
    BY <2>1, <2>9 DEF SameRace, SameShort
  <2>12. InvitationMade(a, k)
    BY <1>6, <2>1, <2>3, <2>4, <2>11 DEF A, L, InvitationMade
  <2> QED BY <1>2, <1>3, <1>4, <2>10, <2>12 DEF a, k
<1> QED BY <1>5, <1>6

\* The person accepts the invitation of admin a with the code, under key k.
Accepted(a, k, code) ==
    /\ docs[a][k] # None /\ docs[a][k].code = code
    /\ docs'[a]["user"].accepted = TRUE
    /\ docs'[a]["user"].role = docs[a][k].role
    /\ docs'[a]["user"].code = code
    /\ k = "email" => docs[a]["user"] = None \/ docs[a]["user"].code = code
    /\ docs'[a]["email"] = IF k = "email" THEN None ELSE docs[a]["email"]
    /\ \A b \in Admins \ {a}, j \in Keys : docs'[b][j] = docs[b][j]
    /\ h'.joined = h.joined \cup {a}
    /\ h'.again = IF a \in h.joined /\ ~docs[a][k].accepted
                  THEN h.again \cup {a} ELSE h.again
    /\ SameOut /\ SameRace /\ SameShort

Acceptance(a, code) == \E k \in Keys : Accepted(a, k, code)

\* Where the invitation with a code is by now.
Found(a, code) == {k \in Docs(a) : docs[a][k].code = code}

\* The update finds no invitation, or the unique index refuses it.
Refused(a, code) ==
    \/ Found(a, code) = {}
    \/ Found(a, code) = {"email"} /\ docs[a]["user"] # None

\* The document under key k is accepted, under the user id from now on.
Moved(a, k) ==
    /\ docs' = [docs EXCEPT ![a] =
          [email |-> IF k = "email" THEN None ELSE docs[a]["email"],
           user |-> [docs[a][k] EXCEPT !.accepted = TRUE]]]
    /\ h' = [h EXCEPT !.joined = h.joined \cup {a},
          !.again = IF a \in h.joined /\ ~docs[a][k].accepted
                    THEN h.again \cup {a} ELSE h.again]

\* The update is refused, or takes effect where the invitation is.
LEMMA AcceptWriteSays ==
    ASSUME NEW c \in Calls, AcceptWrite(c),
           NEW a, a = req[c].admin, NEW code, code = req[c].code
    PROVE  /\ req[c].at = "accept" /\ Done(c)
           /\ UNCHANGED <<registered, rights, invites, edits, redis, deaths>>
           /\ Refused(a, code) => UNCHANGED <<docs, h>>
           /\ ~Refused(a, code) => \E k \in Found(a, code) : Moved(a, k)
BY Zenon DEF AcceptWrite, Refused, Found, Moved

\* An invitation that is still there is accepted, whichever key it is under.
LEMMA AcceptWriteIs ==
    ASSUME TypeInv, NEW c \in Calls, AcceptWrite(c)
    PROVE  /\ TypeInv' /\ Others(c) /\ req'[c] = Idle
           /\ req[c].at = "accept" /\ req[c].admin \in Admins
           /\ UNCHANGED <<registered, rights, invites, redis, deaths>>
           /\ UNCHANGED <<docs, h>> \/ Acceptance(req[c].admin, req[c].code)
<1> DEFINE a == req[c].admin
           code == req[c].code
           refused == Refused(a, code)
           found == Found(a, code)
<1>b. a = req[c].admin /\ code = req[c].code
  OBVIOUS
<1>c. /\ req[c].at = "accept" /\ Done(c)
      /\ UNCHANGED <<registered, rights, invites, edits, redis, deaths>>
      /\ refused => UNCHANGED <<docs, h>>
      /\ ~refused => \E k \in found : Moved(a, k)
  BY AcceptWriteSays
<1> HIDE DEF a, code, found, refused
<1>1. StoreOK /\ RequestsOK /\ h \in History /\ DocsOK
  BY DEF TypeInv, StoreOK, HistoryOK
<1>2. a \in Admins /\ req[c].at = "accept"
  <2>1. Fit(req[c])
    BY <1>1, ReadyReq DEF RequestsOK
  <2> QED BY <2>1, <1>b, <1>c DEF Fit
<1>3. RequestsOK' /\ Others(c) /\ req'[c] = Idle
  BY <1>1, <1>c, DoneIs
<1>4. UNCHANGED <<registered, rights, invites, edits, redis, deaths>>
  BY <1>c
<1>5. CASE refused
  <2>1. UNCHANGED <<docs, h>>
    BY <1>c, <1>5
  <2>2. TypeInv'
    BY <1>3, <1>4, <2>1, NothingDone DEF members
  <2> QED BY <1>2, <1>3, <1>4, <2>1, <2>2, <1>b
<1>6. CASE ~refused
  <2>1. PICK k \in found : Moved(a, k)
    BY <1>c, <1>6
  <2> DEFINE d == [docs[a][k] EXCEPT !.accepted = TRUE]
             m == IF k = "email" THEN None ELSE docs[a]["email"]
             A == IF a \in h.joined /\ ~docs[a][k].accepted
                  THEN h.again \cup {a} ELSE h.again
             J == h.joined \cup {a}
             h1 == [h EXCEPT !.joined = J]
             h2 == [h1 EXCEPT !.again = A]
  <2>2. k \in Keys /\ docs[a][k] # None /\ docs[a][k].code = code
    BY DEF Docs, found, Found
  <2>3. k = "email" => \/ docs[a]["user"] = None
                       \/ docs[a]["user"].code = code
    BY <1>6, <1>2 DEF Docs, Keys, Found, refused, Refused
  <2>4. /\ d \in Doc /\ d.accepted = TRUE /\ d.role = docs[a][k].role
        /\ d.code = code
    BY <1>1, <1>2, <2>2, DocIs, DocFieldSet
  <2>5. docs' = [docs EXCEPT ![a] = [email |-> m, user |-> d]] /\ h' = h2
    BY <2>1 DEF Moved
  <2>6. /\ m \in Doc \cup {None}
        /\ m = IF k = "email" THEN None ELSE docs[a]["email"]
    BY <1>1, <1>2 DEF DocsOK, Keys
  <2> HIDE DEF d, m
  <2>7. [email |-> m, user |-> d] \in [Keys -> Doc \cup {None}]
    BY <2>4, <2>6 DEF Keys
  <2>8. DocsOK'
    BY <1>1, <2>5, <2>7 DEF DocsOK
  <2>9. /\ docs'[a]["user"] = d /\ docs'[a]["email"] = m
        /\ \A b \in Admins \ {a} : docs'[b] = docs[b]
    BY <1>1, <1>2, <2>5 DEF DocsOK
  <2>10. StoreOK'
    BY <1>1, <1>4, <2>8 DEF StoreOK, SessOK, redis
  <2>11. A \in SUBSET Admins /\ J \in SUBSET Admins
    BY <1>1, <1>2 DEF History
  <2> HIDE DEF A, J
  <2>12. /\ h1 \in History /\ h1.joined = J /\ h1.out = h.out
         /\ h1.late = h.late /\ h1.recast = h.recast
         /\ h1.raced = h.raced /\ h1.shortened = h.shortened
    BY <1>1, <2>11, HistoryJoined
  <2> HIDE DEF h1
  <2>13. /\ h2 \in History /\ h2.joined = J /\ h2.out = h.out /\ h2.again = A
         /\ h2.late = h.late /\ h2.recast = h.recast
         /\ h2.raced = h.raced /\ h2.shortened = h.shortened
    BY <2>11, <2>12, HistoryAgain
  <2> HIDE DEF h2
  <2>14. TypeInv'
    BY <1>3, <2>5, <2>10, <2>13 DEF TypeInv, HistoryOK
  <2>15. /\ h'.joined = J /\ h'.again = A
         /\ SameOut /\ SameRace /\ SameShort
    BY <2>5, <2>13 DEF SameOut, SameRace, SameShort
  <2>16. /\ docs'[a]["user"].accepted = TRUE
         /\ docs'[a]["user"].role = docs[a][k].role
         /\ docs'[a]["user"].code = code
         /\ docs'[a]["email"] = IF k = "email" THEN None ELSE docs[a]["email"]
         /\ \A b \in Admins \ {a}, j \in Keys : docs'[b][j] = docs[b][j]
    BY <2>4, <2>6, <2>9
  <2>17. Accepted(a, k, code)
    BY <2>2, <2>3, <2>15, <2>16 DEF A, J, Accepted
  <2>18. Acceptance(a, code)
    BY <2>2, <2>17 DEF Acceptance
  <2> QED BY <1>2, <1>3, <1>4, <2>14, <2>18, <1>b
<1> QED BY <1>5, <1>6

\* An invitation is sent again, or expires: what else it says stays.
LEMMA ValidIs ==
    ASSUME TypeInv, NEW a \in Admins, NEW k \in Keys,
           Resend(a, k) \/ InvitationExpires(a, k)
    PROVE  /\ TypeInv'
           /\ UNCHANGED <<registered, rights, invites, redis, req, deaths, h>>
           /\ docs[a][k] # None
           /\ docs'[a][k].code = docs[a][k].code
           /\ docs'[a][k].accepted = docs[a][k].accepted
           /\ docs'[a][k].role = docs[a][k].role
           /\ \A b \in Admins, j \in Keys :
                  b # a \/ j # k => docs'[b][j] = docs[b][j]
<1>1. PICK v \in BOOLEAN :
          docs' = [docs EXCEPT ![a][k] = [docs[a][k] EXCEPT !.valid = v]]
  BY DEF Resend, InvitationExpires
<1>2. /\ docs[a][k] # None
      /\ UNCHANGED <<registered, rights, invites, edits, redis, req, deaths,
                     h>>
  BY DEF Resend, InvitationExpires
<1>3. StoreOK /\ DocsOK
  BY DEF TypeInv, StoreOK
<1> DEFINE d == [docs[a][k] EXCEPT !.valid = v]
<1>4. /\ d \in Doc /\ d.code = docs[a][k].code
      /\ d.accepted = docs[a][k].accepted /\ d.role = docs[a][k].role
  BY <1>2, <1>3, DocIs, DocFieldSet
<1>5. docs' = [docs EXCEPT ![a][k] = d]
  BY <1>1
<1> HIDE DEF d
<1>6. /\ DocsOK' /\ docs'[a][k] = d
      /\ \A b \in Admins, j \in Keys :
             b # a \/ j # k => docs'[b][j] = docs[b][j]
  BY <1>3, <1>4, <1>5, DocSet
<1>7. StoreOK'
  BY <1>2, <1>3, <1>6 DEF StoreOK, SessOK, redis
<1>8. TypeInv'
  BY <1>2, <1>7 DEF TypeInv, RequestsOK, HistoryOK
<1> QED BY <1>2, <1>4, <1>6, <1>8

\* The person is out of account a.
LEMMA OutIs ==
    ASSUME h \in History, NEW a \in Admins,
           h' = [h EXCEPT !.out = h.out \cup {a}]
    PROVE  /\ HistoryOK' /\ h'.out = h.out \cup {a}
           /\ SameLate /\ SameJoin /\ SameRace /\ SameShort
BY HistoryOut DEF History, HistoryOK, SameLate, SameJoin, SameRace, SameShort

\* A deletion that finds nothing says so.
LEMMA DeleteNothingIs ==
    ASSUME TypeInv, NEW c \in Calls, NEW a \in Admins, Delete(c, a),
           docs[a][Key] = None
    PROVE  /\ TypeInv' /\ UNCHANGED <<members, redis, req, deaths>>
           /\ h'.out = h.out \cup {a}
           /\ SameLate /\ SameJoin /\ SameRace /\ SameShort
<1>1. /\ UNCHANGED <<members, redis, req, deaths>>
      /\ h' = [h EXCEPT !.out = h.out \cup {a}]
  BY DEF Delete
<1>2. /\ HistoryOK' /\ h'.out = h.out \cup {a}
      /\ SameLate /\ SameJoin /\ SameRace /\ SameShort
  BY <1>1, OutIs DEF TypeInv, HistoryOK
<1>3. TypeInv'
  BY <1>1, <1>2, StoreFrame DEF TypeInv, RequestsOK
<1> QED BY <1>1, <1>2, <1>3

\* What is under the key is deleted.
LEMMA DeleteDocIs ==
    ASSUME TypeInv, NEW c \in Calls, DeleteDoc(c)
    PROVE  /\ TypeInv' /\ Others(c) /\ req'[c] = Idle
           /\ req[c].at = "delete"
           /\ req[c].admin \in Admins /\ req[c].key \in Keys
           /\ UNCHANGED <<registered, rights, invites, redis, deaths>>
           /\ docs'[req[c].admin][req[c].key] = None
           /\ \A b \in Admins, j \in Keys :
                  b # req[c].admin \/ j # req[c].key
                      => docs'[b][j] = docs[b][j]
           /\ h'.out = h.out \cup {req[c].admin}
           /\ SameLate /\ SameJoin /\ SameRace /\ SameShort
<1> DEFINE a == req[c].admin
           k == req[c].key
<1>1. /\ req[c].at = "delete" /\ Done(c)
      /\ docs' = [docs EXCEPT ![a][k] = None]
      /\ h' = [h EXCEPT !.out = h.out \cup {a}]
      /\ UNCHANGED <<registered, rights, invites, edits, redis, deaths>>
  BY DEF DeleteDoc
<1>2. StoreOK /\ DocsOK /\ RequestsOK /\ h \in History
  BY DEF TypeInv, StoreOK, HistoryOK
<1>3. a \in Admins /\ k \in Keys
  <2>1. Fit(req[c]) /\ k \in Keys
    BY <1>2, ReadyReq DEF RequestsOK
  <2> QED BY <1>1, <2>1 DEF Fit
<1>4. RequestsOK' /\ req'[c] = Idle /\ Others(c)
  BY <1>1, <1>2, DoneIs
<1> HIDE DEF a, k
<1>5. /\ DocsOK' /\ docs'[a][k] = None
      /\ \A b \in Admins, j \in Keys :
             b # a \/ j # k => docs'[b][j] = docs[b][j]
  BY <1>1, <1>2, <1>3, DocUnset
<1>6. /\ HistoryOK' /\ h'.out = h.out \cup {a}
      /\ SameLate /\ SameJoin /\ SameRace /\ SameShort
  BY <1>1, <1>2, <1>3, OutIs
<1>7. StoreOK'
  BY <1>1, <1>2, <1>5 DEF StoreOK, SessOK, redis
<1>8. TypeInv'
  BY <1>4, <1>6, <1>7 DEF TypeInv
<1> QED BY <1>1, <1>3, <1>4, <1>5, <1>6, <1>8 DEF a, k

\* Roles changed: every session and every switch may be out of date.
LEMMA RecastIs ==
    ASSUME h \in History, Recast
    PROVE  /\ HistoryOK' /\ h'.recast = Calls \cup Sids
           /\ SameOut /\ SameJoin /\ SameShort /\ h'.raced = h.raced
BY HistoryRecast DEF HistoryOK, Recast, SameOut, SameJoin, SameShort

\* The role of a membership is replaced, if the membership is there.
LEMMA AttachWriteIs ==
    ASSUME TypeInv, NEW c \in Calls, AttachWrite(c)
    PROVE  /\ TypeInv' /\ Others(c) /\ req'[c] = Idle
           /\ req[c].admin \in Admins
           /\ UNCHANGED <<registered, rights, invites, redis, deaths>>
           /\ \/ UNCHANGED <<docs, h>>
              \/ LET a == req[c].admin IN
                 /\ docs[a]["user"] # None
                 /\ docs'[a]["user"].code = docs[a]["user"].code
                 /\ docs'[a]["user"].accepted = docs[a]["user"].accepted
                 /\ \A b \in Admins, j \in Keys :
                        b # a \/ j # "user" => docs'[b][j] = docs[b][j]
                 /\ h'.recast = Calls \cup Sids
                 /\ SameOut /\ SameJoin /\ SameShort /\ h'.raced = h.raced
<1> DEFINE a == req[c].admin
           r == req[c].role
           d == [docs[a]["user"] EXCEPT !.role = r]
<1>1. /\ req[c].at = "attach" /\ Done(c) /\ edits < MaxEdits
      /\ UNCHANGED <<registered, rights, invites, redis, deaths>>
  BY DEF AttachWrite
<1>2. \/ UNCHANGED <<docs, edits, h>>
      \/ /\ docs[a]["user"] # None
         /\ docs' = [docs EXCEPT ![a]["user"] = d]
         /\ edits' = edits + 1
         /\ Recast
  BY DEF AttachWrite
<1>3. StoreOK /\ DocsOK /\ RequestsOK /\ h \in History
  BY DEF TypeInv, StoreOK, HistoryOK
<1>4. a \in Admins /\ r \in Roles
  <2>1. Fit(req[c])
    BY <1>3, ReadyReq DEF RequestsOK
  <2> QED BY <1>1, <2>1 DEF Fit
<1>5. RequestsOK' /\ req'[c] = Idle /\ Others(c)
  BY <1>1, <1>3, DoneIs
<1>6. ASSUME docs[a]["user"] # None
      PROVE  /\ d \in Doc /\ d.code = docs[a]["user"].code
             /\ d.accepted = docs[a]["user"].accepted
  <2>1. "user" \in Keys
    BY DEF Keys
  <2>2. docs[a]["user"] \in Doc
    BY <1>3, <1>4, <1>6, <2>1, DocIs
  <2> QED BY <1>4, <2>2, DocFieldSet
<1> HIDE DEF a, r, d
<1>7. CASE UNCHANGED <<docs, edits, h>>
  <2>1. TypeInv'
    BY <1>1, <1>5, <1>7, NothingDone DEF members
  <2> QED BY <1>1, <1>4, <1>5, <1>7, <2>1 DEF a
<1>8. CASE /\ docs[a]["user"] # None
           /\ docs' = [docs EXCEPT ![a]["user"] = d]
           /\ edits' = edits + 1
           /\ Recast
  <2>1. /\ DocsOK' /\ docs'[a]["user"] = d
        /\ \A b \in Admins, j \in Keys :
               b # a \/ j # "user" => docs'[b][j] = docs[b][j]
    BY <1>3, <1>4, <1>6, <1>8, DocSet DEF Keys
  <2>2. /\ HistoryOK' /\ h'.recast = Calls \cup Sids
        /\ SameOut /\ SameJoin /\ SameShort /\ h'.raced = h.raced
    BY <1>3, <1>8, RecastIs
  <2>3. edits' \in 0..MaxEdits /\ \A q \in Roles : rights'[q] <= edits' + 1
    BY <1>1, <1>3, <1>8, TenantsAssumption DEF StoreOK
  <2>4. StoreOK'
    BY <1>1, <1>3, <2>1, <2>3 DEF StoreOK, SessOK, redis
  <2>5. TypeInv'
    BY <1>5, <2>2, <2>4 DEF TypeInv
  <2> QED BY <1>1, <1>4, <1>5, <1>6, <1>8, <2>1, <2>2, <2>5 DEF a
<1> QED BY <1>2, <1>7, <1>8

\* A role is edited or removed.
LEMMA EditRoleIs ==
    ASSUME TypeInv, NEW r \in Roles, EditRole(r)
    PROVE  /\ TypeInv'
           /\ UNCHANGED <<registered, docs, invites, redis, req, deaths>>
           /\ h'.recast = Calls \cup Sids
           /\ SameOut /\ SameJoin /\ SameShort /\ h'.raced = h.raced
<1>1. /\ edits < MaxEdits /\ edits' = edits + 1 /\ Recast
      /\ \/ rights' = [rights EXCEPT ![r] = rights[r] + 1]
         \/ rights' = [rights EXCEPT ![r] = 0]
      /\ UNCHANGED <<registered, docs, invites, redis, req, deaths>>
  BY DEF EditRole
<1>2. StoreOK /\ h \in History
  BY DEF TypeInv, HistoryOK
<1>3. /\ HistoryOK' /\ h'.recast = Calls \cup Sids
      /\ SameOut /\ SameJoin /\ SameShort /\ h'.raced = h.raced
  BY <1>1, <1>2, RecastIs
<1>4. edits' \in 0..MaxEdits
  BY <1>1, <1>2, TenantsAssumption DEF StoreOK
<1>5. /\ rights' \in [Roles -> 0..MaxEdits + 1]
      /\ \A q \in Roles : rights'[q] <= edits' + 1
  BY <1>1, <1>2, TenantsAssumption DEF StoreOK
<1>6. StoreOK'
  BY <1>1, <1>2, <1>4, <1>5 DEF StoreOK, DocsOK, SessOK, redis
<1>7. TypeInv'
  BY <1>1, <1>3, <1>6 DEF TypeInv, RequestsOK
<1> QED BY <1>1, <1>3, <1>7

\* A session is written.
LEMMA SessSet ==
    ASSUME SessOK, NEW s \in Sids, NEW x, x \in Session \cup {None},
           sess' = [sess EXCEPT ![s] = x]
    PROVE  /\ SessOK' /\ sess'[s] = x
           /\ \A t \in Sids \ {s} : sess'[t] = sess[t]
BY DEF SessOK

\* A session, and its end, leave everything else as it is.
LEMMA SessFrame ==
    ASSUME StoreOK, SessOK', registered' \in BOOLEAN,
           UNCHANGED <<docs, rights, invites, edits, index, indexTtl,
                       backfilled, deaths>>
    PROVE  StoreOK'
BY DEF StoreOK, DocsOK

\* A login: a session for the person, who is registered then.
LEMMA LoginIs ==
    ASSUME TypeInv, NEW s \in Sids, Login(s)
    PROVE  /\ TypeInv' /\ registered' = TRUE
           /\ UNCHANGED <<docs, rights, invites, index, indexTtl, backfilled,
                          req, deaths>>
           /\ sess[s] = None
           /\ sess'[s].tenant = None /\ sess'[s].ttl = TRUE
           /\ \A t \in Sids \ {s} : sess'[t] = sess[t]
           /\ registered => SameLate
           /\ ~registered => h'.late = h.late \cup {a \in Admins :
                  \/ Docs(a) # {}
                  \/ \E c \in Calls : req[c].at = "delete" /\ req[c].admin = a}
           /\ h'.out = h.out /\ SameJoin /\ SameRace /\ SameShort
<1> DEFINE x == [tenant |-> None, grants |-> None, ttl |-> TRUE]
           V == {a \in Admins :
                  \/ Docs(a) # {}
                  \/ \E c \in Calls : req[c].at = "delete" /\ req[c].admin = a}
           L == h.late \cup V
<1>1. StoreOK /\ SessOK /\ h \in History
  BY DEF TypeInv, StoreOK, HistoryOK
<1>2. /\ sess[s] = None /\ registered' = TRUE
      /\ sess' = [sess EXCEPT ![s] = x]
      /\ UNCHANGED <<docs, rights, invites, edits, index, indexTtl, backfilled,
                     req, deaths>>
      /\ h' = IF registered THEN h ELSE [h EXCEPT !.late = L]
  BY DEF Login
<1>3. x \in Session /\ x.tenant = None /\ x.ttl = TRUE
  BY DEF Session
<1> HIDE DEF x
<1>4. L \in SUBSET Admins /\ L = h.late \cup V
  BY <1>1 DEF History
<1> HIDE DEF L, V
<1>5. SessOK' /\ sess'[s] = x /\ \A t \in Sids \ {s} : sess'[t] = sess[t]
  BY <1>1, <1>2, <1>3, SessSet
<1>6. StoreOK'
  BY <1>1, <1>2, <1>5, SessFrame
<1>7. /\ HistoryOK' /\ h'.out = h.out /\ SameJoin /\ SameRace /\ SameShort
      /\ registered => SameLate
      /\ ~registered => h'.late = L
  BY <1>1, <1>2, <1>4, HistoryLate
  DEF HistoryOK, SameJoin, SameRace, SameShort, SameLate
<1>8. TypeInv'
  BY <1>2, <1>6, <1>7 DEF TypeInv, RequestsOK
<1> QED BY <1>2, <1>3, <1>4, <1>5, <1>7, <1>8 DEF V

\* A session is over; if a switch has it, that is a race.
LEMMA EndSessionIs ==
    ASSUME TypeInv, NEW s \in Sids, EndSession(s)
    PROVE  /\ TypeInv'
           /\ UNCHANGED <<members, index, indexTtl, backfilled, req, deaths>>
           /\ sess'[s] = None
           /\ \A t \in Sids \ {s} : sess'[t] = sess[t]
           /\ h.raced \subseteq h'.raced
           /\ (\E c \in Calls : req[c].sid = s) => s \in h'.raced
           /\ h'.recast = h.recast
           /\ SameOut /\ SameJoin /\ SameShort
<1>1. StoreOK /\ SessOK /\ h \in History
  BY DEF TypeInv, StoreOK, HistoryOK
<1>2. /\ sess' = [sess EXCEPT ![s] = None]
      /\ UNCHANGED <<members, index, indexTtl, backfilled, req, deaths>>
      /\ h' = IF \E c \in Calls : req[c].sid = s
              THEN [h EXCEPT !.raced = h.raced \cup {s}] ELSE h
  BY DEF EndSession
<1>3. SessOK' /\ sess'[s] = None /\ \A t \in Sids \ {s} : sess'[t] = sess[t]
  BY <1>1, <1>2, SessSet
<1>4. StoreOK'
  BY <1>1, <1>2, <1>3, SessFrame DEF members, StoreOK
<1>5. h.raced \cup {s} \in SUBSET Sids
  BY <1>1 DEF History
<1>6. /\ HistoryOK' /\ SameOut /\ SameJoin /\ SameShort
      /\ h.raced \subseteq h'.raced
      /\ (\E c \in Calls : req[c].sid = s) => s \in h'.raced
      /\ h'.recast = h.recast
  BY <1>1, <1>2, <1>5, HistoryRaced
  DEF HistoryOK, SameOut, SameJoin, SameShort
<1>7. TypeInv'
  BY <1>2, <1>4, <1>6 DEF TypeInv, RequestsOK
<1> QED BY <1>2, <1>3, <1>6, <1>7

\* A session is written back as another request has read it, with a time to
\* live; if it was changed meanwhile, that is a race.
LEMMA PutBackIs ==
    ASSUME TypeInv, OwedOK, NEW w \in owed, PutBack(w)
    PROVE  LET s == w[1]
               x == w[2]
           IN  /\ TypeInv'
               /\ UNCHANGED <<members, index, indexTtl, backfilled, req, deaths>>
               /\ s \in Sids /\ x \in Session /\ x # None
               /\ sess'[s] # None /\ sess'[s].tenant = x.tenant
               /\ sess'[s].grants = x.grants /\ sess'[s].ttl = TRUE
               /\ \A t \in Sids \ {s} : sess'[t] = sess[t]
               /\ sess[s] = x \/ s \in h'.raced
               /\ h.raced \subseteq h'.raced /\ h'.recast = h.recast
               /\ SameOut /\ SameJoin /\ SameShort
               /\ owed' \subseteq owed
<1> DEFINE s == w[1]
           x == w[2]
           y == [x EXCEPT !.ttl = TRUE]
<1>1. StoreOK /\ SessOK /\ h \in History
  BY DEF TypeInv, StoreOK, HistoryOK
<1>2. s \in Sids /\ x \in Session
  BY DEF OwedOK
<1>3. /\ sess' = [sess EXCEPT ![s] = y]
      /\ UNCHANGED <<members, index, indexTtl, backfilled, req, deaths>>
      /\ owed' \subseteq owed
      /\ h' = IF sess[s] = x THEN h
              ELSE [h EXCEPT !.raced = h.raced \cup {s}]
  BY DEF PutBack
<1>4. /\ y \in Session /\ y.tenant = x.tenant /\ y.grants = x.grants
      /\ y.ttl = TRUE
  BY <1>2 DEF Session
<1> HIDE DEF s, x, y
<1>5. x # None /\ y # None
  BY <1>2, <1>4, NoneAssumption
<1>6. SessOK' /\ sess'[s] = y /\ \A t \in Sids \ {s} : sess'[t] = sess[t]
  BY <1>1, <1>2, <1>3, <1>4, SessSet
<1>7. StoreOK'
  BY <1>1, <1>3, <1>6, SessFrame DEF members, StoreOK
<1>8. h.raced \cup {s} \in SUBSET Sids
  BY <1>1, <1>2 DEF History
<1>9. /\ HistoryOK' /\ SameOut /\ SameJoin /\ SameShort
      /\ h.raced \subseteq h'.raced
      /\ sess[s] = x \/ s \in h'.raced
      /\ h'.recast = h.recast
  BY <1>1, <1>3, <1>8, HistoryRaced
  DEF HistoryOK, SameOut, SameJoin, SameShort
<1>10. TypeInv'
  BY <1>3, <1>7, <1>9 DEF TypeInv, RequestsOK
<1> QED BY <1>2, <1>3, <1>4, <1>5, <1>6, <1>9, <1>10 DEF s, x

\* A switch begins: it knows the roles as they are, and races with every other
\* request that has the session in use.
LEMMA SwitchStarts ==
    ASSUME TypeInv, NEW c \in Calls, NEW s \in Sids,
           NEW a \in Admins \cup {None}, Switch(c, s, a)
    PROVE  /\ TypeInv' /\ UNCHANGED <<members, redis, deaths>>
           /\ sess[s] # None
           /\ h'.recast = h.recast \ {c}
           /\ h.raced \subseteq h'.raced
           /\ s \in InUse(c) => s \in h'.raced
           /\ SameOut /\ SameJoin /\ SameShort
<1> DEFINE U == InUse(c)
           R == IF s \in U THEN h.raced \cup {s} ELSE h.raced
           h1 == [h EXCEPT !.recast = h.recast \ {c}]
           h2 == [h1 EXCEPT !.raced = R]
<1>1. StoreOK /\ RequestsOK /\ SessOK /\ h \in History
  BY DEF TypeInv, StoreOK, HistoryOK
<1>2. UNCHANGED <<members, redis, deaths>> /\ h' = h2 /\ sess[s] # None
  BY DEF Switch
<1>a. U = InUse(c)
  OBVIOUS
<1> HIDE DEF U
<1>3. /\ R \in SUBSET Sids /\ h.recast \ {c} \in SUBSET (Sids \cup Calls)
      /\ h.raced \subseteq R
      /\ s \in U => s \in R
  BY <1>1 DEF History
<1> HIDE DEF R
<1>4. /\ h1 \in History /\ h1.recast = h.recast \ {c}
      /\ h1.joined = h.joined /\ h1.out = h.out /\ h1.late = h.late
      /\ h1.again = h.again /\ h1.shortened = h.shortened
  BY <1>1, <1>3, HistoryRecast
<1> HIDE DEF h1
<1>5. /\ h2 \in History /\ h2.recast = h.recast \ {c} /\ h2.raced = R
      /\ h2.joined = h.joined /\ h2.out = h.out /\ h2.late = h.late
      /\ h2.again = h.again /\ h2.shortened = h.shortened
  BY <1>3, <1>4, HistoryRaced
<1> HIDE DEF h2
<1>6. RequestsOK'
  BY <1>1, SwitchIs
<1>7. TypeInv'
  BY <1>1, <1>2, <1>5, <1>6, StoreFrame DEF TypeInv, HistoryOK
<1>8. SameOut /\ SameJoin /\ SameShort
  BY <1>2, <1>5 DEF SameOut, SameJoin, SameShort
<1>9. h'.recast = h.recast \ {c} /\ h'.raced = R
  BY <1>2, <1>5
<1>10. UNCHANGED <<members, redis, deaths>> /\ sess[s] # None
  BY <1>2
<1> QED BY <1>3, <1>7, <1>8, <1>9, <1>10, <1>a

\* A switch writes the session.
LEMMA WriteSessionIs ==
    ASSUME TypeInv, NEW c \in Calls, WriteSession(c)
    PROVE  LET s == req[c].sid IN
           /\ TypeInv'
           /\ UNCHANGED <<members, index, indexTtl, backfilled, deaths>>
           /\ Others(c) /\ req[c].at = "set" /\ s \in Sids
           /\ sess'[s] = req[c].snap
           /\ \A t \in Sids \ {s} : sess'[t] = sess[t]
           /\ req'[c].at \in {"srem", "sadd"}
           /\ req'[c].admin = req[c].admin /\ req'[c].sid = s
           /\ req'[c].snap = req[c].snap /\ req'[c].old = req[c].old
           /\ h'.recast = IF c \in h.recast THEN h.recast \cup {s}
                                            ELSE h.recast \ {s}
           /\ h'.raced = h.raced
           /\ SameOut /\ SameJoin /\ SameShort
<1> DEFINE r == req[c]
           s == r.sid
           x == r.snap
           l == IF r.old # None THEN "srem" ELSE "sadd"
           b == c \in h.recast
           R == IF b THEN h.recast \cup {s} ELSE h.recast \ {s}
<1>1. StoreOK /\ RequestsOK /\ SessOK /\ h \in History
  BY DEF TypeInv, StoreOK, HistoryOK
<1>2. /\ r.at = "set" /\ Goto(c, l)
      /\ sess' = [sess EXCEPT ![s] = x]
      /\ h' = [h EXCEPT !.recast = R]
      /\ UNCHANGED <<members, index, indexTtl, backfilled, deaths>>
  BY DEF WriteSession
<1>3. s \in Sids /\ x \in Session
  <2>1. Fit(r)
    BY <1>1, ReadyReq DEF RequestsOK
  <2> QED BY <1>2, <2>1 DEF Fit, Switching
<1>4. /\ l \in {"srem", "sadd"} /\ l \in Labels
      /\ l = "srem" => r.old # None
      /\ l = "sadd" => r.old = None
  BY DEF Labels
<1> HIDE DEF l, b
<1>5. /\ RequestsOK' /\ req'[c].at = l /\ Others(c)
      /\ req'[c].admin = r.admin /\ req'[c].sid = r.sid
      /\ req'[c].snap = r.snap /\ req'[c].old = r.old
  BY <1>1, <1>2, <1>4, MoveIs
<1>6. R \in SUBSET (Sids \cup Calls)
  BY <1>1, <1>3 DEF History
<1> HIDE DEF R, s, x, r
<1>7. SessOK' /\ sess'[s] = x /\ \A t \in Sids \ {s} : sess'[t] = sess[t]
  BY <1>1, <1>2, <1>3, SessSet
<1>8. StoreOK'
  BY <1>1, <1>2, <1>7, SessFrame DEF members, StoreOK
<1>9. /\ HistoryOK' /\ h'.recast = R /\ h'.raced = h.raced
      /\ SameOut /\ SameJoin /\ SameShort
  BY <1>1, <1>2, <1>6, HistoryRecast
  DEF HistoryOK, SameOut, SameJoin, SameShort
<1>10. TypeInv'
  BY <1>5, <1>8, <1>9 DEF TypeInv
<1> QED
  BY <1>2, <1>3, <1>4, <1>5, <1>7, <1>9, <1>10 DEF R, b, s, x, r

\* An index, and its members, leave everything else as it is.
LEMMA IndexFrame ==
    ASSUME StoreOK, (index \in [Admins -> SUBSET Sids])',
           (indexTtl \subseteq Admins)', (backfilled \subseteq Admins)',
           UNCHANGED <<members, sess, deaths>>
    PROVE  StoreOK'
BY DEF StoreOK, DocsOK, SessOK, members

\* The steps of requests on an index.
LEMMA LeaveIndexIs ==
    ASSUME TypeInv, NEW c \in Calls, LeaveIndex(c)
    PROVE  LET r == req[c] IN
           /\ TypeInv' /\ UNCHANGED <<members, sess, backfilled, deaths, h>>
           /\ Others(c) /\ r.at = "srem" /\ r.old \in Admins
           /\ index'[r.old] = index[r.old] \ {r.sid}
           /\ \A b \in Admins \ {r.old} : index'[b] = index[b]
           /\ \/ r.admin = None /\ req'[c] = Idle
              \/ /\ req'[c].at = "sadd" /\ req'[c].admin = r.admin
                 /\ req'[c].sid = r.sid /\ req'[c].snap = r.snap
                 /\ req'[c].old = r.old
<1> DEFINE r == req[c]
           S == index[r.old] \ {r.sid}
<1>1. /\ r.at = "srem" /\ SetIndex(r.old, S)
      /\ UNCHANGED <<members, sess, backfilled, deaths, h>>
      /\ r.admin = None => Done(c)
      /\ r.admin # None => Goto(c, "sadd")
  BY DEF LeaveIndex
<1>2. StoreOK /\ RequestsOK
  BY DEF TypeInv
<1>3. r.old \in Admins
  <2>1. Fit(r)
    BY <1>2, ReadyReq DEF RequestsOK
  <2> QED BY <1>1, <2>1 DEF Fit
<1>4. S \in SUBSET Sids /\ S = index[r.old] \ {r.sid}
  BY <1>2, <1>3 DEF StoreOK
<1> HIDE DEF S
<1>5. /\ RequestsOK' /\ Others(c)
      /\ \/ r.admin = None /\ req'[c] = Idle
         \/ /\ req'[c].at = "sadd" /\ req'[c].admin = r.admin
            /\ req'[c].sid = r.sid /\ req'[c].snap = r.snap
            /\ req'[c].old = r.old
  <2>1. CASE r.admin = None
    BY <1>1, <1>2, <2>1, DoneIs
  <2>2. CASE r.admin # None
    <3>1. "sadd" \in Labels
      BY DEF Labels
    <3> QED BY <1>1, <1>2, <2>2, <3>1, MoveIs
  <2> QED BY <2>1, <2>2
<1> HIDE DEF r
<1>6. /\ (index \in [Admins -> SUBSET Sids])' /\ (indexTtl \subseteq Admins)'
      /\ index'[r.old] = S
      /\ \A b \in Admins \ {r.old} : index'[b] = index[b]
  BY <1>1, <1>2, <1>3, <1>4, IndexSet
<1>7. TypeInv'
  BY <1>1, <1>2, <1>5, <1>6, IndexFrame DEF TypeInv, HistoryOK, StoreOK
<1> QED BY <1>1, <1>3, <1>4, <1>5, <1>6, <1>7 DEF r

\* The session enters the index of the admin.
LEMMA EnterIndexIs ==
    ASSUME TypeInv, NEW c \in Calls, EnterIndex(c)
    PROVE  LET r == req[c] IN
           /\ TypeInv' /\ UNCHANGED <<members, sess, backfilled, deaths, h>>
           /\ Others(c) /\ r.at = "sadd" /\ r.admin \in Admins
           /\ index'[r.admin] = index[r.admin] \cup {r.sid}
           /\ \A b \in Admins \ {r.admin} : index'[b] = index[b]
           /\ \/ req'[c] = Idle
              \/ req'[c].at = "expire" /\ req'[c].sid = r.sid
<1> DEFINE r == req[c]
           S == index[r.admin] \cup {r.sid}
<1>1. /\ r.at = "sadd" /\ SetIndex(r.admin, S)
      /\ UNCHANGED <<members, sess, backfilled, deaths, h>>
      /\ Goto(c, "expire") \/ Done(c)
  BY DEF EnterIndex
<1>2. StoreOK /\ RequestsOK
  BY DEF TypeInv
<1>3. r.admin \in Admins /\ r.sid \in Sids
  <2>1. Fit(r)
    BY <1>2, ReadyReq DEF RequestsOK
  <2> QED BY <1>1, <2>1 DEF Fit, Switching
<1>4. S \in SUBSET Sids /\ S = index[r.admin] \cup {r.sid}
  BY <1>2, <1>3 DEF StoreOK
<1> HIDE DEF S
<1>5. /\ RequestsOK' /\ Others(c)
      /\ \/ req'[c] = Idle
         \/ req'[c].at = "expire" /\ req'[c].sid = r.sid
  <2>1. CASE Done(c)
    BY <1>2, <2>1, DoneIs
  <2>2. CASE Goto(c, "expire")
    <3>1. "expire" \in Labels
      BY DEF Labels
    <3> QED BY <1>1, <1>2, <2>2, <3>1, MoveIs
  <2> QED BY <1>1, <2>1, <2>2
<1> HIDE DEF r
<1>6. /\ (index \in [Admins -> SUBSET Sids])' /\ (indexTtl \subseteq Admins)'
      /\ index'[r.admin] = S
      /\ \A b \in Admins \ {r.admin} : index'[b] = index[b]
  BY <1>1, <1>2, <1>3, <1>4, IndexSet
<1>7. TypeInv'
  BY <1>1, <1>2, <1>5, <1>6, IndexFrame DEF TypeInv, HistoryOK, StoreOK
<1> QED BY <1>1, <1>3, <1>4, <1>5, <1>6, <1>7 DEF r

\* The index is to expire with the session.
LEMMA ExpireIndexIs ==
    ASSUME TypeInv, NEW c \in Calls, ExpireIndex(c)
    PROVE  /\ TypeInv'
           /\ UNCHANGED <<members, sess, index, backfilled, deaths, h>>
           /\ Others(c) /\ req[c].at = "expire" /\ req'[c] = Idle
<1>1. /\ req[c].at = "expire" /\ Done(c)
      /\ indexTtl' = indexTtl \/ indexTtl' = indexTtl \cup {req[c].admin}
      /\ UNCHANGED <<members, sess, index, backfilled, deaths, h>>
  BY DEF ExpireIndex
<1>2. StoreOK /\ RequestsOK /\ indexTtl \subseteq Admins
  BY DEF TypeInv, StoreOK
<1>3. RequestsOK' /\ Others(c) /\ req'[c] = Idle
  BY <1>1, <1>2, DoneIs
<1>4. req[c].admin \in Admins
  <2>1. Fit(req[c])
    BY <1>2, ReadyReq DEF RequestsOK
  <2> QED BY <1>1, <2>1 DEF Fit
<1>5. (indexTtl \subseteq Admins)'
  BY <1>1, <1>2, <1>4
<1>6. TypeInv'
  BY <1>1, <1>2, <1>3, <1>5, IndexFrame DEF TypeInv, HistoryOK, StoreOK
<1> QED BY <1>1, <1>3, <1>6

\* An index is gone before its sessions.
LEMMA IndexExpiresIs ==
    ASSUME TypeInv, NEW a \in Admins, IndexExpires(a)
    PROVE  /\ TypeInv' /\ UNCHANGED <<members, sess, backfilled, req, deaths>>
           /\ index'[a] = {}
           /\ \A b \in Admins \ {a} : index'[b] = index[b]
           /\ h'.shortened = h.shortened \cup {a}
           /\ SameOut /\ SameJoin /\ SameRace
<1>1. /\ SetIndex(a, {})
      /\ UNCHANGED <<members, sess, backfilled, req, deaths>>
      /\ h' = [h EXCEPT !.shortened = h.shortened \cup {a}]
  BY DEF IndexExpires
<1>2. StoreOK /\ h \in History
  BY DEF TypeInv, HistoryOK
<1>3. /\ (index \in [Admins -> SUBSET Sids])' /\ (indexTtl \subseteq Admins)'
      /\ index'[a] = {}
      /\ \A b \in Admins \ {a} : index'[b] = index[b]
  BY <1>1, <1>2, IndexSet
<1>4. h.shortened \cup {a} \in SUBSET Admins
  BY <1>2 DEF History
<1>5. /\ HistoryOK' /\ h'.shortened = h.shortened \cup {a}
      /\ SameOut /\ SameJoin /\ SameRace
  BY <1>1, <1>2, <1>4, HistoryShortened
  DEF HistoryOK, SameOut, SameJoin, SameRace
<1>6. TypeInv'
  BY <1>1, <1>2, <1>3, <1>5, IndexFrame DEF TypeInv, RequestsOK, StoreOK
<1> QED BY <1>1, <1>3, <1>5, <1>6

\* A listing reads the index.
LEMMA ReadIndexStarts ==
    ASSUME TypeInv, NEW c \in Calls, NEW a \in Admins, ReadIndex(c, a)
    PROVE  /\ TypeInv' /\ UNCHANGED <<members, redis, deaths>>
           /\ h.raced \subseteq h'.raced
           /\ index[a] \cap InUse(c) \subseteq h'.raced
           /\ h'.recast = h.recast
           /\ SameOut /\ SameJoin /\ SameShort
<1> DEFINE R == h.raced \cup (index[a] \cap InUse(c))
<1>1. StoreOK /\ RequestsOK /\ h \in History /\ index[a] \subseteq Sids
  BY DEF TypeInv, StoreOK, HistoryOK
<1>2. UNCHANGED <<members, redis, deaths>> /\ h' = [h EXCEPT !.raced = R]
  BY DEF ReadIndex
<1>3. /\ R \in SUBSET Sids /\ h.raced \subseteq R
      /\ index[a] \cap InUse(c) \subseteq R
  BY <1>1 DEF History
<1> HIDE DEF R
<1>4. /\ HistoryOK' /\ h'.raced = R /\ h'.recast = h.recast
      /\ SameOut /\ SameJoin /\ SameShort
  BY <1>1, <1>2, <1>3, HistoryRaced
  DEF HistoryOK, SameOut, SameJoin, SameShort
<1>5. RequestsOK'
  BY <1>1, ReadIndexIs
<1>6. TypeInv'
  BY <1>1, <1>2, <1>4, <1>5, StoreFrame DEF TypeInv
<1> QED BY <1>2, <1>3, <1>4, <1>6

\* A listing goes on at l with sessions S, and changes nothing.
Listed(c, l, S) ==
    /\ Others(c) /\ req'[c].at = l /\ req'[c].ids = S
    /\ req'[c].admin = req[c].admin /\ req[c].admin \in Admins
    /\ req'[c].sid = None /\ req[c].sid = None
    /\ S \subseteq Sids
    /\ UNCHANGED <<members, redis, deaths, h>>

\* What that takes.
LEMMA ListedIs ==
    ASSUME TypeInv, NEW c \in Calls,
           NEW l \in {"exists", "stale", "read", "flag", "backfill"},
           NEW S \in SUBSET Sids,
           req[c].at \in {"mget", "stale", "scan", "read"},
           req' = [req EXCEPT ![c].at = l, ![c].ids = S],
           UNCHANGED <<members, redis, deaths, h>>
    PROVE  TypeInv' /\ Listed(c, l, S)
<1>1. RequestsOK
  BY DEF TypeInv
<1>2. /\ RequestsOK' /\ Others(c) /\ req'[c].at = l /\ req'[c].ids = S
      /\ req'[c].admin = req[c].admin /\ req'[c].sid = None
      /\ req[c].sid = None /\ req[c].admin \in Admins
  BY <1>1, ListIs
<1>3. Listed(c, l, S)
  BY <1>2 DEF Listed
<1> QED BY <1>2, <1>3, NothingDone

\* The stale ones among the sessions of the index are kept.
LEMMA ReadSessionsIs ==
    ASSUME TypeInv, NEW c \in Calls, ReadSessions(c)
    PROVE  /\ TypeInv' /\ req[c].at = "mget"
           /\ \E l \in {"exists", "stale"} :
                 Listed(c, l, req[c].ids \ ActFor(req[c].admin, req[c].ids))
<1> DEFINE S == req[c].ids \ ActFor(req[c].admin, req[c].ids)
<1>1. S \in SUBSET Sids
  BY ReadyReq DEF TypeInv, RequestsOK
<1>2. PICK l \in {"exists", "stale"} :
          /\ req[c].at = "mget"
          /\ req' = [req EXCEPT ![c].at = l, ![c].ids = S]
          /\ UNCHANGED <<members, redis, deaths, h>>
  BY DEF ReadSessions
<1> HIDE DEF S
<1>3. TypeInv' /\ Listed(c, l, S)
  BY <1>1, <1>2, ListedIs
<1> QED BY <1>2, <1>3 DEF S

\* One page of keys: the sessions there are.
LEMMA ScanIs ==
    ASSUME TypeInv, NEW c \in Calls, Scan(c)
    PROVE  /\ TypeInv' /\ req[c].at = "scan"
           /\ Listed(c, "read", {s \in Sids : sess[s] # None})
<1> DEFINE S == {s \in Sids : sess[s] # None}
<1>1. S \in SUBSET Sids
  OBVIOUS
<1>2. /\ req[c].at = "scan"
      /\ req' = [req EXCEPT ![c].at = "read", ![c].ids = S]
      /\ UNCHANGED <<members, redis, deaths, h>>
  BY DEF Scan
<1> HIDE DEF S
<1>3. TypeInv' /\ Listed(c, "read", S)
  BY <1>1, <1>2, ListedIs
<1> QED BY <1>2, <1>3 DEF S

\* The sessions of the page that act for the admin.
LEMMA ReadPageIs ==
    ASSUME TypeInv, NEW c \in Calls, ReadPage(c)
    PROVE  LET S == ActFor(req[c].admin, req[c].ids) IN
           /\ TypeInv' /\ req[c].at = "read"
           /\ \/ Listed(c, "flag", S) /\ S = {}
              \/ Listed(c, "backfill", S)
<1> DEFINE S == ActFor(req[c].admin, req[c].ids)
<1>1. S \in SUBSET Sids
  BY ReadyReq DEF TypeInv, RequestsOK, ActFor
<1>2. PICK l \in {"flag", "backfill"} :
          /\ req[c].at = "read"
          /\ l = "flag" => S = {}
          /\ req' = [req EXCEPT ![c].at = l, ![c].ids = S]
          /\ UNCHANGED <<members, redis, deaths, h>>
  BY DEF ReadPage
<1> HIDE DEF S
<1>3. TypeInv' /\ Listed(c, l, S)
  BY <1>1, <1>2, ListedIs
<1> QED BY <1>2, <1>3 DEF S

\* The stale sessions leave the index.
LEMMA RemoveStaleIs ==
    ASSUME TypeInv, NEW c \in Calls, RemoveStale(c)
    PROVE  LET r == req[c] IN
           /\ TypeInv' /\ UNCHANGED <<members, sess, backfilled, deaths, h>>
           /\ Others(c) /\ r.at = "stale" /\ r.admin \in Admins
           /\ index'[r.admin] = index[r.admin] \ r.ids
           /\ \A b \in Admins \ {r.admin} : index'[b] = index[b]
           /\ req'[c].at = "exists" /\ req'[c].sid = None
<1> DEFINE r == req[c]
           S == index[r.admin] \ r.ids
<1>1. /\ r.at = "stale" /\ SetIndex(r.admin, S)
      /\ UNCHANGED <<members, sess, backfilled, deaths, h>>
      /\ req' = [req EXCEPT ![c].at = "exists", ![c].ids = {}]
  BY DEF RemoveStale
<1>2. StoreOK /\ RequestsOK
  BY DEF TypeInv
<1>3. /\ RequestsOK' /\ Others(c) /\ req'[c].at = "exists"
      /\ req'[c].sid = None /\ r.admin \in Admins
  <2>1. {} \in SUBSET Sids
    OBVIOUS
  <2> QED BY <1>1, <1>2, <2>1, ListIs
<1>4. S \in SUBSET Sids /\ S = index[r.admin] \ r.ids
  BY <1>2, <1>3 DEF StoreOK
<1> HIDE DEF S, r
<1>5. /\ (index \in [Admins -> SUBSET Sids])' /\ (indexTtl \subseteq Admins)'
      /\ index'[r.admin] = S
      /\ \A b \in Admins \ {r.admin} : index'[b] = index[b]
  BY <1>1, <1>2, <1>3, <1>4, IndexSet
<1>6. TypeInv'
  BY <1>1, <1>2, <1>3, <1>5, IndexFrame DEF TypeInv, HistoryOK, StoreOK
<1> QED BY <1>1, <1>3, <1>4, <1>5, <1>6 DEF r

\* An index that was filled is not filled again.
LEMMA CheckBackfilledIs ==
    ASSUME TypeInv, NEW c \in Calls, CheckBackfilled(c)
    PROVE  /\ TypeInv' /\ UNCHANGED <<members, redis, deaths, h>>
           /\ Others(c) /\ req[c].at = "exists" /\ req[c].sid = None
           /\ \/ req'[c] = Idle
              \/ req'[c].at = "scan" /\ req'[c].sid = None
<1>1. /\ req[c].at = "exists" /\ (Done(c) \/ Goto(c, "scan"))
      /\ UNCHANGED <<members, redis, deaths, h>>
  BY DEF CheckBackfilled
<1>2. RequestsOK /\ req[c].at = "exists"
  BY DEF TypeInv, CheckBackfilled
<1>3. req[c].sid = None
  BY <1>2, ReadyReq DEF RequestsOK, Fit, Switching
<1>4. /\ RequestsOK' /\ Others(c)
      /\ \/ req'[c] = Idle
         \/ req'[c].at = "scan" /\ req'[c].sid = None
  <2>1. CASE Done(c)
    BY <1>2, <2>1, DoneIs
  <2>2. CASE Goto(c, "scan")
    <3>1. "scan" \in Labels
      BY DEF Labels
    <3> QED BY <1>2, <1>3, <2>2, <3>1, MoveIs
  <2> QED BY <1>1, <2>1, <2>2
<1>5. TypeInv'
  BY <1>1, <1>4, NothingDone
<1> QED BY <1>1, <1>2, <1>3, <1>4, <1>5

\* The sessions found enter the index.
LEMMA BackfillIs ==
    ASSUME TypeInv, NEW c \in Calls, Backfill(c)
    PROVE  LET r == req[c] IN
           /\ TypeInv' /\ UNCHANGED <<members, sess, backfilled, deaths, h>>
           /\ Others(c) /\ r.at = "backfill" /\ r.admin \in Admins
           /\ index'[r.admin] = index[r.admin] \cup r.ids
           /\ \A b \in Admins \ {r.admin} : index'[b] = index[b]
           /\ req'[c].at = "flag" /\ req'[c].admin = r.admin
           /\ req'[c].sid = None /\ r.sid = None
<1> DEFINE r == req[c]
           S == index[r.admin] \cup r.ids
<1>1. /\ r.at = "backfill" /\ SetIndex(r.admin, S) /\ Goto(c, "flag")
      /\ UNCHANGED <<members, sess, backfilled, deaths, h>>
  BY DEF Backfill
<1>2. StoreOK /\ RequestsOK
  BY DEF TypeInv
<1>3. r.admin \in Admins /\ r.sid = None /\ r.ids \subseteq Sids
  <2>1. Fit(r) /\ r.ids \subseteq Sids
    BY <1>2, ReadyReq DEF RequestsOK
  <2> QED BY <1>1, <2>1 DEF Fit, Switching
<1>4. S \in SUBSET Sids /\ S = index[r.admin] \cup r.ids
  BY <1>2, <1>3 DEF StoreOK
<1> HIDE DEF S
<1>5. /\ RequestsOK' /\ Others(c) /\ req'[c].at = "flag"
      /\ req'[c].admin = r.admin /\ req'[c].sid = r.sid
  BY <1>1, <1>2, MoveIs, LabelsAre
<1> HIDE DEF r
<1>6. /\ (index \in [Admins -> SUBSET Sids])' /\ (indexTtl \subseteq Admins)'
      /\ index'[r.admin] = S
      /\ \A b \in Admins \ {r.admin} : index'[b] = index[b]
  BY <1>1, <1>2, <1>3, <1>4, IndexSet
<1>7. TypeInv'
  BY <1>1, <1>2, <1>5, <1>6, IndexFrame DEF TypeInv, HistoryOK, StoreOK
<1> QED BY <1>1, <1>3, <1>4, <1>5, <1>6, <1>7 DEF r

\* The index counts as filled.
LEMMA FlagBackfilledIs ==
    ASSUME TypeInv, NEW c \in Calls, FlagBackfilled(c)
    PROVE  /\ TypeInv' /\ UNCHANGED <<members, sess, index, deaths, h>>
           /\ Others(c) /\ req[c].at = "flag" /\ req'[c] = Idle
           /\ req[c].sid = None
           /\ backfilled' = backfilled \cup {req[c].admin}
<1>1. /\ req[c].at = "flag" /\ Done(c)
      /\ backfilled' = backfilled \cup {req[c].admin}
      /\ UNCHANGED <<members, sess, index, indexTtl, deaths, h>>
  BY DEF FlagBackfilled
<1>2. StoreOK /\ RequestsOK
  BY DEF TypeInv
<1>3. req[c].admin \in Admins /\ req[c].sid = None
  <2>1. Fit(req[c])
    BY <1>2, ReadyReq DEF RequestsOK
  <2> QED BY <1>1, <2>1 DEF Fit, Switching
<1>4. RequestsOK' /\ Others(c) /\ req'[c] = Idle
  BY <1>1, <1>2, DoneIs
<1>5. (backfilled \subseteq Admins)' /\ StoreOK'
  BY <1>1, <1>2, <1>3, IndexFrame DEF StoreOK
<1>6. TypeInv'
  BY <1>1, <1>4, <1>5 DEF TypeInv, HistoryOK
<1> QED BY <1>1, <1>3, <1>4, <1>6

\* A request dies at an await.
LEMMA DieIs ==
    ASSUME TypeInv, NEW c \in Calls, Die(c)
    PROVE  /\ TypeInv' /\ UNCHANGED <<members, redis, h>>
           /\ Others(c) /\ req'[c] = Idle /\ deaths' # 0
<1>1. /\ Done(c) /\ deaths < MaxDeaths /\ deaths' = deaths + 1
      /\ UNCHANGED <<members, redis, h>>
  BY DEF Die
<1>2. StoreOK /\ RequestsOK
  BY DEF TypeInv
<1>3. deaths' \in 0..MaxDeaths /\ deaths' # 0
  BY <1>1, <1>2, TenantsAssumption DEF StoreOK
<1>4. StoreOK'
  BY <1>1, <1>2, <1>3 DEF StoreOK, DocsOK, SessOK, members, redis
<1>5. RequestsOK' /\ Others(c) /\ req'[c] = Idle
  BY <1>1, <1>2, DoneIs
<1>6. TypeInv'
  BY <1>1, <1>4, <1>5 DEF TypeInv, HistoryOK
<1> QED BY <1>1, <1>3, <1>5, <1>6

-----------------------------------------------------------------------------
(* Type correctness.                                                       *)

\* What another request does without writing: it reads a session, or gives up.
Aside == \/ \E s \in Sids : TakeSession(s)
         \/ \E w \in owed : LetGo(w)

\* It leaves everything but its own value alone.
LEMMA AsideIs ==
    ASSUME Aside
    PROVE  UNCHANGED <<members, redis, req, deaths, h>>
BY DEF Aside, TakeSession, LetGo

\* No step of the code leaves the types.
LEMMA TypeInvStep ==
    ASSUME TypeInv, OwedOK, [Next]_vars
    PROVE  TypeInv'
<1>1. RequestsOK /\ StoreOK /\ DocsOK /\ SessOK
  BY DEF TypeInv, StoreOK
<1>2. ASSUME NEW c \in Calls, NEW a \in Admins, NEW r \in Roles,
             Invite(c, a, r) \/ Attach(c, a, r)
      PROVE  TypeInv'
  <2>1. UNCHANGED <<members, redis, deaths, h>>
    BY <1>2 DEF Invite, Attach
  <2>2. RequestsOK'
    BY <1>1, <1>2, InviteIs, AttachIs
  <2> QED BY <2>1, <2>2, NothingDone
<1>3. ASSUME NEW c \in Calls, NEW a \in Admins, NEW k \in Keys, Accept(c, a, k)
      PROVE  TypeInv'
  <2>1. UNCHANGED <<members, redis, deaths, h>>
    BY <1>3 DEF Accept
  <2>2. RequestsOK'
    BY <1>1, <1>3, AcceptIs
  <2> QED BY <2>1, <2>2, NothingDone
<1>4. ASSUME NEW c \in Calls, NEW a \in Admins, Delete(c, a) PROVE TypeInv'
  <2>1. CASE docs[a][Key] = None
    BY <1>4, <2>1, DeleteNothingIs
  <2>2. CASE docs[a][Key] # None
    <3>1. UNCHANGED <<members, redis, deaths, h>>
      BY <1>4, <2>2 DEF Delete
    <3>2. RequestsOK'
      BY <1>1, <1>4, <2>2, DeleteIs
    <3> QED BY <3>1, <3>2, NothingDone
  <2> QED BY <2>1, <2>2
<1>5. ASSUME NEW c \in Calls, ReadMember(c) \/ ReadRole(c) \/ ReadTtl(c)
      PROVE  TypeInv'
  <2>1. UNCHANGED <<members, redis, deaths, h>>
    BY <1>5 DEF ReadMember, ReadRole, ReadTtl
  <2>2. RequestsOK'
    BY <1>1, <1>5, ReadMemberIs, ReadRoleIs, ReadTtlIs
  <2> QED BY <2>1, <2>2, NothingDone
<1>6. CASE UNCHANGED vars
  <2>1. UNCHANGED <<members, redis, deaths, h>> /\ RequestsOK'
    BY <1>1, <1>6 DEF vars, members, redis, RequestsOK
  <2> QED BY <2>1, NothingDone
<1>7. ASSUME NEW c \in Calls,
             \/ CreateInvite(c) \/ AcceptWrite(c) \/ DeleteDoc(c)
             \/ AttachWrite(c) \/ WriteSession(c)
             \/ LeaveIndex(c) \/ EnterIndex(c) \/ ExpireIndex(c)
      PROVE  TypeInv'
  BY <1>7, CreateInviteIs, AcceptWriteIs, DeleteDocIs, AttachWriteIs,
     WriteSessionIs, LeaveIndexIs, EnterIndexIs, ExpireIndexIs
<1>8. ASSUME NEW c \in Calls,
             \/ ReadSessions(c) \/ RemoveStale(c) \/ CheckBackfilled(c)
             \/ Scan(c) \/ ReadPage(c) \/ Backfill(c) \/ FlagBackfilled(c)
             \/ Die(c)
      PROVE  TypeInv'
  BY <1>8, ReadSessionsIs, ScanIs, ReadPageIs, RemoveStaleIs,
     CheckBackfilledIs, BackfillIs, FlagBackfilledIs, DieIs
<1>9. ASSUME NEW c \in Calls, NEW a \in Admins, ReadIndex(c, a) PROVE TypeInv'
  BY <1>9, ReadIndexStarts
<1>10. ASSUME NEW c \in Calls, NEW s \in Sids, NEW a \in Admins \cup {None},
              Switch(c, s, a)
       PROVE  TypeInv'
  BY <1>10, SwitchStarts
<1>11. ASSUME NEW s \in Sids, Login(s) \/ EndSession(s) PROVE TypeInv'
  BY <1>11, LoginIs, EndSessionIs
<1>12. ASSUME NEW a \in Admins, NEW k \in Keys,
              Resend(a, k) \/ InvitationExpires(a, k)
       PROVE  TypeInv'
  BY <1>12, ValidIs
<1>13. ASSUME NEW r \in Roles, EditRole(r) PROVE TypeInv'
  BY <1>13, EditRoleIs
<1>14. ASSUME NEW a \in Admins, IndexExpires(a) PROVE TypeInv'
  BY <1>14, IndexExpiresIs
<1>15. CASE Aside
  <2>1. UNCHANGED <<members, redis, deaths, h>> /\ RequestsOK'
    BY <1>1, <1>15, AsideIs DEF RequestsOK
  <2> QED BY <2>1, NothingDone
<1>16. ASSUME NEW w \in owed, PutBack(w) PROVE TypeInv'
  BY <1>16, PutBackIs
<1> QED
  BY <1>2, <1>3, <1>4, <1>5, <1>6, <1>7, <1>8, <1>9, <1>10, <1>11, <1>12,
     <1>13, <1>14, <1>15, <1>16
  DEF Next, Aside

\* Every other step leaves what those requests hold alone.
LEMMA OwedStill ==
    ASSUME [Next]_vars
    PROVE  \/ owed' = owed
           \/ \E s \in Sids : TakeSession(s)
           \/ \E w \in owed : PutBack(w) \/ LetGo(w)
<1>1. ASSUME NEW c \in Calls, NEW a \in Admins, NEW r \in Roles,
             Invite(c, a, r) \/ Attach(c, a, r)
      PROVE  owed' = owed
  BY <1>1 DEF Invite, Attach
<1>2. ASSUME NEW c \in Calls, NEW a \in Admins, NEW k \in Keys,
             Accept(c, a, k)
      PROVE  owed' = owed
  BY <1>2 DEF Accept
<1>3. ASSUME NEW c \in Calls, NEW a \in Admins,
             Delete(c, a) \/ ReadIndex(c, a)
      PROVE  owed' = owed
  BY <1>3, Zenon DEF Delete, ReadIndex
<1>4. ASSUME NEW c \in Calls, NEW s \in Sids, NEW a \in Admins \cup {None},
             Switch(c, s, a)
      PROVE  owed' = owed
  BY <1>4, Zenon DEF Switch
<1>5. ASSUME NEW c \in Calls,
             \/ CreateInvite(c) \/ AcceptWrite(c) \/ DeleteDoc(c)
             \/ AttachWrite(c) \/ ReadMember(c) \/ ReadRole(c) \/ ReadTtl(c)
             \/ WriteSession(c) \/ LeaveIndex(c) \/ EnterIndex(c)
             \/ ExpireIndex(c)
      PROVE  owed' = owed
  BY <1>5, Zenon DEF CreateInvite, AcceptWrite, DeleteDoc, AttachWrite, ReadMember,
     ReadRole, ReadTtl, WriteSession, LeaveIndex, EnterIndex, ExpireIndex
<1>6. ASSUME NEW c \in Calls,
             \/ ReadSessions(c) \/ RemoveStale(c) \/ CheckBackfilled(c)
             \/ Scan(c) \/ ReadPage(c) \/ Backfill(c) \/ FlagBackfilled(c)
             \/ Die(c)
      PROVE  owed' = owed
  BY <1>6, Zenon DEF ReadSessions, RemoveStale, CheckBackfilled, Scan, ReadPage,
     Backfill, FlagBackfilled, Die
<1>7. ASSUME NEW a \in Admins, NEW k \in Keys,
             Resend(a, k) \/ InvitationExpires(a, k)
      PROVE  owed' = owed
  BY <1>7 DEF Resend, InvitationExpires
<1>8. ASSUME NEW r \in Roles, EditRole(r) PROVE owed' = owed
  BY <1>8 DEF EditRole
<1>9. ASSUME NEW s \in Sids, Login(s) \/ EndSession(s) PROVE owed' = owed
  BY <1>9 DEF Login, EndSession
<1>10. ASSUME NEW a \in Admins, IndexExpires(a) PROVE owed' = owed
  BY <1>10 DEF IndexExpires
<1>11. CASE UNCHANGED vars
  BY <1>11 DEF vars
<1> QED
  BY <1>1, <1>2, <1>3, <1>4, <1>5, <1>6, <1>7, <1>8, <1>9, <1>10, <1>11
  DEF Next

\* They hold what was stored when they read it, or hold no more than before.
LEMMA OwedIs ==
    ASSUME [Next]_vars
    PROVE  \A w \in owed' \ owed :
               \E s \in Sids : sess[s] # None /\ w = <<s, sess[s]>>
<1>1. CASE owed' = owed
  BY <1>1
<1>2. ASSUME NEW s \in Sids, TakeSession(s)
      PROVE  \A w \in owed' \ owed : sess[s] # None /\ w = <<s, sess[s]>>
  BY <1>2 DEF TakeSession
<1>3. ASSUME NEW w \in owed, PutBack(w) \/ LetGo(w)
      PROVE  owed' \subseteq owed
  BY <1>3 DEF PutBack, LetGo
<1> QED BY <1>1, <1>2, <1>3, OwedStill

\* Whatever they hold is a session.
LEMMA OwedStep ==
    ASSUME TypeInv, OwedOK, [Next]_vars
    PROVE  OwedOK'
<1>1. SessOK
  BY DEF TypeInv, StoreOK
<1>2. ASSUME NEW w \in owed', w \notin owed PROVE w \in Sids \X Session
  <2>1. PICK s \in Sids : sess[s] # None /\ w = <<s, sess[s]>>
    BY <1>2, OwedIs
  <2> QED BY <1>1, <2>1, SessionIs
<1> QED BY <1>2 DEF OwedOK

\* The code starts, with or without a tenant from before the index, in the
\* types.
LEMMA TypeInvInit ==
    ASSUME Init
    PROVE  TypeInv
<1> USE TenantsAssumption
<1>1. RequestsOK
  BY IdleIs DEF Init, RequestsOK
<1>2. /\ rights \in [Roles -> 0..MaxEdits + 1]
      /\ index \in [Admins -> SUBSET Sids]
      /\ indexTtl \subseteq Admins /\ backfilled \subseteq Admins
      /\ edits \in 0..MaxEdits /\ deaths \in 0..MaxDeaths
      /\ \A r \in Roles : rights[r] <= edits + 1
  BY DEF Init
<1>3. NoHistory \in History /\ NoDocs \in [Admins -> [Keys -> Doc \cup {None}]]
  BY DEF NoHistory, History, NoDocs
<1>4. CASE Legacy
  <2>1. PICK a \in Admins, r \in Roles, s \in Sids :
          /\ registered = TRUE
          /\ docs = [NoDocs EXCEPT ![a]["user"] =
                [code |-> 1, accepted |-> TRUE, valid |-> TRUE, role |-> r]]
          /\ sess = [NoSessions EXCEPT ![s] =
                [tenant |-> a, grants |-> <<r, 1>>, ttl |-> TRUE]]
          /\ invites = 1
          /\ h = [NoHistory EXCEPT !.joined = {a}]
    BY <1>4 DEF Legacy
  <2> DEFINE d == [code |-> 1, accepted |-> TRUE, valid |-> TRUE, role |-> r]
             x == [tenant |-> a, grants |-> <<r, 1>>, ttl |-> TRUE]
  <2>2. d \in Doc
    BY DEF Doc
  <2>3. x \in Session
    BY DEF Session, Grants
  <2> HIDE DEF d, x
  <2>4. docs = [NoDocs EXCEPT ![a]["user"] = d] /\ "user" \in Keys
    BY <2>1 DEF d, Keys
  <2>5. DocsOK
    <3>1. [NoDocs[a] EXCEPT !["user"] = d] \in [Keys -> Doc \cup {None}]
      BY <1>3, <2>2, <2>4
    <3> QED BY <1>3, <2>4, <3>1 DEF DocsOK
  <2>6. sess = [NoSessions EXCEPT ![s] = x]
    BY <2>1 DEF x
  <2>7. SessOK
    BY <2>3, <2>6 DEF SessOK, NoSessions
  <2>8. HistoryOK
    <3>1. {a} \in SUBSET Admins
      OBVIOUS
    <3> QED BY <1>3, <2>1, <3>1, HistoryJoined DEF HistoryOK
  <2>9. invites \in 0..MaxInvites /\ registered \in BOOLEAN
    BY <2>1
  <2> QED BY <1>1, <1>2, <2>5, <2>7, <2>8, <2>9 DEF TypeInv, StoreOK
<1>5. CASE registered = FALSE /\ docs = NoDocs /\ sess = NoSessions
           /\ invites = 0 /\ h = NoHistory
  <2>1. DocsOK /\ SessOK /\ HistoryOK
    BY <1>3, <1>5 DEF DocsOK, SessOK, NoSessions, HistoryOK
  <2>2. invites \in 0..MaxInvites
    BY <1>5
  <2>3. registered \in BOOLEAN
    BY <1>5
  <2> QED BY <1>1, <1>2, <2>1, <2>2, <2>3 DEF TypeInv, StoreOK
<1> QED BY <1>4, <1>5 DEF Init

\* Every reachable state of the teammates is of the right types, whatever the
\* numbers of admins, roles, sessions and requests.
THEOREM TypeInvariant == Spec => [](TypeInv /\ OwedOK)
<1>1. TypeInv /\ OwedOK /\ [Next]_vars => TypeInv' /\ OwedOK'
  BY TypeInvStep, OwedStep
<1>2. Init => OwedOK
  BY DEF Init, OwedOK
<1> QED BY TypeInvInit, <1>1, <1>2, PTL DEF Spec

\* The type invariant of the model.
THEOREM TypeCorrect == Spec => []TypeOK
<1>1. TypeInv /\ OwedOK => TypeOK
  BY ReadyReq DEF TypeInv, StoreOK, DocsOK, SessOK, RequestsOK, HistoryOK,
     OwedOK, TypeOK, Req, Ready
<1> QED BY TypeInvariant, <1>1, PTL

-----------------------------------------------------------------------------
(* Steps that the invariants below have in common.                         *)

\* Nobody is invited, nobody has logged in.
StartsEmpty ==
    /\ registered = FALSE /\ invites = 0
    /\ \A a \in Admins, k \in Keys : docs[a][k] = None
    /\ \A s \in Sids : sess[s] = None
    /\ h.joined = {}

\* The person has session s, as a tenant of admin a in role r.
StartsLegacy(a, r, s) ==
    /\ registered = TRUE /\ invites = 1
    /\ docs[a]["user"] # None /\ docs[a]["user"].accepted = TRUE
    /\ docs[a]["user"].code = 1 /\ docs[a]["user"].role = r
    /\ \A b \in Admins, k \in Keys : b # a \/ k # "user" => docs[b][k] = None
    /\ sess[s] # None /\ sess[s].tenant = a /\ sess[s].ttl = TRUE
    /\ sess[s].grants = <<r, 1>>
    /\ \A t \in Sids \ {s} : sess[t] = None
    /\ h.joined = {a}

\* How the code starts.
LEMMA InitIs ==
    ASSUME Init
    PROVE  /\ \/ StartsEmpty
              \/ \E a \in Admins, r \in Roles, s \in Sids :
                    StartsLegacy(a, r, s)
           /\ \A r \in Roles : rights[r] = 1
           /\ \A c \in Calls : req[c] = Idle
           /\ backfilled = {} /\ h.out = {} /\ h.late = {} /\ h.again = {}
<1> USE TenantsAssumption
<1>1. /\ \A r \in Roles : rights[r] = 1
      /\ \A c \in Calls : req[c] = Idle
      /\ backfilled = {}
  BY DEF Init
<1>2. /\ NoHistory \in History /\ NoHistory.joined = {} /\ NoHistory.out = {}
      /\ NoHistory.late = {} /\ NoHistory.again = {}
  BY DEF NoHistory, History
<1>3. /\ NoDocs \in [Admins -> [Keys -> Doc \cup {None}]]
      /\ \A a \in Admins, k \in Keys : NoDocs[a][k] = None
      /\ \A s \in Sids : NoSessions[s] = None
  BY DEF NoDocs, NoSessions
<1>4. CASE Legacy
  <2>1. PICK a \in Admins, r \in Roles, s \in Sids :
          /\ registered = TRUE
          /\ docs = [NoDocs EXCEPT ![a]["user"] =
                [code |-> 1, accepted |-> TRUE, valid |-> TRUE, role |-> r]]
          /\ sess = [NoSessions EXCEPT ![s] =
                [tenant |-> a, grants |-> <<r, 1>>, ttl |-> TRUE]]
          /\ invites = 1
          /\ h = [NoHistory EXCEPT !.joined = {a}]
    BY <1>4 DEF Legacy
  <2> DEFINE d == [code |-> 1, accepted |-> TRUE, valid |-> TRUE, role |-> r]
             x == [tenant |-> a, grants |-> <<r, 1>>, ttl |-> TRUE]
  <2>2. d \in Doc
    BY DEF Doc
  <2>3. x \in Session
    BY DEF Session, Grants
  <2>4. d.code = 1 /\ d.accepted = TRUE /\ d.role = r
    OBVIOUS
  <2>5. x.tenant = a /\ x.grants = <<r, 1>> /\ x.ttl = TRUE
    OBVIOUS
  <2> HIDE DEF d, x
  <2>6. d # None /\ x # None
    BY <2>2, <2>3, NoneAssumption
  <2>7. docs = [NoDocs EXCEPT ![a]["user"] = d] /\ "user" \in Keys
    BY <2>1 DEF d, Keys
  <2>8. /\ docs[a]["user"] = d
        /\ \A b \in Admins, k \in Keys :
               b # a \/ k # "user" => docs[b][k] = None
    BY <1>3, <2>7
  <2>9. sess = [NoSessions EXCEPT ![s] = x]
    BY <2>1 DEF x
  <2>10. sess[s] = x /\ \A t \in Sids \ {s} : sess[t] = None
    BY <1>3, <2>9 DEF NoSessions
  <2>11. {a} \in SUBSET Admins
    OBVIOUS
  <2>12. /\ h.joined = {a} /\ h.out = {} /\ h.late = {} /\ h.again = {}
    BY <1>2, <2>1, <2>11, HistoryJoined
  <2>13. StartsLegacy(a, r, s)
    BY <2>1, <2>4, <2>5, <2>6, <2>8, <2>10, <2>12 DEF StartsLegacy
  <2> QED BY <1>1, <2>12, <2>13
<1>5. CASE registered = FALSE /\ docs = NoDocs /\ sess = NoSessions
           /\ invites = 0 /\ h = NoHistory
  <2>1. StartsEmpty /\ h.out = {} /\ h.late = {} /\ h.again = {}
    BY <1>2, <1>3, <1>5 DEF StartsEmpty
  <2> QED BY <1>1, <2>1
<1> QED BY <1>4, <1>5 DEF Init

\* The awaits of a listing.
Listing == {"mget", "stale", "exists", "scan", "read", "backfill", "flag"}

\* What a request at work on an index leaves alone: memberships, roles and the
\* sessions.
Quiet(c) ==
    /\ UNCHANGED <<members, sess>> /\ Others(c)
    /\ \/ req'[c] = Idle
       \/ req'[c].at \in Listing /\ req'[c].sid = None
       \/ req'[c].at \in {"sadd", "expire"} /\ req'[c].sid = req[c].sid
          /\ req[c].at \in {"srem", "sadd"}
    /\ SameOut /\ SameJoin
    /\ h'.recast = h.recast /\ h.raced \subseteq h'.raced

\* The history as it is.
LEMMA SameHistory ==
    ASSUME UNCHANGED h
    PROVE  SameLate /\ SameJoin /\ SameOut /\ SameRace /\ SameShort
BY DEF SameLate, SameJoin, SameOut, SameRace, SameShort

\* The steps on an index are quiet, and so is the death of a request.
LEMMA QuietSteps ==
    ASSUME TypeInv, NEW c \in Calls,
           \/ LeaveIndex(c) \/ EnterIndex(c) \/ ExpireIndex(c)
           \/ \E a \in Admins : ReadIndex(c, a)
           \/ ReadSessions(c) \/ RemoveStale(c) \/ CheckBackfilled(c)
           \/ Scan(c) \/ ReadPage(c) \/ Backfill(c) \/ FlagBackfilled(c)
           \/ Die(c)
    PROVE  Quiet(c)
<1>a. UNCHANGED h =>
          /\ SameOut /\ SameJoin
          /\ h'.recast = h.recast /\ h.raced \subseteq h'.raced
  BY SameHistory DEF SameRace
<1>1. CASE LeaveIndex(c)
  BY <1>a, <1>1, LeaveIndexIs DEF Quiet
<1>2. CASE EnterIndex(c)
  BY <1>a, <1>2, EnterIndexIs DEF Quiet
<1>3. CASE ExpireIndex(c)
  BY <1>a, <1>3, ExpireIndexIs DEF Quiet
<1>4. ASSUME NEW a \in Admins, ReadIndex(c, a) PROVE Quiet(c)
  <2>1. RequestsOK /\ StoreOK
    BY DEF TypeInv
  <2>2. Others(c) /\ req'[c].at \in Listing /\ req'[c].sid = None
    BY <1>4, <2>1, ReadIndexIs DEF Listing
  <2> QED BY <1>4, <2>2, ReadIndexStarts DEF Quiet, redis
<1>5. ASSUME NEW l \in Listing, NEW S, Listed(c, l, S) PROVE Quiet(c)
  BY <1>a, <1>5 DEF Listed, Quiet, redis
<1>6. CASE ReadSessions(c)
  BY <1>5, <1>6, ReadSessionsIs DEF Listing
<1>7. CASE RemoveStale(c)
  BY <1>a, <1>7, RemoveStaleIs DEF Quiet, Listing
<1>8. CASE CheckBackfilled(c)
  BY <1>a, <1>8, CheckBackfilledIs DEF Quiet, Listing, redis
<1>9. CASE Scan(c)
  BY <1>5, <1>9, ScanIs DEF Listing
<1>10. CASE ReadPage(c)
  BY <1>5, <1>10, ReadPageIs DEF Listing
<1>11. CASE Backfill(c)
  BY <1>a, <1>11, BackfillIs DEF Quiet, Listing
<1>12. CASE FlagBackfilled(c)
  BY <1>a, <1>12, FlagBackfilledIs DEF Quiet
<1>13. CASE Die(c)
  BY <1>a, <1>13, DieIs DEF Quiet, redis
<1> QED
  BY <1>1, <1>2, <1>3, <1>4, <1>6, <1>7, <1>8, <1>9, <1>10, <1>11, <1>12,
     <1>13

\* What a request that begins to change memberships leaves alone: all.
Asked(c) ==
    /\ UNCHANGED <<members, redis, deaths, h>> /\ Others(c)
    /\ req[c] = Idle /\ req'[c].sid = None
    /\ req'[c].at \in {"create", "attach", "accept", "delete"}

\* The requests that do so.
LEMMA AskedSteps ==
    ASSUME TypeInv, NEW c \in Calls, NEW a \in Admins,
           \/ \E r \in Roles : Invite(c, a, r) \/ Attach(c, a, r)
           \/ \E k \in Keys : Accept(c, a, k)
           \/ Delete(c, a) /\ docs[a][Key] # None
    PROVE  Asked(c)
<1>1. RequestsOK /\ DocsOK
  BY DEF TypeInv, StoreOK
<1>2. ASSUME NEW r \in Roles, Invite(c, a, r) PROVE Asked(c)
  <2>1. UNCHANGED <<members, redis, deaths, h>>
    BY <1>2 DEF Invite
  <2> QED BY <1>1, <1>2, <2>1, InviteIs DEF Asked
<1>3. ASSUME NEW r \in Roles, Attach(c, a, r) PROVE Asked(c)
  <2>1. UNCHANGED <<members, redis, deaths, h>>
    BY <1>3 DEF Attach
  <2> QED BY <1>1, <1>3, <2>1, AttachIs DEF Asked
<1>4. ASSUME NEW k \in Keys, Accept(c, a, k) PROVE Asked(c)
  <2>1. UNCHANGED <<members, redis, deaths, h>>
    BY <1>4 DEF Accept
  <2> QED BY <1>1, <1>4, <2>1, AcceptIs DEF Asked
<1>5. CASE Delete(c, a) /\ docs[a][Key] # None
  <2>1. UNCHANGED <<members, redis, deaths, h>>
    BY <1>5 DEF Delete
  <2> QED BY <1>1, <1>5, <2>1, DeleteIs DEF Asked
<1> QED BY <1>2, <1>3, <1>4, <1>5

\* Neither a request nor a membership nor a session changes.
Still == /\ UNCHANGED <<members, sess, req>>
         /\ SameOut /\ SameJoin /\ SameRace

\* The end of an index does not change them, nor does another request that
\* does not write, nor no step at all.
LEMMA StillSteps ==
    ASSUME TypeInv,
           UNCHANGED vars \/ Aside \/ \E a \in Admins : IndexExpires(a)
    PROVE  Still
<1>1. CASE UNCHANGED vars
  <2>1. UNCHANGED <<members, sess, req, h>>
    BY <1>1 DEF vars, members
  <2> QED BY <2>1, SameHistory DEF Still
<1>2. ASSUME NEW a \in Admins, IndexExpires(a) PROVE Still
  BY <1>2, IndexExpiresIs DEF Still
<1>3. CASE Aside
  <2>1. UNCHANGED <<members, sess, req, h>>
    BY <1>3, AsideIs DEF redis
  <2> QED BY <2>1, SameHistory DEF Still
<1> QED BY <1>1, <1>2, <1>3

\* Whoever registered stays so, and whoever joined has joined for good.
LEMMA Lasting ==
    ASSUME TypeInv, OwedOK, [Next]_vars
    PROVE  (registered => registered') /\ h.joined \subseteq h'.joined
<1> DEFINE G == (registered => registered') /\ h.joined \subseteq h'.joined
<1>1. ASSUME NEW c \in Calls, Quiet(c) \/ Asked(c) \/ Still PROVE G
  BY <1>1 DEF Quiet, Asked, Still, members, SameJoin
<1>2. CASE UNCHANGED vars \/ Aside \/ \E a \in Admins : IndexExpires(a)
  BY <1>2, StillSteps DEF Still, members, SameJoin
<1>3. ASSUME NEW c \in Calls, NEW a \in Admins,
             \/ \E r \in Roles : Invite(c, a, r) \/ Attach(c, a, r)
             \/ \E k \in Keys : Accept(c, a, k)
      PROVE  G
  BY <1>1, <1>3, AskedSteps
<1>4. ASSUME NEW c \in Calls, NEW a \in Admins, Delete(c, a) PROVE G
  <2>1. CASE docs[a][Key] = None
    BY <1>4, <2>1, DeleteNothingIs DEF members, SameJoin
  <2>2. CASE docs[a][Key] # None
    BY <1>1, <1>4, <2>2, AskedSteps
  <2> QED BY <2>1, <2>2
<1>5. ASSUME NEW c \in Calls,
             \/ LeaveIndex(c) \/ EnterIndex(c) \/ ExpireIndex(c)
             \/ \E a \in Admins : ReadIndex(c, a)
             \/ ReadSessions(c) \/ RemoveStale(c) \/ CheckBackfilled(c)
             \/ Scan(c) \/ ReadPage(c) \/ Backfill(c) \/ FlagBackfilled(c)
             \/ Die(c)
      PROVE  G
  BY <1>1, <1>5, QuietSteps
<1>6. ASSUME NEW c \in Calls, CreateInvite(c) PROVE G
  BY <1>6, CreateInviteIs DEF InvitationMade
<1>7. ASSUME NEW c \in Calls, AcceptWrite(c) PROVE G
  BY <1>7, AcceptWriteIs DEF Acceptance, Accepted
<1>8. ASSUME NEW c \in Calls, DeleteDoc(c) \/ AttachWrite(c) PROVE G
  BY <1>8, DeleteDocIs, AttachWriteIs DEF SameJoin
<1>9. ASSUME NEW c \in Calls, ReadMember(c) \/ ReadRole(c) \/ ReadTtl(c)
      PROVE  G
  BY <1>9 DEF ReadMember, ReadRole, ReadTtl, members
<1>10. ASSUME NEW c \in Calls, WriteSession(c) PROVE G
  BY <1>10, WriteSessionIs DEF members, SameJoin
<1>11. ASSUME NEW c \in Calls, NEW s \in Sids, NEW a \in Admins \cup {None},
              Switch(c, s, a)
       PROVE  G
  BY <1>11, SwitchStarts DEF members, SameJoin
<1>12. ASSUME NEW s \in Sids, Login(s) \/ EndSession(s) PROVE G
  BY <1>12, LoginIs, EndSessionIs DEF members, SameJoin
<1>13. ASSUME NEW a \in Admins, NEW k \in Keys,
              Resend(a, k) \/ InvitationExpires(a, k)
       PROVE  G
  BY <1>13, ValidIs
<1>14. ASSUME NEW r \in Roles, EditRole(r) PROVE G
  BY <1>14, EditRoleIs DEF SameJoin
<1>15. ASSUME NEW w \in owed, PutBack(w) PROVE G
  BY <1>15, PutBackIs DEF members, SameJoin
<1> QED
  BY <1>2, <1>3, <1>4, <1>5, <1>6, <1>7, <1>8, <1>9, <1>10, <1>11, <1>12,
     <1>13, <1>14, <1>15
  DEF Next, Aside

-----------------------------------------------------------------------------
(* Whoever is served as a tenant has joined.                               *)

\* A session acts for those whose invitation was accepted.
SessionsJoined ==
    \A s \in Sids, a \in Admins :
        sess[s] # None /\ sess[s].tenant = a => a \in h.joined

\* So will one that a switch is about to write.
SwitchJoined(c) ==
    req[c].at \in {"role", "ttl", "set"} /\ req[c].admin # None
        => req[c].admin \in h.joined

\* A membership under the user id is accepted, or was made anew.
MembersJoined ==
    \A a \in Admins : docs[a]["user"] # None =>
        /\ docs[a]["user"].accepted => a \in h.joined
        /\ ~docs[a]["user"].accepted /\ a \in h.joined => a \in h.again

JoinInv == /\ SessionsJoined /\ MembersJoined
           /\ \A c \in Calls : SwitchJoined(c)

\* Nor does one that another request puts back act for anyone else.
OwedJoined ==
    \A w \in owed : w[2].tenant \in Admins => w[2].tenant \in h.joined

\* Requests that are not at work on a session.
LEMMA NoSwitchJoins ==
    ASSUME NEW c \in Calls,
           \/ req'[c] = Idle
           \/ req'[c].at \notin {"role", "ttl", "set"}
    PROVE  SwitchJoined(c)'
BY IdleIs DEF SwitchJoined

\* The other switches know what they knew.
LEMMA OtherSwitchesJoined ==
    ASSUME JoinInv, NEW c \in Calls, Others(c), h.joined \subseteq h'.joined,
           SwitchJoined(c)'
    PROVE  \A d \in Calls : SwitchJoined(d)'
BY DEF JoinInv, SwitchJoined, Others

\* A step that leaves memberships and sessions alone.
LEMMA JoinFrame ==
    ASSUME JoinInv, UNCHANGED <<docs, sess>>, SameJoin,
           NEW c \in Calls, Others(c), SwitchJoined(c)'
    PROVE  JoinInv'
<1>1. SessionsJoined' /\ MembersJoined'
  BY DEF JoinInv, SessionsJoined, MembersJoined, SameJoin
<1>2. \A d \in Calls : SwitchJoined(d)'
  BY OtherSwitchesJoined DEF SameJoin
<1> QED BY <1>1, <1>2 DEF JoinInv

\* A step that leaves the sessions alone and the requests, but perhaps one that
\* is not at work on a session.
LEMMA JoinDocs ==
    ASSUME JoinInv, UNCHANGED sess, h.joined \subseteq h'.joined,
           MembersJoined',
           \/ UNCHANGED req
           \/ \E c \in Calls : Others(c) /\ req'[c] = Idle
    PROVE  JoinInv'
<1>1. SessionsJoined'
  BY DEF JoinInv, SessionsJoined
<1>2. CASE UNCHANGED req
  BY <1>1, <1>2 DEF JoinInv, SwitchJoined
<1>3. ASSUME NEW c \in Calls, Others(c), req'[c] = Idle PROVE JoinInv'
  <2>1. SwitchJoined(c)'
    BY <1>3, NoSwitchJoins
  <2> QED BY <1>1, <1>3, <2>1, OtherSwitchesJoined DEF JoinInv
<1> QED BY <1>2, <1>3

\* A step that leaves the memberships alone and writes sessions that have
\* joined.
LEMMA JoinSessions ==
    ASSUME JoinInv, UNCHANGED docs, SameJoin, SessionsJoined',
           \A c \in Calls : SwitchJoined(c)'
    PROVE  JoinInv'
BY DEF JoinInv, MembersJoined, SameJoin

\* The code starts like that.
LEMMA JoinInvInit ==
    ASSUME Init
    PROVE  JoinInv
<1>1. \A c \in Calls : SwitchJoined(c)
  BY InitIs, IdleIs DEF SwitchJoined
<1>2. "user" \in Keys
  BY DEF Keys
<1>3. CASE StartsEmpty
  BY <1>1, <1>2, <1>3
  DEF StartsEmpty, JoinInv, SessionsJoined, MembersJoined
<1>4. ASSUME NEW a \in Admins, NEW r \in Roles, NEW s \in Sids,
             StartsLegacy(a, r, s)
      PROVE  JoinInv
  <2>1. SessionsJoined
    BY <1>4 DEF StartsLegacy, SessionsJoined
  <2>2. MembersJoined
    BY <1>2, <1>4 DEF StartsLegacy, MembersJoined
  <2> QED BY <1>1, <2>1, <2>2 DEF JoinInv
<1> QED BY <1>3, <1>4, InitIs

\* An invitation made anew is noted.
LEMMA JoinInvite ==
    ASSUME JoinInv, TypeInv, NEW c \in Calls, CreateInvite(c)
    PROVE  JoinInv'
<1> DEFINE a == req[c].admin
           k == req[c].key
<1>1. /\ Others(c) /\ req'[c] = Idle /\ UNCHANGED sess
      /\ a \in Admins /\ k \in Keys
      /\ UNCHANGED <<docs, invites, h>> \/ InvitationMade(a, k)
  BY CreateInviteIs DEF redis
<1> HIDE DEF a, k
<1>2. CASE UNCHANGED <<docs, invites, h>>
  BY <1>1, <1>2, JoinFrame, NoSwitchJoins, SameHistory
<1>3. CASE InvitationMade(a, k)
  <2>1. MembersJoined'
    BY <1>1, <1>3 DEF InvitationMade, JoinInv, MembersJoined, Keys
  <2>2. h.joined \subseteq h'.joined
    BY <1>3 DEF InvitationMade
  <2> QED BY <1>1, <2>1, <2>2, JoinDocs
<1> QED BY <1>1, <1>2, <1>3

\* Whoever accepts has joined.
LEMMA JoinAccept ==
    ASSUME JoinInv, TypeInv, NEW c \in Calls, AcceptWrite(c)
    PROVE  JoinInv'
<1> DEFINE a == req[c].admin
<1>1. /\ Others(c) /\ req'[c] = Idle /\ UNCHANGED sess /\ a \in Admins
      /\ UNCHANGED <<docs, h>> \/ Acceptance(a, req[c].code)
  BY AcceptWriteIs DEF redis
<1> HIDE DEF a
<1>2. CASE UNCHANGED <<docs, h>>
  BY <1>1, <1>2, JoinFrame, NoSwitchJoins, SameHistory
<1>3. CASE Acceptance(a, req[c].code)
  <2>1. PICK k \in Keys : Accepted(a, k, req[c].code)
    BY <1>3 DEF Acceptance
  <2>2. /\ docs'[a]["user"].accepted = TRUE
        /\ \A b \in Admins \ {a} : docs'[b]["user"] = docs[b]["user"]
        /\ h'.joined = h.joined \cup {a} /\ h.again \subseteq h'.again
    BY <2>1 DEF Accepted, Keys
  <2>3. MembersJoined'
    BY <1>1, <2>2 DEF JoinInv, MembersJoined
  <2> QED BY <1>1, <2>2, <2>3, JoinDocs
<1> QED BY <1>1, <1>2, <1>3

\* What happens to a membership later on: it ends, its role or the time that
\* the invitation is valid changes.
LEMMA JoinMembers ==
    ASSUME JoinInv, TypeInv,
           \/ \E c \in Calls : DeleteDoc(c) \/ AttachWrite(c)
           \/ \E a \in Admins, k \in Keys :
                 Resend(a, k) \/ InvitationExpires(a, k)
    PROVE  JoinInv'
<1>1. ASSUME NEW c \in Calls, DeleteDoc(c) PROVE JoinInv'
  <2>1. \A b \in Admins :
            docs'[b]["user"] \in {None, docs[b]["user"]}
    BY <1>1, DeleteDocIs DEF Keys
  <2>2. MembersJoined' /\ h.joined \subseteq h'.joined
    BY <1>1, <2>1, DeleteDocIs DEF JoinInv, MembersJoined, SameJoin
  <2> QED BY <1>1, <2>2, DeleteDocIs, JoinDocs DEF redis
<1>2. ASSUME NEW c \in Calls, AttachWrite(c) PROVE JoinInv'
  <2>1. /\ Others(c) /\ req'[c] = Idle /\ UNCHANGED sess
        /\ req[c].admin \in Admins
    BY <1>2, AttachWriteIs DEF redis
  <2>2. CASE UNCHANGED <<docs, h>>
    BY <2>1, <2>2, JoinFrame, NoSwitchJoins, SameHistory
  <2>3. CASE ~UNCHANGED <<docs, h>>
    <3>1. /\ docs[req[c].admin]["user"] # None
          /\ docs'[req[c].admin]["user"].accepted
               = docs[req[c].admin]["user"].accepted
          /\ \A b \in Admins \ {req[c].admin} :
                 docs'[b]["user"] = docs[b]["user"]
          /\ SameJoin
      BY <1>2, <2>3, AttachWriteIs DEF Keys
    <3>2. MembersJoined' /\ h.joined \subseteq h'.joined
      BY <2>1, <3>1 DEF JoinInv, MembersJoined, SameJoin
    <3> QED BY <2>1, <3>2, JoinDocs
  <2> QED BY <2>2, <2>3
<1>3. ASSUME NEW a \in Admins, NEW k \in Keys,
             Resend(a, k) \/ InvitationExpires(a, k)
      PROVE  JoinInv'
  <2>1. /\ UNCHANGED <<sess, req, h>> /\ docs[a][k] # None
        /\ docs'[a][k].accepted = docs[a][k].accepted
        /\ \A b \in Admins, j \in Keys :
               b # a \/ j # k => docs'[b][j] = docs[b][j]
    BY <1>3, ValidIs DEF redis
  <2>2. MembersJoined'
    BY <2>1 DEF JoinInv, MembersJoined, Keys
  <2> QED BY <2>1, <2>2, JoinDocs
<1> QED BY <1>1, <1>2, <1>3

\* A switch acts on an accepted membership.
LEMMA JoinSwitch ==
    ASSUME JoinInv, TypeInv, NEW c \in Calls,
           \/ \E s \in Sids, a \in Admins \cup {None} : Switch(c, s, a)
           \/ ReadMember(c) \/ ReadRole(c) \/ ReadTtl(c)
    PROVE  JoinInv'
<1>1. RequestsOK /\ StoreOK /\ DocsOK /\ SessOK /\ req[c] \in Ready
  BY DEF TypeInv, StoreOK, RequestsOK
<1>2. ASSUME NEW s \in Sids, NEW a \in Admins \cup {None}, Switch(c, s, a)
      PROVE  JoinInv'
  <2>1. /\ UNCHANGED <<docs, sess>> /\ SameJoin
    BY <1>2, SwitchStarts DEF members, redis
  <2>2. Others(c) /\ SwitchJoined(c)'
    BY <1>1, <1>2, SwitchIs DEF SwitchJoined
  <2> QED BY <2>1, <2>2, JoinFrame
<1>3. CASE ReadMember(c)
  <2>1. UNCHANGED <<docs, sess>> /\ SameJoin
    BY <1>3, SameHistory DEF ReadMember, members, redis
  <2>2. req[c].at = "member" /\ req[c].admin \in Admins
    BY <1>1, <1>3, ReadyReq DEF ReadMember, Fit
  <2>3. Others(c) /\ SwitchJoined(c)'
    <3>1. CASE req'[c] = Idle
      BY <1>1, <1>3, <3>1, ReadMemberIs, NoSwitchJoins
    <3>2. CASE req'[c] # Idle
      BY <1>1, <1>3, <2>1, <2>2, <3>2, ReadMemberIs
      DEF JoinInv, MembersJoined, SwitchJoined, SameJoin
    <3> QED BY <3>1, <3>2
  <2> QED BY <2>1, <2>3, JoinFrame
<1>4. CASE ReadRole(c)
  <2>1. UNCHANGED <<docs, sess>> /\ SameJoin
    BY <1>4, SameHistory DEF ReadRole, members, redis
  <2>2. Others(c) /\ SwitchJoined(c)'
    <3>1. CASE req'[c] = Idle
      BY <1>1, <1>4, <3>1, ReadRoleIs, NoSwitchJoins
    <3>2. CASE req'[c] # Idle
      BY <1>1, <1>4, <2>1, <3>2, ReadRoleIs
      DEF JoinInv, SwitchJoined, SameJoin
    <3> QED BY <3>1, <3>2
  <2> QED BY <2>1, <2>2, JoinFrame
<1>5. CASE ReadTtl(c)
  <2>1. UNCHANGED <<docs, sess>> /\ SameJoin
    BY <1>5, SameHistory DEF ReadTtl, members, redis
  <2>2. Others(c) /\ SwitchJoined(c)'
    BY <1>1, <1>5, <2>1, ReadTtlIs DEF JoinInv, SwitchJoined, SameJoin
  <2> QED BY <2>1, <2>2, JoinFrame
<1> QED BY <1>2, <1>3, <1>4, <1>5

\* So does the session it writes, and one that is put back; logins and logouts
\* only end that.
LEMMA JoinWrites ==
    ASSUME JoinInv, OwedJoined, TypeInv, OwedOK,
           \/ \E c \in Calls : WriteSession(c)
           \/ \E s \in Sids : Login(s) \/ EndSession(s)
           \/ \E w \in owed : PutBack(w)
    PROVE  JoinInv'
<1>1. ASSUME NEW c \in Calls, WriteSession(c) PROVE JoinInv'
  <2> DEFINE s == req[c].sid
             a == req[c].admin
  <2>1. req[c].at = "set" /\ s \in Sids /\ req[c].snap.tenant = a
    <3>1. Fit(req[c])
      BY ReadyReq DEF TypeInv, RequestsOK
    <3> QED BY <1>1, <3>1, WriteSessionIs DEF Fit
  <2>2. a # None => a \in h.joined
    BY <2>1 DEF JoinInv, SwitchJoined
  <2>3. /\ UNCHANGED docs /\ Others(c) /\ SameJoin
        /\ req'[c].at \in {"srem", "sadd"}
        /\ sess'[s] = req[c].snap
        /\ \A t \in Sids \ {s} : sess'[t] = sess[t]
    BY <1>1, WriteSessionIs DEF members
  <2> HIDE DEF s, a
  <2>4. SessionsJoined'
    BY <2>1, <2>2, <2>3, TenantsAssumption
    DEF JoinInv, SessionsJoined, SameJoin
  <2>5. SwitchJoined(c)'
    BY <2>3, NoSwitchJoins
  <2>6. \A d \in Calls : SwitchJoined(d)'
    BY <2>3, <2>5, OtherSwitchesJoined DEF SameJoin
  <2> QED BY <2>3, <2>4, <2>6, JoinSessions
<1>2. ASSUME NEW s \in Sids, Login(s) \/ EndSession(s) PROVE JoinInv'
  <2>1. /\ UNCHANGED <<docs, req>> /\ SameJoin
        /\ sess'[s] = None \/ sess'[s].tenant = None
        /\ \A t \in Sids \ {s} : sess'[t] = sess[t]
    BY <1>2, LoginIs, EndSessionIs DEF members
  <2>2. SessionsJoined'
    BY <2>1, TenantsAssumption DEF JoinInv, SessionsJoined, SameJoin
  <2>3. \A c \in Calls : SwitchJoined(c)'
    BY <2>1 DEF JoinInv, SwitchJoined, SameJoin
  <2> QED BY <2>1, <2>2, <2>3, JoinSessions
<1>3. ASSUME NEW w \in owed, PutBack(w) PROVE JoinInv'
  <2>1. /\ UNCHANGED <<docs, req>> /\ SameJoin
        /\ w[1] \in Sids /\ sess'[w[1]].tenant = w[2].tenant
        /\ \A t \in Sids \ {w[1]} : sess'[t] = sess[t]
    BY <1>3, PutBackIs DEF members
  <2>2. SessionsJoined'
    BY <2>1 DEF JoinInv, SessionsJoined, OwedJoined, SameJoin
  <2>3. \A c \in Calls : SwitchJoined(c)'
    BY <2>1 DEF JoinInv, SwitchJoined, SameJoin
  <2> QED BY <2>1, <2>2, <2>3, JoinSessions
<1> QED BY <1>1, <1>2, <1>3

\* No step lets a stranger in.
LEMMA JoinInvStep ==
    ASSUME JoinInv, OwedJoined, TypeInv, OwedOK, [Next]_vars
    PROVE  JoinInv'
<1>1. ASSUME NEW c \in Calls, Quiet(c) PROVE JoinInv'
  <2>1. UNCHANGED <<docs, sess>> /\ Others(c) /\ SameJoin
    BY <1>1 DEF Quiet, members
  <2>2. SwitchJoined(c)'
    BY <1>1, NoSwitchJoins DEF Quiet, Listing
  <2> QED BY <2>1, <2>2, JoinFrame
<1>2. ASSUME NEW c \in Calls, Asked(c) PROVE JoinInv'
  <2>1. UNCHANGED <<docs, sess>> /\ Others(c) /\ SameJoin
    BY <1>2, SameHistory DEF Asked, members, redis
  <2>2. SwitchJoined(c)'
    BY <1>2, NoSwitchJoins DEF Asked
  <2> QED BY <2>1, <2>2, JoinFrame
<1>3. ASSUME UNCHANGED <<docs, sess, req>>, SameJoin PROVE JoinInv'
  BY <1>3
  DEF SameJoin, JoinInv, SessionsJoined, MembersJoined, SwitchJoined
<1>4. CASE UNCHANGED vars \/ Aside \/ \E a \in Admins : IndexExpires(a)
  BY <1>3, <1>4, StillSteps DEF Still, members
<1>5. ASSUME NEW r \in Roles, EditRole(r) PROVE JoinInv'
  BY <1>3, <1>5, EditRoleIs DEF redis
<1>6. ASSUME NEW c \in Calls, NEW a \in Admins, Delete(c, a) PROVE JoinInv'
  <2>1. CASE docs[a][Key] = None
    BY <1>3, <1>6, <2>1, DeleteNothingIs DEF members, redis
  <2>2. CASE docs[a][Key] # None
    BY <1>2, <1>6, <2>2, AskedSteps
  <2> QED BY <2>1, <2>2
<1>7. ASSUME NEW c \in Calls, NEW a \in Admins,
             \/ \E r \in Roles : Invite(c, a, r) \/ Attach(c, a, r)
             \/ \E k \in Keys : Accept(c, a, k)
      PROVE  JoinInv'
  BY <1>2, <1>7, AskedSteps
<1>8. ASSUME NEW c \in Calls,
             \/ LeaveIndex(c) \/ EnterIndex(c) \/ ExpireIndex(c)
             \/ \E a \in Admins : ReadIndex(c, a)
             \/ ReadSessions(c) \/ RemoveStale(c) \/ CheckBackfilled(c)
             \/ Scan(c) \/ ReadPage(c) \/ Backfill(c) \/ FlagBackfilled(c)
             \/ Die(c)
      PROVE  JoinInv'
  BY <1>1, <1>8, QuietSteps
<1> QED
  BY <1>4, <1>5, <1>6, <1>7, <1>8, JoinInvite, JoinAccept, JoinMembers,
     JoinSwitch, JoinWrites
  DEF Next, Aside

\* No other request gets hold of a stranger's session.
LEMMA OwedJoinedStep ==
    ASSUME JoinInv, OwedJoined, TypeInv, OwedOK, [Next]_vars
    PROVE  OwedJoined'
<1>1. h.joined \subseteq h'.joined
  BY Lasting
<1>2. ASSUME NEW w \in owed', w \notin owed, w[2].tenant \in Admins
      PROVE  w[2].tenant \in h.joined
  <2>1. PICK s \in Sids : sess[s] # None /\ w = <<s, sess[s]>>
    BY <1>2, OwedIs
  <2> QED BY <1>2, <2>1 DEF JoinInv, SessionsJoined
<1> QED BY <1>1, <1>2 DEF OwedJoined

\* What a session acts for, or will when it is put back, has joined.
LEMMA JoinAlways == Spec => [](JoinInv /\ OwedJoined)
<1>1. JoinInv /\ OwedJoined /\ TypeInv /\ OwedOK /\ [Next]_vars
          => JoinInv' /\ OwedJoined'
  BY JoinInvStep, OwedJoinedStep
<1>2. Init => OwedJoined
  BY DEF Init, OwedJoined
<1> QED BY JoinInvInit, <1>1, <1>2, TypeInvariant, PTL DEF Spec

\* Whoever is served as a tenant has accepted an invitation of that admin.
THEOREM TenantsHaveJoined == Spec => []ServedHasJoined
<1>1. JoinInv => ServedHasJoined
  BY DEF JoinInv, SessionsJoined, MembersJoined, ServedHasJoined, Serves
<1> QED BY JoinAlways, <1>1, PTL

-----------------------------------------------------------------------------
(* Whoever was deleted is out.                                             *)

\* Before the first login there is nothing under a user id.
BeforeLogin ==
    ~registered => /\ \A a \in Admins : docs[a]["user"] = None
                   /\ \A s \in Sids : sess[s] = None

\* After it, whatever is under the e-mail address was made for that address
\* when the person had registered, or was there.
AfterLogin ==
    registered => \A a \in Admins : docs[a]["email"] # None => a \in h.late

\* The key that a request looked up is the one in use, but for a registration
\* in between; only those who have a session switch or accept.
KeyFits(c) ==
    /\ req[c].at \in Switching \cup {"accept"} => registered
    /\ req[c].at \in {"create", "delete"} /\ req[c].key = "user" => registered
    /\ req[c].at = "delete" /\ req[c].key = "email" /\ registered
           => req[c].admin \in h.late

OutInv == /\ DeletedMeansOut /\ BeforeLogin /\ AfterLogin
          /\ \A c \in Calls : KeyFits(c)

\* Nor is there a session for another request to put back.
OwedRegistered == owed # {} => registered

\* Requests that look for nothing under a key.
LEMMA OtherKeysFit ==
    ASSUME NEW c \in Calls,
           \/ req'[c] = Idle
           \/ req'[c].at \in Listing \cup {"attach"}
    PROVE  KeyFits(c)'
BY IdleIs DEF KeyFits, Listing, Switching

\* The other requests know what they knew.
LEMMA OthersFit ==
    ASSUME OutInv, UNCHANGED registered, h.late \subseteq h'.late,
           \/ UNCHANGED req
           \/ \E c \in Calls : Others(c) /\ KeyFits(c)'
    PROVE  \A d \in Calls : KeyFits(d)'
<1>1. \A d \in Calls : req'[d] = req[d] => KeyFits(d)'
  BY DEF OutInv, KeyFits
<1>2. CASE UNCHANGED req
  BY <1>1, <1>2
<1>3. CASE \E c \in Calls : Others(c) /\ KeyFits(c)'
  BY <1>1, <1>3 DEF Others
<1> QED BY <1>2, <1>3

\* A step that leaves memberships and sessions alone.
LEMMA OutFrame ==
    ASSUME OutInv, UNCHANGED <<registered, docs, sess>>, SameOut,
           \/ UNCHANGED req
           \/ \E c \in Calls : Others(c) /\ KeyFits(c)'
    PROVE  OutInv'
<1>1. \A d \in Calls : KeyFits(d)'
  BY OthersFit DEF SameOut
<1>2. BeforeLogin' /\ AfterLogin'
  BY DEF OutInv, BeforeLogin, AfterLogin, SameOut
<1>3. DeletedMeansOut'
  BY DEF OutInv, DeletedMeansOut, Docs, SameOut
<1> QED BY <1>1, <1>2, <1>3 DEF OutInv

\* A step that changes one membership that is there, or was allowed to be.
LEMMA OutDocs ==
    ASSUME OutInv, UNCHANGED <<registered, sess>>, NEW a \in Admins,
           h'.out \subseteq Admins,
           \A b \in Admins \ {a}, k \in Keys : docs'[b][k] = docs[b][k],
           h.late \subseteq h'.late, h'.out \ {a} \subseteq h.out,
           a \in h'.out \ h'.late => \A k \in Keys : docs'[a][k] = None,
           docs'[a]["user"] # None => registered,
           docs'[a]["email"] # None /\ registered => a \in h'.late,
           \/ UNCHANGED req
           \/ \E c \in Calls : Others(c) /\ req'[c] = Idle
    PROVE  OutInv'
<1>1. \A d \in Calls : KeyFits(d)'
  BY OthersFit, OtherKeysFit
<1>2. BeforeLogin' /\ AfterLogin'
  BY DEF OutInv, BeforeLogin, AfterLogin, Keys
<1>3. ASSUME NEW b \in Admins, b \in h'.out \ h'.late PROVE Docs(b)' = {}
  <2>1. CASE b = a
    BY <1>3, <2>1 DEF Docs
  <2>2. CASE b # a
    <3>1. \A k \in Keys : docs[b][k] = None
      BY <1>3, <2>2 DEF OutInv, DeletedMeansOut, Docs
    <3> QED BY <2>2, <3>1 DEF Docs
  <2> QED BY <2>1, <2>2
<1>4. DeletedMeansOut'
  BY <1>3 DEF DeletedMeansOut
<1> QED BY <1>1, <1>2, <1>4 DEF OutInv

\* The code starts like that.
LEMMA OutInvInit ==
    ASSUME Init
    PROVE  OutInv
<1>1. \A c \in Calls : KeyFits(c)
  BY InitIs, IdleIs DEF KeyFits, Switching
<1>2. "user" \in Keys /\ "email" \in Keys
  BY DEF Keys
<1>3. DeletedMeansOut
  BY InitIs DEF DeletedMeansOut
<1>4. CASE StartsEmpty
  BY <1>1, <1>2, <1>3, <1>4 DEF StartsEmpty, OutInv, BeforeLogin, AfterLogin
<1>5. ASSUME NEW a \in Admins, NEW r \in Roles, NEW s \in Sids,
             StartsLegacy(a, r, s)
      PROVE  OutInv
  <2>1. BeforeLogin
    BY <1>5 DEF StartsLegacy, BeforeLogin
  <2>2. AfterLogin
    BY <1>2, <1>5 DEF StartsLegacy, AfterLogin
  <2> QED BY <1>1, <1>3, <2>1, <2>2 DEF OutInv
<1> QED BY <1>4, <1>5, InitIs

\* What a membership that is there says.
LEMMA MemberOut ==
    ASSUME OutInv, NEW a \in Admins, NEW k \in Keys, docs[a][k] # None
    PROVE  /\ a \notin h.out \ h.late
           /\ k = "user" => registered
           /\ k = "email" /\ registered => a \in h.late
BY DEF OutInv, DeletedMeansOut, BeforeLogin, AfterLogin, Docs

\* A request looks up a key that fits.
LEMMA OutAsked ==
    ASSUME OutInv, TypeInv, NEW c \in Calls, NEW a \in Admins,
           \/ \E r \in Roles : Invite(c, a, r) \/ Attach(c, a, r)
           \/ \E k \in Keys : Accept(c, a, k)
           \/ Delete(c, a) /\ docs[a][Key] # None
    PROVE  OutInv'
<1>1. RequestsOK /\ DocsOK
  BY DEF TypeInv, StoreOK
<1>2. Asked(c)
  BY AskedSteps
<1>3. UNCHANGED <<registered, docs, sess, h>> /\ Others(c) /\ SameOut
  BY <1>2, SameHistory DEF Asked, members, redis
<1>4. KeyFits(c)'
  <2>1. CASE \E r \in Roles : Invite(c, a, r)
    BY <1>1, <1>3, <2>1, InviteIs DEF KeyFits, Switching, Key
  <2>2. CASE \E r \in Roles : Attach(c, a, r)
    BY <1>1, <2>2, AttachIs, OtherKeysFit
  <2>3. CASE \E k \in Keys : Accept(c, a, k)
    <3>1. req'[c].at = "accept"
      BY <1>1, <2>3, AcceptIs
    <3>2. LoggedIn
      BY <2>3 DEF Accept
    <3>3. registered
      BY <3>2 DEF LoggedIn, OutInv, BeforeLogin
    <3> QED BY <1>3, <3>1, <3>3 DEF KeyFits, Switching
  <2>4. CASE Delete(c, a) /\ docs[a][Key] # None
    BY <1>1, <1>3, <2>4, DeleteIs DEF KeyFits, Switching, Key
  <2> QED BY <2>1, <2>2, <2>3, <2>4
<1> QED BY <1>3, <1>4, OutFrame

\* An invitation lets the person in again; one made for the e-mail address of
\* a registered person is noted.
LEMMA OutInvite ==
    ASSUME OutInv, TypeInv, NEW c \in Calls, CreateInvite(c)
    PROVE  OutInv'
<1> DEFINE a == req[c].admin
           k == req[c].key
<1>1. /\ TypeInv' /\ Others(c) /\ req'[c] = Idle
      /\ UNCHANGED <<registered, sess>>
      /\ req[c].at = "create" /\ a \in Admins /\ k \in Keys
      /\ UNCHANGED <<docs, invites, h>> \/ InvitationMade(a, k)
  BY CreateInviteIs DEF redis
<1>2. k = "user" => registered
  BY <1>1 DEF OutInv, KeyFits
<1> HIDE DEF a, k
<1>3. CASE UNCHANGED <<docs, invites, h>>
  BY <1>1, <1>3, OutFrame, OtherKeysFit, SameHistory
<1>4. CASE InvitationMade(a, k)
  <2>1. /\ \A b \in Admins, j \in Keys :
               b # a \/ j # k => docs'[b][j] = docs[b][j]
        /\ h'.out = h.out \ {a} /\ h.late \subseteq h'.late
        /\ k = "email" /\ registered => a \in h'.late
    BY <1>4 DEF InvitationMade
  <2>2. h'.out \subseteq Admins
    BY <1>1 DEF TypeInv, HistoryOK, History
  <2>3. /\ docs'[a]["user"] # None => registered
        /\ docs'[a]["email"] # None /\ registered => a \in h'.late
    BY <1>1, <1>2, <2>1 DEF OutInv, BeforeLogin, AfterLogin, Keys
  <2> QED BY <1>1, <2>1, <2>2, <2>3, OutDocs
<1> QED BY <1>1, <1>3, <1>4

\* Only a membership that is there is accepted.
LEMMA OutAccept ==
    ASSUME OutInv, TypeInv, NEW c \in Calls, AcceptWrite(c)
    PROVE  OutInv'
<1> DEFINE a == req[c].admin
<1>1. /\ TypeInv' /\ Others(c) /\ req'[c] = Idle
      /\ UNCHANGED <<registered, sess>>
      /\ req[c].at = "accept" /\ a \in Admins
      /\ UNCHANGED <<docs, h>> \/ Acceptance(a, req[c].code)
  BY AcceptWriteIs DEF redis
<1>2. registered
  BY <1>1 DEF OutInv, KeyFits
<1> HIDE DEF a
<1>3. CASE UNCHANGED <<docs, h>>
  BY <1>1, <1>3, OutFrame, OtherKeysFit, SameHistory
<1>4. CASE Acceptance(a, req[c].code)
  <2>1. PICK k \in Keys : Accepted(a, k, req[c].code)
    BY <1>4 DEF Acceptance
  <2>2. /\ docs[a][k] # None
        /\ \A b \in Admins \ {a}, j \in Keys : docs'[b][j] = docs[b][j]
        /\ docs'[a]["email"] \in {None, docs[a]["email"]}
        /\ h'.out = h.out /\ h'.late = h.late
    BY <2>1 DEF Accepted, SameOut
  <2>3. h'.out \subseteq Admins
    BY <1>1 DEF TypeInv, HistoryOK, History
  <2>4. a \notin h'.out \ h'.late
    BY <1>1, <2>2, MemberOut
  <2>5. docs'[a]["email"] # None /\ registered => a \in h'.late
    BY <1>1, <2>2 DEF OutInv, AfterLogin
  <2> QED BY <1>1, <1>2, <2>2, <2>3, <2>4, <2>5, OutDocs
<1> QED BY <1>1, <1>3, <1>4

\* After a deletion nothing is under the other key either, unless it was there
\* when the person registered.
LEMMA OutDelete ==
    ASSUME OutInv, TypeInv, NEW c \in Calls, DeleteDoc(c)
    PROVE  OutInv'
<1> DEFINE a == req[c].admin
           k == req[c].key
<1>1. /\ TypeInv' /\ Others(c) /\ req'[c] = Idle
      /\ UNCHANGED <<registered, sess>>
      /\ req[c].at = "delete" /\ a \in Admins /\ k \in Keys
      /\ docs'[a][k] = None
      /\ \A b \in Admins, j \in Keys :
             b # a \/ j # k => docs'[b][j] = docs[b][j]
      /\ h'.out = h.out \cup {a} /\ h'.late = h.late
  BY DeleteDocIs DEF redis, SameLate
<1>2. /\ k = "user" => registered
      /\ k = "email" /\ registered => a \in h.late
  BY <1>1 DEF OutInv, KeyFits
<1> HIDE DEF a, k
<1>3. /\ ~registered => docs[a]["user"] = None
      /\ registered /\ docs[a]["email"] # None => a \in h.late
  BY <1>1 DEF OutInv, BeforeLogin, AfterLogin
<1>4. k \in {"user", "email"} /\ Keys = {"user", "email"}
  BY <1>1 DEF Keys
<1>5. h'.out \subseteq Admins
  BY <1>1 DEF TypeInv, HistoryOK, History
<1>6. CASE k = "user"
  <2>1. /\ docs'[a]["user"] = None /\ registered
        /\ docs'[a]["email"] = docs[a]["email"]
    BY <1>1, <1>2, <1>4, <1>6
  <2>2. a \in h'.out \ h'.late => \A j \in Keys : docs'[a][j] = None
    BY <1>1, <1>3, <1>4, <2>1
  <2> QED BY <1>1, <1>3, <1>5, <2>1, <2>2, OutDocs
<1>7. CASE k = "email"
  <2>1. /\ docs'[a]["email"] = None
        /\ docs'[a]["user"] = docs[a]["user"]
    BY <1>1, <1>4, <1>7
  <2>2. a \in h'.out \ h'.late => \A j \in Keys : docs'[a][j] = None
    BY <1>1, <1>2, <1>3, <1>4, <1>7, <2>1
  <2> QED BY <1>1, <1>3, <1>5, <2>1, <2>2, OutDocs
<1> QED BY <1>4, <1>6, <1>7

\* A deletion that finds nothing under the key in use is right.
LEMMA OutNothing ==
    ASSUME OutInv, TypeInv, NEW c \in Calls, NEW a \in Admins, Delete(c, a),
           docs[a][Key] = None
    PROVE  OutInv'
<1>1. /\ TypeInv' /\ UNCHANGED <<registered, docs, sess, req>>
      /\ h'.out = h.out \cup {a} /\ h'.late = h.late
  BY DeleteNothingIs DEF members, redis, SameLate
<1>2. /\ ~registered => docs[a]["user"] = None
      /\ registered /\ docs[a]["email"] # None => a \in h.late
      /\ docs[a]["user"] # None => registered
  BY DEF OutInv, BeforeLogin, AfterLogin
<1>3. h'.out \subseteq Admins
  BY <1>1 DEF TypeInv, HistoryOK, History
<1>4. a \in h'.out \ h'.late => \A j \in Keys : docs'[a][j] = None
  BY <1>1, <1>2 DEF Key, Keys
<1> QED BY <1>1, <1>2, <1>3, <1>4, OutDocs

\* What happens to a membership that is there makes no other.
LEMMA OutMembers ==
    ASSUME OutInv, TypeInv,
           \/ \E c \in Calls : AttachWrite(c)
           \/ \E a \in Admins, k \in Keys :
                 Resend(a, k) \/ InvitationExpires(a, k)
    PROVE  OutInv'
<1>1. ASSUME UNCHANGED <<registered, sess>>, SameOut, TypeInv',
             NEW a \in Admins, NEW k \in Keys, docs[a][k] # None,
             \A b \in Admins, j \in Keys :
                 b # a \/ j # k => docs'[b][j] = docs[b][j],
             \/ UNCHANGED req
             \/ \E c \in Calls : Others(c) /\ req'[c] = Idle
      PROVE  OutInv'
  <2>1. /\ a \notin h.out \ h.late
        /\ docs[a]["user"] # None => registered
        /\ docs[a]["email"] # None /\ registered => a \in h.late
        /\ k = "user" => registered
        /\ k = "email" /\ registered => a \in h.late
    BY <1>1, MemberOut DEF Keys
  <2>2. h'.out \subseteq Admins
    BY <1>1 DEF TypeInv, HistoryOK, History
  <2>3. /\ docs'[a]["user"] # None => registered
        /\ docs'[a]["email"] # None /\ registered => a \in h.late
    BY <1>1, <2>1 DEF Keys
  <2> QED BY <1>1, <2>1, <2>2, <2>3, OutDocs DEF SameOut
<1>2. ASSUME NEW c \in Calls, AttachWrite(c) PROVE OutInv'
  <2>1. /\ TypeInv' /\ Others(c) /\ req'[c] = Idle
        /\ UNCHANGED <<registered, sess>> /\ req[c].admin \in Admins
    BY <1>2, AttachWriteIs DEF redis
  <2>2. CASE UNCHANGED <<docs, h>>
    BY <2>1, <2>2, OutFrame, OtherKeysFit, SameHistory
  <2>3. CASE ~UNCHANGED <<docs, h>>
    <3>1. /\ docs[req[c].admin]["user"] # None /\ SameOut
          /\ \A b \in Admins, j \in Keys :
                b # req[c].admin \/ j # "user" => docs'[b][j] = docs[b][j]
      BY <1>2, <2>3, AttachWriteIs
    <3>2. "user" \in Keys
      BY DEF Keys
    <3> QED BY <1>1, <2>1, <3>1, <3>2
  <2> QED BY <2>2, <2>3
<1>3. ASSUME NEW a \in Admins, NEW k \in Keys,
             Resend(a, k) \/ InvitationExpires(a, k)
      PROVE  OutInv'
  <2>1. /\ TypeInv' /\ UNCHANGED <<registered, sess, req>> /\ SameOut
        /\ docs[a][k] # None
        /\ \A b \in Admins, j \in Keys :
               b # a \/ j # k => docs'[b][j] = docs[b][j]
    BY <1>3, ValidIs, SameHistory DEF redis
  <2> QED BY <1>1, <2>1
<1> QED BY <1>2, <1>3

\* Only those who are registered switch.
LEMMA OutSwitch ==
    ASSUME OutInv, TypeInv, NEW c \in Calls,
           \/ \E s \in Sids, a \in Admins \cup {None} : Switch(c, s, a)
           \/ ReadMember(c) \/ ReadRole(c) \/ ReadTtl(c)
    PROVE  OutInv'
<1>1. RequestsOK /\ StoreOK /\ DocsOK /\ SessOK
  BY DEF TypeInv, StoreOK
<1>2. ASSUME NEW s \in Sids, NEW a \in Admins \cup {None}, Switch(c, s, a)
      PROVE  OutInv'
  <2>1. UNCHANGED <<registered, docs, sess>> /\ SameOut /\ sess[s] # None
    BY <1>2, SwitchStarts DEF members, redis
  <2>2. registered'
    BY <2>1 DEF OutInv, BeforeLogin
  <2>3. Others(c) /\ req'[c].at \in {"ttl", "member"}
    BY <1>1, <1>2, SwitchIs
  <2>4. KeyFits(c)'
    BY <2>2, <2>3 DEF KeyFits
  <2> QED BY <2>1, <2>3, <2>4, OutFrame
<1>3. ASSUME ReadMember(c) \/ ReadRole(c) \/ ReadTtl(c) PROVE OutInv'
  <2>1. UNCHANGED <<registered, docs, sess>> /\ SameOut
    BY <1>3, SameHistory DEF ReadMember, ReadRole, ReadTtl, members, redis
  <2>2. req[c].at \in {"member", "role", "ttl"}
    BY <1>3 DEF ReadMember, ReadRole, ReadTtl
  <2>3. registered'
    BY <2>1, <2>2 DEF OutInv, KeyFits, Switching
  <2>4. /\ Others(c)
        /\ req'[c] = Idle \/ req'[c].at \in {"role", "ttl", "set"}
    BY <1>1, <1>3, ReadMemberIs, ReadRoleIs, ReadTtlIs
  <2>5. KeyFits(c)'
    BY <2>3, <2>4, OtherKeysFit DEF KeyFits
  <2> QED BY <2>1, <2>4, <2>5, OutFrame
<1> QED BY <1>2, <1>3

\* Only those who are registered have sessions; registering, the admins that
\* have something under the e-mail address are noted.
LEMMA OutSessions ==
    ASSUME OutInv, OwedRegistered, TypeInv, OwedOK,
           \/ \E c \in Calls : WriteSession(c)
           \/ \E s \in Sids : Login(s) \/ EndSession(s)
           \/ \E w \in owed : PutBack(w)
    PROVE  OutInv'
<1>1. ASSUME UNCHANGED <<registered, docs>>, SameOut,
             registered \/ \A s \in Sids : sess'[s] = None,
             \A d \in Calls : KeyFits(d)'
      PROVE  OutInv'
  <2>1. BeforeLogin' /\ AfterLogin'
    BY <1>1 DEF OutInv, BeforeLogin, AfterLogin, SameOut
  <2>2. DeletedMeansOut'
    BY <1>1 DEF OutInv, DeletedMeansOut, Docs, SameOut
  <2> QED BY <1>1, <2>1, <2>2 DEF OutInv
<1>2. ASSUME NEW c \in Calls, WriteSession(c) PROVE OutInv'
  <2>1. /\ UNCHANGED <<registered, docs>> /\ SameOut /\ Others(c)
        /\ req[c].at = "set" /\ req'[c].at \in {"srem", "sadd"}
    BY <1>2, WriteSessionIs DEF members
  <2>2. registered'
    BY <2>1 DEF OutInv, KeyFits, Switching
  <2>3. KeyFits(c)'
    BY <2>1, <2>2 DEF KeyFits
  <2>4. \A d \in Calls : KeyFits(d)'
    BY <2>1, <2>3, OthersFit DEF SameOut
  <2> QED BY <1>1, <2>1, <2>2, <2>4
<1>3. ASSUME NEW s \in Sids, EndSession(s) PROVE OutInv'
  <2>1. /\ UNCHANGED <<registered, docs, req>> /\ SameOut
        /\ sess'[s] = None /\ \A t \in Sids \ {s} : sess'[t] = sess[t]
    BY <1>3, EndSessionIs DEF members
  <2>2. \A d \in Calls : KeyFits(d)'
    BY <2>1, OthersFit DEF SameOut
  <2>3. registered \/ \A t \in Sids : sess'[t] = None
    BY <2>1 DEF OutInv, BeforeLogin
  <2> QED BY <1>1, <2>1, <2>2, <2>3
<1>4. ASSUME NEW s \in Sids, Login(s) PROVE OutInv'
  <2>1. /\ UNCHANGED <<docs, req>> /\ registered' = TRUE /\ h'.out = h.out
        /\ registered => h'.late = h.late
        /\ ~registered => h'.late = h.late \cup {a \in Admins :
               \/ Docs(a) # {}
               \/ \E c \in Calls : req[c].at = "delete" /\ req[c].admin = a}
    BY <1>4, LoginIs DEF SameLate
  <2>2. h.late \subseteq h'.late
    BY <2>1
  <2>3. DeletedMeansOut'
    BY <2>1, <2>2 DEF OutInv, DeletedMeansOut, Docs
  <2>4. BeforeLogin'
    BY <2>1 DEF BeforeLogin
  <2>5. AfterLogin'
    BY <2>1, <2>2 DEF OutInv, AfterLogin, Docs, Keys
  <2>6. \A d \in Calls : KeyFits(d)'
    <3> SUFFICES ASSUME NEW d \in Calls PROVE KeyFits(d)'
      OBVIOUS
    <3>1. req[d].at = "delete" => req[d].admin \in Admins
      BY ReadyReq DEF TypeInv, RequestsOK, Fit
    <3>2. req[d].at = "delete" /\ req[d].key = "email"
             => req[d].admin \in h'.late
      BY <2>1, <2>2, <3>1 DEF OutInv, KeyFits
    <3> QED BY <2>1, <3>2 DEF KeyFits
  <2> QED BY <2>3, <2>4, <2>5, <2>6 DEF OutInv
<1>5. ASSUME NEW w \in owed, PutBack(w) PROVE OutInv'
  <2>1. UNCHANGED <<registered, docs, req>> /\ SameOut
    BY <1>5, PutBackIs DEF members
  <2>2. \A d \in Calls : KeyFits(d)'
    BY <2>1, OthersFit DEF SameOut
  <2> QED BY <1>1, <2>1, <2>2 DEF OwedRegistered
<1> QED BY <1>2, <1>3, <1>4, <1>5

\* No step leaves a membership behind.
LEMMA OutInvStep ==
    ASSUME OutInv, OwedRegistered, TypeInv, OwedOK, [Next]_vars
    PROVE  OutInv'
<1>1. ASSUME NEW c \in Calls, Quiet(c) PROVE OutInv'
  <2>1. UNCHANGED <<registered, docs, sess>> /\ Others(c) /\ SameOut
    BY <1>1 DEF Quiet, members
  <2>2. KeyFits(c)'
    <3>1. CASE req'[c] = Idle \/ req'[c].at \in Listing
      BY <3>1, OtherKeysFit
    <3>2. CASE req'[c].at \in {"sadd", "expire"}
               /\ req[c].at \in {"srem", "sadd"}
      <4>1. registered'
        BY <2>1, <3>2 DEF OutInv, KeyFits, Switching
      <4> QED BY <3>2, <4>1 DEF KeyFits
    <3> QED BY <1>1, <3>1, <3>2 DEF Quiet
  <2> QED BY <2>1, <2>2, OutFrame
<1>2. CASE UNCHANGED vars \/ Aside \/ \E a \in Admins : IndexExpires(a)
  BY <1>2, StillSteps, OutFrame DEF Still, members
<1>3. ASSUME NEW r \in Roles, EditRole(r) PROVE OutInv'
  BY <1>3, EditRoleIs, OutFrame DEF redis
<1>4. ASSUME NEW c \in Calls, NEW a \in Admins, Delete(c, a) PROVE OutInv'
  BY <1>4, OutNothing, OutAsked
<1>5. ASSUME NEW c \in Calls, NEW a \in Admins,
             \/ \E r \in Roles : Invite(c, a, r) \/ Attach(c, a, r)
             \/ \E k \in Keys : Accept(c, a, k)
      PROVE  OutInv'
  BY <1>5, OutAsked
<1>6. ASSUME NEW c \in Calls,
             \/ LeaveIndex(c) \/ EnterIndex(c) \/ ExpireIndex(c)
             \/ \E a \in Admins : ReadIndex(c, a)
             \/ ReadSessions(c) \/ RemoveStale(c) \/ CheckBackfilled(c)
             \/ Scan(c) \/ ReadPage(c) \/ Backfill(c) \/ FlagBackfilled(c)
             \/ Die(c)
      PROVE  OutInv'
  BY <1>1, <1>6, QuietSteps
<1> QED
  BY <1>2, <1>3, <1>4, <1>5, <1>6, OutInvite, OutAccept, OutDelete,
     OutMembers, OutSwitch, OutSessions
  DEF Next, Aside

\* Only a session that is there is read.
LEMMA OwedRegisteredStep ==
    ASSUME OutInv, OwedRegistered, TypeInv, OwedOK, [Next]_vars
    PROVE  OwedRegistered'
<1>1. registered => registered'
  BY Lasting
<1>2. CASE owed' \subseteq owed
  BY <1>1, <1>2 DEF OwedRegistered
<1>3. ASSUME NEW w \in owed', w \notin owed PROVE registered
  BY <1>3, OwedIs DEF OutInv, BeforeLogin
<1> QED BY <1>1, <1>2, <1>3 DEF OwedRegistered

\* An admin who was told that the person is out has no membership of that
\* person left, unless one made for the e-mail address was there when the
\* person registered.
THEOREM DeletedAreOut == Spec => []DeletedMeansOut
<1>1. OutInv /\ OwedRegistered /\ TypeInv /\ OwedOK /\ [Next]_vars
          => OutInv' /\ OwedRegistered'
  BY OutInvStep, OwedRegisteredStep
<1>2. OutInv => DeletedMeansOut
  BY DEF OutInv
<1>3. Init => OwedRegistered
  BY DEF Init, OwedRegistered
<1> QED BY OutInvInit, <1>1, <1>2, <1>3, TypeInvariant, PTL DEF Spec

-----------------------------------------------------------------------------
(* Sessions have a time to live.                                           *)

\* A session that a switch is at work on is still there, unless it ended: that
\* is a race.  The time to live it had is the one it is written with.
SwitchLives(c) ==
    req[c].at \in Switching /\ req[c].sid \notin h.raced =>
        /\ sess[req[c].sid] # None
        /\ req[c].at = "set" => req[c].snap.ttl

ExpireInv == SessionsExpire /\ \A c \in Calls : SwitchLives(c)

\* Requests that are not at work on a session.
LEMMA NoSwitchLives ==
    ASSUME NEW c \in Calls,
           \/ req'[c] = Idle
           \/ req'[c].at \notin Switching
    PROVE  SwitchLives(c)'
BY IdleIs DEF SwitchLives, Switching

\* A step that leaves the sessions alone.
LEMMA ExpireFrame ==
    ASSUME ExpireInv, UNCHANGED sess, h.raced \subseteq h'.raced,
           \/ UNCHANGED req
           \/ \E c \in Calls : Others(c) /\ SwitchLives(c)'
    PROVE  ExpireInv'
<1>1. SessionsExpire'
  BY DEF ExpireInv, SessionsExpire
<1>2. \A d \in Calls : req'[d] = req[d] => SwitchLives(d)'
  BY DEF ExpireInv, SwitchLives
<1>3. CASE UNCHANGED req
  BY <1>1, <1>2, <1>3 DEF ExpireInv
<1>4. CASE \E c \in Calls : Others(c) /\ SwitchLives(c)'
  BY <1>1, <1>2, <1>4 DEF ExpireInv, Others
<1> QED BY <1>3, <1>4

\* The code starts like that.
LEMMA ExpireInvInit ==
    ASSUME Init
    PROVE  ExpireInv
<1>1. \A c \in Calls : SwitchLives(c)
  BY InitIs, IdleIs DEF SwitchLives, Switching
<1>2. SessionsExpire
  BY InitIs DEF StartsEmpty, StartsLegacy, SessionsExpire
<1> QED BY <1>1, <1>2 DEF ExpireInv

\* A switch of a session that did not end keeps its time to live.
LEMMA ExpireSwitch ==
    ASSUME ExpireInv, TypeInv, NEW c \in Calls,
           \/ \E s \in Sids, a \in Admins \cup {None} : Switch(c, s, a)
           \/ ReadMember(c) \/ ReadRole(c) \/ ReadTtl(c)
    PROVE  ExpireInv'
<1>1. /\ RequestsOK /\ StoreOK /\ DocsOK /\ SessOK
      /\ req[c].at \in Switching => req[c].sid \in Sids
  BY ReadyReq DEF TypeInv, StoreOK, RequestsOK, Fit
<1>2. ASSUME NEW s \in Sids, NEW a \in Admins \cup {None}, Switch(c, s, a)
      PROVE  ExpireInv'
  <2>1. UNCHANGED sess /\ h.raced \subseteq h'.raced /\ sess[s] # None
    BY <1>2, SwitchStarts DEF redis
  <2>2. Others(c) /\ req'[c].at \in {"ttl", "member"} /\ req'[c].sid = s
    BY <1>1, <1>2, SwitchIs
  <2>3. SwitchLives(c)'
    BY <2>1, <2>2 DEF SwitchLives
  <2> QED BY <2>1, <2>2, <2>3, ExpireFrame
<1>3. CASE ReadMember(c) \/ ReadRole(c)
  <2>1. UNCHANGED <<sess, h>>
    BY <1>3 DEF ReadMember, ReadRole, redis
  <2>2. req[c].at \in {"member", "role"} /\ Others(c)
    BY <1>1, <1>3, ReadMemberIs, ReadRoleIs
  <2>3. \/ req'[c] = Idle
        \/ req'[c].at \in {"role", "ttl"} /\ req'[c].sid = req[c].sid
    BY <1>1, <1>3, ReadMemberIs, ReadRoleIs
  <2>4. SwitchLives(c)'
    <3>1. CASE req'[c] = Idle
      BY <3>1, NoSwitchLives
    <3>2. CASE req'[c].at \in {"role", "ttl"} /\ req'[c].sid = req[c].sid
      BY <2>1, <2>2, <3>2 DEF ExpireInv, SwitchLives, Switching
    <3> QED BY <2>3, <3>1, <3>2
  <2> QED BY <2>1, <2>2, <2>4, ExpireFrame
<1>4. CASE ReadTtl(c)
  <2>1. UNCHANGED <<sess, h>>
    BY <1>4 DEF ReadTtl, redis
  <2> DEFINE s == req[c].sid
  <2>2. /\ req[c].at = "ttl" /\ Others(c)
        /\ req'[c].at = "set" /\ req'[c].sid = s
        /\ req'[c].snap.ttl = (sess[s] # None /\ sess[s].ttl)
    BY <1>1, <1>4, ReadTtlIs
  <2>3. s \notin h.raced => sess[s] # None /\ sess[s].ttl /\ s \in Sids
    BY <1>1, <2>2 DEF ExpireInv, SwitchLives, SessionsExpire, Switching
  <2>4. SwitchLives(c)'
    BY <2>1, <2>2, <2>3 DEF SwitchLives
  <2> QED BY <2>1, <2>2, <2>4, ExpireFrame
<1> QED BY <1>2, <1>3, <1>4

\* So does the session it writes; a session that ends is gone, and raced if a
\* switch is at work on it; one that is put back gets a time to live.
LEMMA ExpireWrites ==
    ASSUME ExpireInv, TypeInv, OwedOK,
           \/ \E c \in Calls : WriteSession(c)
           \/ \E s \in Sids : Login(s) \/ EndSession(s)
           \/ \E w \in owed : PutBack(w)
    PROVE  ExpireInv'
<1>0. \A d \in Calls : req[d].at \in Switching => req[d].sid \in Sids
  BY ReadyReq DEF TypeInv, RequestsOK, Fit
<1>1. ASSUME NEW c \in Calls, WriteSession(c) PROVE ExpireInv'
  <2> DEFINE s == req[c].sid
             x == req[c].snap
  <2>1. /\ Others(c) /\ req[c].at = "set" /\ s \in Sids
        /\ sess'[s] = x /\ \A t \in Sids \ {s} : sess'[t] = sess[t]
        /\ req'[c].at \in {"srem", "sadd"} /\ req'[c].sid = s
        /\ h'.raced = h.raced
    BY <1>1, WriteSessionIs
  <2>2. x # None
    <3>1. Fit(req[c])
      BY ReadyReq DEF TypeInv, RequestsOK
    <3> QED BY <2>1, <3>1, NoneAssumption DEF Fit, Switching
  <2>3. s \notin h.raced => x.ttl
    BY <2>1 DEF ExpireInv, SwitchLives, Switching
  <2> HIDE DEF s, x
  <2>4. SessionsExpire'
    BY <2>1, <2>2, <2>3 DEF ExpireInv, SessionsExpire
  <2>5. SwitchLives(c)'
    BY <2>1, <2>2 DEF SwitchLives
  <2>6. ASSUME NEW d \in Calls, d # c PROVE SwitchLives(d)'
    <3>1. req'[d] = req[d]
      BY <2>1, <2>6 DEF Others
    <3> QED BY <1>0, <2>1, <2>2, <3>1 DEF ExpireInv, SwitchLives
  <2> QED BY <2>4, <2>5, <2>6 DEF ExpireInv
<1>2. ASSUME NEW s \in Sids, Login(s) PROVE ExpireInv'
  <2>1. /\ UNCHANGED req /\ h'.raced = h.raced
        /\ sess[s] = None /\ sess'[s].ttl = TRUE
        /\ \A t \in Sids \ {s} : sess'[t] = sess[t]
    BY <1>2, LoginIs DEF SameRace
  <2>2. SessionsExpire'
    BY <2>1 DEF ExpireInv, SessionsExpire
  <2>3. \A d \in Calls : SwitchLives(d)'
    BY <1>0, <2>1 DEF ExpireInv, SwitchLives
  <2> QED BY <2>2, <2>3 DEF ExpireInv
<1>3. ASSUME NEW s \in Sids, EndSession(s) PROVE ExpireInv'
  <2>1. /\ UNCHANGED req /\ h.raced \subseteq h'.raced
        /\ sess'[s] = None
        /\ \A t \in Sids \ {s} : sess'[t] = sess[t]
        /\ (\E c \in Calls : req[c].sid = s) => s \in h'.raced
    BY <1>3, EndSessionIs
  <2>2. SessionsExpire'
    BY <2>1 DEF ExpireInv, SessionsExpire
  <2>3. \A d \in Calls : SwitchLives(d)'
    BY <1>0, <2>1 DEF ExpireInv, SwitchLives
  <2> QED BY <2>2, <2>3 DEF ExpireInv
<1>4. ASSUME NEW w \in owed, PutBack(w) PROVE ExpireInv'
  <2> DEFINE s == w[1]
  <2>1. /\ UNCHANGED req /\ h.raced \subseteq h'.raced
        /\ sess'[s] # None /\ sess'[s].ttl = TRUE
        /\ \A t \in Sids \ {s} : sess'[t] = sess[t]
    BY <1>4, PutBackIs
  <2> HIDE DEF s
  <2>2. SessionsExpire'
    BY <2>1 DEF ExpireInv, SessionsExpire
  <2>3. \A d \in Calls : SwitchLives(d)'
    BY <1>0, <2>1 DEF ExpireInv, SwitchLives
  <2> QED BY <2>2, <2>3 DEF ExpireInv
<1> QED BY <1>1, <1>2, <1>3, <1>4

\* What neither switches nor writes a session.
LEMMA ExpireOther ==
    ASSUME ExpireInv, UNCHANGED sess, h.raced \subseteq h'.raced,
           \/ UNCHANGED req
           \/ \E c \in Calls :
                 /\ Others(c)
                 /\ req'[c] = Idle \/ req'[c].at \notin Switching
    PROVE  ExpireInv'
BY NoSwitchLives, ExpireFrame

\* No step makes a session last for ever.
LEMMA ExpireInvStep ==
    ASSUME ExpireInv, TypeInv, OwedOK, [Next]_vars
    PROVE  ExpireInv'
<1>1. ASSUME NEW c \in Calls, Quiet(c) PROVE ExpireInv'
  <2>1. UNCHANGED sess /\ Others(c) /\ h.raced \subseteq h'.raced
    BY <1>1 DEF Quiet
  <2>2. SwitchLives(c)'
    <3>1. CASE req'[c] = Idle \/ req'[c].at \in Listing
      BY <3>1, NoSwitchLives DEF Listing, Switching
    <3>2. CASE /\ req'[c].at \in {"sadd", "expire"} /\ req'[c].sid = req[c].sid
               /\ req[c].at \in {"srem", "sadd"}
      BY <2>1, <3>2 DEF ExpireInv, SwitchLives, Switching
    <3> QED BY <1>1, <3>1, <3>2 DEF Quiet
  <2> QED BY <2>1, <2>2, ExpireFrame
<1>2. ASSUME NEW c \in Calls, Asked(c) PROVE ExpireInv'
  <2>1. UNCHANGED <<sess, h>> /\ Others(c) /\ req'[c].at \notin Switching
    BY <1>2 DEF Asked, redis, Switching
  <2> QED BY <2>1, ExpireOther
<1>3. CASE UNCHANGED vars \/ Aside \/ \E a \in Admins : IndexExpires(a)
  BY <1>3, StillSteps, ExpireFrame DEF Still, SameRace
<1>4. ASSUME NEW r \in Roles, EditRole(r) PROVE ExpireInv'
  BY <1>4, EditRoleIs, ExpireFrame DEF redis
<1>5. ASSUME NEW c \in Calls, NEW a \in Admins, Delete(c, a) PROVE ExpireInv'
  <2>1. CASE docs[a][Key] = None
    BY <1>5, <2>1, DeleteNothingIs, ExpireFrame DEF redis, SameRace
  <2>2. CASE docs[a][Key] # None
    BY <1>2, <1>5, <2>2, AskedSteps
  <2> QED BY <2>1, <2>2
<1>6. ASSUME NEW c \in Calls, NEW a \in Admins,
             \/ \E r \in Roles : Invite(c, a, r) \/ Attach(c, a, r)
             \/ \E k \in Keys : Accept(c, a, k)
      PROVE  ExpireInv'
  BY <1>2, <1>6, AskedSteps
<1>7. ASSUME NEW c \in Calls,
             \/ LeaveIndex(c) \/ EnterIndex(c) \/ ExpireIndex(c)
             \/ \E a \in Admins : ReadIndex(c, a)
             \/ ReadSessions(c) \/ RemoveStale(c) \/ CheckBackfilled(c)
             \/ Scan(c) \/ ReadPage(c) \/ Backfill(c) \/ FlagBackfilled(c)
             \/ Die(c)
      PROVE  ExpireInv'
  BY <1>1, <1>7, QuietSteps
<1>8. ASSUME NEW c \in Calls,
             \/ CreateInvite(c) \/ AcceptWrite(c) \/ DeleteDoc(c)
             \/ AttachWrite(c)
      PROVE  ExpireInv'
  <2>1. UNCHANGED sess /\ Others(c) /\ req'[c] = Idle
    BY <1>8, CreateInviteIs, AcceptWriteIs, DeleteDocIs, AttachWriteIs
    DEF redis
  <2>2. h'.raced = h.raced
    <3>1. CASE CreateInvite(c)
      BY <3>1, CreateInviteIs DEF InvitationMade, SameRace
    <3>2. CASE AcceptWrite(c)
      BY <3>2, AcceptWriteIs DEF Acceptance, Accepted, SameRace
    <3>3. CASE DeleteDoc(c) \/ AttachWrite(c)
      BY <3>3, DeleteDocIs, AttachWriteIs DEF SameRace
    <3> QED BY <1>8, <3>1, <3>2, <3>3
  <2> QED BY <2>1, <2>2, ExpireOther
<1>9. ASSUME NEW a \in Admins, NEW k \in Keys,
             Resend(a, k) \/ InvitationExpires(a, k)
      PROVE  ExpireInv'
  BY <1>9, ValidIs, ExpireFrame DEF redis
<1> QED
  BY <1>3, <1>4, <1>5, <1>6, <1>7, <1>8, <1>9, ExpireSwitch, ExpireWrites
  DEF Next, Aside

\* A session has a time to live, unless it ended, was put back, or another
\* request had it, while a switch was at work on it.
THEOREM SessionsDoExpire == Spec => []SessionsExpire
<1>1. ExpireInv /\ TypeInv /\ OwedOK /\ [Next]_vars => ExpireInv'
  BY ExpireInvStep
<1>2. ExpireInv => SessionsExpire
  BY DEF ExpireInv
<1> QED BY ExpireInvInit, <1>1, <1>2, TypeInvariant, PTL DEF Spec

-----------------------------------------------------------------------------
(* Permissions follow the role.                                            *)

\* The codes that were given out.
CodesGiven ==
    \A a \in Admins, k \in Keys :
        docs[a][k] # None => docs[a][k].code <= invites

\* What is under the e-mail address is an invitation, and another one than what
\* is under the user id.
EmailDocs ==
    \A a \in Admins : docs[a]["email"] # None =>
        /\ ~docs[a]["email"].accepted
        /\ docs[a]["user"] # None =>
               docs[a]["email"].code # docs[a]["user"].code

CodesInv == CodesGiven /\ EmailDocs

\* A step that keeps what the documents say of codes and acceptance, those that
\* are left.
LEMMA CodesFrame ==
    ASSUME CodesInv, UNCHANGED invites,
           \A a \in Admins, k \in Keys : docs'[a][k] # None =>
               /\ docs[a][k] # None
               /\ docs'[a][k].code = docs[a][k].code
               /\ docs'[a][k].accepted = docs[a][k].accepted
    PROVE  CodesInv'
<1>1. CodesGiven'
  BY DEF CodesInv, CodesGiven
<1>2. EmailDocs'
  BY DEF CodesInv, EmailDocs, Keys
<1> QED BY <1>1, <1>2 DEF CodesInv

\* The code starts like that.
LEMMA CodesInvInit ==
    ASSUME Init
    PROVE  CodesInv
<1>1. CodesGiven
  <2>1. CASE StartsEmpty
    BY <2>1 DEF StartsEmpty, CodesGiven
  <2>2. ASSUME NEW a \in Admins, NEW r \in Roles, NEW s \in Sids,
               StartsLegacy(a, r, s)
        PROVE  CodesGiven
    <3>1. /\ docs[a]["user"].code = 1 /\ invites = 1 /\ 1 <= 1
          /\ \A b \in Admins, k \in Keys :
                 b # a \/ k # "user" => docs[b][k] = None
      BY <2>2 DEF StartsLegacy
    <3> QED BY <3>1 DEF CodesGiven
  <2> QED BY <2>1, <2>2, InitIs
<1>2. EmailDocs
  <2>1. "email" \in Keys /\ "email" # "user"
    BY DEF Keys
  <2> QED BY <2>1, InitIs DEF StartsEmpty, StartsLegacy, EmailDocs
<1> QED BY <1>1, <1>2 DEF CodesInv

\* A new invitation has a code of its own.
LEMMA CodesInvite ==
    ASSUME CodesInv, TypeInv, NEW c \in Calls, CreateInvite(c)
    PROVE  CodesInv'
<1> DEFINE a == req[c].admin
           k == req[c].key
<1>1. /\ a \in Admins /\ k \in Keys
      /\ UNCHANGED <<docs, invites, h>> \/ InvitationMade(a, k)
  BY CreateInviteIs
<1> HIDE DEF a, k
<1>2. CASE UNCHANGED <<docs, invites, h>>
  BY <1>2, CodesFrame
<1>3. CASE InvitationMade(a, k)
  <2>1. /\ docs'[a][k].accepted = FALSE /\ docs'[a][k].code = invites + 1
        /\ invites' = invites + 1
        /\ \A b \in Admins, j \in Keys :
               b # a \/ j # k => docs'[b][j] = docs[b][j]
    BY <1>3 DEF InvitationMade
  <2>2. /\ invites \in Int
        /\ \A b \in Admins, j \in Keys :
               docs[b][j] # None => docs[b][j].code \in Int
    BY DocIs DEF TypeInv, StoreOK
  <2>3. CodesGiven'
    BY <1>1, <2>1, <2>2 DEF CodesInv, CodesGiven
  <2>4. ASSUME NEW b \in Admins, docs'[b]["email"] # None
        PROVE  ~docs'[b]["email"].accepted
    BY <1>1, <2>1, <2>4 DEF CodesInv, EmailDocs, Keys
  <2>5. ASSUME NEW b \in Admins, docs'[b]["email"] # None,
               docs'[b]["user"] # None
        PROVE  docs'[b]["email"].code # docs'[b]["user"].code
    BY <1>1, <2>1, <2>2, <2>5 DEF CodesInv, CodesGiven, EmailDocs, Keys
  <2>6. EmailDocs'
    BY <2>4, <2>5 DEF EmailDocs
  <2> QED BY <2>3, <2>6 DEF CodesInv
<1> QED BY <1>1, <1>2, <1>3

\* An accepted one moves with its code.
LEMMA CodesAccept ==
    ASSUME CodesInv, TypeInv, NEW c \in Calls, AcceptWrite(c)
    PROVE  CodesInv'
<1> DEFINE a == req[c].admin
<1>1. /\ UNCHANGED invites /\ a \in Admins
      /\ UNCHANGED <<docs, h>> \/ Acceptance(a, req[c].code)
  BY AcceptWriteIs
<1> HIDE DEF a
<1>2. CASE UNCHANGED <<docs, h>>
  BY <1>1, <1>2, CodesFrame
<1>3. CASE Acceptance(a, req[c].code)
  <2>1. PICK k \in Keys : Accepted(a, k, req[c].code)
    BY <1>3 DEF Acceptance
  <2>2. /\ docs[a][k] # None /\ docs[a][k].code = docs'[a]["user"].code
        /\ docs'[a]["email"] = IF k = "email" THEN None ELSE docs[a]["email"]
        /\ \A b \in Admins \ {a}, j \in Keys : docs'[b][j] = docs[b][j]
    BY <2>1 DEF Accepted
  <2>3. k = "user" \/ k = "email"
    BY DEF Keys
  <2>4. CodesGiven'
    BY <1>1, <2>2, <2>3 DEF CodesInv, CodesGiven, Keys
  <2>5. EmailDocs'
    BY <1>1, <2>2, <2>3 DEF CodesInv, EmailDocs, Keys
  <2> QED BY <2>4, <2>5 DEF CodesInv
<1> QED BY <1>1, <1>2, <1>3

\* Every other step keeps codes and acceptance.
LEMMA CodesInvStep ==
    ASSUME CodesInv, TypeInv, OwedOK, [Next]_vars
    PROVE  CodesInv'
<1>1. ASSUME UNCHANGED <<docs, invites>> PROVE CodesInv'
  BY <1>1, CodesFrame
<1>2. ASSUME NEW c \in Calls, Quiet(c) PROVE CodesInv'
  BY <1>1, <1>2 DEF Quiet, members
<1>3. ASSUME NEW c \in Calls, Asked(c) PROVE CodesInv'
  BY <1>1, <1>3 DEF Asked, members
<1>4. CASE UNCHANGED vars \/ Aside \/ \E a \in Admins : IndexExpires(a)
  BY <1>1, <1>4, StillSteps DEF Still, members
<1>5. ASSUME NEW r \in Roles, EditRole(r) PROVE CodesInv'
  BY <1>1, <1>5, EditRoleIs
<1>6. ASSUME NEW c \in Calls, NEW a \in Admins, Delete(c, a) PROVE CodesInv'
  BY <1>1, <1>6 DEF Delete, members
<1>7. ASSUME NEW c \in Calls, NEW a \in Admins,
             \/ \E r \in Roles : Invite(c, a, r) \/ Attach(c, a, r)
             \/ \E k \in Keys : Accept(c, a, k)
      PROVE  CodesInv'
  BY <1>3, <1>7, AskedSteps
<1>8. ASSUME NEW c \in Calls,
             \/ LeaveIndex(c) \/ EnterIndex(c) \/ ExpireIndex(c)
             \/ \E a \in Admins : ReadIndex(c, a)
             \/ ReadSessions(c) \/ RemoveStale(c) \/ CheckBackfilled(c)
             \/ Scan(c) \/ ReadPage(c) \/ Backfill(c) \/ FlagBackfilled(c)
             \/ Die(c)
      PROVE  CodesInv'
  BY <1>2, <1>8, QuietSteps
<1>9. ASSUME NEW c \in Calls, DeleteDoc(c) PROVE CodesInv'
  <2>1. /\ UNCHANGED invites
        /\ \A b \in Admins, j \in Keys : docs'[b][j] \in {None, docs[b][j]}
    BY <1>9, DeleteDocIs
  <2> QED BY <2>1, CodesFrame
<1>10. ASSUME NEW c \in Calls, AttachWrite(c) PROVE CodesInv'
  <2>1. UNCHANGED invites /\ req[c].admin \in Admins
    BY <1>10, AttachWriteIs
  <2>2. CASE UNCHANGED <<docs, h>>
    BY <1>1, <2>1, <2>2
  <2>3. CASE ~UNCHANGED <<docs, h>>
    BY <1>10, <2>1, <2>3, AttachWriteIs, CodesFrame
  <2> QED BY <2>2, <2>3
<1>11. ASSUME NEW a \in Admins, NEW k \in Keys,
              Resend(a, k) \/ InvitationExpires(a, k)
       PROVE  CodesInv'
  BY <1>11, ValidIs, CodesFrame
<1>12. ASSUME NEW c \in Calls,
              ReadMember(c) \/ ReadRole(c) \/ ReadTtl(c) \/ WriteSession(c)
       PROVE  CodesInv'
  BY <1>1, <1>12
  DEF ReadMember, ReadRole, ReadTtl, WriteSession, members
<1>13. ASSUME NEW c \in Calls, NEW s \in Sids, NEW a \in Admins \cup {None},
              Switch(c, s, a)
       PROVE  CodesInv'
  BY <1>1, <1>13 DEF Switch, members
<1>14. ASSUME NEW s \in Sids, Login(s) \/ EndSession(s) PROVE CodesInv'
  BY <1>1, <1>14 DEF Login, EndSession, members
<1>15. ASSUME NEW w \in owed, PutBack(w) PROVE CodesInv'
  BY <1>1, <1>15 DEF PutBack, members
<1> QED
  BY <1>4, <1>5, <1>6, <1>7, <1>8, <1>9, <1>10, <1>11, <1>12, <1>13, <1>14,
     <1>15, CodesInvite, CodesAccept
  DEF Next, Aside

\* The role of the person with admin a, and the permissions it has now.
RoleNow(a) == docs[a]["user"].role
GrantNow(a) == <<RoleNow(a), rights[RoleNow(a)]>>

\* A membership that was not made anew.
Fresh(a) == a \in Admins \ h.again /\ docs[a]["user"] # None

\* Sessions act with the permissions of the role, unless a role changed or an
\* older value was written back.
SessionsFollow ==
    \A s \in Sids \ (h.recast \cup h.raced), a \in Admins :
        Fresh(a) /\ sess[s] # None /\ sess[s].tenant = a
            => sess[s].grants = GrantNow(a)

\* So will one that a switch is about to write.
SwitchFollows(c) ==
    c \notin h.recast /\ Fresh(req[c].admin) =>
        /\ req[c].at = "role" => req[c].role = RoleNow(req[c].admin)
        /\ req[c].at \in {"ttl", "set"} =>
               req[c].snap.grants = GrantNow(req[c].admin)

FollowInv == SessionsFollow /\ \A c \in Calls : SwitchFollows(c)

\* Requests that are not at work on a session.
LEMMA NoSwitchFollows ==
    ASSUME NEW c \in Calls,
           \/ req'[c] = Idle
           \/ req'[c].at \notin {"role", "ttl", "set"}
    PROVE  SwitchFollows(c)'
BY IdleIs DEF SwitchFollows

\* A session's permissions, by the part of the invariant about sessions.
LEMMA FollowsNow ==
    ASSUME SessionsFollow, NEW s \in Sids \ (h.recast \cup h.raced),
           NEW a \in Admins,
           Fresh(a), sess[s] # None, sess[s].tenant = a
    PROVE  sess[s].grants = GrantNow(a)
BY DEF SessionsFollow

\* A step that leaves memberships, roles and sessions alone.
LEMMA FollowFrame ==
    ASSUME FollowInv, UNCHANGED <<docs, rights, sess>>, SameJoin,
           h'.recast = h.recast, h.raced \subseteq h'.raced,
           \/ UNCHANGED req
           \/ \E c \in Calls : Others(c) /\ SwitchFollows(c)'
    PROVE  FollowInv'
<1>a. \A a \in Admins : /\ Fresh(a)' = Fresh(a)
                        /\ RoleNow(a)' = RoleNow(a)
                        /\ GrantNow(a)' = GrantNow(a)
  BY DEF Fresh, GrantNow, RoleNow, SameJoin
<1>1. SessionsFollow'
  <2>1. SUFFICES ASSUME NEW s \in Sids \ (h.recast \cup h.raced),
                        NEW a \in Admins,
                        Fresh(a), sess[s] # None, sess[s].tenant = a
                 PROVE  sess[s].grants = GrantNow(a)
    BY <1>a DEF SessionsFollow
  <2>2. SessionsFollow
    BY Zenon DEF FollowInv
  <2> QED BY <2>1, <2>2, FollowsNow
<1>2. \A d \in Calls : req'[d] = req[d] => SwitchFollows(d)'
  BY DEF FollowInv, SwitchFollows, Fresh, GrantNow, RoleNow, SameJoin
<1>3. CASE UNCHANGED req
  BY <1>1, <1>2, <1>3 DEF FollowInv
<1>4. CASE \E c \in Calls : Others(c) /\ SwitchFollows(c)'
  BY <1>1, <1>2, <1>4 DEF FollowInv, Others
<1> QED BY <1>3, <1>4

\* A step that keeps the roles of those who have joined, unless they join anew.
LEMMA FollowDocs ==
    ASSUME FollowInv, JoinInv, UNCHANGED <<rights, sess>>,
           h'.recast = h.recast, h.raced \subseteq h'.raced,
           h.again \subseteq h'.again,
           \A a \in Admins \ h'.again : docs'[a]["user"] # None =>
               \/ a \notin h.joined
               \/ docs[a]["user"] # None /\ RoleNow(a)' = RoleNow(a),
           \/ UNCHANGED req
           \/ \E c \in Calls : Others(c) /\ req'[c] = Idle
    PROVE  FollowInv'
<1>1. ASSUME NEW a \in Admins, a \in h.joined, Fresh(a)'
      PROVE  Fresh(a) /\ GrantNow(a)' = GrantNow(a)
  BY <1>1 DEF Fresh, GrantNow
<1>2. SessionsFollow'
  BY <1>1 DEF FollowInv, JoinInv, SessionsFollow, SessionsJoined
<1>3. ASSUME NEW d \in Calls, req'[d] = req[d] PROVE SwitchFollows(d)'
  <2>1. req[d].at \in {"role", "ttl", "set"} /\ req[d].admin \in Admins
           => req[d].admin \in h.joined
    BY TenantsAssumption DEF JoinInv, SwitchJoined
  <2>2. Fresh(req[d].admin)' => req[d].admin \in Admins
    BY <1>3 DEF Fresh
  <2>3. CASE req[d].at \notin {"role", "ttl", "set"}
    BY <1>3, <2>3 DEF SwitchFollows
  <2>4. CASE req[d].at \in {"role", "ttl", "set"}
    <3>1. Fresh(req[d].admin)' =>
             /\ Fresh(req[d].admin)
             /\ GrantNow(req[d].admin)' = GrantNow(req[d].admin)
             /\ RoleNow(req[d].admin)' = RoleNow(req[d].admin)
      <4>1. ASSUME Fresh(req[d].admin)'
            PROVE  RoleNow(req[d].admin)' = RoleNow(req[d].admin)
        BY <1>3, <2>1, <2>2, <2>4, <4>1 DEF Fresh
      <4> QED BY <1>1, <1>3, <2>1, <2>2, <2>4, <4>1
    <3> QED BY <1>3, <3>1 DEF FollowInv, SwitchFollows
  <2> QED BY <2>3, <2>4
<1>4. CASE UNCHANGED req
  BY <1>2, <1>3, <1>4 DEF FollowInv
<1>5. ASSUME NEW c \in Calls, Others(c), req'[c] = Idle PROVE FollowInv'
  BY <1>2, <1>3, <1>5, NoSwitchFollows DEF FollowInv, Others
<1> QED BY <1>4, <1>5

\* The code starts like that.
LEMMA FollowInvInit ==
    ASSUME Init
    PROVE  FollowInv
<1>1. \A c \in Calls : SwitchFollows(c)
  BY InitIs, IdleIs DEF SwitchFollows
<1>2. CASE StartsEmpty
  BY <1>1, <1>2 DEF StartsEmpty, FollowInv, SessionsFollow
<1>3. ASSUME NEW a \in Admins, NEW r \in Roles, NEW s \in Sids,
             StartsLegacy(a, r, s)
      PROVE  FollowInv
  <2>1. /\ docs[a]["user"].role = r /\ rights[r] = 1
        /\ sess[s].tenant = a /\ sess[s].grants = <<r, 1>>
        /\ \A t \in Sids \ {s} : sess[t] = None
    BY <1>3, InitIs DEF StartsLegacy
  <2>2. SessionsFollow
    BY <2>1 DEF SessionsFollow, GrantNow, RoleNow
  <2> QED BY <1>1, <2>2 DEF FollowInv
<1> QED BY <1>2, <1>3, InitIs

\* An invitation comes without sessions, or is noted.
LEMMA FollowInvite ==
    ASSUME FollowInv, JoinInv, TypeInv, NEW c \in Calls, CreateInvite(c)
    PROVE  FollowInv'
<1> DEFINE a == req[c].admin
           k == req[c].key
<1>1. /\ Others(c) /\ req'[c] = Idle /\ UNCHANGED <<rights, sess>>
      /\ a \in Admins /\ k \in Keys
      /\ UNCHANGED <<docs, invites, h>> \/ InvitationMade(a, k)
  BY CreateInviteIs DEF redis
<1> HIDE DEF a, k
<1>2. CASE UNCHANGED <<docs, invites, h>>
  BY <1>1, <1>2, FollowFrame, NoSwitchFollows, SameHistory
  DEF SameRace
<1>3. CASE InvitationMade(a, k)
  <2>1. /\ \A b \in Admins, j \in Keys :
               b # a \/ j # k => docs'[b][j] = docs[b][j]
        /\ h.again \subseteq h'.again /\ h'.recast = h.recast
        /\ h.raced \subseteq h'.raced
        /\ a \in h.joined => a \in h'.again
    BY <1>3 DEF InvitationMade, SameRace
  <2>2. ASSUME NEW b \in Admins \ h'.again, docs'[b]["user"] # None
        PROVE  \/ b \notin h.joined
               \/ docs[b]["user"] # None /\ RoleNow(b)' = RoleNow(b)
    BY <2>1, <2>2 DEF RoleNow, Keys
  <2> QED BY <1>1, <2>1, <2>2, FollowDocs
<1> QED BY <1>1, <1>2, <1>3

\* So does its acceptance: what is accepted is not another invitation than the
\* membership that is there.
LEMMA FollowAccept ==
    ASSUME FollowInv, JoinInv, CodesInv, TypeInv, NEW c \in Calls,
           AcceptWrite(c)
    PROVE  FollowInv'
<1> DEFINE a == req[c].admin
           code == req[c].code
<1>1. /\ Others(c) /\ req'[c] = Idle /\ UNCHANGED <<rights, sess>>
      /\ a \in Admins
      /\ UNCHANGED <<docs, h>> \/ Acceptance(a, code)
  BY AcceptWriteIs DEF redis
<1> HIDE DEF a, code
<1>2. CASE UNCHANGED <<docs, h>>
  BY <1>1, <1>2, FollowFrame, NoSwitchFollows, SameHistory
  DEF SameRace
<1>3. CASE Acceptance(a, code)
  <2>1. PICK k \in Keys : Accepted(a, k, code)
    BY <1>3 DEF Acceptance
  <2>2. /\ docs[a][k] # None /\ docs[a][k].code = code
        /\ docs'[a]["user"].role = docs[a][k].role
        /\ k = "email" => docs[a]["user"] = None \/ docs[a]["user"].code = code
        /\ \A b \in Admins \ {a} : docs'[b]["user"] = docs[b]["user"]
        /\ h.again \subseteq h'.again /\ h'.recast = h.recast
        /\ h.raced \subseteq h'.raced
        /\ a \in h.joined /\ ~docs[a][k].accepted => a \in h'.again
    BY <2>1 DEF Accepted, SameRace, Keys
  <2>3. ASSUME k = "email" PROVE a \in h.joined => a \in h'.again
    BY <1>1, <2>2, <2>3 DEF CodesInv, EmailDocs
  <2>4. k = "email" \/ k = "user"
    BY DEF Keys
  <2>5. ASSUME NEW b \in Admins \ h'.again, docs'[b]["user"] # None
        PROVE  \/ b \notin h.joined
               \/ docs[b]["user"] # None /\ RoleNow(b)' = RoleNow(b)
    BY <2>2, <2>3, <2>4, <2>5 DEF RoleNow
  <2> QED BY <1>1, <2>2, <2>5, FollowDocs
<1> QED BY <1>1, <1>2, <1>3

\* A role of the person that changes is noted; else the memberships left keep
\* theirs.
LEMMA FollowMembers ==
    ASSUME FollowInv, JoinInv, TypeInv,
           \/ \E c \in Calls : DeleteDoc(c) \/ AttachWrite(c)
           \/ \E r \in Roles : EditRole(r)
           \/ \E a \in Admins, k \in Keys :
                 Resend(a, k) \/ InvitationExpires(a, k)
    PROVE  FollowInv'
<1>1. ASSUME h'.recast = Calls \cup Sids PROVE FollowInv'
  BY <1>1 DEF FollowInv, SessionsFollow, SwitchFollows
<1>2. ASSUME NEW r \in Roles, EditRole(r) PROVE FollowInv'
  BY <1>1, <1>2, EditRoleIs
<1>3. ASSUME NEW c \in Calls, AttachWrite(c) PROVE FollowInv'
  <2>1. /\ Others(c) /\ req'[c] = Idle /\ UNCHANGED <<rights, sess>>
    BY <1>3, AttachWriteIs DEF redis
  <2>2. CASE UNCHANGED <<docs, h>>
    BY <2>1, <2>2, FollowFrame, NoSwitchFollows, SameHistory
  <2>3. CASE ~UNCHANGED <<docs, h>>
    BY <1>1, <1>3, <2>3, AttachWriteIs
  <2> QED BY <2>2, <2>3
<1>4. ASSUME NEW c \in Calls, DeleteDoc(c) PROVE FollowInv'
  <2>1. /\ Others(c) /\ req'[c] = Idle /\ UNCHANGED <<rights, sess>>
        /\ \A b \in Admins, j \in Keys : docs'[b][j] \in {None, docs[b][j]}
        /\ SameJoin /\ SameRace
    BY <1>4, DeleteDocIs DEF redis
  <2>2. \A b \in Admins : docs'[b]["user"] \in {None, docs[b]["user"]}
    BY <2>1 DEF Keys
  <2> QED BY <2>1, <2>2, FollowDocs DEF SameJoin, SameRace, RoleNow
<1>5. ASSUME NEW a \in Admins, NEW k \in Keys,
             Resend(a, k) \/ InvitationExpires(a, k)
      PROVE  FollowInv'
  <2>1. /\ UNCHANGED <<req, rights, sess, h>>
        /\ docs[a][k] # None /\ docs'[a][k].role = docs[a][k].role
        /\ \A b \in Admins, j \in Keys :
               b # a \/ j # k => docs'[b][j] = docs[b][j]
    BY <1>5, ValidIs DEF redis
  <2>2. \A b \in Admins : docs'[b]["user"] # None =>
            docs[b]["user"] # None /\ RoleNow(b)' = RoleNow(b)
    BY <2>1 DEF Keys, RoleNow
  <2> QED BY <2>1, <2>2, FollowDocs
<1> QED BY <1>2, <1>3, <1>4, <1>5

\* A switch gives the permissions that the role has when it looks them up.
LEMMA FollowSwitch ==
    ASSUME FollowInv, TypeInv, NEW c \in Calls,
           \/ \E s \in Sids, a \in Admins \cup {None} : Switch(c, s, a)
           \/ ReadMember(c) \/ ReadRole(c) \/ ReadTtl(c)
    PROVE  FollowInv'
<1>1. RequestsOK /\ StoreOK /\ DocsOK /\ SessOK
  BY DEF TypeInv, StoreOK
<1>2. ASSUME NEW s \in Sids, NEW a \in Admins \cup {None}, Switch(c, s, a)
      PROVE  FollowInv'
  <2>1. /\ UNCHANGED <<docs, rights, sess>> /\ SameJoin
        /\ h'.recast = h.recast \ {c} /\ h.raced \subseteq h'.raced
    BY <1>2, SwitchStarts DEF members, redis
  <2>2. /\ Others(c) /\ req'[c].admin = a
        /\ req'[c].at = IF a = None THEN "ttl" ELSE "member"
    BY <1>1, <1>2, SwitchIs
  <2>3. SwitchFollows(c)'
    BY <2>2, TenantsAssumption DEF SwitchFollows, Fresh
  <2>4. ASSUME NEW d \in Calls, d # c PROVE SwitchFollows(d)'
    <3>1. req'[d] = req[d]
      BY <2>2, <2>4 DEF Others
    <3> QED BY <2>1, <2>4, <3>1
        DEF FollowInv, SwitchFollows, Fresh, GrantNow, RoleNow, SameJoin
  <2>5. SessionsFollow'
    BY <2>1, TenantsAssumption
    DEF FollowInv, SessionsFollow, Fresh, GrantNow, RoleNow, SameJoin
  <2> QED BY <2>3, <2>4, <2>5 DEF FollowInv
<1>3. ASSUME ReadMember(c) \/ ReadRole(c) \/ ReadTtl(c),
             SwitchFollows(c)'
      PROVE  FollowInv'
  <2>1. UNCHANGED <<docs, rights, sess, h>>
    BY <1>3 DEF ReadMember, ReadRole, ReadTtl, members, redis
  <2>2. Others(c)
    BY <1>1, <1>3, ReadMemberIs, ReadRoleIs, ReadTtlIs
  <2> QED BY <1>3, <2>1, <2>2, FollowFrame, SameHistory DEF SameRace
<1>4. CASE ReadMember(c)
  <2>1. UNCHANGED docs
    BY <1>4 DEF ReadMember, members
  <2>2. \/ req'[c] = Idle
        \/ /\ req'[c].at = "role" /\ req'[c].admin = req[c].admin
           /\ req'[c].role = docs[req[c].admin]["user"].role
    BY <1>1, <1>4, ReadMemberIs
  <2>3. SwitchFollows(c)'
    <3>1. CASE req'[c] = Idle
      BY <3>1, NoSwitchFollows
    <3>2. CASE req'[c] # Idle
      BY <2>1, <2>2, <3>2 DEF SwitchFollows, RoleNow
    <3> QED BY <3>1, <3>2
  <2> QED BY <1>3, <1>4, <2>3
<1>5. CASE ReadRole(c)
  <2>1. UNCHANGED <<docs, rights, h>>
    BY <1>5 DEF ReadRole, members
  <2>2. \/ req'[c] = Idle
        \/ /\ req'[c].at = "ttl" /\ req'[c].admin = req[c].admin
           /\ req'[c].snap.grants = <<req[c].role, rights[req[c].role]>>
    BY <1>1, <1>5, ReadRoleIs
  <2>3. req[c].at = "role"
    BY <1>5 DEF ReadRole
  <2>4. SwitchFollows(c)'
    <3>1. CASE req'[c] = Idle
      BY <3>1, NoSwitchFollows
    <3>2. CASE req'[c] # Idle
      BY <2>1, <2>2, <2>3, <3>2
      DEF FollowInv, SwitchFollows, Fresh, GrantNow, RoleNow
    <3> QED BY <3>1, <3>2
  <2> QED BY <1>3, <1>5, <2>4
<1>6. CASE ReadTtl(c)
  <2>1. UNCHANGED <<docs, rights, h>>
    BY <1>6 DEF ReadTtl, members
  <2>2. /\ req[c].at = "ttl" /\ req'[c].at = "set"
        /\ req'[c].admin = req[c].admin
        /\ req'[c].snap.grants = req[c].snap.grants
    BY <1>1, <1>6, ReadTtlIs
  <2>3. SwitchFollows(c)'
    BY <2>1, <2>2 DEF FollowInv, SwitchFollows, Fresh, GrantNow, RoleNow
  <2> QED BY <1>3, <1>6, <2>3
<1> QED BY <1>2, <1>4, <1>5, <1>6

\* A session that is written acts with them, or a role changed since; one that
\* is put back is as it was, or an older value was written back.
LEMMA FollowWrites ==
    ASSUME FollowInv, TypeInv, OwedOK,
           \/ \E c \in Calls : WriteSession(c)
           \/ \E s \in Sids : Login(s) \/ EndSession(s)
           \/ \E w \in owed : PutBack(w)
    PROVE  FollowInv'
<1>1. ASSUME NEW c \in Calls, WriteSession(c) PROVE FollowInv'
  <2> DEFINE s == req[c].sid
             a == req[c].admin
             x == req[c].snap
  <2>1. /\ UNCHANGED <<docs, rights>> /\ Others(c) /\ SameJoin
        /\ req[c].at = "set" /\ s \in Sids
        /\ sess'[s] = x /\ \A t \in Sids \ {s} : sess'[t] = sess[t]
        /\ req'[c].at \in {"srem", "sadd"}
        /\ h'.recast = IF c \in h.recast THEN h.recast \cup {s}
                                         ELSE h.recast \ {s}
        /\ h'.raced = h.raced
    BY <1>1, WriteSessionIs DEF members
  <2>2. x.tenant = a
    <3>1. Fit(req[c])
      BY ReadyReq DEF TypeInv, RequestsOK
    <3> QED BY <2>1, <3>1 DEF Fit
  <2>3. c \notin h.recast /\ Fresh(a) => x.grants = GrantNow(a)
    BY <2>1 DEF FollowInv, SwitchFollows
  <2> HIDE DEF s, a, x
  <2>4. \A b : Fresh(b)' = Fresh(b) /\ GrantNow(b)' = GrantNow(b)
    BY <2>1 DEF Fresh, GrantNow, RoleNow, SameJoin
  <2>5. ASSUME NEW t \in Sids, t \notin h'.recast, t \notin h'.raced,
               NEW b \in Admins, Fresh(b),
               sess'[t] # None, sess'[t].tenant = b
        PROVE  sess'[t].grants = GrantNow(b)
    <3>1. CASE t = s
      BY <2>1, <2>2, <2>3, <2>5, <3>1
    <3>2. CASE t # s
      BY <2>1, <2>5, <3>2 DEF FollowInv, SessionsFollow
    <3> QED BY <3>1, <3>2
  <2>6. SessionsFollow'
    BY <2>4, <2>5 DEF SessionsFollow
  <2>7. SwitchFollows(c)'
    BY <2>1, NoSwitchFollows
  <2>8. ASSUME NEW d \in Calls, d # c PROVE SwitchFollows(d)'
    <3>1. req'[d] = req[d]
      BY <2>1, <2>8 DEF Others
    <3>2. d \notin h'.recast => d \notin h.recast
      BY <2>1, TenantsAssumption
    <3>3. /\ Fresh(req[d].admin)' = Fresh(req[d].admin)
          /\ GrantNow(req[d].admin)' = GrantNow(req[d].admin)
          /\ RoleNow(req[d].admin)' = RoleNow(req[d].admin)
      BY <2>1, <3>1 DEF Fresh, GrantNow, RoleNow, SameJoin
    <3> QED BY <3>1, <3>2, <3>3 DEF FollowInv, SwitchFollows
  <2> QED BY <2>6, <2>7, <2>8 DEF FollowInv
<1>2. ASSUME NEW s \in Sids, Login(s) \/ EndSession(s) PROVE FollowInv'
  <2>1. /\ UNCHANGED <<docs, rights, req>> /\ SameJoin
        /\ h'.recast = h.recast /\ h.raced \subseteq h'.raced
        /\ sess'[s] = None \/ sess'[s].tenant = None
        /\ \A t \in Sids \ {s} : sess'[t] = sess[t]
    BY <1>2, LoginIs, EndSessionIs DEF members, SameRace
  <2>2. \A b : Fresh(b)' = Fresh(b) /\ GrantNow(b)' = GrantNow(b)
    BY <2>1 DEF Fresh, GrantNow, RoleNow, SameJoin
  <2>3. SessionsFollow'
    BY <2>1, <2>2, TenantsAssumption DEF FollowInv, SessionsFollow
  <2>4. \A d \in Calls : SwitchFollows(d)'
    BY <2>1 DEF FollowInv, SwitchFollows, Fresh, GrantNow, RoleNow, SameJoin
  <2> QED BY <2>3, <2>4 DEF FollowInv
<1>3. ASSUME NEW w \in owed, PutBack(w) PROVE FollowInv'
  <2> DEFINE s == w[1]
             x == w[2]
  <2>1. /\ UNCHANGED <<docs, rights, req>> /\ SameJoin
        /\ h'.recast = h.recast /\ h.raced \subseteq h'.raced
        /\ x # None
        /\ sess'[s].tenant = x.tenant /\ sess'[s].grants = x.grants
        /\ sess[s] = x \/ s \in h'.raced
        /\ \A t \in Sids \ {s} : sess'[t] = sess[t]
    BY <1>3, PutBackIs DEF members
  <2> HIDE DEF s, x
  <2>2. \A b : Fresh(b)' = Fresh(b) /\ GrantNow(b)' = GrantNow(b)
    BY <2>1 DEF Fresh, GrantNow, RoleNow, SameJoin
  <2>3. ASSUME NEW t \in Sids, t \notin h'.recast, t \notin h'.raced,
               NEW b \in Admins, Fresh(b),
               sess'[t] # None, sess'[t].tenant = b
        PROVE  sess'[t].grants = GrantNow(b)
    <3>1. CASE t = s
      BY <2>1, <2>3, <3>1 DEF FollowInv, SessionsFollow
    <3>2. CASE t # s
      BY <2>1, <2>3, <3>2 DEF FollowInv, SessionsFollow
    <3> QED BY <3>1, <3>2
  <2>4. SessionsFollow'
    BY <2>2, <2>3 DEF SessionsFollow
  <2>5. \A d \in Calls : SwitchFollows(d)'
    BY <2>1 DEF FollowInv, SwitchFollows, Fresh, GrantNow, RoleNow, SameJoin
  <2> QED BY <2>4, <2>5 DEF FollowInv
<1> QED BY <1>1, <1>2, <1>3

\* No step gives a session other permissions.
LEMMA FollowInvStep ==
    ASSUME FollowInv, JoinInv, CodesInv, TypeInv, OwedOK, [Next]_vars
    PROVE  FollowInv'
<1>1. ASSUME NEW c \in Calls, Quiet(c) PROVE FollowInv'
  <2>1. /\ UNCHANGED <<docs, rights, sess>> /\ Others(c) /\ SameJoin
        /\ h'.recast = h.recast /\ h.raced \subseteq h'.raced
    BY <1>1 DEF Quiet, members
  <2>2. SwitchFollows(c)'
    BY <1>1, NoSwitchFollows DEF Quiet, Listing
  <2> QED BY <2>1, <2>2, FollowFrame
<1>2. ASSUME NEW c \in Calls, Asked(c) PROVE FollowInv'
  <2>1. UNCHANGED <<docs, rights, sess, h>> /\ Others(c)
    BY <1>2 DEF Asked, members, redis
  <2>2. SwitchFollows(c)'
    BY <1>2, NoSwitchFollows DEF Asked
  <2> QED BY <2>1, <2>2, FollowFrame, SameHistory DEF SameRace
<1>3. CASE UNCHANGED vars \/ Aside \/ \E a \in Admins : IndexExpires(a)
  BY <1>3, StillSteps, FollowFrame DEF Still, members, SameRace
<1>4. ASSUME NEW c \in Calls, NEW a \in Admins, Delete(c, a) PROVE FollowInv'
  <2>1. CASE docs[a][Key] = None
    BY <1>4, <2>1, DeleteNothingIs, FollowFrame DEF members, redis, SameRace
  <2>2. CASE docs[a][Key] # None
    BY <1>2, <1>4, <2>2, AskedSteps
  <2> QED BY <2>1, <2>2
<1>5. ASSUME NEW c \in Calls, NEW a \in Admins,
             \/ \E r \in Roles : Invite(c, a, r) \/ Attach(c, a, r)
             \/ \E k \in Keys : Accept(c, a, k)
      PROVE  FollowInv'
  BY <1>2, <1>5, AskedSteps
<1>6. ASSUME NEW c \in Calls,
             \/ LeaveIndex(c) \/ EnterIndex(c) \/ ExpireIndex(c)
             \/ \E a \in Admins : ReadIndex(c, a)
             \/ ReadSessions(c) \/ RemoveStale(c) \/ CheckBackfilled(c)
             \/ Scan(c) \/ ReadPage(c) \/ Backfill(c) \/ FlagBackfilled(c)
             \/ Die(c)
      PROVE  FollowInv'
  BY <1>1, <1>6, QuietSteps
<1> QED
  BY <1>3, <1>4, <1>5, <1>6, FollowInvite, FollowAccept, FollowMembers,
     FollowSwitch, FollowWrites
  DEF Next, Aside

\* While the roles of the person stay as they are, a session acts with the
\* permissions its role gives, and with those of no earlier switch, unless
\* another request wrote back what it had read before a switch or a logout.
THEOREM PermissionsFollow == Spec => []PermissionsFollowRole
<1>1. CodesInv /\ TypeInv /\ OwedOK /\ [Next]_vars => CodesInv'
  BY CodesInvStep
<1>2. FollowInv /\ JoinInv /\ CodesInv /\ TypeInv /\ OwedOK /\ [Next]_vars
         => FollowInv'
  BY FollowInvStep
<1>3. FollowInv => PermissionsFollowRole
  BY DEF FollowInv, SessionsFollow, PermissionsFollowRole, Serves, Fresh,
     GrantNow, RoleNow
<1> QED
  BY CodesInvInit, FollowInvInit, <1>1, <1>2, <1>3, JoinAlways,
     TypeInvariant, PTL
  DEF Spec

-----------------------------------------------------------------------------
(* The index of an admin is complete.                                      *)

\* A switch has a session, and so has a listing that may take it out.
Uses(c, s) == \/ req[c].sid = s
              \/ req[c].at \in {"mget", "stale"} /\ s \in req[c].ids

\* Two requests have a session only in a race.
Alone ==
    \A c, d \in Calls, s \in Sids \ h.raced : Uses(c, s) /\ Uses(d, s) => c = d

Acts(s, a) == sess[s] # None /\ sess[s].tenant = a

\* A switch is about to bring the indexes up to date.
Entering(s) ==
    \E c \in Calls : req[c].sid = s /\ req[c].at \in {"srem", "sadd"}

Known(s, a) == s \in index[a] \/ Entering(s)

\* A switch that wrote a session finds it as it wrote it; what a listing takes
\* out does not act for the admin.
SwitchActs(c) ==
    /\ req[c].at \in {"srem", "sadd"} /\ req[c].sid \notin h.raced
           => sess[req[c].sid].tenant = req[c].admin
    /\ req[c].at = "stale" =>
           \A s \in req[c].ids \ h.raced : ~Acts(s, req[c].admin)

\* The sessions a listing goes through to fill an index: what it misses is
\* there, or about to be.
Lists(c) ==
    req[c].admin \notin h.shortened =>
        /\ req[c].at \in {"read", "backfill"} => \A s \in Sids \ h.raced :
               Acts(s, req[c].admin)
                   => Known(s, req[c].admin) \/ s \in req[c].ids
        /\ req[c].at = "flag" => \A s \in Sids \ h.raced :
               Acts(s, req[c].admin) => Known(s, req[c].admin)

Listings == deaths = 0 => \A c \in Calls : Lists(c)

IndexInv == /\ Alone /\ \A c \in Calls : SwitchActs(c)
            /\ IndexComplete /\ Listings

\* What the two requests of a race have in use.
LEMMA InUseIs ==
    ASSUME NEW c \in Calls, NEW s, s \notin InUse(c)
    PROVE  \A d \in Calls \ {c} : ~Uses(d, s)
BY DEF InUse, Uses

\* A step that a session no race is about comes out of as known, or as unknown
\* as it was.
Keeps ==
    \A s \in Sids \ h'.raced, a \in Admins \ h'.shortened :
        Acts(s, a)' => Known(s, a)' \/ (Acts(s, a) /\ ~Known(s, a))

\* Races, and indexes that expired, stay what they are.
Grows == h.raced \subseteq h'.raced /\ h.shortened \subseteq h'.shortened

\* What request c has in use after a step of it: nothing that others have.
AloneStep(c) ==
    \A s \in Sids \ h'.raced :
        Uses(c, s)' => Uses(c, s) \/ \A d \in Calls \ {c} : ~Uses(d, s)

\* Then an index stays complete.
LEMMA CompleteKept ==
    ASSUME IndexComplete, TypeInv, Keeps, Grows,
           UNCHANGED <<backfilled, deaths>>
    PROVE  IndexComplete'
<1>1. backfilled \subseteq Admins
  BY DEF TypeInv, StoreOK
<1> QED BY <1>1
    DEF IndexComplete, Keeps, Grows, Acts, Known, Entering

\* And a listing misses no more than it did.
LEMMA ListsKept ==
    ASSUME Listings, TypeInv, Keeps, Grows, deaths = 0,
           NEW d \in Calls, req'[d] = req[d]
    PROVE  Lists(d)'
<1>1. req[d].at \in {"read", "backfill", "flag"} => req[d].admin \in Admins
  BY ReadyReq DEF TypeInv, RequestsOK, Fit
<1> DEFINE a == req[d].admin
<1>2. Lists(d)
  BY DEF Listings
<1>3. CASE req[d].at \notin {"read", "backfill", "flag"}
  BY <1>3 DEF Lists
<1>4. CASE req[d].at \in {"read", "backfill", "flag"} /\ a \notin h'.shortened
  <2>1. \A s \in Sids \ h'.raced :
            Acts(s, a)' => Known(s, a)' \/ (Acts(s, a) /\ ~Known(s, a))
    BY <1>1, <1>4 DEF Keeps
  <2>2. ASSUME NEW s \in Sids \ h'.raced, Acts(s, a) /\ ~Known(s, a)
        PROVE  req[d].at \in {"read", "backfill"} /\ s \in req[d].ids
    BY <1>2, <1>4, <2>2 DEF Lists, Grows
  <2>3. req'[d].at = req[d].at /\ req'[d].ids = req[d].ids
    OBVIOUS
  <2>4. ASSUME NEW s \in Sids \ h'.raced, Acts(s, req[d].admin)'
        PROVE  \/ Known(s, req[d].admin)'
               \/ req[d].at # "flag" /\ s \in req[d].ids
    BY <2>1, <2>2, <2>4
  <2> QED BY <2>3, <2>4 DEF Lists
<1>5. CASE a \in h'.shortened
  BY <1>5 DEF Lists
<1> QED BY <1>3, <1>4, <1>5

\* Requests go on having their sessions for themselves.
LEMMA AloneKept ==
    ASSUME Alone, Grows,
           \/ UNCHANGED req
           \/ \E c \in Calls : Others(c) /\ AloneStep(c)
    PROVE  Alone'
<1>1. CASE UNCHANGED req
  BY <1>1 DEF Alone, Grows, Uses
<1>2. ASSUME NEW c \in Calls, Others(c), AloneStep(c) PROVE Alone'
  <2>1. \A d \in Calls \ {c}, s \in Sids : Uses(d, s)' = Uses(d, s)
    BY <1>2 DEF Others, Uses
  <2> QED BY <1>2, <2>1 DEF Alone, AloneStep, Grows
<1> QED BY <1>1, <1>2

\* A request that stays knows what it knew, as long as the sessions do.
LEMMA ActsKept ==
    ASSUME NEW d \in Calls, req'[d] = req[d], SwitchActs(d), Grows,
           UNCHANGED sess
    PROVE  SwitchActs(d)'
BY DEF SwitchActs, Acts, Grows

\* A step that leaves the sessions alone.
LEMMA IndexKept ==
    ASSUME IndexInv, TypeInv, Keeps, Grows,
           UNCHANGED <<sess, backfilled, deaths>>,
           \/ UNCHANGED req
           \/ \E c \in Calls : /\ Others(c) /\ AloneStep(c) /\ SwitchActs(c)'
                               /\ deaths = 0 => Lists(c)'
    PROVE  IndexInv'
<1>1. Alone'
  BY AloneKept DEF IndexInv
<1>2. IndexComplete'
  BY CompleteKept DEF IndexInv
<1>3. \A d \in Calls : req'[d] = req[d] => SwitchActs(d)'
  BY ActsKept DEF IndexInv
<1>4. deaths = 0 => \A d \in Calls : req'[d] = req[d] => Lists(d)'
  BY ListsKept DEF IndexInv
<1>5. CASE UNCHANGED req
  BY <1>1, <1>2, <1>3, <1>4, <1>5 DEF IndexInv, Listings
<1>6. ASSUME NEW c \in Calls, Others(c), SwitchActs(c)',
             deaths = 0 => Lists(c)'
      PROVE  IndexInv'
  BY <1>1, <1>2, <1>3, <1>4, <1>6 DEF IndexInv, Listings, Others
<1> QED BY <1>5, <1>6

\* A step that leaves the indexes alone too.
LEMMA KeepsPlain ==
    ASSUME UNCHANGED <<sess, index>>,
           \/ UNCHANGED req
           \/ \E c \in Calls : Others(c) /\ req[c].at \notin {"srem", "sadd"}
    PROVE  Keeps
<1>1. \A s : Entering(s) => Entering(s)'
  BY DEF Entering, Others
<1> QED BY <1>1 DEF Keeps, Acts, Known

\* The awaits at which a request knows something of sessions or indexes.
Knowing == {"srem", "sadd", "mget", "stale", "read", "backfill", "flag"}

\* A request that knows nothing of them, and of which session it has only what
\* it had.
LEMMA NothingKnown ==
    ASSUME NEW c \in Calls,
           \/ req'[c] = Idle
           \/ /\ req'[c].at \notin Knowing
              /\ req'[c].sid \in {None, req[c].sid}
    PROVE  AloneStep(c) /\ SwitchActs(c)' /\ Lists(c)'
<1>1. /\ req'[c].at \notin Knowing
      /\ req'[c].sid \in {None, req[c].sid}
  BY IdleIs DEF Knowing
<1>2. \A s \in Sids : Uses(c, s)' => Uses(c, s)
  BY <1>1, TenantsAssumption DEF Uses, Knowing
<1>3. SwitchActs(c)' /\ Lists(c)'
  BY <1>1 DEF SwitchActs, Lists, Knowing
<1> QED BY <1>2, <1>3 DEF AloneStep

\* A step that is not about sessions or indexes.
LEMMA IndexPlain ==
    ASSUME IndexInv, TypeInv, Grows,
           UNCHANGED <<sess, index, backfilled, deaths>>,
           NEW c \in Calls, Others(c), req[c].at \notin {"srem", "sadd"},
           \/ req'[c] = Idle
           \/ /\ req'[c].at \notin Knowing
              /\ req'[c].sid \in {None, req[c].sid}
    PROVE  IndexInv'
<1>1. Keeps
  BY KeepsPlain
<1>2. AloneStep(c) /\ SwitchActs(c)' /\ Lists(c)'
  BY NothingKnown
<1> QED BY <1>1, <1>2, IndexKept

\* Or no step of a request.
LEMMA IndexStill ==
    ASSUME IndexInv, TypeInv, Grows,
           UNCHANGED <<sess, index, backfilled, deaths, req>>
    PROVE  IndexInv'
BY KeepsPlain, IndexKept

\* The code starts like that.
LEMMA IndexInvInit ==
    ASSUME Init
    PROVE  IndexInv
<1>1. backfilled = {} /\ \A c \in Calls : req[c] = Idle
  BY InitIs
<1>2. Alone
  BY <1>1, IdleIs, TenantsAssumption DEF Alone, Uses
<1>3. \A c \in Calls : SwitchActs(c) /\ Lists(c)
  BY <1>1, IdleIs DEF SwitchActs, Lists
<1>4. IndexComplete
  BY <1>1 DEF IndexComplete
<1> QED BY <1>2, <1>3, <1>4 DEF IndexInv, Listings

\* Nothing about races or indexes in the history changes.
LEMMA GrowsStill ==
    ASSUME UNCHANGED h \/ (SameRace /\ SameShort)
    PROVE  Grows
BY DEF Grows, SameRace, SameShort

\* Requests that change memberships.
LEMMA IndexMembers ==
    ASSUME IndexInv, TypeInv, NEW c \in Calls,
           \/ CreateInvite(c) \/ AcceptWrite(c) \/ DeleteDoc(c)
           \/ AttachWrite(c) \/ Asked(c)
    PROVE  IndexInv'
<1>1. ASSUME UNCHANGED <<redis, deaths>>, Others(c), Grows,
             req[c].at \notin {"srem", "sadd"},
             \/ req'[c] = Idle
             \/ req'[c].at \notin Knowing /\ req'[c].sid = None
      PROVE  IndexInv'
  BY <1>1, IndexPlain DEF redis
<1>2. CASE CreateInvite(c)
  <2>1. Grows
    BY <1>2, CreateInviteIs, GrowsStill DEF InvitationMade
  <2> QED BY <1>1, <1>2, <2>1, CreateInviteIs
<1>3. CASE AcceptWrite(c)
  <2>1. Grows
    BY <1>3, AcceptWriteIs, GrowsStill DEF Acceptance, Accepted
  <2> QED BY <1>1, <1>3, <2>1, AcceptWriteIs
<1>4. CASE DeleteDoc(c)
  BY <1>1, <1>4, DeleteDocIs, GrowsStill
<1>5. CASE AttachWrite(c)
  <2>1. Grows
    BY <1>5, AttachWriteIs DEF Grows, SameShort
  <2>2. req[c].at = "attach"
    BY <1>5 DEF AttachWrite
  <2> QED BY <1>1, <1>5, <2>1, <2>2, AttachWriteIs
<1>6. CASE Asked(c)
  BY <1>1, <1>6, IdleIs, GrowsStill DEF Asked, Knowing
<1> QED BY <1>2, <1>3, <1>4, <1>5, <1>6

\* A switch, up to the write: it races with whoever has the session.
LEMMA IndexSwitch ==
    ASSUME IndexInv, TypeInv, NEW c \in Calls,
           \/ \E s \in Sids, a \in Admins \cup {None} : Switch(c, s, a)
           \/ ReadMember(c) \/ ReadRole(c) \/ ReadTtl(c)
    PROVE  IndexInv'
<1>1. RequestsOK /\ StoreOK /\ DocsOK /\ SessOK
  BY DEF TypeInv, StoreOK
<1>2. ASSUME NEW s \in Sids, NEW a \in Admins \cup {None}, Switch(c, s, a)
      PROVE  IndexInv'
  <2>1. /\ UNCHANGED <<sess, index, backfilled, deaths>> /\ Grows
        /\ s \in InUse(c) => s \in h'.raced
    BY <1>2, SwitchStarts DEF redis, Grows, SameShort
  <2>2. /\ Others(c) /\ req[c] = Idle
        /\ req'[c].at \in {"ttl", "member"} /\ req'[c].sid = s
    BY <1>1, <1>2, SwitchIs
  <2>3. AloneStep(c)
    <3>1. \A t \in Sids : Uses(c, t)' => t = s
      BY <2>2 DEF Uses
    <3> QED BY <2>1, <3>1, InUseIs DEF AloneStep
  <2>4. SwitchActs(c)' /\ Lists(c)'
    BY <2>2 DEF SwitchActs, Lists
  <2>5. Keeps
    BY <2>1, <2>2, IdleIs, KeepsPlain
  <2> QED BY <2>1, <2>2, <2>3, <2>4, <2>5, IndexKept
<1>3. ASSUME ReadMember(c) \/ ReadRole(c) \/ ReadTtl(c)
      PROVE  IndexInv'
  <2>1. UNCHANGED <<sess, index, backfilled, deaths, h>>
    BY <1>3 DEF ReadMember, ReadRole, ReadTtl, redis
  <2>2. /\ Others(c) /\ req[c].at \in {"member", "role", "ttl"}
        /\ \/ req'[c] = Idle
           \/ /\ req'[c].at \in {"role", "ttl", "set"}
              /\ req'[c].sid = req[c].sid
    BY <1>1, <1>3, ReadMemberIs, ReadRoleIs, ReadTtlIs
  <2>3. /\ req[c].at \notin {"srem", "sadd"}
        /\ \/ req'[c] = Idle
           \/ req'[c].at \notin Knowing /\ req'[c].sid = req[c].sid
    BY <2>2 DEF Knowing
  <2> QED BY <2>1, <2>2, <2>3, GrowsStill, IndexPlain
<1> QED BY <1>2, <1>3

\* The write: the session acts for the admin, whose index is to be told.
LEMMA IndexWrite ==
    ASSUME IndexInv, TypeInv, NEW c \in Calls, WriteSession(c)
    PROVE  IndexInv'
<1> DEFINE x == req[c].snap
<1>0. PICK s \in Sids : s = req[c].sid
  BY WriteSessionIs
<1>1. /\ UNCHANGED <<index, backfilled, deaths>> /\ Others(c) /\ Grows
      /\ req[c].at = "set" /\ s \in Sids
      /\ sess'[s] = x /\ \A t \in Sids \ {s} : sess'[t] = sess[t]
      /\ req'[c].at \in {"srem", "sadd"} /\ req'[c].sid = s
      /\ req'[c].admin = req[c].admin
  BY <1>0, WriteSessionIs DEF Grows, SameShort
<1>2. x.tenant = req[c].admin
  <2>1. Fit(req[c])
    BY ReadyReq DEF TypeInv, RequestsOK
  <2> QED BY <1>1, <2>1 DEF Fit
<1> HIDE DEF x
<1>3. AloneStep(c)
  BY <1>0, <1>1 DEF AloneStep, Uses
<1>4. Alone'
  BY <1>1, <1>3, AloneKept DEF IndexInv
<1>5. SwitchActs(c)' /\ Lists(c)'
  BY <1>1, <1>2 DEF SwitchActs, Lists
<1>6. ASSUME NEW d \in Calls, d # c PROVE SwitchActs(d)'
  <2>1. req'[d] = req[d] /\ SwitchActs(d)
    BY <1>1, <1>6 DEF Others, IndexInv
  <2>2. s \notin h'.raced => ~Uses(d, s)
    BY <1>0, <1>1, <1>6 DEF IndexInv, Alone, Uses, Grows
  <2>3. req[d].at \in Switching => req[d].sid \in Sids
    BY ReadyReq DEF TypeInv, RequestsOK, Fit
  <2>4. req[d].ids \subseteq Sids
    BY ReadyReq DEF TypeInv, RequestsOK
  <2>5. ASSUME req[d].at \in {"srem", "sadd"}, req[d].sid \notin h'.raced
        PROVE  sess'[req[d].sid].tenant = req[d].admin
    BY <1>1, <2>1, <2>2, <2>3, <2>5 DEF SwitchActs, Grows, Uses, Switching
  <2>6. ASSUME req[d].at = "stale", NEW t \in req[d].ids \ h'.raced
        PROVE  ~(sess'[t] # None /\ sess'[t].tenant = req[d].admin)
    BY <1>1, <2>1, <2>2, <2>4, <2>6 DEF SwitchActs, Acts, Grows, Uses
  <2> QED BY <2>1, <2>5, <2>6 DEF SwitchActs, Acts
<1>7. Keeps
  <2>1. \A t : Entering(t) => Entering(t)'
    BY <1>1 DEF Entering, Others
  <2>2. Entering(s)'
    BY <1>1 DEF Entering
  <2>3. ASSUME NEW t \in Sids, t # s, NEW a
        PROVE  /\ Acts(t, a)' => Acts(t, a)
               /\ Known(t, a) => Known(t, a)'
    BY <1>1, <2>1, <2>3 DEF Acts, Known
  <2> QED BY <2>2, <2>3 DEF Keeps, Known
<1>8. IndexComplete'
  BY <1>1, <1>7, CompleteKept DEF IndexInv
<1>9. Listings'
  BY <1>1, <1>5, <1>7, ListsKept DEF IndexInv, Listings, Others
<1> QED BY <1>4, <1>5, <1>6, <1>8, <1>9 DEF IndexInv

\* A login makes no tenant; at the end of a session a switch of it raced.
LEMMA IndexSessions ==
    ASSUME IndexInv, ExpireInv, TypeInv, NEW s \in Sids,
           Login(s) \/ EndSession(s)
    PROVE  IndexInv'
<1>1. /\ UNCHANGED <<index, backfilled, req, deaths>> /\ Grows
      /\ sess'[s] = None \/ sess'[s].tenant = None
      /\ \A t \in Sids \ {s} : sess'[t] = sess[t]
      /\ \/ sess[s] = None
         \/ (\E c \in Calls : req[c].sid = s) => s \in h'.raced
  BY LoginIs, EndSessionIs DEF Grows, SameRace, SameShort
<1>2. Alone'
  BY <1>1, AloneKept DEF IndexInv
<1>3. ASSUME NEW d \in Calls PROVE SwitchActs(d)'
  <2>1. req'[d] = req[d] /\ SwitchActs(d) /\ SwitchLives(d)
    BY <1>1 DEF IndexInv, ExpireInv
  <2>2. req[d].at \in Switching => req[d].sid \in Sids
    BY ReadyReq DEF TypeInv, RequestsOK, Fit
  <2>3. /\ req[d].ids \subseteq Sids
        /\ req[d].at = "stale" => req[d].admin \in Admins
    BY ReadyReq DEF TypeInv, RequestsOK, Fit
  <2>4. ASSUME req[d].at \in {"srem", "sadd"}, req[d].sid \notin h'.raced
        PROVE  sess'[req[d].sid].tenant = req[d].admin
    <3>1. req[d].sid \in Sids \ {s}
      BY <1>1, <2>1, <2>2, <2>4 DEF SwitchLives, Grows, Switching
    <3> QED BY <1>1, <2>1, <2>4, <3>1 DEF SwitchActs, Grows
  <2>5. ASSUME req[d].at = "stale", NEW t \in req[d].ids \ h'.raced
        PROVE  ~(sess'[t] # None /\ sess'[t].tenant = req[d].admin)
    BY <1>1, <2>1, <2>3, <2>5, TenantsAssumption DEF SwitchActs, Acts, Grows
  <2> QED BY <2>1, <2>4, <2>5 DEF SwitchActs, Acts
<1>4. Keeps
  <2>1. ASSUME NEW t \in Sids, NEW a \in Admins
        PROVE  /\ Acts(t, a)' => Acts(t, a)
               /\ Known(t, a) => Known(t, a)'
    BY <1>1, TenantsAssumption DEF Acts, Known, Entering
  <2> QED BY <2>1 DEF Keeps
<1>5. IndexComplete'
  BY <1>1, <1>4, CompleteKept DEF IndexInv
<1>6. Listings'
  BY <1>1, <1>4, ListsKept DEF IndexInv, Listings
<1> QED BY <1>2, <1>3, <1>5, <1>6 DEF IndexInv

\* A session that is put back acts for whom it acted for, or raced.
LEMMA IndexPutBack ==
    ASSUME IndexInv, TypeInv, OwedOK, NEW w \in owed, PutBack(w)
    PROVE  IndexInv'
<1> DEFINE s == w[1]
           x == w[2]
<1>1. /\ UNCHANGED <<index, backfilled, req, deaths>> /\ Grows
      /\ x # None /\ sess'[s].tenant = x.tenant
      /\ sess[s] = x \/ s \in h'.raced
      /\ \A t \in Sids \ {s} : sess'[t] = sess[t]
  BY PutBackIs DEF Grows, SameShort
<1> HIDE DEF s, x
<1>2. ASSUME NEW t \in Sids \ h'.raced
      PROVE  /\ sess'[t].tenant = sess[t].tenant
             /\ sess'[t] # None => sess[t] # None
  BY <1>1, <1>2
<1>3. Alone'
  BY <1>1, AloneKept DEF IndexInv
<1>4. ASSUME NEW d \in Calls PROVE SwitchActs(d)'
  <2>1. req'[d] = req[d] /\ SwitchActs(d)
    BY <1>1 DEF IndexInv
  <2>2. /\ req[d].at \in Switching => req[d].sid \in Sids
        /\ req[d].ids \subseteq Sids
    BY ReadyReq DEF TypeInv, RequestsOK, Fit
  <2>3. ASSUME req[d].at \in {"srem", "sadd"}, req[d].sid \notin h'.raced
        PROVE  sess'[req[d].sid].tenant = req[d].admin
    <3>1. sess[req[d].sid].tenant = req[d].admin
      BY <1>1, <2>1, <2>3 DEF SwitchActs, Grows
    <3> QED BY <1>2, <2>2, <2>3, <3>1 DEF Switching
  <2>4. ASSUME req[d].at = "stale", NEW t \in req[d].ids \ h'.raced
        PROVE  ~(sess'[t] # None /\ sess'[t].tenant = req[d].admin)
    <3>1. ~(sess[t] # None /\ sess[t].tenant = req[d].admin)
      BY <1>1, <2>1, <2>4 DEF SwitchActs, Acts, Grows
    <3> QED BY <1>2, <2>2, <2>4, <3>1
  <2> QED BY <2>1, <2>3, <2>4 DEF SwitchActs, Acts
<1>5. Keeps
  <2>1. ASSUME NEW t \in Sids \ h'.raced, NEW a \in Admins
        PROVE  /\ Acts(t, a)' => Acts(t, a)
               /\ Known(t, a) => Known(t, a)'
    BY <1>1, <1>2 DEF Acts, Known, Entering
  <2> QED BY <2>1 DEF Keeps
<1>6. IndexComplete'
  BY <1>1, <1>5, CompleteKept DEF IndexInv
<1>7. Listings'
  BY <1>1, <1>5, ListsKept DEF IndexInv, Listings
<1> QED BY <1>3, <1>4, <1>6, <1>7 DEF IndexInv

\* The session leaves the index of the admin it does not act for any more.
LEMMA IndexLeave ==
    ASSUME IndexInv, TypeInv, NEW c \in Calls, LeaveIndex(c)
    PROVE  IndexInv'
<1> DEFINE r == req[c]
<1>1. /\ UNCHANGED <<sess, backfilled, deaths, h>> /\ Others(c) /\ Grows
      /\ r.at = "srem" /\ r.old \in Admins
      /\ index'[r.old] = index[r.old] \ {r.sid}
      /\ \A b \in Admins \ {r.old} : index'[b] = index[b]
  BY LeaveIndexIs, GrowsStill
<1>2. \/ r.admin = None /\ req'[c] = Idle
      \/ /\ req'[c].at = "sadd" /\ req'[c].admin = r.admin
         /\ req'[c].sid = r.sid
  BY LeaveIndexIs
<1>3. r.sid \in Sids /\ r.old # r.admin
  <2>1. Fit(req[c])
    BY ReadyReq DEF TypeInv, RequestsOK
  <2> QED BY <1>1, <2>1 DEF Fit, Switching
<1>4. r.sid \notin h.raced => sess[r.sid].tenant = r.admin
  BY <1>1 DEF IndexInv, SwitchActs
<1>5. AloneStep(c) /\ SwitchActs(c)' /\ Lists(c)'
  <2>1. CASE req'[c] = Idle
    BY <2>1, NothingKnown
  <2>2. CASE req'[c] # Idle
    <3>1. AloneStep(c)
      BY <1>2, <2>2 DEF AloneStep, Uses
    <3>2. SwitchActs(c)'
      BY <1>1, <1>2, <1>4, <2>2 DEF SwitchActs
    <3>3. Lists(c)'
      BY <1>2, <2>2 DEF Lists
    <3> QED BY <3>1, <3>2, <3>3
  <2> QED BY <2>1, <2>2
<1>6. Keeps
  <2>1. ASSUME NEW t \in Sids \ h'.raced, NEW a \in Admins, Acts(t, a),
               Known(t, a)
        PROVE  Known(t, a)'
    <3>1. CASE t = r.sid
      <4>1. a = r.admin
        BY <1>1, <1>4, <2>1, <3>1 DEF Acts
      <4>2. req'[c].at = "sadd" /\ req'[c].sid = t
        BY <1>2, <3>1, <4>1, TenantsAssumption
      <4> QED BY <4>2 DEF Known, Entering
    <3>2. CASE t # r.sid
      <4>1. Entering(t) => Entering(t)'
        BY <1>1, <3>2 DEF Entering, Others
      <4> QED BY <1>1, <2>1, <3>2, <4>1 DEF Known
    <3> QED BY <3>1, <3>2
  <2>2. \A t, a : Acts(t, a)' => Acts(t, a)
    BY <1>1 DEF Acts
  <2> QED BY <2>1, <2>2 DEF Keeps
<1> QED BY <1>1, <1>5, <1>6, IndexKept

\* And enters the index of the one it acts for.
LEMMA IndexEnter ==
    ASSUME IndexInv, TypeInv, NEW c \in Calls, EnterIndex(c)
    PROVE  IndexInv'
<1> DEFINE r == req[c]
<1>1. /\ UNCHANGED <<sess, backfilled, deaths, h>> /\ Others(c) /\ Grows
      /\ r.at = "sadd" /\ r.admin \in Admins
      /\ index'[r.admin] = index[r.admin] \cup {r.sid}
      /\ \A b \in Admins \ {r.admin} : index'[b] = index[b]
  BY EnterIndexIs, GrowsStill
<1>2. req'[c] = Idle \/ (req'[c].at = "expire" /\ req'[c].sid = r.sid)
  BY EnterIndexIs
<1>3. r.sid \notin h.raced => sess[r.sid].tenant = r.admin
  BY <1>1 DEF IndexInv, SwitchActs
<1>4. AloneStep(c) /\ SwitchActs(c)' /\ Lists(c)'
  BY <1>2, NothingKnown DEF Knowing
<1>5. Keeps
  <2>1. ASSUME NEW t \in Sids \ h'.raced, NEW a \in Admins, Acts(t, a),
               Known(t, a)
        PROVE  Known(t, a)'
    <3>1. CASE t = r.sid
      BY <1>1, <1>3, <2>1, <3>1 DEF Acts, Known
    <3>2. CASE t # r.sid
      <4>1. Entering(t) => Entering(t)'
        BY <1>1, <3>2 DEF Entering, Others
      <4> QED BY <1>1, <2>1, <4>1 DEF Known
    <3> QED BY <3>1, <3>2
  <2>2. \A t, a : Acts(t, a)' => Acts(t, a)
    BY <1>1 DEF Acts
  <2> QED BY <2>1, <2>2 DEF Keeps
<1> QED BY <1>1, <1>4, <1>5, IndexKept

\* A listing reads the index: it races with the switches of what it found.
LEMMA IndexRead ==
    ASSUME IndexInv, TypeInv, NEW c \in Calls, NEW a \in Admins,
           ReadIndex(c, a)
    PROVE  IndexInv'
<1>1. RequestsOK /\ StoreOK
  BY DEF TypeInv, StoreOK
<1>2. /\ UNCHANGED <<sess, index, backfilled, deaths>> /\ Grows
      /\ index[a] \cap InUse(c) \subseteq h'.raced
  BY ReadIndexStarts DEF redis, Grows, SameShort
<1>3. /\ Others(c) /\ req[c] = Idle
      /\ req'[c].at \in {"exists", "mget"}
      /\ req'[c].ids = index[a] /\ req'[c].sid = None
  BY <1>1, ReadIndexIs
<1>4. AloneStep(c)
  <2>1. \A s \in Sids : Uses(c, s)' => s \in index[a]
    BY <1>3, TenantsAssumption DEF Uses
  <2> QED BY <1>2, <2>1, InUseIs DEF AloneStep
<1>5. SwitchActs(c)' /\ Lists(c)'
  BY <1>3 DEF SwitchActs, Lists
<1>6. Keeps
  BY <1>2, <1>3, IdleIs, KeepsPlain
<1> QED BY <1>2, <1>3, <1>4, <1>5, <1>6, IndexKept

\* What a listing that reads sessions does to what it knows.
LEMMA IndexListed ==
    ASSUME IndexInv, TypeInv, NEW c \in Calls,
           \/ ReadSessions(c) \/ CheckBackfilled(c) \/ Scan(c) \/ ReadPage(c)
    PROVE  IndexInv'
<1>0. /\ req[c].sid \in Sids \cup {None}
      /\ req[c].at \notin Switching => req[c].sid = None
  BY ReadyReq DEF TypeInv, RequestsOK, Fit
<1>1. ASSUME NEW l, NEW S, Listed(c, l, S),
             req[c].at \notin {"srem", "sadd"},
             l \in {"mget", "stale"} =>
                 req[c].at = "mget" /\ S \subseteq req[c].ids,
             SwitchActs(c)', deaths = 0 => Lists(c)'
      PROVE  IndexInv'
  <2>1. /\ UNCHANGED <<sess, index, backfilled, deaths, h>> /\ Others(c)
        /\ req'[c].at = l /\ req'[c].ids = S /\ req'[c].sid = None
    BY <1>1 DEF Listed, redis
  <2>2. AloneStep(c)
    BY <1>1, <2>1, TenantsAssumption DEF AloneStep, Uses
  <2>3. Keeps
    BY <1>1, <2>1, KeepsPlain
  <2> QED BY <1>1, <2>1, <2>2, <2>3, GrowsStill, IndexKept
<1>2. CASE ReadSessions(c)
  <2> DEFINE S == req[c].ids \ ActFor(req[c].admin, req[c].ids)
  <2>1. req[c].at = "mget"
    BY <1>2, ReadSessionsIs
  <2>2. PICK l \in {"exists", "stale"} : Listed(c, l, S)
    BY <1>2, ReadSessionsIs
  <2>3. \A s \in S : ~Acts(s, req[c].admin)
    BY DEF ActFor, Acts
  <2> HIDE DEF S
  <2>4. S \subseteq req[c].ids
    BY DEF S
  <2>5. SwitchActs(c)' /\ Lists(c)'
    BY <2>2, <2>3 DEF Listed, SwitchActs, Lists, Acts, redis
  <2> QED BY <1>1, <2>1, <2>2, <2>4, <2>5
<1>3. CASE Scan(c)
  <2> DEFINE S == {s \in Sids : sess[s] # None}
  <2>1. req[c].at = "scan" /\ Listed(c, "read", S)
    BY <1>3, ScanIs
  <2>2. /\ req'[c].at = "read" /\ req'[c].ids = S
        /\ UNCHANGED sess
    BY <2>1 DEF Listed, redis
  <2>3. \A a : \A s \in Sids : Acts(s, a)' => s \in S
    BY <2>2 DEF Acts
  <2> HIDE DEF S
  <2>4. SwitchActs(c)' /\ Lists(c)'
    BY <2>2, <2>3 DEF SwitchActs, Lists
  <2> QED BY <1>1, <2>1, <2>4
<1>4. CASE ReadPage(c)
  <2> DEFINE S == ActFor(req[c].admin, req[c].ids)
  <2>0. PICK a : a = req[c].admin
    OBVIOUS
  <2>1. /\ req[c].at = "read"
        /\ (Listed(c, "flag", S) /\ S = {}) \/ Listed(c, "backfill", S)
    BY <1>4, ReadPageIs
  <2>2. PICK l \in {"flag", "backfill"} :
            Listed(c, l, S) /\ (l = "flag" => S = {})
    BY <2>1
  <2>3. /\ req'[c].at = l /\ req'[c].ids = S /\ req'[c].admin = a
        /\ Others(c) /\ UNCHANGED <<sess, index, h>>
    BY <2>0, <2>2 DEF Listed, redis
  <2>4. \A s \in Sids : Entering(s) => Entering(s)'
    BY <2>1, <2>3 DEF Entering, Others
  <2>5. \A s \in Sids \ h.raced :
            Acts(s, a) /\ s \in req[c].ids => s \in S
    BY <2>0 DEF Acts, ActFor
  <2>6. deaths = 0 => Lists(c)
    BY DEF IndexInv, Listings
  <2> HIDE DEF S
  <2>7. ASSUME deaths = 0, a \notin h.shortened,
               NEW s \in Sids \ h.raced, Acts(s, a)
        PROVE  Known(s, a)' \/ s \in S
    <3>1. Known(s, a) \/ s \in req[c].ids
      BY <2>0, <2>1, <2>6, <2>7 DEF Lists
    <3>2. (s \in index[a] => s \in index'[a]) /\ (Entering(s) => Entering(s)')
      BY <2>3, <2>4
    <3>3. Known(s, a) => s \in index'[a] \/ Entering(s)'
      BY <3>2 DEF Known
    <3> QED BY <2>5, <2>7, <3>1, <3>3 DEF Known
  <2>8. SwitchActs(c)'
    BY <2>3 DEF SwitchActs
  <2>9. deaths = 0 => Lists(c)'
    BY <2>2, <2>3, <2>7 DEF Lists, Acts, Known
  <2> QED BY <1>1, <2>1, <2>2, <2>8, <2>9
<1>5. CASE CheckBackfilled(c)
  <2>1. /\ UNCHANGED <<sess, index, backfilled, deaths, h>> /\ Others(c)
        /\ req[c].at = "exists"
        /\ \/ req'[c] = Idle
           \/ req'[c].at = "scan" /\ req'[c].sid = None
    BY <1>5, CheckBackfilledIs DEF redis
  <2> QED BY <2>1, GrowsStill, IndexPlain DEF Knowing
<1> QED BY <1>2, <1>3, <1>4, <1>5

\* What a listing takes out of an index does not act for the admin; what it
\* puts in, it misses no more.
LEMMA IndexListing ==
    ASSUME IndexInv, TypeInv, NEW c \in Calls, RemoveStale(c) \/ Backfill(c)
    PROVE  IndexInv'
<1>1. CASE RemoveStale(c)
  <2> DEFINE r == req[c]
  <2>1. /\ UNCHANGED <<sess, backfilled, deaths, h>> /\ Others(c) /\ Grows
        /\ r.at = "stale" /\ r.admin \in Admins
        /\ index'[r.admin] = index[r.admin] \ r.ids
        /\ \A b \in Admins \ {r.admin} : index'[b] = index[b]
        /\ req'[c].at = "exists" /\ req'[c].sid = None
    BY <1>1, RemoveStaleIs, GrowsStill
  <2>2. \A s \in r.ids \ h.raced : ~Acts(s, r.admin)
    BY <2>1 DEF IndexInv, SwitchActs
  <2>3. AloneStep(c) /\ SwitchActs(c)' /\ Lists(c)'
    BY <2>1, NothingKnown DEF Knowing
  <2>4. \A s : Entering(s) => Entering(s)'
    BY <2>1 DEF Entering, Others
  <2>5. ASSUME NEW s \in Sids \ h'.raced, NEW a \in Admins, Acts(s, a)'
        PROVE  Acts(s, a) /\ (Known(s, a) => Known(s, a)')
    <3>1. Acts(s, a)
      BY <2>1, <2>5 DEF Acts
    <3>2. s \in index[a] => s \in index'[a]
      BY <2>1, <2>2, <2>5, <3>1
    <3> QED BY <2>4, <3>1, <3>2 DEF Known
  <2>6. Keeps
    BY <2>5 DEF Keeps
  <2> QED BY <2>1, <2>3, <2>6, IndexKept
<1>2. CASE Backfill(c)
  <2>0. PICK a : a = req[c].admin
    OBVIOUS
  <2>1. /\ UNCHANGED <<sess, backfilled, deaths, h>> /\ Others(c) /\ Grows
        /\ req[c].at = "backfill" /\ a \in Admins
        /\ index'[a] = index[a] \cup req[c].ids
        /\ \A b \in Admins \ {a} : index'[b] = index[b]
        /\ req'[c].at = "flag" /\ req'[c].admin = a /\ req'[c].sid = None
    BY <1>2, <2>0, BackfillIs, GrowsStill
  <2>2. \A s : Entering(s) => Entering(s)'
    BY <2>1 DEF Entering, Others
  <2>3. ASSUME NEW s, NEW b \in Admins, Known(s, b) PROVE Known(s, b)'
    BY <2>1, <2>2, <2>3 DEF Known
  <2>4. \A s, b : Acts(s, b)' => Acts(s, b)
    BY <2>1 DEF Acts
  <2>5. Keeps
    BY <2>3, <2>4 DEF Keeps
  <2>6. deaths = 0 => Lists(c)
    BY DEF IndexInv, Listings
  <2>7. ASSUME deaths = 0, a \notin h.shortened,
               NEW s \in Sids \ h.raced, Acts(s, a)
        PROVE  Known(s, a)'
    <3>1. Known(s, a) \/ s \in req[c].ids
      BY <2>0, <2>1, <2>6, <2>7 DEF Lists
    <3>2. s \in req[c].ids => s \in index'[a]
      BY <2>1
    <3> QED BY <2>1, <2>3, <3>1, <3>2 DEF Known
  <2>8. deaths = 0 => Lists(c)'
    BY <2>1, <2>4, <2>7 DEF Lists, Known
  <2>9. AloneStep(c) /\ SwitchActs(c)'
    <3>1. \A s \in Sids : ~Uses(c, s)'
      BY <2>1, TenantsAssumption DEF Uses
    <3>2. SwitchActs(c)'
      BY <2>1 DEF SwitchActs
    <3> QED BY <3>1, <3>2 DEF AloneStep
  <2> QED BY <2>1, <2>5, <2>8, <2>9, IndexKept
<1> QED BY <1>1, <1>2

\* An index that counts as filled misses no session; a request that dies may
\* lose one, for good.
LEMMA IndexEnds ==
    ASSUME IndexInv, TypeInv, NEW c \in Calls,
           FlagBackfilled(c) \/ Die(c) \/ ExpireIndex(c)
    PROVE  IndexInv'
<1>1. CASE ExpireIndex(c)
  BY <1>1, ExpireIndexIs, GrowsStill, IndexPlain
<1>2. ASSUME UNCHANGED <<sess, h>>, Others(c), req'[c] = Idle
      PROVE  Alone' /\ Grows /\ \A d \in Calls : SwitchActs(d)'
  <2>1. AloneStep(c) /\ SwitchActs(c)' /\ Grows
    BY <1>2, NothingKnown, GrowsStill
  <2>2. \A d \in Calls \ {c} : SwitchActs(d)'
    BY <1>2, <2>1, ActsKept DEF IndexInv, Others
  <2>3. Alone'
    BY <1>2, <2>1, AloneKept DEF IndexInv
  <2> QED BY <2>1, <2>2, <2>3
<1>3. CASE FlagBackfilled(c)
  <2>1. /\ UNCHANGED <<sess, index, deaths, h>> /\ Others(c)
        /\ req[c].at = "flag" /\ req'[c] = Idle
        /\ backfilled' = backfilled \cup {req[c].admin}
    BY <1>3, FlagBackfilledIs DEF members
  <2>2. Alone' /\ Grows /\ \A d \in Calls : SwitchActs(d)'
    BY <1>2, <2>1
  <2>3. Keeps
    BY <2>1, KeepsPlain
  <2>4. Listings'
    <3>1. Lists(c)'
      BY <2>1, NothingKnown
    <3> QED BY <2>1, <2>2, <2>3, <3>1, ListsKept DEF IndexInv, Listings, Others
  <2>5. ASSUME deaths = 0, NEW a \in backfilled' \ h.shortened,
               NEW s \in Sids \ h.raced, Acts(s, a)
        PROVE  Known(s, a)
    <3>1. CASE a \in backfilled
      BY <2>5, <3>1 DEF IndexInv, IndexComplete, Acts, Known, Entering
    <3>2. CASE a = req[c].admin
      BY <2>1, <2>5, <3>2 DEF IndexInv, Listings, Lists
    <3> QED BY <2>1, <3>1, <3>2
  <2>6. \A s : Entering(s) => Entering(s)'
    BY <2>1 DEF Entering, Others
  <2>7. ASSUME deaths' = 0, NEW a \in (backfilled \ h.shortened)',
               NEW s \in (Sids \ h.raced)', Acts(s, a)'
        PROVE  Known(s, a)'
    <3>1. Known(s, a)
      BY <2>1, <2>5, <2>7 DEF Acts
    <3> QED BY <2>1, <2>6, <3>1 DEF Known
  <2>8. IndexComplete'
    BY <2>7 DEF IndexComplete, Acts, Known, Entering
  <2> QED BY <2>2, <2>4, <2>8 DEF IndexInv
<1>4. CASE Die(c)
  <2>1. UNCHANGED <<sess, h>> /\ Others(c) /\ req'[c] = Idle /\ deaths' # 0
    BY <1>4, DieIs DEF redis
  <2>2. Alone' /\ \A d \in Calls : SwitchActs(d)'
    BY <1>2, <2>1
  <2> QED BY <2>1, <2>2 DEF IndexInv, IndexComplete, Listings
<1> QED BY <1>1, <1>3, <1>4

\* An index that expires is not complete any more.
LEMMA IndexShortened ==
    ASSUME IndexInv, TypeInv, NEW a \in Admins, IndexExpires(a)
    PROVE  IndexInv'
<1>1. /\ UNCHANGED <<sess, backfilled, req, deaths>>
      /\ \A b \in Admins \ {a} : index'[b] = index[b]
      /\ h'.shortened = h.shortened \cup {a} /\ Grows
  BY IndexExpiresIs DEF Grows, SameRace
<1>2. Keeps
  BY <1>1 DEF Keeps, Acts, Known, Entering
<1> QED BY <1>1, <1>2, IndexKept

\* No step loses a session that acts for an admin, but for a race, a death and
\* the end of an index.
LEMMA IndexInvStep ==
    ASSUME IndexInv, ExpireInv, TypeInv, OwedOK, [Next]_vars
    PROVE  IndexInv'
<1>1. CASE UNCHANGED vars \/ Aside
  <2>1. UNCHANGED <<redis, req, deaths, h>>
    BY <1>1, AsideIs DEF vars, redis
  <2> QED BY <2>1, IndexStill, GrowsStill DEF redis
<1>2. ASSUME NEW a \in Admins, NEW k \in Keys,
             Resend(a, k) \/ InvitationExpires(a, k)
      PROVE  IndexInv'
  BY <1>2, ValidIs, IndexStill, GrowsStill DEF redis
<1>3. ASSUME NEW r \in Roles, EditRole(r) PROVE IndexInv'
  <2>1. UNCHANGED <<redis, req, deaths>> /\ Grows
    BY <1>3, EditRoleIs DEF Grows, SameShort
  <2> QED BY <2>1, IndexStill DEF redis
<1>4. ASSUME NEW c \in Calls, NEW a \in Admins, Delete(c, a) PROVE IndexInv'
  <2>1. CASE docs[a][Key] = None
    BY <1>4, <2>1, DeleteNothingIs, IndexStill, GrowsStill DEF redis
  <2>2. CASE docs[a][Key] # None
    BY <1>4, <2>2, AskedSteps, IndexMembers
  <2> QED BY <2>1, <2>2
<1>5. ASSUME NEW c \in Calls, NEW a \in Admins,
             \/ \E r \in Roles : Invite(c, a, r) \/ Attach(c, a, r)
             \/ \E k \in Keys : Accept(c, a, k)
      PROVE  IndexInv'
  BY <1>5, AskedSteps, IndexMembers
<1>6. ASSUME NEW c \in Calls,
             \/ CreateInvite(c) \/ AcceptWrite(c) \/ DeleteDoc(c)
             \/ AttachWrite(c)
      PROVE  IndexInv'
  BY <1>6, IndexMembers
<1>7. ASSUME NEW c \in Calls,
             \/ LeaveIndex(c) \/ EnterIndex(c) \/ ExpireIndex(c)
             \/ \E a \in Admins : ReadIndex(c, a)
             \/ ReadSessions(c) \/ RemoveStale(c) \/ CheckBackfilled(c)
             \/ Scan(c) \/ ReadPage(c) \/ Backfill(c) \/ FlagBackfilled(c)
             \/ Die(c)
      PROVE  IndexInv'
  BY <1>7, IndexLeave, IndexEnter, IndexRead, IndexListed, IndexListing,
     IndexEnds
<1> QED
  BY <1>1, <1>2, <1>3, <1>4, <1>5, <1>6, <1>7, IndexSwitch, IndexWrite,
     IndexSessions, IndexPutBack, IndexShortened
  DEF Next, Aside

\* Once an index has been filled it lists every session that acts for the
\* admin, but for one whose switch is not done, or raced with a listing, with
\* another switch, or with a refresh that put back the tenant it had left, as
\* long as no request dies and no index expires.
THEOREM IndexIsComplete == Spec => []IndexComplete
<1>1. ExpireInv /\ TypeInv /\ OwedOK /\ [Next]_vars => ExpireInv'
  BY ExpireInvStep
<1>2. IndexInv /\ ExpireInv /\ TypeInv /\ OwedOK /\ [Next]_vars => IndexInv'
  BY IndexInvStep
<1>3. IndexInv => IndexComplete
  BY DEF IndexInv
<1> QED
  BY ExpireInvInit, IndexInvInit, <1>1, <1>2, <1>3, TypeInvariant, PTL
  DEF Spec
=============================================================================
