------------------------------ MODULE Services ------------------------------
(***************************************************************************)
(* The services (apps) of one admin: app-auth.service.ts, the pages of     *)
(* webpage-config.service.ts, and the Redis entries both keep of services. *)
(*                                                                         *)
(* A service is a document, a secret in the KMS vault, a vault and a       *)
(* database of its own, made and deleted one await after the other; a KYC  *)
(* service depends on an SSI service.  What tokens refer to is a copy of   *)
(* the document in Redis, of which there is one per kind of client; an     *)
(* update reads the copies, changes them and writes them back.  To go to   *)
(* production a service has to have a verified domain, for which an update *)
(* asks the DNS and issues a credential that links the two.                *)
(***************************************************************************)
EXTENDS Integers

CONSTANTS
    SsiApps, KycApps,  \* services, each created once
    Domains,           \* the domains a service may be said to have
    Calls,             \* the requests in progress
    MaxFaults,         \* bound: requests that die, errors swallowed
    None               \* no document, no copy, no service

ASSUME ServicesAssumption ==
    /\ SsiApps \cap KycApps = {}
    /\ None \notin SsiApps \cup KycApps \cup Domains
    /\ "keep" \notin Domains
    /\ MaxFaults \in Nat

Apps == SsiApps \cup KycApps
Envs == {"dev", "prod"}

\* The copies of a service: under its id (pages), for customers, for its
\* admin in the dashboard, for another user there: a tenant, or a super admin
\* whose service it is not.  Those of other users are keyed by their user ids.
Slots == {"service", "customer", "dashboard", "other"}

\* Those whose keys updateAppRedis and deleteApp know.
KnownSlots == Slots \ {"other"}

VARIABLES
    doc,    \* the document of each service
    site,   \* in it: the domain, and the one its linkage credential names
    kms,    \* the services whose secret is in the KMS vault
    edv,    \* the services that have a vault
    data,   \* the services that have a database
    pages,  \* the KYC services with a page
    cache,  \* Redis: the copies of each service
    req,    \* what each request is at, and knows
    faults, \* how many there were so far
    h       \* history, see History

vars == <<doc, site, kms, edv, data, pages, cache, req, faults, h>>
vaults == <<kms, edv>>

Doc == [env : Envs, dep : SsiApps \cup {None}]
Copy == [env : Envs, ttl : BOOLEAN]
Site == [domain : Domains \cup {None}, linked : Domains \cup {None}]
NoSite == [domain |-> None, linked |-> None]

\* What stands for "none" is nothing a variable holds.
ASSUME NoneAssumption == None \notin Doc \cup Copy \cup Envs \cup {"keep"}

\* What an update can write: of a domain, also that it stays.
SiteUpdate == [domain : Domains \cup {None, "keep"}, linked : Domains \cup {None}]

Creating == {"keys", "vault", "insert"}
Updating == {"dns", "update", "dependent", "get", "set"}
Deleting == {"check", "decrypt", "register", "unvault", "forget", "drop",
             "unpage", "delete", "clear"}
\* Once the vault is gone there is no way back.
Doomed == {"forget", "drop", "unpage", "delete"}
Granting == {"lookup", "find", "store"}

\* app: the service worked on; main: the one the request is about, if it goes
\* on from it to the service it depends on, dep; env: as read or to be
\* written, None if it stays; site: to be written; had: the copies read.
Idle == [at |-> "idle", app |-> None, main |-> None, dep |-> None,
         env |-> "dev", site |-> NoSite, slot |-> "service", had |-> {}]

History == [used : SUBSET Apps,      \* ids given to services
            deleted : SUBSET Apps,   \* the admin was told it is deleted
            undropped : SUBSET Apps, \* dropping its database failed
            cut : SUBSET Apps,       \* a deletion of it died on the way
            linking : SUBSET Apps,   \* linked when it was not there, or was
                                     \* being deleted
            crossed : SUBSET Apps,   \* a request wrote a copy of it while
                                     \* another changed or deleted it
            lapsed : SUBSET Apps,    \* a copy expired before it was rewritten
            moved : SUBSET Apps]     \* its domain was sent without
                                     \* hasDomainVerified

TypeOK ==
    /\ doc \in [Apps -> Doc \cup {None}]
    /\ site \in [Apps -> Site]
    /\ kms \subseteq Apps /\ edv \subseteq Apps /\ data \subseteq Apps
    /\ pages \subseteq KycApps
    /\ cache \in [Apps -> [Slots -> Copy \cup {None}]]
    /\ req \in [Calls -> [at : {"idle"} \cup Creating \cup Updating
                                 \cup Deleting \cup Granting,
                          app : Apps \cup {None}, main : Apps \cup {None},
                          dep : SsiApps \cup {None}, env : Envs \cup {None},
                          site : SiteUpdate, slot : Slots, had : SUBSET Slots]]
    /\ faults \in 0..MaxFaults
    /\ h \in History

Init ==
    /\ doc = [a \in Apps |-> None]
    /\ site = [a \in Apps |-> NoSite]
    /\ kms = {} /\ edv = {} /\ data = {} /\ pages = {}
    /\ cache = [a \in Apps |-> [s \in Slots |-> None]]
    /\ req = [c \in Calls |-> Idle]
    /\ faults = 0
    /\ h = [used |-> {}, deleted |-> {}, undropped |-> {}, cut |-> {},
            linking |-> {}, crossed |-> {}, lapsed |-> {}, moved |-> {}]

-----------------------------------------------------------------------------
(* Control of a request.                                                   *)

At(a, labels) == \E c \in Calls : req[c].app = a /\ req[c].at \in labels
Touches(c, a) == a \in {req[c].app, req[c].main, req[c].dep}
Busy(a, labels) == \E c \in Calls : Touches(c, a) /\ req[c].at \in labels

Start(c, r) == req[c] = Idle /\ req' = [req EXCEPT ![c] = r]
Done(c) == req' = [req EXCEPT ![c] = Idle]
Goto(c, label) == req' = [req EXCEPT ![c].at = label]

\* The services of A that others work on with one of the labels when c starts.
Crossing(c, A, labels) == {a \in A : \E d \in Calls \ {c} :
                                        Touches(d, a) /\ req[d].at \in labels}

\* A copy that a request has read and is about to write back.
Held(a, S) == \E c \in Calls : /\ req[c].app = a
                               /\ req[c].at \in {"set", "find", "store"}
                               /\ req[c].had \cap S # {}

-----------------------------------------------------------------------------
(* createAnApp.                                                            *)

\* There is nothing, or soon will be nothing, to depend on.
Leaving(dep) == dep # None /\ (doc[dep] = None \/ At(dep, Deleting))

\* A KYC service names the SSI service it depends on, which nothing looks up.
CreateAnApp(c, a, dep) ==
    /\ a \notin h.used
    /\ a \in KycApps <=> dep # None
    /\ Start(c, [Idle EXCEPT !.at = "keys", !.app = a, !.dep = dep])
    /\ h' = [h EXCEPT !.used = @ \cup {a},
                      !.linking = IF Leaving(dep) THEN @ \cup {dep} ELSE @]
    /\ UNCHANGED <<doc, site, vaults, data, pages, cache, faults>>

\* Mutant: an error of the vault is swallowed.
Mutant_InsertKeys(c) ==
    /\ req[c].at = "keys"
    /\ kms' \in {kms, kms \cup {req[c].app}}
    /\ Goto(c, "vault")
    /\ UNCHANGED <<doc, site, edv, data, pages, cache, faults, h>>

InsertKeys(c) ==
    /\ req[c].at = "keys"
    /\ kms' = kms \cup {req[c].app}
    /\ Goto(c, "vault")
    /\ UNCHANGED <<doc, site, edv, data, pages, cache, faults, h>>

CreateVault(c) ==
    /\ req[c].at = "vault"
    /\ edv' = edv \cup {req[c].app}
    /\ Goto(c, "insert")
    /\ UNCHANGED <<doc, site, kms, data, pages, cache, faults, h>>

\* The document; with it the service can be used and gets its database.  A
\* domain it is made with is not verified.
CreateDoc(c) ==
    /\ req[c].at = "insert"
    /\ doc' = [doc EXCEPT ![req[c].app] = [env |-> "dev", dep |-> req[c].dep]]
    /\ \E domain \in Domains \cup {None} :
          site' = [site EXCEPT ![req[c].app] = [NoSite EXCEPT !.domain = domain]]
    /\ data' = data \cup {req[c].app}
    /\ Done(c)
    /\ UNCHANGED <<vaults, pages, cache, faults, h>>

-----------------------------------------------------------------------------
(* updateAnApp.                                                            *)

\* Mutant: the domain may be updated once it is verified.
Mutant_Kept(a, verified) == FALSE

\* The domain in the document is not updated.
Kept(a, verified) == verified /\ site[a].linked # None

\* The controller has read the document; a new env goes on to the service it
\* depends on.  The request may leave out env (None), the domain ("keep"),
\* hasDomainVerified and issuerDid, but for production not the first three.
UpdateAnApp(c, a, env, domain, verified, did) ==
    LET linked == site[a].linked # None
        dep == IF env \notin {None, doc[a].env} THEN doc[a].dep ELSE None
        label == IF env = "prod" /\ verified /\ did /\ ~linked
                 THEN "dns" ELSE "update"
        new == IF Kept(a, verified) THEN site[a].domain ELSE domain
    IN  /\ env = "prod" => domain \in Domains /\ verified
        /\ doc[a] # None
        /\ Start(c, [Idle EXCEPT !.at = label, !.app = a, !.main = a,
                      !.dep = dep, !.env = env, !.site.domain = new])
        /\ h' = [h EXCEPT
              !.crossed = @ \cup Crossing(c, {a, dep} \ {None},
                                         Updating \cup Deleting \cup Granting),
              !.moved = IF ~verified /\ domain # "keep" /\ linked
                        THEN @ \cup {a} ELSE @]
        /\ UNCHANGED <<doc, site, vaults, data, pages, cache, faults>>

\* verifyDNS01Validation: without the right TXT record the update is refused,
\* else a credential links the domain.
VerifyDns(c) ==
    /\ req[c].at = "dns"
    /\ \/ Done(c)
       \/ req' = [req EXCEPT ![c].at = "update",
                            ![c].site.linked = req[c].site.domain]
    /\ UNCHANGED <<doc, site, vaults, data, pages, cache, faults, h>>

\* A KYC service may be linked to another SSI service, or to none.
UpdateDoc(c) ==
    LET a == req[c].app
        env == IF req[c].env = None THEN doc[a].env ELSE req[c].env
        new == req[c].site
    IN  /\ req[c].at = "update"
        /\ IF doc[a] = None
           THEN Done(c) /\ UNCHANGED <<doc, site, h>>
           ELSE /\ \E dep \in IF a \in KycApps THEN SsiApps \cup {None}
                                            ELSE {None} :
                      /\ doc' = [doc EXCEPT ![a] = [env |-> env, dep |-> dep]]
                      /\ h' = IF dep # doc[a].dep /\ Leaving(dep)
                              THEN [h EXCEPT !.linking = @ \cup {dep}] ELSE h
                /\ site' = [site EXCEPT
                      ![a].domain = IF new.domain = "keep" THEN @ ELSE new.domain,
                      ![a].linked = IF new.linked = None THEN @ ELSE new.linked]
                /\ req' = [req EXCEPT
                      ![c].at = IF req[c].dep = None THEN "get" ELSE "dependent",
                      ![c].env = env, ![c].site = NoSite]
        /\ UNCHANGED <<vaults, data, pages, cache, faults>>

\* updateDependentServicesEnv, document and copies.
UpdateDependent(c) ==
    LET d == req[c].dep IN
    /\ req[c].at = "dependent"
    /\ doc' = IF doc[d] = None THEN doc
              ELSE [doc EXCEPT ![d].env = req[c].env]
    /\ req' = [req EXCEPT ![c].at = "get", ![c].app = d]
    /\ UNCHANGED <<site, vaults, data, pages, cache, faults, h>>

\* updateAppRedis: the copies there are.
GetCopies(c) ==
    /\ req[c].at = "get"
    /\ req' = [req EXCEPT ![c].at = "set",
                ![c].had = {s \in KnownSlots : cache[req[c].app][s] # None}]
    /\ UNCHANGED <<doc, site, vaults, data, pages, cache, faults, h>>

\* SET with KEEPTTL: a copy that is gone by now comes back without one.
Rewritten(a, slot, env) ==
    [env |-> env, ttl |-> cache[a][slot] # None /\ cache[a][slot].ttl]

\* Mutant: the copies of the service it depends on are the last.
Mutant_AfterCopies(c) == Done(c)

\* After those of the service it depends on come its own.
AfterCopies(c) ==
    IF req[c].app = req[c].main THEN Done(c)
    ELSE req' = [req EXCEPT ![c].at = "get", ![c].app = req[c].main,
                            ![c].had = {}]

\* Mutant: every known copy is written, there or not.
Mutant_SetCopies(c) ==
    LET a == req[c].app IN
    /\ req[c].at = "set"
    /\ cache' = [cache EXCEPT ![a] = [s \in Slots |->
                    IF s \in KnownSlots THEN Rewritten(a, s, req[c].env)
                                        ELSE @[s]]]
    /\ AfterCopies(c)
    /\ UNCHANGED <<doc, site, vaults, data, pages, faults, h>>

SetCopies(c) ==
    LET a == req[c].app IN
    /\ req[c].at = "set"
    /\ cache' = [cache EXCEPT ![a] = [s \in Slots |->
                    IF s \in req[c].had THEN Rewritten(a, s, req[c].env)
                                        ELSE @[s]]]
    /\ AfterCopies(c)
    /\ UNCHANGED <<doc, site, vaults, data, pages, faults, h>>

-----------------------------------------------------------------------------
(* deleteApp.                                                              *)

Delete(c, a, main) == [Idle EXCEPT !.at = "check", !.app = a, !.main = main,
                                   !.dep = doc[a].dep]

DeleteApp(c, a) ==
    /\ doc[a] # None
    /\ Start(c, Delete(c, a, a))
    /\ h' = [h EXCEPT
          !.crossed = IF Busy(a, Granting \cup Updating) THEN @ \cup {a} ELSE @,
          !.linking = IF \E d \in Calls : req[d].at \in Creating /\ req[d].dep = a
                      THEN @ \cup {a} ELSE @]
    /\ UNCHANGED <<doc, site, vaults, data, pages, cache, faults>>

\* Mutant: services that depend on it are not looked for.
Mutant_CheckLinks(c) ==
    /\ req[c].at = "check"
    /\ Goto(c, "decrypt")
    /\ UNCHANGED <<doc, site, vaults, data, pages, cache, faults, h>>

\* A service others depend on is not deleted.
CheckLinks(c) ==
    LET a == req[c].app IN
    /\ req[c].at = "check"
    /\ IF \E k \in KycApps : doc[k] # None /\ doc[k].dep = a
       THEN Done(c) ELSE Goto(c, "decrypt")
    /\ UNCHANGED <<doc, site, vaults, data, pages, cache, faults, h>>

\* Without its secret a service cannot be deleted any more.
Decrypt(c) ==
    /\ req[c].at = "decrypt"
    /\ IF req[c].app \in kms THEN Goto(c, "register") ELSE Done(c)
    /\ UNCHANGED <<doc, site, vaults, data, pages, cache, faults, h>>

\* createVault registers the vault, which makes it if it is not there.
RegisterVault(c) ==
    /\ req[c].at = "register"
    /\ edv' = edv \cup {req[c].app}
    /\ Goto(c, "unvault")
    /\ UNCHANGED <<doc, site, kms, data, pages, cache, faults, h>>

\* If the service is not in S any more, the store may answer with an error,
\* which ends the deletion.
GoneOr(c, S, label) ==
    Goto(c, label) \/ (req[c].app \notin S /\ Done(c))

DeleteVault(c) ==
    /\ req[c].at = "unvault"
    /\ edv' = edv \ {req[c].app}
    /\ GoneOr(c, edv, "forget")
    /\ UNCHANGED <<doc, site, kms, data, pages, cache, faults, h>>

DeleteKeys(c) ==
    /\ req[c].at = "forget"
    /\ kms' = kms \ {req[c].app}
    /\ GoneOr(c, kms, "drop")
    /\ UNCHANGED <<doc, site, edv, data, pages, cache, faults, h>>

\* An error is logged, and the deletion goes on.
DropDatabase(c) ==
    LET a == req[c].app IN
    /\ req[c].at = "drop"
    /\ \/ data' = data \ {a} /\ UNCHANGED <<faults, h>>
       \/ /\ faults < MaxFaults
          /\ faults' = faults + 1
          /\ h' = [h EXCEPT !.undropped = @ \cup {a}]
          /\ UNCHANGED data
    /\ Goto(c, IF a \in KycApps THEN "unpage" ELSE "delete")
    /\ UNCHANGED <<doc, site, vaults, pages, cache>>

\* The filter names a field that pages do not have, so it is dropped: a page
\* is deleted, of whatever service.
DeletePage(c) ==
    /\ req[c].at = "unpage"
    /\ IF pages = {} THEN UNCHANGED pages
       ELSE \E p \in pages : pages' = pages \ {p}
    /\ Goto(c, "delete")
    /\ UNCHANGED <<doc, site, vaults, data, cache, faults, h>>

\* If another deletion was faster, the request fails after the copies.
DeleteDoc(c) ==
    LET a == req[c].app IN
    /\ req[c].at = "delete"
    /\ doc' = [doc EXCEPT ![a] = None]
    /\ site' = [site EXCEPT ![a] = NoSite]
    /\ h' = [h EXCEPT !.deleted = @ \cup {a}]
    /\ Goto(c, "clear")
    /\ UNCHANGED <<vaults, data, pages, cache, faults>>

\* Mutant: only the copy under the id of the service.
Mutant_Cleared(a) == [cache[a] EXCEPT !["service"] = None]

\* What is left of the copies of a.
Cleared(a) ==
    [s \in Slots |-> IF s \in KnownSlots THEN None ELSE cache[a][s]]

\* The copies go, then the SSI service of a KYC service, if its admin is no
\* super admin.
ClearCopies(c) ==
    LET a == req[c].app
        d == req[c].dep
    IN  /\ req[c].at = "clear"
        /\ cache' = [cache EXCEPT ![a] = Cleared(a)]
        /\ \/ /\ Done(c)
              /\ h' = [h EXCEPT !.lapsed = IF Held(a, KnownSlots) THEN @ \cup {a}
                                          ELSE @]
           \/ /\ d # None /\ doc[d] # None
              /\ req' = [req EXCEPT ![c] = Delete(c, d, a)]
              /\ h' = [h EXCEPT
                    !.lapsed = IF Held(a, KnownSlots) THEN @ \cup {a} ELSE @,
                    !.crossed = IF Busy(d, Granting \cup Updating)
                                THEN @ \cup {d} ELSE @,
                    !.linking = IF \E e \in Calls : /\ req[e].at \in Creating
                                                    /\ req[e].dep = d
                                THEN @ \cup {d} ELSE @]
        /\ UNCHANGED <<doc, site, vaults, data, pages, faults>>

-----------------------------------------------------------------------------
(* Tokens: generateAccessToken (customer), grantPermission (dashboard,     *)
(* other) and generateWebpageConfigTokens (service).                       *)

AskToken(c, a, label, slot) ==
    /\ a \in h.used
    /\ Start(c, [Idle EXCEPT !.at = label, !.app = a, !.slot = slot])
    /\ h' = [h EXCEPT !.crossed = @ \cup Crossing(c, {a}, Updating \cup Deleting)]
    /\ UNCHANGED <<doc, site, vaults, data, pages, cache, faults>>

\* For a customer with an API secret: the document is read first.
GenerateAccessToken(c, a) == AskToken(c, a, "find", "customer")

\* For the admin, a tenant or a super admin in the dashboard: the copy is read
\* first.
GrantPermission(c, a, slot) ==
    slot \in {"dashboard", "other"} /\ AskToken(c, a, "lookup", slot)

\* For a page, of its KYC service and of the SSI service that one depends on.
GenerateWebpageConfigTokens(c, a) ==
    pages # {} /\ AskToken(c, a, "lookup", "service")

\* A customer's copy is used as it is, and a page's if it grants what this
\* release of the program grants.
LookupCopy(c) ==
    LET a == req[c].app
        slot == req[c].slot
        there == cache[a][slot] # None
    IN  /\ req[c].at = "lookup"
        /\ \/ /\ there /\ slot \in {"customer", "service"}
              /\ Done(c)
           \/ /\ ~(there /\ slot = "customer")
              /\ req' = [req EXCEPT
                    ![c].at = IF slot = "customer" THEN "store" ELSE "find",
                    ![c].had = IF there THEN {slot} ELSE {}]
        /\ UNCHANGED <<doc, site, vaults, data, pages, cache, faults, h>>

\* In the dashboard a copy is used if the permissions are still the same.
FindApp(c) ==
    LET a == req[c].app IN
    /\ req[c].at = "find"
    /\ \/ /\ doc[a] = None \/ req[c].had \cap {"dashboard", "other"} # {}
          /\ Done(c)
       \/ /\ doc[a] # None
          /\ req' = [req EXCEPT
                ![c].at = IF req[c].slot = "customer" THEN "lookup" ELSE "store",
                ![c].env = doc[a].env]
    /\ UNCHANGED <<doc, site, vaults, data, pages, cache, faults, h>>

\* storeDataInRedis: a copy that was there keeps its TTL.
StoreCopy(c) ==
    LET a == req[c].app
        slot == req[c].slot
    IN  /\ req[c].at = "store"
        /\ cache' = [cache EXCEPT ![a][slot] =
                        IF slot \in req[c].had THEN Rewritten(a, slot, req[c].env)
                        ELSE [env |-> req[c].env, ttl |-> TRUE]]
        /\ Done(c)
        /\ UNCHANGED <<doc, site, vaults, data, pages, faults, h>>

-----------------------------------------------------------------------------
(* Pages.                                                                  *)

StorePage(k) ==
    /\ k \notin pages
    /\ doc[k] # None /\ doc[k].dep # None
    /\ pages' = pages \cup {k}
    /\ UNCHANGED <<doc, site, vaults, data, cache, req, faults, h>>

RemovePage(k) ==
    /\ k \in pages
    /\ pages' = pages \ {k}
    /\ UNCHANGED <<doc, site, vaults, data, cache, req, faults, h>>

-----------------------------------------------------------------------------
(* The surroundings.                                                       *)

CopyExpires(a, slot) ==
    /\ cache[a][slot] # None /\ cache[a][slot].ttl
    /\ cache' = [cache EXCEPT ![a][slot] = None]
    /\ h' = [h EXCEPT !.lapsed = IF Held(a, {slot}) THEN @ \cup {a} ELSE @]
    /\ UNCHANGED <<doc, site, vaults, data, pages, req, faults>>

\* The process that works on the request is stopped, or a call of it fails.
Die(c) ==
    LET a == req[c].app IN
    /\ faults < MaxFaults
    /\ req[c] # Idle
    /\ faults' = faults + 1
    /\ h' = [h EXCEPT
            !.cut = IF req[c].at \in Doomed \cup {"unvault", "clear"}
                    THEN @ \cup {a} ELSE @,
            !.crossed = IF req[c].at \in Updating
                        THEN @ \cup ({a, req[c].main, req[c].dep} \ {None})
                        ELSE @]
    /\ Done(c)
    /\ UNCHANGED <<doc, site, vaults, data, pages, cache>>

Next ==
    \/ \E c \in Calls, k \in KycApps, d \in SsiApps : CreateAnApp(c, k, d)
    \/ \E c \in Calls, a \in SsiApps : CreateAnApp(c, a, None)
    \/ \E c \in Calls, a \in Apps :
          \/ \E env \in Envs \cup {None}, domain \in Domains \cup {None, "keep"},
                verified \in BOOLEAN :
             \E did \in IF env = "prod" THEN BOOLEAN ELSE {FALSE} :
                   UpdateAnApp(c, a, env, domain, verified, did)
          \/ \E slot \in Slots : GrantPermission(c, a, slot)
          \/ GenerateAccessToken(c, a) \/ GenerateWebpageConfigTokens(c, a)
          \/ DeleteApp(c, a)
    \/ \E c \in Calls :
          \/ InsertKeys(c) \/ CreateVault(c) \/ CreateDoc(c)
          \/ VerifyDns(c) \/ UpdateDoc(c) \/ UpdateDependent(c) \/ GetCopies(c) \/ SetCopies(c)
          \/ CheckLinks(c) \/ Decrypt(c) \/ RegisterVault(c) \/ DeleteVault(c)
          \/ DeleteKeys(c) \/ DropDatabase(c) \/ DeletePage(c) \/ DeleteDoc(c)
          \/ ClearCopies(c)
          \/ LookupCopy(c) \/ FindApp(c) \/ StoreCopy(c)
          \/ Die(c)
    \/ \E k \in KycApps : StorePage(k) \/ RemovePage(k)
    \/ \E a \in Apps, slot \in Slots : CopyExpires(a, slot)

Spec == Init /\ [][Next]_vars

-----------------------------------------------------------------------------
(* Properties.                                                             *)

\* A service that has its document has its secret and its vault, unless a
\* deletion of it is past the point of no return or was cut there: createAnApp
\* makes the document last, deleteApp deletes it after the others.
DocHasKeys ==
    \A a \in Apps :
        doc[a] # None => \/ a \in kms \cap edv
                         \/ a \in h.cut
                         \/ At(a, Doomed)

\* When the deletions of a service have ended it has no document, no secret in
\* the vault of the admin, no vault, no database unless dropping it failed, and
\* no copy under a key that deleteApp knows.  What was cut or crossed is
\* excepted; of its page, which is not among these, see OwnPage.
GoneIsGone ==
    \A a \in h.deleted \ h.cut :
        ~At(a, Deleting) =>
            /\ doc[a] = None /\ a \notin kms \cup edv
            /\ a \in data => a \in h.undropped
            /\ a \notin h.crossed =>
                   \A slot \in KnownSlots : cache[a][slot] = None

\* "delete webpage config data of that service": the deletion of a service
\* takes its own page, and that of no other.
OwnPage ==
    [][\A c \in Calls : req[c].at = "unpage" /\ req'[c].at = "delete"
            => pages' = pages \ {req[c].app}]_vars

\* A KYC service depends on no SSI service, or on one that is there, unless it
\* was linked to one that was not there or was being deleted.
NoDangling ==
    \A k \in KycApps :
        doc[k] # None => \/ doc[k].dep \in {None} \cup h.linking
                         \/ doc[doc[k].dep] # None

\* What tokens refer to has the env of the service, except for the copies of
\* tenants and super admins, and while an update is writing.
CopiesAgree ==
    \A a \in Apps \ h.crossed : \A slot \in KnownSlots :
        \/ doc[a] = None \/ cache[a][slot] = None
        \/ cache[a][slot].env = doc[a].env
        \/ Busy(a, Updating)

\* "we do not allow to update the domain once domain is verified": what the
\* linkage credential names is the domain of the service, unless a request
\* that left hasDomainVerified out, or one that overlapped, changed it.
LinkedDomain ==
    \A a \in Apps \ (h.moved \cup h.crossed) :
        site[a].linked \in {None, site[a].domain}

\* A copy expires, unless it was gone when a request that had read it wrote
\* it back.
CopiesExpire ==
    \A a \in Apps \ h.lapsed : \A slot \in Slots :
        cache[a][slot] # None => cache[a][slot].ttl
=============================================================================
