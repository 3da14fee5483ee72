--------------------------- MODULE ServicesProofs ---------------------------
(***************************************************************************)
(* Theorems about Services for any number of services, domains and         *)
(* requests, and any number of faults.                                     *)
(***************************************************************************)
EXTENDS Services, TLAPS

-----------------------------------------------------------------------------
(* Type correctness: the requests.                                         *)

Labels == {"idle"} \cup Creating \cup Updating \cup Deleting \cup Granting

Req == [at : Labels, app : Apps \cup {None}, main : Apps \cup {None},
        dep : SsiApps \cup {None}, env : Envs \cup {None},
        site : SiteUpdate, slot : Slots, had : SUBSET Slots]

\* What a request knows at its await: the service it works on, and the one it
\* is about if they differ; the env and the domain it is about to write.  Only
\* what is about a KYC service goes on to another service.
Fit(r) ==
    /\ r.at # "idle" => r.app \in Apps
    /\ r.at \in Creating \cup Granting => r.main = None
    /\ r.at \in Creating \cup Updating =>
           (r.app \in SsiApps /\ r.main \in SsiApps \cup {None}
                => r.dep = None)
    /\ r.at \in Granting => r.dep = None
    /\ r.at \in Updating \cup Deleting => r.main \in Apps
    /\ r.at \in {"dns", "update", "dependent"} => r.app = r.main
    /\ r.at \in {"get", "set"} => r.app \in {r.main, r.dep}
    /\ r.at = "dependent" => r.dep # None
    /\ r.at # "update" => r.env \in Envs
    /\ r.at = "dns" => r.site.domain \in Domains
    /\ r.at = "unpage" => r.app \in KycApps

Ready == {r \in Req : Fit(r)}

RequestsOK == req \in [Calls -> Ready]

\* The requests a step of c leaves alone.
Others(c) == \A d \in Calls \ {c} : req'[d] = req[d]

\* All but the label.
Same(q, r) == /\ q.app = r.app /\ q.main = r.main /\ q.dep = r.dep
              /\ q.env = r.env /\ q.site = r.site
              /\ q.slot = r.slot /\ q.had = r.had

\* The labels, and those of one kind.
LEMMA LabelsAre ==
    /\ Creating \subseteq Labels /\ Updating \subseteq Labels
    /\ Deleting \subseteq Labels /\ Granting \subseteq Labels
    /\ "idle" \in Labels
    /\ "idle" \notin Creating \cup Updating \cup Deleting \cup Granting
    /\ Creating \cap Updating = {} /\ Creating \cap Deleting = {}
    /\ Creating \cap Granting = {} /\ Updating \cap Deleting = {}
    /\ Updating \cap Granting = {} /\ Deleting \cap Granting = {}
BY DEF Labels, Creating, Updating, Deleting, Granting

\* What a request knows is of the right types.
LEMMA ReadyReq ==
    ASSUME NEW r \in Ready
    PROVE  /\ r \in Req /\ Fit(r)
           /\ r.at \in Labels
           /\ r.app \in Apps \cup {None} /\ r.main \in Apps \cup {None}
           /\ r.dep \in SsiApps \cup {None} /\ r.env \in Envs \cup {None}
           /\ r.site \in SiteUpdate /\ r.slot \in Slots
           /\ r.had \subseteq Slots
BY DEF Ready, Req

\* A request that knows nothing yet.
LEMMA IdleIs ==
    /\ Idle \in Ready /\ Idle \in Req
    /\ Idle.at = "idle" /\ Idle.app = None /\ Idle.main = None
    /\ Idle.dep = None /\ Idle.env = "dev" /\ Idle.site = NoSite
    /\ Idle.slot = "service" /\ Idle.had = {}
<1>1. NoSite \in SiteUpdate
  BY DEF NoSite, SiteUpdate
<1>2. Idle \in Req
  BY <1>1, LabelsAre DEF Idle, Req, Envs, Slots
<1>3. /\ Idle.at = "idle" /\ Idle.app = None /\ Idle.main = None
      /\ Idle.dep = None /\ Idle.env = "dev" /\ Idle.site = NoSite
      /\ Idle.slot = "service" /\ Idle.had = {}
  BY DEF Idle
<1>4. Fit(Idle)
  BY <1>3, LabelsAre DEF Fit, Envs
<1> QED BY <1>2, <1>3, <1>4 DEF Ready

\* A request goes on with what it knows now.
LEMMA UpdateIs ==
    ASSUME RequestsOK, NEW c \in Calls, NEW q \in Req, Fit(q),
           req' = [req EXCEPT ![c] = q]
    PROVE  RequestsOK' /\ req'[c] = q /\ Others(c)
BY DEF RequestsOK, Others, Ready

\* A request begins.
LEMMA StartIs ==
    ASSUME RequestsOK, NEW c \in Calls, NEW q \in Req, Fit(q), Start(c, q)
    PROVE  /\ RequestsOK' /\ req[c] = Idle /\ req[c].at = "idle"
           /\ req'[c] = q /\ Others(c)
BY UpdateIs, IdleIs DEF Start

\* A request ends.
LEMMA DoneIs ==
    ASSUME RequestsOK, NEW c \in Calls, Done(c)
    PROVE  RequestsOK' /\ req'[c] = Idle /\ Others(c) /\ req'[c].at = "idle"
BY IdleIs DEF RequestsOK, Done, Others

\* A request goes on to its next await.
LEMMA GotoIs ==
    ASSUME RequestsOK, NEW c \in Calls, NEW l \in Labels, Goto(c, l)
    PROVE  LET q == req'[c]
           IN  /\ q \in Req /\ q.at = l /\ Others(c) /\ Same(q, req[c])
               /\ Fit(q) => RequestsOK'
<1>1. req[c] \in Req
  BY ReadyReq DEF RequestsOK
<1> DEFINE q == [req[c] EXCEPT !.at = l]
<1>2. req' = [req EXCEPT ![c] = q]
  BY DEF Goto
<1>3. q \in Req /\ q.at = l /\ Same(q, req[c])
  BY <1>1 DEF Req, Same
<1> HIDE DEF q
<1>4. req'[c] = q /\ Others(c)
  BY <1>2 DEF RequestsOK, Others
<1>5. Fit(q) => RequestsOK'
  BY <1>2, <1>3, UpdateIs
<1> QED BY <1>3, <1>4, <1>5

\* What a request knows of where it is going on.
LEMMA FitSame ==
    ASSUME NEW q \in Req, NEW r \in Req, Same(q, r), Fit(r),
           r.at # "idle", r.at # "update" \/ r.env \in Envs,
           \/ r.at \in Creating /\ q.at \in Creating
           \/ r.at \in Deleting /\ q.at \in Deleting \ {"unpage"}
    PROVE  Fit(q)
BY LabelsAre DEF Same, Fit, Creating, Deleting

-----------------------------------------------------------------------------
(* Type correctness: the stores and the history.                           *)

DocsOK == /\ doc \in [Apps -> Doc \cup {None}]
          /\ \A a \in SsiApps : doc[a] # None => doc[a].dep = None

CacheOK == cache \in [Apps -> [Slots -> Copy \cup {None}]]

StoreOK ==
    /\ DocsOK /\ CacheOK
    /\ site \in [Apps -> Site]
    /\ kms \subseteq Apps /\ edv \subseteq Apps /\ data \subseteq Apps
    /\ pages \subseteq KycApps
    /\ faults \in 0..MaxFaults

HistoryOK == h \in History

TypeInv == StoreOK /\ RequestsOK /\ HistoryOK

\* A document that is there.
LEMMA DocIs ==
    ASSUME DocsOK, NEW a \in Apps, doc[a] # None
    PROVE  /\ doc[a] \in Doc
           /\ doc[a].env \in Envs /\ doc[a].dep \in SsiApps \cup {None}
           /\ a \in SsiApps => doc[a].dep = None
BY DEF DocsOK, Doc

\* A copy that is there.
LEMMA CopyIs ==
    ASSUME CacheOK, NEW a \in Apps, NEW s \in Slots, cache[a][s] # None
    PROVE  /\ cache[a][s] \in Copy
           /\ cache[a][s].env \in Envs /\ cache[a][s].ttl \in BOOLEAN
BY DEF CacheOK, Copy

\* Services are of one kind.
LEMMA AppsAre ==
    /\ Apps = SsiApps \cup KycApps /\ None \notin Apps
    /\ SsiApps \cap KycApps = {}
BY ServicesAssumption DEF Apps

stores == <<doc, site, kms, edv, data, pages, cache>>

\* What excepts a service from a property does so for ever.
Grown == /\ h.undropped \subseteq h'.undropped /\ h.cut \subseteq h'.cut
         /\ h.linking \subseteq h'.linking /\ h.crossed \subseteq h'.crossed
         /\ h.lapsed \subseteq h'.lapsed /\ h.moved \subseteq h'.moved

SameUsed == h'.used = h.used
SameDeleted == h'.deleted = h.deleted
SameIds == SameUsed /\ SameDeleted

\* The history as it is.
LEMMA SameHistory ==
    ASSUME UNCHANGED h
    PROVE  Grown /\ SameIds
BY DEF Grown, SameIds, SameUsed, SameDeleted

-----------------------------------------------------------------------------
(* What the steps of a creation do.                                        *)

\* A request to make a service.
LEMMA CreateAnAppIs ==
    ASSUME TypeInv, NEW c \in Calls, NEW a \in Apps,
           NEW dep \in SsiApps \cup {None}, a \in SsiApps => dep = None,
           CreateAnApp(c, a, dep)
    PROVE  /\ TypeInv' /\ Others(c) /\ UNCHANGED stores
           /\ a \notin h.used /\ req[c].at = "idle"
           /\ req'[c].at = "keys" /\ req'[c].app = a /\ req'[c].dep = dep
           /\ req'[c].main = None
           /\ h'.used = h.used \cup {a} /\ SameDeleted /\ Grown
           /\ Leaving(dep) => dep \in h'.linking
<1> DEFINE q == [Idle EXCEPT !.at = "keys", !.app = a, !.dep = dep]
<1>1. /\ "keys" \in Labels /\ "keys" \in Creating
      /\ RequestsOK /\ HistoryOK /\ StoreOK
  BY LabelsAre DEF Creating, TypeInv
<1>2. /\ q.at = "keys" /\ q.app = a /\ q.dep = dep /\ q.main = None
      /\ q.env = "dev"
  BY DEF Idle
<1>3. q \in Req
  BY <1>1, IdleIs DEF Req
<1>4. Start(c, q)
  BY DEF CreateAnApp
<1> HIDE DEF q
<1>5. Fit(q)
  BY <1>1, <1>2, LabelsAre, AppsAre
  DEF Fit, Envs, Creating, Updating, Deleting, Granting
<1>6. /\ RequestsOK' /\ req[c].at = "idle" /\ Others(c)
      /\ req'[c] = q
  BY <1>1, <1>3, <1>4, <1>5, StartIs
<1>7. /\ a \notin h.used /\ UNCHANGED <<stores, faults>>
      /\ h' = [h EXCEPT !.used = @ \cup {a},
                 !.linking = IF Leaving(dep) THEN @ \cup {dep} ELSE @]
  BY DEF CreateAnApp, stores, vaults
<1>8. Leaving(dep) => dep \in Apps
  BY AppsAre DEF Leaving
<1>9. /\ HistoryOK' /\ h'.used = h.used \cup {a}
      /\ SameDeleted /\ Grown /\ (Leaving(dep) => dep \in h'.linking)
  BY <1>1, <1>7, <1>8 DEF HistoryOK, History, SameDeleted, Grown
<1>10. StoreOK'
  BY <1>1, <1>7 DEF StoreOK, DocsOK, CacheOK, stores
<1> QED BY <1>2, <1>6, <1>7, <1>9, <1>10 DEF TypeInv

\* A step of a creation or a deletion to its next await.
LEMMA OnIs ==
    ASSUME RequestsOK, NEW c \in Calls, NEW l \in Labels, Goto(c, l),
           \/ req[c].at \in Creating /\ l \in Creating
           \/ req[c].at \in Deleting /\ l \in Deleting \ {"unpage"}
    PROVE  /\ RequestsOK' /\ Others(c) /\ req'[c].at = l
           /\ Same(req'[c], req[c])
<1>1. req[c] \in Req /\ Fit(req[c])
  BY ReadyReq DEF RequestsOK
<1>2. /\ req'[c] \in Req /\ req'[c].at = l /\ Others(c)
      /\ Same(req'[c], req[c]) /\ (Fit(req'[c]) => RequestsOK')
  BY GotoIs
<1>3. req[c].at # "idle" /\ req[c].at # "update"
  BY DEF Creating, Deleting
<1>4. Fit(req'[c])
  BY <1>1, <1>2, <1>3, FitSame
<1> QED BY <1>2, <1>4

\* The secret of a service is made.
LEMMA InsertKeysIs ==
    ASSUME TypeInv, NEW c \in Calls, InsertKeys(c)
    PROVE  /\ TypeInv' /\ Others(c) /\ UNCHANGED h
           /\ UNCHANGED <<doc, site, edv, data, pages, cache>>
           /\ req[c].at = "keys" /\ req'[c].at = "vault"
           /\ Same(req'[c], req[c]) /\ req[c].app \in Apps
           /\ kms' = kms \cup {req[c].app}
<1>1. /\ RequestsOK /\ HistoryOK /\ StoreOK
      /\ req[c].at = "keys" /\ Goto(c, "vault")
      /\ kms' = kms \cup {req[c].app}
      /\ UNCHANGED <<doc, site, edv, data, pages, cache, faults, h>>
  BY DEF InsertKeys, TypeInv
<1>2. "keys" \in Creating /\ "vault" \in Creating /\ "vault" \in Labels
  BY LabelsAre DEF Creating
<1>3. /\ RequestsOK' /\ Others(c) /\ req'[c].at = "vault"
      /\ Same(req'[c], req[c])
  BY <1>1, <1>2, OnIs
<1>4. req[c].app \in Apps
  BY <1>1, ReadyReq DEF RequestsOK, Fit
<1>5. StoreOK'
  BY <1>1, <1>4 DEF StoreOK, DocsOK, CacheOK
<1>6. HistoryOK'
  BY <1>1 DEF HistoryOK
<1> QED BY <1>1, <1>3, <1>4, <1>5, <1>6 DEF TypeInv

\* Its vault is made.
LEMMA CreateVaultIs ==
    ASSUME TypeInv, NEW c \in Calls, CreateVault(c)
    PROVE  /\ TypeInv' /\ Others(c) /\ UNCHANGED h
           /\ UNCHANGED <<doc, site, kms, data, pages, cache>>
           /\ req[c].at = "vault" /\ req'[c].at = "insert"
           /\ Same(req'[c], req[c]) /\ req[c].app \in Apps
           /\ edv' = edv \cup {req[c].app}
<1>1. /\ RequestsOK /\ HistoryOK /\ StoreOK
      /\ req[c].at = "vault" /\ Goto(c, "insert")
      /\ edv' = edv \cup {req[c].app}
      /\ UNCHANGED <<doc, site, kms, data, pages, cache, faults, h>>
  BY DEF CreateVault, TypeInv
<1>2. "vault" \in Creating /\ "insert" \in Creating /\ "insert" \in Labels
  BY LabelsAre DEF Creating
<1>3. /\ RequestsOK' /\ Others(c) /\ req'[c].at = "insert"
      /\ Same(req'[c], req[c])
  BY <1>1, <1>2, OnIs
<1>4. req[c].app \in Apps
  BY <1>1, ReadyReq DEF RequestsOK, Fit
<1>5. StoreOK'
  BY <1>1, <1>4 DEF StoreOK, DocsOK, CacheOK
<1>6. HistoryOK'
  BY <1>1 DEF HistoryOK
<1> QED BY <1>1, <1>3, <1>4, <1>5, <1>6 DEF TypeInv

\* The other services a step that is about service a leaves as they are.
SameDocs(a) == \A b \in Apps \ {a} : doc'[b] = doc[b] /\ site'[b] = site[b]

\* Its document and its database are made.
LEMMA CreateDocIs ==
    ASSUME TypeInv, NEW c \in Calls, CreateDoc(c)
    PROVE  LET a == req[c].app IN
           /\ TypeInv' /\ Others(c) /\ UNCHANGED h
           /\ UNCHANGED <<kms, edv, pages, cache>> /\ SameDocs(a)
           /\ req[c].at = "insert" /\ req'[c] = Idle /\ a \in Apps
           /\ doc'[a] # None /\ doc'[a].dep = req[c].dep
           /\ site'[a].linked = None
           /\ data' = data \cup {a}
<1> DEFINE a == req[c].app
<1> DEFINE dep == req[c].dep
<1>1. /\ RequestsOK /\ HistoryOK /\ StoreOK
      /\ req[c].at = "insert" /\ Done(c)
      /\ doc' = [doc EXCEPT ![a] = [env |-> "dev", dep |-> dep]]
      /\ data' = data \cup {a}
      /\ UNCHANGED <<kms, edv, pages, cache, faults, h>>
  BY DEF CreateDoc, TypeInv, vaults
<1>2. PICK domain \in Domains \cup {None} :
          site' = [site EXCEPT ![a] = [NoSite EXCEPT !.domain = domain]]
  BY DEF CreateDoc
<1>3. /\ RequestsOK' /\ Others(c) /\ req'[c] = Idle
  BY <1>1, DoneIs
<1>4. /\ a \in Apps /\ dep \in SsiApps \cup {None}
      /\ a \in SsiApps => dep = None
  <2>1. req[c].at \in Creating /\ req[c].at # "idle"
    BY <1>1 DEF Creating
  <2>2. /\ req[c].main = None /\ req[c].app \in Apps
        /\ req[c].dep \in SsiApps \cup {None}
    BY <1>1, <2>1, ReadyReq DEF RequestsOK, Fit
  <2>3. Fit(req[c])
    BY <1>1, ReadyReq DEF RequestsOK
  <2> QED BY <2>1, <2>2, <2>3 DEF Fit
<1> DEFINE new == [env |-> "dev", dep |-> dep]
<1>5. new \in Doc /\ new.dep = dep /\ new # None
  BY <1>4, NoneAssumption DEF Doc, Envs
<1> DEFINE at == [NoSite EXCEPT !.domain = domain]
<1>6. at \in Site /\ at.linked = None
  BY DEF Site, NoSite
<1>7. /\ doc \in [Apps -> Doc \cup {None}] /\ site \in [Apps -> Site]
      /\ doc' = [doc EXCEPT ![a] = new] /\ site' = [site EXCEPT ![a] = at]
  BY <1>1, <1>2 DEF StoreOK, DocsOK
<1> HIDE DEF a, dep, new, at
<1>8. /\ doc' \in [Apps -> Doc \cup {None}] /\ site' \in [Apps -> Site]
      /\ SameDocs(a) /\ doc'[a] = new /\ site'[a] = at
  BY <1>4, <1>5, <1>6, <1>7 DEF SameDocs
<1>9. DocsOK'
  BY <1>1, <1>4, <1>5, <1>8, AppsAre DEF StoreOK, DocsOK, SameDocs
<1>10. StoreOK'
  BY <1>1, <1>4, <1>8, <1>9 DEF StoreOK, CacheOK
<1>11. HistoryOK'
  BY <1>1 DEF HistoryOK
<1> QED
  BY <1>1, <1>3, <1>4, <1>5, <1>6, <1>8, <1>10, <1>11 DEF TypeInv, a, dep

-----------------------------------------------------------------------------
(* What the steps of an update do.                                         *)

\* Requests at work on x, but for c, make x crossed.
CrossedBy(c, x, labels) ==
    \A d \in Calls \ {c} : Touches(d, x) /\ req[d].at \in labels
        => x \in h'.crossed

\* A request to update a begins.  The domain it is going to write is the one
\* there is, if that is verified, or it was moved.
UpdateBegun(c, a) ==
    LET q == req'[c] IN
    /\ TypeInv' /\ Others(c) /\ UNCHANGED stores
    /\ doc[a] # None /\ req[c].at = "idle"
    /\ q.at \in {"dns", "update"} /\ q.app = a /\ q.main = a
    /\ q.dep \in {None, doc[a].dep} /\ q.site.linked = None
    /\ q.at = "dns" => site[a].linked = None
    /\ site[a].linked # None /\ a \notin h'.moved
           => q.site.domain \in {"keep", site[a].domain}
    /\ SameIds /\ Grown
    /\ \A x \in {a, q.dep} \ {None} :
           CrossedBy(c, x, Updating \cup Deleting \cup Granting)

\* A request to update a service.
LEMMA UpdateAnAppIs ==
    ASSUME TypeInv, NEW c \in Calls, NEW a \in Apps,
           NEW env \in Envs \cup {None},
           NEW domain \in Domains \cup {None, "keep"},
           NEW verified \in BOOLEAN, NEW did \in BOOLEAN,
           UpdateAnApp(c, a, env, domain, verified, did)
    PROVE  UpdateBegun(c, a)
<1> DEFINE linked == site[a].linked # None
           dep == IF env \notin {None, doc[a].env} THEN doc[a].dep ELSE None
           label == IF env = "prod" /\ verified /\ did /\ ~linked
                    THEN "dns" ELSE "update"
           new == IF Kept(a, verified) THEN site[a].domain ELSE domain
           p == [Idle EXCEPT !.at = label, !.app = a, !.main = a,
                             !.dep = dep, !.env = env]
           q == [p EXCEPT !.site.domain = new]
<1>1. /\ RequestsOK /\ HistoryOK /\ StoreOK
      /\ env = "prod" => domain \in Domains /\ verified
      /\ doc[a] # None /\ UNCHANGED <<stores, faults>>
      /\ Start(c, [Idle EXCEPT !.at = label, !.app = a, !.main = a,
                      !.dep = dep, !.env = env, !.site.domain = new])
      /\ h' = [h EXCEPT
              !.crossed = @ \cup Crossing(c, {a, dep} \ {None},
                                  Updating \cup Deleting \cup Granting),
              !.moved = IF ~verified /\ domain # "keep" /\ linked
                        THEN @ \cup {a} ELSE @]
  BY DEF UpdateAnApp, TypeInv, stores, vaults
<1>2. /\ label \in {"dns", "update"} /\ label \in Labels
      /\ label = "dns" => env = "prod" /\ ~linked
  BY LabelsAre DEF Updating
<1>3. /\ dep \in SsiApps \cup {None} /\ dep \in {None, doc[a].dep}
      /\ a \in SsiApps => dep = None
  BY <1>1, DocIs DEF StoreOK
<1>4. /\ site[a] \in Site /\ site[a].domain \in Domains \cup {None}
      /\ new \in Domains \cup {None, "keep"}
  BY <1>1 DEF StoreOK, Site
<1>5. /\ p \in Req /\ p.at = label /\ p.app = a /\ p.main = a
      /\ p.dep = dep /\ p.env = env /\ p.site = NoSite
  <2>1. p \in Req
    BY <1>2, <1>3, IdleIs DEF Req
  <2>2. /\ p.at = label /\ p.app = a /\ p.main = a
        /\ p.dep = dep /\ p.env = env /\ p.site = NoSite
    BY DEF Idle
  <2> QED BY <2>1, <2>2
<1>6. Start(c, q)
  <2>1. q = [Idle EXCEPT !.at = label, !.app = a, !.main = a,
                      !.dep = dep, !.env = env, !.site.domain = new]
    OBVIOUS
  <2> QED BY <1>1, <2>1
<1>7. label = "dns" => new \in Domains /\ env \in Envs
  BY <1>1, <1>2 DEF Kept, Envs
<1>8. /\ linked => new \in {"keep", site[a].domain}
                     \/ (~verified /\ domain # "keep" /\ linked)
  BY DEF Kept
<1> HIDE DEF p, label, new
<1> DEFINE s == [NoSite EXCEPT !.domain = new]
<1>9. s \in SiteUpdate /\ s.domain = new /\ s.linked = None
  BY <1>4 DEF NoSite, SiteUpdate
<1>10. q = [p EXCEPT !.site = s]
  BY <1>5 DEF Req
<1> HIDE DEF q, s
<1>11. /\ q \in Req /\ q.at = label /\ q.app = a /\ q.main = a
       /\ q.dep = dep /\ q.env = env /\ q.site = s
  BY <1>5, <1>9, <1>10 DEF Req
<1>12. Fit(q)
  BY <1>2, <1>3, <1>7, <1>9, <1>11, AppsAre, LabelsAre
  DEF Fit, Creating, Updating, Deleting, Granting
<1>13. /\ RequestsOK' /\ req[c].at = "idle" /\ Others(c) /\ req'[c] = q
  BY <1>1, <1>6, <1>11, <1>12, StartIs
<1> HIDE DEF dep, linked
<1>14. \A x \in Crossing(c, {a, dep} \ {None},
                         Updating \cup Deleting \cup Granting) : x \in Apps
  BY <1>3, AppsAre DEF Crossing
<1>15. /\ HistoryOK' /\ SameIds /\ Grown
       /\ (~verified /\ domain # "keep" /\ linked) => a \in h'.moved
       /\ Crossing(c, {a, dep} \ {None}, Updating \cup Deleting \cup Granting)
            \subseteq h'.crossed
  BY <1>1, <1>14
  DEF HistoryOK, History, SameIds, SameUsed, SameDeleted, Grown
<1>16. \A x \in {a, q.dep} \ {None} :
           CrossedBy(c, x, Updating \cup Deleting \cup Granting)
  BY <1>11, <1>15 DEF CrossedBy, Crossing
<1>17. StoreOK'
  BY <1>1 DEF StoreOK, DocsOK, CacheOK, stores
<1>18. /\ q.at = "dns" => site[a].linked = None
       /\ site[a].linked # None /\ a \notin h'.moved
              => q.site.domain \in {"keep", site[a].domain}
  BY <1>2, <1>8, <1>9, <1>11, <1>15 DEF linked
<1> QED
  BY <1>1, <1>2, <1>3, <1>9, <1>11, <1>13, <1>15, <1>16, <1>17, <1>18
  DEF TypeInv, UpdateBegun

\* The DNS is asked.
LEMMA VerifyDnsIs ==
    ASSUME TypeInv, NEW c \in Calls, VerifyDns(c)
    PROVE  LET q == req'[c]
               r == req[c]
           IN  /\ TypeInv' /\ Others(c) /\ UNCHANGED <<stores, h>>
               /\ r.at = "dns" /\ r.site.domain \in Domains
               /\ \/ q = Idle
                  \/ /\ q.at = "update" /\ q.app = r.app /\ q.main = r.main
                     /\ q.dep = r.dep
                     /\ q.site.domain = r.site.domain
                     /\ q.site.linked = r.site.domain
<1>1. /\ RequestsOK /\ HistoryOK /\ StoreOK
      /\ req[c].at = "dns" /\ UNCHANGED <<stores, faults, h>>
  BY DEF VerifyDns, TypeInv, stores, vaults
<1>2. req[c] \in Req /\ Fit(req[c]) /\ req[c].site \in SiteUpdate
  BY <1>1, ReadyReq DEF RequestsOK
<1>3. /\ req[c].site.domain \in Domains /\ req[c].app \in Apps
      /\ req[c].main \in Apps /\ req[c].app = req[c].main
      /\ req[c].env \in Envs
      /\ req[c].app \in SsiApps => req[c].dep = None
  BY <1>1, <1>2 DEF Fit, Updating
<1>4. StoreOK' /\ HistoryOK'
  BY <1>1 DEF StoreOK, DocsOK, CacheOK, stores, HistoryOK
<1>5. CASE Done(c)
  BY <1>1, <1>3, <1>4, <1>5, DoneIs DEF TypeInv
<1>6. CASE req' = [req EXCEPT ![c].at = "update",
                              ![c].site.linked = req[c].site.domain]
  <2> DEFINE s == [req[c].site EXCEPT !.linked = req[c].site.domain]
             q == [req[c] EXCEPT !.at = "update", !.site = s]
  <2>1. /\ s \in SiteUpdate /\ s.domain = req[c].site.domain
        /\ s.linked = req[c].site.domain
    BY <1>2, <1>3 DEF SiteUpdate
  <2>2. req' = [req EXCEPT ![c] = q]
    <3> DEFINE p == [req[c] EXCEPT !.at = "update",
                                   !.site.linked = req[c].site.domain]
    <3>1. req' = [req EXCEPT ![c] = p]
      BY <1>6
    <3>2. p = q
      BY <1>2 DEF Req
    <3> QED BY <3>1, <3>2
  <2> HIDE DEF s
  <2>3. "update" \in Labels
    BY LabelsAre DEF Updating
  <2>4. /\ q \in Req /\ q.at = "update" /\ q.app = req[c].app
        /\ q.main = req[c].main /\ q.dep = req[c].dep /\ q.site = s
        /\ q.env = req[c].env
    BY <1>2, <2>1, <2>3 DEF Req
  <2> HIDE DEF q
  <2>5. Fit(q)
    BY <1>3, <2>4, AppsAre, LabelsAre
    DEF Fit, Creating, Updating, Deleting, Granting
  <2>6. RequestsOK' /\ Others(c) /\ req'[c] = q
    BY <1>1, <2>2, <2>4, <2>5, UpdateIs
  <2> QED BY <1>1, <1>3, <1>4, <2>1, <2>4, <2>6 DEF TypeInv
<1> QED BY <1>5, <1>6 DEF VerifyDns

\* The document is updated, if it is still there.
LEMMA UpdateDocIs ==
    ASSUME TypeInv, NEW c \in Calls, UpdateDoc(c)
    PROVE  LET q == req'[c]
               r == req[c]
               a == req[c].app
           IN  /\ TypeInv' /\ Others(c)
               /\ UNCHANGED <<kms, edv, data, pages, cache>>
               /\ r.at = "update" /\ a \in Apps /\ r.main = a
               /\ SameDocs(a) /\ SameIds /\ Grown
               /\ \/ /\ doc[a] = None /\ q = Idle
                     /\ UNCHANGED <<doc, site, h>>
                  \/ /\ doc[a] # None /\ doc'[a] # None
                     /\ doc'[a].env = q.env
                     /\ doc'[a].dep # doc[a].dep /\ Leaving(doc'[a].dep)
                            => doc'[a].dep \in h'.linking
                     /\ site'[a].domain = IF r.site.domain = "keep"
                                          THEN site[a].domain
                                          ELSE r.site.domain
                     /\ site'[a].linked = IF r.site.linked = None
                                          THEN site[a].linked
                                          ELSE r.site.linked
                     /\ q.at \in {"dependent", "get"}
                     /\ q.at = "dependent" <=> r.dep # None
                     /\ q.app = a /\ q.main = a /\ q.dep = r.dep
<1> DEFINE a == req[c].app
           r == req[c]
           new == req[c].site
           env == IF req[c].env = None THEN doc[a].env ELSE req[c].env
<1>1. /\ RequestsOK /\ HistoryOK /\ StoreOK /\ r.at = "update"
      /\ UNCHANGED <<kms, edv, data, pages, cache, faults>>
  BY DEF UpdateDoc, TypeInv, vaults
<1>2. r \in Req /\ Fit(r)
  BY <1>1, ReadyReq DEF RequestsOK
<1>3. /\ a \in Apps /\ r.main = a
      /\ r.site \in SiteUpdate /\ r.dep \in SsiApps \cup {None}
      /\ r.env \in Envs \cup {None}
      /\ a \in SsiApps => r.dep = None
  BY <1>1, <1>2, ReadyReq DEF Fit, Updating, Req
<1>4. CASE doc[a] = None
  <2>1. Done(c) /\ UNCHANGED <<doc, site, h>>
    BY <1>4 DEF UpdateDoc
  <2>2. StoreOK' /\ HistoryOK' /\ SameDocs(a)
    BY <1>1, <2>1 DEF StoreOK, DocsOK, CacheOK, HistoryOK, SameDocs
  <2> QED BY <1>1, <1>3, <1>4, <2>1, <2>2, DoneIs, SameHistory DEF TypeInv
<1>5. CASE doc[a] # None
  <2>1. PICK dep \in IF a \in KycApps THEN SsiApps \cup {None} ELSE {None} :
           /\ doc' = [doc EXCEPT ![a] = [env |-> env, dep |-> dep]]
           /\ h' = IF dep # doc[a].dep /\ Leaving(dep)
                   THEN [h EXCEPT !.linking = @ \cup {dep}] ELSE h
    BY <1>5 DEF UpdateDoc
  <2>2. /\ site' = [site EXCEPT
               ![a].domain = IF new.domain = "keep" THEN @ ELSE new.domain,
               ![a].linked = IF new.linked = None THEN @ ELSE new.linked]
        /\ req' = [req EXCEPT
               ![c].at = IF req[c].dep = None THEN "get" ELSE "dependent",
               ![c].env = env, ![c].site = NoSite]
    BY <1>5 DEF UpdateDoc
  <2>3. /\ env \in Envs /\ dep \in SsiApps \cup {None}
        /\ a \in SsiApps => dep = None
    BY <1>1, <1>3, <1>5, AppsAre, DocIs DEF StoreOK
  <2> DEFINE d == [env |-> env, dep |-> dep]
  <2>4. d \in Doc /\ d.env = env /\ d.dep = dep /\ d # None
    BY <2>3, NoneAssumption DEF Doc
  <2>5. /\ doc \in [Apps -> Doc \cup {None}] /\ doc' = [doc EXCEPT ![a] = d]
    BY <1>1, <2>1 DEF StoreOK, DocsOK
  <2> DEFINE label == IF req[c].dep = None THEN "get" ELSE "dependent"
             q == [req[c] EXCEPT !.at = label, !.env = env, !.site = NoSite]
  <2>6. req' = [req EXCEPT ![c] = q]
    BY <2>2
  <2>7. /\ label \in Labels /\ label \in {"dependent", "get"}
        /\ label = "dependent" <=> r.dep # None
    BY LabelsAre DEF Updating
  <2> DEFINE dom == IF new.domain = "keep" THEN site[a].domain ELSE new.domain
             lnk == IF new.linked = None THEN site[a].linked ELSE new.linked
             t == [[site[a] EXCEPT !.domain = dom] EXCEPT !.linked = lnk]
  <2>8. site' = [site EXCEPT ![a] = t]
    BY <1>1, <1>3, <2>2 DEF StoreOK, Site
  <2>9. /\ site[a] \in Site
        /\ dom \in Domains \cup {None} /\ lnk \in Domains \cup {None}
    BY <1>1, <1>3 DEF StoreOK, Site, SiteUpdate
  <2> HIDE DEF env, d, label, dom, lnk
  <2>10. t \in Site /\ t.domain = dom /\ t.linked = lnk
    BY <2>9 DEF Site
  <2> HIDE DEF t
  <2>11. /\ q \in Req /\ q.at = label /\ q.env = env /\ q.app = a
         /\ q.main = r.main /\ q.dep = r.dep
    BY <1>2, <2>3, <2>7, IdleIs DEF Req
  <2> HIDE DEF q
  <2>12. Fit(q)
    BY <1>3, <2>3, <2>7, <2>11, AppsAre, LabelsAre
    DEF Fit, Creating, Updating, Deleting, Granting
  <2>13. RequestsOK' /\ Others(c) /\ req'[c] = q
    BY <1>1, <2>6, <2>11, <2>12, UpdateIs
  <2>14. /\ doc' \in [Apps -> Doc \cup {None}] /\ site' \in [Apps -> Site]
         /\ SameDocs(a) /\ doc'[a] = d /\ site'[a] = t
    BY <1>1, <1>3, <2>4, <2>5, <2>8, <2>10 DEF SameDocs, StoreOK
  <2>15. DocsOK'
    BY <1>1, <1>3, <2>3, <2>4, <2>14, AppsAre DEF StoreOK, DocsOK, SameDocs
  <2>16. StoreOK'
    BY <1>1, <2>14, <2>15 DEF StoreOK, CacheOK
  <2>17. /\ HistoryOK' /\ SameIds /\ Grown
         /\ dep # doc[a].dep /\ Leaving(dep) => dep \in h'.linking
    <3>1. CASE dep # doc[a].dep /\ Leaving(dep)
      <4>1. dep \in Apps
        BY <2>3, <3>1, AppsAre DEF Leaving
      <4>2. h' = [h EXCEPT !.linking = @ \cup {dep}]
        BY <2>1, <3>1
      <4> QED BY <1>1, <4>1, <4>2
              DEF HistoryOK, History, SameIds, SameUsed, SameDeleted, Grown
    <3>2. CASE ~(dep # doc[a].dep /\ Leaving(dep))
      <4>1. h' = h
        BY <2>1, <3>2
      <4> QED BY <1>1, <3>2, <4>1, SameHistory DEF HistoryOK
    <3> QED BY <3>1, <3>2
  <2> QED
    BY <1>1, <1>3, <1>5, <2>4, <2>7, <2>10, <2>11, <2>13, <2>14, <2>16,
       <2>17 DEF TypeInv, dom, lnk
<1> QED BY <1>4, <1>5

\* The document of the service it depends on is updated, if it is there.
LEMMA UpdateDependentIs ==
    ASSUME TypeInv, NEW c \in Calls, UpdateDependent(c)
    PROVE  LET q == req'[c]
               r == req[c]
               d == req[c].dep
           IN  /\ TypeInv' /\ Others(c) /\ SameDocs(d)
               /\ UNCHANGED <<site, kms, edv, data, pages, cache, h>>
               /\ r.at = "dependent" /\ d \in SsiApps /\ d \in Apps
               /\ r.app = r.main /\ r.main \in Apps
               /\ \/ doc[d] = None /\ doc'[d] = None
                  \/ /\ doc[d] # None /\ doc'[d] # None
                     /\ doc'[d].env = r.env /\ doc'[d].dep = doc[d].dep
               /\ q.at = "get" /\ q.app = d /\ q.main = r.main
               /\ q.dep = r.dep /\ q.env = r.env
<1> DEFINE d == req[c].dep
           r == req[c]
<1>1. /\ RequestsOK /\ HistoryOK /\ StoreOK /\ r.at = "dependent"
      /\ UNCHANGED <<site, kms, edv, data, pages, cache, faults, h>>
      /\ doc' = IF doc[d] = None THEN doc
                ELSE [doc EXCEPT ![d].env = req[c].env]
      /\ req' = [req EXCEPT ![c].at = "get", ![c].app = d]
  BY DEF UpdateDependent, TypeInv, vaults
<1>2. r \in Req /\ Fit(r)
  BY <1>1, ReadyReq DEF RequestsOK
<1>3. /\ d \in SsiApps /\ d \in Apps /\ r.app = r.main /\ r.main \in Apps
      /\ r.env \in Envs /\ r.main \notin SsiApps
  BY <1>1, <1>2, ReadyReq, AppsAre DEF Fit, Updating, Req
<1> DEFINE q == [req[c] EXCEPT !.at = "get", !.app = d]
<1>4. req' = [req EXCEPT ![c] = q]
  BY <1>1
<1>5. "get" \in Labels
  BY LabelsAre DEF Updating
<1>6. /\ q \in Req /\ q.at = "get" /\ q.app = d /\ q.main = r.main
      /\ q.dep = r.dep /\ q.env = r.env
  BY <1>2, <1>3, <1>5 DEF Req
<1> HIDE DEF q
<1>7. Fit(q)
  BY <1>3, <1>6, AppsAre, LabelsAre
  DEF Fit, Creating, Updating, Deleting, Granting
<1>8. RequestsOK' /\ Others(c) /\ req'[c] = q
  BY <1>1, <1>4, <1>6, <1>7, UpdateIs
<1>9. /\ DocsOK' /\ SameDocs(d)
      /\ \/ doc[d] = None /\ doc'[d] = None
         \/ /\ doc[d] # None /\ doc'[d] # None
            /\ doc'[d].env = r.env /\ doc'[d].dep = doc[d].dep
  <2>1. CASE doc[d] = None
    BY <1>1, <2>1 DEF SameDocs, DocsOK, StoreOK
  <2>2. CASE doc[d] # None
    <3> DEFINE n == [doc[d] EXCEPT !.env = r.env]
    <3>1. doc[d] \in Doc /\ doc[d].dep = None
      BY <1>1, <1>3, <2>2, DocIs DEF StoreOK
    <3>2. n \in Doc /\ n.env = r.env /\ n.dep = doc[d].dep /\ n # None
      BY <1>3, <3>1, NoneAssumption DEF Doc
    <3>3. doc' = [doc EXCEPT ![d] = n]
      BY <1>1, <2>2
    <3> HIDE DEF n
    <3>4. /\ doc'[d] = n /\ \A b \in Apps \ {d} : doc'[b] = doc[b]
          /\ doc' \in [Apps -> Doc \cup {None}]
      BY <1>1, <1>3, <3>2, <3>3 DEF StoreOK, DocsOK
    <3>5. DocsOK'
      BY <1>1, <1>3, <3>1, <3>2, <3>4, AppsAre DEF StoreOK, DocsOK
    <3> QED BY <1>1, <2>2, <3>2, <3>4, <3>5 DEF SameDocs
  <2> QED BY <2>1, <2>2
<1>10. StoreOK' /\ HistoryOK'
  BY <1>1, <1>9 DEF StoreOK, CacheOK, HistoryOK
<1> QED BY <1>1, <1>3, <1>6, <1>8, <1>9, <1>10 DEF TypeInv

\* The copies that there are, of those whose keys it knows.
LEMMA GetCopiesIs ==
    ASSUME TypeInv, NEW c \in Calls, GetCopies(c)
    PROVE  LET q == req'[c]
               r == req[c]
           IN  /\ TypeInv' /\ Others(c) /\ UNCHANGED <<stores, h>>
               /\ r.at = "get" /\ q.at = "set" /\ r.app \in Apps
               /\ q.app = r.app /\ q.main = r.main /\ q.dep = r.dep
               /\ q.env = r.env
               /\ q.had = {s \in KnownSlots : cache[r.app][s] # None}
<1> DEFINE r == req[c]
           had == {s \in KnownSlots : cache[r.app][s] # None}
           q == [req[c] EXCEPT !.at = "set", !.had = had]
<1>1. /\ RequestsOK /\ HistoryOK /\ StoreOK /\ r.at = "get"
      /\ UNCHANGED <<stores, faults, h>>
      /\ req' = [req EXCEPT ![c] = q]
  BY DEF GetCopies, TypeInv, vaults, stores
<1>2. r \in Req /\ Fit(r)
  BY <1>1, ReadyReq DEF RequestsOK
<1>3. /\ "set" \in Labels /\ had \in SUBSET Slots
  BY LabelsAre DEF Updating, KnownSlots
<1> HIDE DEF had
<1>4. /\ q \in Req /\ q.at = "set" /\ q.app = r.app /\ q.main = r.main
      /\ q.dep = r.dep /\ q.env = r.env /\ q.had = had
  BY <1>2, <1>3 DEF Req
<1> HIDE DEF q
<1>5. Fit(q) /\ r.app \in Apps
  BY <1>1, <1>2, <1>4, LabelsAre
  DEF Fit, Creating, Updating, Deleting, Granting
<1>6. RequestsOK' /\ Others(c) /\ req'[c] = q
  BY <1>1, <1>4, <1>5, UpdateIs
<1>7. StoreOK' /\ HistoryOK'
  BY <1>1 DEF StoreOK, DocsOK, CacheOK, HistoryOK, stores
<1> QED BY <1>1, <1>4, <1>5, <1>6, <1>7 DEF TypeInv, had

\* The other services keep their copies, and a its copies in the other slots.
SameCopies(a, S) ==
    /\ \A b \in Apps \ {a} : cache'[b] = cache[b]
    /\ \A s \in Slots \ S : cache'[a][s] = cache[a][s]

\* Those of S are written; a copy that was there keeps its time to live.
Written(a, S, env) ==
    /\ SameCopies(a, S)
    /\ \A s \in S : /\ cache'[a][s] # None
                    /\ cache'[a][s].env = env
                    /\ cache[a][s] # None /\ cache[a][s].ttl
                           => cache'[a][s].ttl

\* A copy written over the one there was.
LEMMA RewrittenIs ==
    ASSUME CacheOK, NEW a \in Apps, NEW s \in Slots, NEW env \in Envs
    PROVE  /\ Rewritten(a, s, env) \in Copy
           /\ Rewritten(a, s, env) # None
           /\ Rewritten(a, s, env).env = env
           /\ cache[a][s] # None /\ cache[a][s].ttl
                  => Rewritten(a, s, env).ttl
<1>1. (cache[a][s] # None /\ cache[a][s].ttl) \in BOOLEAN
  BY CopyIs
<1>2. /\ Rewritten(a, s, env) \in Copy
      /\ Rewritten(a, s, env).env = env
      /\ cache[a][s] # None /\ cache[a][s].ttl => Rewritten(a, s, env).ttl
  BY <1>1 DEF Rewritten, Copy
<1> QED BY <1>2, NoneAssumption

\* The copies of a in the slots of S are written.
LEMMA WrittenIs ==
    ASSUME CacheOK, NEW a \in Apps, NEW S \in SUBSET Slots,
           NEW env \in Envs,
           cache' = [cache EXCEPT ![a] = [s \in Slots |->
                        IF s \in S THEN Rewritten(a, s, env) ELSE @[s]]]
    PROVE  CacheOK' /\ Written(a, S, env)
<1> DEFINE new == [s \in Slots |->
                      IF s \in S THEN Rewritten(a, s, env) ELSE cache[a][s]]
<1>1. \A s \in Slots : Rewritten(a, s, env) \in Copy
  BY RewrittenIs
<1>2. /\ new \in [Slots -> Copy \cup {None}]
      /\ \A s \in S : new[s] = Rewritten(a, s, env)
      /\ \A s \in Slots \ S : new[s] = cache[a][s]
  BY <1>1 DEF CacheOK
<1>3. cache' = [cache EXCEPT ![a] = new]
  OBVIOUS
<1> HIDE DEF new
<1>4. /\ cache'[a] = new /\ CacheOK'
      /\ \A b \in Apps \ {a} : cache'[b] = cache[b]
  BY <1>2, <1>3 DEF CacheOK
<1>5. SameCopies(a, S)
  BY <1>2, <1>4 DEF SameCopies
<1>6. ASSUME NEW s \in S
      PROVE  /\ cache'[a][s] # None
             /\ cache'[a][s].env = env
             /\ cache[a][s] # None /\ cache[a][s].ttl => cache'[a][s].ttl
  BY <1>2, <1>4, RewrittenIs
<1> QED BY <1>4, <1>5, <1>6 DEF Written

\* The copies are written; it goes on to those of the service it is about.
LEMMA SetCopiesIs ==
    ASSUME TypeInv, NEW c \in Calls, SetCopies(c)
    PROVE  LET q == req'[c]
               r == req[c]
               a == req[c].app
           IN  /\ TypeInv' /\ Others(c)
               /\ UNCHANGED <<doc, site, kms, edv, data, pages, h>>
               /\ r.at = "set" /\ a \in Apps /\ r.had \subseteq Slots
               /\ Written(a, r.had, r.env)
               /\ \/ a = r.main /\ q = Idle
                  \/ /\ a # r.main /\ q.at = "get" /\ q.app = r.main
                     /\ r.main \in Apps /\ q.main = r.main
                     /\ q.dep = r.dep /\ q.env = r.env /\ q.had = {}
<1> DEFINE r == req[c]
           a == req[c].app
           q == [req[c] EXCEPT !.at = "get", !.app = r.main, !.had = {}]
<1>1. /\ RequestsOK /\ HistoryOK /\ StoreOK /\ r.at = "set"
      /\ UNCHANGED <<doc, site, kms, edv, data, pages, faults, h>>
      /\ cache' = [cache EXCEPT ![a] = [s \in Slots |->
                      IF s \in r.had THEN Rewritten(a, s, r.env) ELSE @[s]]]
      /\ AfterCopies(c)
  BY DEF SetCopies, TypeInv, vaults
<1>2. r \in Req /\ Fit(r)
  BY <1>1, ReadyReq DEF RequestsOK
<1>3. /\ a \in Apps /\ r.main \in Apps /\ r.had \subseteq Slots
      /\ r.env \in Envs
      /\ a \in SsiApps /\ r.main \in SsiApps => r.dep = None
  BY <1>1, <1>2, ReadyReq, AppsAre DEF Fit, Updating, Req
<1>4. CacheOK' /\ Written(a, r.had, r.env)
  <2>1. PICK S \in SUBSET Slots, e \in Envs : S = r.had /\ e = r.env
    BY <1>3
  <2>2. cache' = [cache EXCEPT ![a] = [s \in Slots |->
                     IF s \in S THEN Rewritten(a, s, e) ELSE @[s]]]
    BY <1>1, <2>1
  <2>3. CacheOK /\ a \in Apps
    BY <1>1, <1>3 DEF StoreOK
  <2> HIDE DEF a
  <2>4. CacheOK' /\ Written(a, S, e)
    BY <2>2, <2>3, WrittenIs
  <2> QED BY <2>1, <2>4
<1>5. StoreOK' /\ HistoryOK'
  BY <1>1, <1>4 DEF StoreOK, DocsOK, HistoryOK
<1>6. CASE a = r.main
  <2>1. Done(c)
    BY <1>1, <1>6 DEF AfterCopies
  <2> QED BY <1>1, <1>3, <1>4, <1>5, <1>6, <2>1, DoneIs DEF TypeInv
<1>7. CASE a # r.main
  <2>1. req' = [req EXCEPT ![c] = q]
    BY <1>1, <1>7 DEF AfterCopies
  <2>2. "get" \in Labels /\ {} \in SUBSET Slots
    BY LabelsAre DEF Updating
  <2>3. /\ q \in Req /\ q.at = "get" /\ q.app = r.main /\ q.main = r.main
        /\ q.dep = r.dep /\ q.env = r.env /\ q.had = {}
    BY <1>2, <1>3, <2>2 DEF Req
  <2> HIDE DEF q
  <2>4. r.main \in SsiApps => r.dep = None
    BY <1>1, <1>2, <1>3, <1>7, ReadyReq DEF Fit, Req
  <2>5. Fit(q)
    BY <1>3, <2>3, <2>4, LabelsAre
    DEF Fit, Creating, Updating, Deleting, Granting
  <2>6. RequestsOK' /\ Others(c) /\ req'[c] = q
    BY <1>1, <2>1, <2>3, <2>5, UpdateIs
  <2> QED BY <1>1, <1>3, <1>4, <1>5, <1>7, <2>3, <2>6 DEF TypeInv
<1> QED BY <1>6, <1>7

-----------------------------------------------------------------------------
(* What the steps of a deletion do.                                        *)

\* What a request to delete a service knows.
LEMMA DeletionIs ==
    ASSUME StoreOK, NEW c, NEW a \in Apps, NEW main \in Apps, doc[a] # None
    PROVE  LET q == Delete(c, a, main) IN
           /\ q \in Req /\ Fit(q) /\ q.at = "check" /\ q.app = a
           /\ q.main = main /\ q.dep = doc[a].dep
<1> DEFINE q == Delete(c, a, main)
<1>1. /\ q.at = "check" /\ q.app = a /\ q.main = main /\ q.dep = doc[a].dep
      /\ q.env = "dev"
  BY DEF Delete, Idle
<1>2. doc[a].dep \in SsiApps \cup {None} /\ "check" \in Labels
  BY DocIs, LabelsAre DEF StoreOK, Deleting
<1>3. q \in Req
  BY <1>2, IdleIs DEF Delete, Req
<1>4. Fit(q)
  BY <1>1, LabelsAre DEF Fit, Creating, Updating, Deleting, Granting, Envs
<1> QED BY <1>1, <1>3, <1>4

\* Who is about to make a service that depends on a makes a linked.
LinkedBy(a) == \A d \in Calls : req[d].at \in Creating /\ req[d].dep = a
                   => a \in h'.linking

\* A request to delete a service.
LEMMA DeleteAppIs ==
    ASSUME TypeInv, NEW c \in Calls, NEW a \in Apps, DeleteApp(c, a)
    PROVE  LET q == req'[c] IN
           /\ TypeInv' /\ Others(c) /\ UNCHANGED stores
           /\ doc[a] # None /\ req[c].at = "idle"
           /\ q.at = "check" /\ q.app = a
           /\ SameIds /\ Grown /\ LinkedBy(a)
           /\ CrossedBy(c, a, Updating \cup Granting)
<1>1. /\ RequestsOK /\ HistoryOK /\ StoreOK /\ doc[a] # None
      /\ UNCHANGED <<stores, faults>> /\ Start(c, Delete(c, a, a))
      /\ h' = [h EXCEPT
           !.crossed = IF Busy(a, Granting \cup Updating)
                       THEN @ \cup {a} ELSE @,
           !.linking = IF \E d \in Calls : /\ req[d].at \in Creating
                                           /\ req[d].dep = a
                       THEN @ \cup {a} ELSE @]
  BY DEF DeleteApp, TypeInv, stores, vaults
<1>2. PICK q : q = Delete(c, a, a)
  OBVIOUS
<1>3. q \in Req /\ Fit(q) /\ q.at = "check" /\ q.app = a
  BY <1>1, <1>2, DeletionIs
<1>4. /\ RequestsOK' /\ req[c].at = "idle" /\ req'[c] = q /\ Others(c)
  BY <1>1, <1>2, <1>3, StartIs
<1>5. /\ HistoryOK' /\ SameIds /\ Grown
      /\ Busy(a, Granting \cup Updating) => a \in h'.crossed
      /\ LinkedBy(a)
  <2>1. PICK C : C = IF Busy(a, Granting \cup Updating)
                     THEN h.crossed \cup {a} ELSE h.crossed
    OBVIOUS
  <2>2. PICK L : L = IF \E d \in Calls : /\ req[d].at \in Creating
                                         /\ req[d].dep = a
                     THEN h.linking \cup {a} ELSE h.linking
    OBVIOUS
  <2>3. h' = [h EXCEPT !.crossed = C, !.linking = L]
    BY <1>1, <2>1, <2>2
  <2>4. h.crossed \subseteq Apps /\ h.linking \subseteq Apps
    BY <1>1 DEF HistoryOK, History
  <2>5. /\ h.crossed \subseteq C /\ C \subseteq Apps
        /\ Busy(a, Granting \cup Updating) => a \in C
    BY <2>1, <2>4
  <2>6. /\ h.linking \subseteq L /\ L \subseteq Apps
        /\ \A d \in Calls : req[d].at \in Creating /\ req[d].dep = a => a \in L
    BY <2>2, <2>4
  <2>7. /\ HistoryOK' /\ SameIds /\ Grown
        /\ h'.crossed = C /\ h'.linking = L
    BY <1>1, <2>3, <2>5, <2>6
    DEF HistoryOK, History, SameIds, SameUsed, SameDeleted, Grown
  <2> QED BY <2>5, <2>6, <2>7 DEF LinkedBy
<1>6. CrossedBy(c, a, Updating \cup Granting)
  BY <1>5 DEF CrossedBy, Busy
<1>7. StoreOK'
  BY <1>1 DEF StoreOK, DocsOK, CacheOK, stores
<1> QED BY <1>1, <1>3, <1>4, <1>5, <1>6, <1>7 DEF TypeInv

\* A step of a deletion: what it knows stays the same, or it ends.
Goes(c, from, to) ==
    /\ Others(c) /\ req[c].at = from /\ req[c].app \in Apps
    /\ req'[c].at = to /\ Same(req'[c], req[c])

Ends(c, from) ==
    /\ Others(c) /\ req[c].at = from /\ req[c].app \in Apps
    /\ req'[c] = Idle

\* To its next await.
LEMMA GoesOn ==
    ASSUME RequestsOK, NEW c \in Calls, NEW from \in Deleting,
           NEW to \in Deleting \ {"unpage"}, req[c].at = from, Goto(c, to)
    PROVE  RequestsOK' /\ Goes(c, from, to)
<1>1. to \in Labels
  BY LabelsAre
<1>2. req[c].app \in Apps
  BY LabelsAre, ReadyReq DEF RequestsOK, Fit
<1> QED BY <1>1, <1>2, OnIs DEF Goes

\* To its end.
LEMMA EndsHere ==
    ASSUME RequestsOK, NEW c \in Calls, NEW from \in Deleting,
           req[c].at = from, Done(c)
    PROVE  RequestsOK' /\ Ends(c, from)
<1>1. req[c].app \in Apps
  BY LabelsAre, ReadyReq DEF RequestsOK, Fit
<1> QED BY <1>1, DoneIs DEF Ends

\* The labels of a deletion.
LEMMA DeletingAre ==
    /\ {"check", "decrypt", "register", "unvault", "forget", "drop",
        "unpage", "delete", "clear"} \subseteq Deleting
    /\ Doomed \subseteq Deleting
BY DEF Deleting, Doomed

\* No service depends on a.
Unlinked(a) == \A k \in KycApps : doc[k] # None => doc[k].dep # a

\* Who depends on it is looked for.
LEMMA CheckLinksIs ==
    ASSUME TypeInv, NEW c \in Calls, CheckLinks(c)
    PROVE  /\ TypeInv' /\ UNCHANGED <<stores, h>>
           /\ \/ Ends(c, "check")
              \/ Goes(c, "check", "decrypt") /\ Unlinked(req[c].app)
<1>1. /\ RequestsOK /\ HistoryOK /\ StoreOK /\ req[c].at = "check"
      /\ UNCHANGED <<stores, faults, h>>
      /\ Done(c) \/ (Goto(c, "decrypt") /\ Unlinked(req[c].app))
  BY DEF CheckLinks, TypeInv, stores, vaults, Unlinked
<1>2. StoreOK' /\ HistoryOK'
  BY <1>1 DEF StoreOK, DocsOK, CacheOK, HistoryOK, stores
<1>3. CASE Done(c)
  BY <1>1, <1>2, <1>3, EndsHere, DeletingAre DEF TypeInv
<1>4. CASE Goto(c, "decrypt") /\ Unlinked(req[c].app)
  BY <1>1, <1>2, <1>4, GoesOn, DeletingAre DEF TypeInv
<1> QED BY <1>1, <1>3, <1>4

\* The secret is needed.
LEMMA DecryptIs ==
    ASSUME TypeInv, NEW c \in Calls, Decrypt(c)
    PROVE  /\ TypeInv' /\ UNCHANGED <<stores, h>>
           /\ Ends(c, "decrypt") \/ Goes(c, "decrypt", "register")
<1>1. /\ RequestsOK /\ HistoryOK /\ StoreOK /\ req[c].at = "decrypt"
      /\ UNCHANGED <<stores, faults, h>>
      /\ Done(c) \/ Goto(c, "register")
  BY DEF Decrypt, TypeInv, stores, vaults
<1>2. StoreOK' /\ HistoryOK'
  BY <1>1 DEF StoreOK, DocsOK, CacheOK, HistoryOK, stores
<1>3. CASE Done(c)
  BY <1>1, <1>2, <1>3, EndsHere, DeletingAre DEF TypeInv
<1>4. CASE Goto(c, "register")
  BY <1>1, <1>2, <1>4, GoesOn, DeletingAre DEF TypeInv
<1> QED BY <1>1, <1>3, <1>4

\* The vault is registered, and there again if it was gone.
LEMMA RegisterVaultIs ==
    ASSUME TypeInv, NEW c \in Calls, RegisterVault(c)
    PROVE  /\ TypeInv' /\ UNCHANGED <<doc, site, kms, data, pages, cache, h>>
           /\ Goes(c, "register", "unvault")
           /\ edv' = edv \cup {req[c].app}
<1>1. /\ RequestsOK /\ HistoryOK /\ StoreOK /\ req[c].at = "register"
      /\ UNCHANGED <<doc, site, kms, data, pages, cache, faults, h>>
      /\ Goto(c, "unvault") /\ edv' = edv \cup {req[c].app}
  BY DEF RegisterVault, TypeInv
<1>2. RequestsOK' /\ Goes(c, "register", "unvault")
  BY <1>1, GoesOn, DeletingAre
<1>3. StoreOK' /\ HistoryOK'
  BY <1>1, <1>2 DEF StoreOK, DocsOK, CacheOK, HistoryOK, Goes
<1> QED BY <1>1, <1>2, <1>3 DEF TypeInv

\* The vault is deleted.
LEMMA DeleteVaultIs ==
    ASSUME TypeInv, NEW c \in Calls, DeleteVault(c)
    PROVE  /\ TypeInv' /\ UNCHANGED <<doc, site, kms, data, pages, cache, h>>
           /\ \/ Goes(c, "unvault", "forget")
              \/ Ends(c, "unvault") /\ req[c].app \notin edv
           /\ edv' = edv \ {req[c].app}
<1>1. /\ RequestsOK /\ HistoryOK /\ StoreOK /\ req[c].at = "unvault"
      /\ UNCHANGED <<doc, site, kms, data, pages, cache, faults, h>>
      /\ Goto(c, "forget") \/ (req[c].app \notin edv /\ Done(c))
      /\ edv' = edv \ {req[c].app}
  BY DEF DeleteVault, GoneOr, TypeInv
<1>2. StoreOK' /\ HistoryOK'
  BY <1>1 DEF StoreOK, DocsOK, CacheOK, HistoryOK
<1>3. CASE Done(c) /\ req[c].app \notin edv
  BY <1>1, <1>2, <1>3, EndsHere, DeletingAre DEF TypeInv
<1>4. CASE Goto(c, "forget")
  BY <1>1, <1>2, <1>4, GoesOn, DeletingAre DEF TypeInv
<1> QED BY <1>1, <1>3, <1>4

\* The secret is deleted.
LEMMA DeleteKeysIs ==
    ASSUME TypeInv, NEW c \in Calls, DeleteKeys(c)
    PROVE  /\ TypeInv' /\ UNCHANGED <<doc, site, edv, data, pages, cache, h>>
           /\ \/ Goes(c, "forget", "drop")
              \/ Ends(c, "forget") /\ req[c].app \notin kms
           /\ kms' = kms \ {req[c].app}
<1>1. /\ RequestsOK /\ HistoryOK /\ StoreOK /\ req[c].at = "forget"
      /\ UNCHANGED <<doc, site, edv, data, pages, cache, faults, h>>
      /\ Goto(c, "drop") \/ (req[c].app \notin kms /\ Done(c))
      /\ kms' = kms \ {req[c].app}
  BY DEF DeleteKeys, GoneOr, TypeInv
<1>2. StoreOK' /\ HistoryOK'
  BY <1>1 DEF StoreOK, DocsOK, CacheOK, HistoryOK
<1>3. CASE Done(c) /\ req[c].app \notin kms
  BY <1>1, <1>2, <1>3, EndsHere, DeletingAre DEF TypeInv
<1>4. CASE Goto(c, "drop")
  BY <1>1, <1>2, <1>4, GoesOn, DeletingAre DEF TypeInv
<1> QED BY <1>1, <1>3, <1>4

\* The database is dropped, or an error swallowed.
LEMMA DropDatabaseIs ==
    ASSUME TypeInv, NEW c \in Calls, DropDatabase(c)
    PROVE  LET a == req[c].app IN
           /\ TypeInv' /\ UNCHANGED <<doc, site, kms, edv, pages, cache>>
           /\ Goes(c, "drop", "unpage") \/ Goes(c, "drop", "delete")
           /\ SameIds /\ Grown
           /\ \/ data' = data \ {a}
              \/ data' = data /\ a \in h'.undropped
<1> DEFINE a == req[c].app
<1>1. /\ RequestsOK /\ HistoryOK /\ StoreOK /\ req[c].at = "drop"
      /\ UNCHANGED <<doc, site, kms, edv, pages, cache>>
      /\ \/ data' = data \ {a} /\ UNCHANGED <<faults, h>>
         \/ /\ faults < MaxFaults /\ faults' = faults + 1
            /\ h' = [h EXCEPT !.undropped = @ \cup {a}]
            /\ UNCHANGED data
      /\ Goto(c, IF a \in KycApps THEN "unpage" ELSE "delete")
  BY DEF DropDatabase, TypeInv, vaults
<1>2. req[c].at \in Deleting /\ req[c] \in Req /\ Fit(req[c]) /\ a \in Apps
  BY <1>1, DeletingAre, LabelsAre, ReadyReq DEF RequestsOK, Fit
<1>3. /\ HistoryOK' /\ SameIds /\ Grown
      /\ data' = data \ {a} \/ (data' = data /\ a \in h'.undropped)
  <2>1. CASE data' = data \ {a} /\ UNCHANGED <<faults, h>>
    BY <1>1, <2>1, SameHistory DEF HistoryOK
  <2>2. CASE /\ h' = [h EXCEPT !.undropped = @ \cup {a}]
             /\ UNCHANGED data
    BY <1>1, <1>2, <2>2
    DEF HistoryOK, History, SameIds, SameUsed, SameDeleted, Grown
  <2> QED BY <1>1, <2>1, <2>2
<1>4. StoreOK'
  <2>1. faults' \in 0..MaxFaults
    BY <1>1, ServicesAssumption DEF StoreOK
  <2> QED BY <1>1, <2>1 DEF StoreOK, DocsOK, CacheOK
<1>5. CASE a \in KycApps
  <2>1. Goto(c, "unpage") /\ "unpage" \in Labels
    BY <1>1, <1>5, DeletingAre, LabelsAre
  <2>2. /\ req'[c] \in Req /\ req'[c].at = "unpage" /\ Others(c)
        /\ Same(req'[c], req[c]) /\ (Fit(req'[c]) => RequestsOK')
    BY <1>1, <2>1, GotoIs
  <2>3. Fit(req'[c])
    BY <1>1, <1>2, <1>5, <2>2, LabelsAre
    DEF Fit, Same, Creating, Updating, Deleting, Granting
  <2> QED BY <1>1, <1>2, <1>3, <1>4, <2>2, <2>3 DEF TypeInv, Goes
<1>6. CASE a \notin KycApps
  <2>1. Goto(c, "delete")
    BY <1>1, <1>6
  <2>2. RequestsOK' /\ Goes(c, "drop", "delete")
    BY <1>1, <2>1, GoesOn, DeletingAre
  <2> QED BY <1>1, <1>3, <1>4, <2>2 DEF TypeInv
<1> QED BY <1>5, <1>6

\* A page is deleted.
LEMMA DeletePageIs ==
    ASSUME TypeInv, NEW c \in Calls, DeletePage(c)
    PROVE  /\ TypeInv' /\ UNCHANGED <<doc, site, kms, edv, data, cache, h>>
           /\ Goes(c, "unpage", "delete")
<1>1. /\ RequestsOK /\ HistoryOK /\ StoreOK /\ req[c].at = "unpage"
      /\ UNCHANGED <<doc, site, kms, edv, data, cache, faults, h>>
      /\ pages' \subseteq pages /\ Goto(c, "delete")
  BY DEF DeletePage, TypeInv, vaults
<1>2. StoreOK' /\ HistoryOK'
  BY <1>1 DEF StoreOK, DocsOK, CacheOK, HistoryOK
<1>3. RequestsOK' /\ Goes(c, "unpage", "delete")
  BY <1>1, GoesOn, DeletingAre
<1> QED BY <1>1, <1>2, <1>3 DEF TypeInv

\* The document is deleted.
LEMMA DeleteDocIs ==
    ASSUME TypeInv, NEW c \in Calls, DeleteDoc(c)
    PROVE  LET a == req[c].app IN
           /\ TypeInv' /\ UNCHANGED <<kms, edv, data, pages, cache>>
           /\ Goes(c, "delete", "clear")
           /\ SameDocs(a) /\ doc'[a] = None /\ site'[a] = NoSite
           /\ SameUsed /\ Grown /\ h'.deleted = h.deleted \cup {a}
<1> DEFINE a == req[c].app
<1>1. /\ RequestsOK /\ HistoryOK /\ StoreOK /\ req[c].at = "delete"
      /\ UNCHANGED <<kms, edv, data, pages, cache, faults>>
      /\ doc' = [doc EXCEPT ![a] = None] /\ site' = [site EXCEPT ![a] = NoSite]
      /\ h' = [h EXCEPT !.deleted = @ \cup {a}]
      /\ Goto(c, "clear")
  BY DEF DeleteDoc, TypeInv, vaults
<1>2. RequestsOK' /\ Goes(c, "delete", "clear") /\ a \in Apps
  BY <1>1, GoesOn, DeletingAre DEF Goes
<1>3. NoSite \in Site
  BY DEF NoSite, Site
<1>4. /\ doc' \in [Apps -> Doc \cup {None}] /\ doc'[a] = None
      /\ site' \in [Apps -> Site] /\ site'[a] = NoSite
      /\ SameDocs(a)
  BY <1>1, <1>2, <1>3 DEF StoreOK, DocsOK, SameDocs
<1>5. DocsOK'
  BY <1>1, <1>4, AppsAre DEF StoreOK, DocsOK, SameDocs
<1>6. StoreOK'
  BY <1>1, <1>4, <1>5 DEF StoreOK, CacheOK
<1>7. HistoryOK' /\ SameUsed /\ Grown /\ h'.deleted = h.deleted \cup {a}
  BY <1>1, <1>2 DEF HistoryOK, History, SameUsed, Grown
<1> QED BY <1>1, <1>2, <1>4, <1>6, <1>7 DEF TypeInv

\* The copies of a that are known go.
ClearedOf(a) == /\ SameCopies(a, KnownSlots)
                /\ \A s \in KnownSlots : cache'[a][s] = None

\* Who has read copies of a that go makes a lapsed.
LapsedBy(a, S) == Held(a, S) => a \in h'.lapsed

\* It begins to delete d, the service that r.app depended on.
FollowsUp(c, d) ==
    LET q == req'[c] IN
    /\ d \in Apps /\ doc[d] # None
    /\ q.at = "check" /\ q.app = d
    /\ LinkedBy(d) /\ CrossedBy(c, d, Updating \cup Granting)

\* The copies are deleted, and it goes on to the service it depended on.
LEMMA ClearCopiesIs ==
    ASSUME TypeInv, NEW c \in Calls, ClearCopies(c)
    PROVE  LET r == req[c]
               a == req[c].app
           IN  /\ TypeInv' /\ Others(c)
               /\ UNCHANGED <<doc, site, kms, edv, data, pages>>
               /\ r.at = "clear" /\ a \in Apps
               /\ ClearedOf(a) /\ LapsedBy(a, KnownSlots)
               /\ SameIds /\ Grown
               /\ req'[c] = Idle \/ \E d \in Apps : FollowsUp(c, d)
<1> DEFINE r == req[c]
           a == req[c].app
           d == req[c].dep
<1>1. /\ RequestsOK /\ HistoryOK /\ StoreOK /\ r.at = "clear"
      /\ UNCHANGED <<doc, site, kms, edv, data, pages, faults>>
      /\ cache' = [cache EXCEPT ![a] = Cleared(a)]
  BY DEF ClearCopies, TypeInv, vaults
<1>2. r.at \in Deleting /\ r.at # "idle"
  BY <1>1, DeletingAre
<1>3. /\ a \in Apps /\ r.main \in Apps
      /\ d \in SsiApps \cup {None} /\ (d # None => d \in Apps)
  BY <1>1, <1>2, ReadyReq, AppsAre DEF RequestsOK, Fit
<1>4. CacheOK' /\ ClearedOf(a)
  <2>1. /\ Cleared(a) \in [Slots -> Copy \cup {None}]
        /\ \A s \in KnownSlots : Cleared(a)[s] = None
        /\ \A s \in Slots \ KnownSlots : Cleared(a)[s] = cache[a][s]
    BY <1>1, <1>3 DEF Cleared, StoreOK, CacheOK, KnownSlots
  <2> DEFINE new == Cleared(a)
  <2>2. cache' = [cache EXCEPT ![a] = new]
    BY <1>1
  <2> HIDE DEF new
  <2>3. /\ cache'[a] = new /\ \A b \in Apps \ {a} : cache'[b] = cache[b]
    BY <1>1, <1>3, <2>2 DEF StoreOK, CacheOK
  <2>4. CacheOK'
    BY <1>1, <1>3, <2>1, <2>2 DEF StoreOK, CacheOK, new
  <2> QED BY <2>1, <2>3, <2>4 DEF ClearedOf, SameCopies, new
<1>5. StoreOK'
  BY <1>1, <1>4 DEF StoreOK, DocsOK
<1>6. PICK L : L = IF Held(a, KnownSlots) THEN h.lapsed \cup {a} ELSE h.lapsed
  OBVIOUS
<1>7. /\ h.lapsed \subseteq L /\ L \subseteq Apps
      /\ Held(a, KnownSlots) => a \in L
  BY <1>1, <1>3, <1>6 DEF HistoryOK, History
<1>8. CASE /\ Done(c)
           /\ h' = [h EXCEPT !.lapsed = IF Held(a, KnownSlots)
                                        THEN @ \cup {a} ELSE @]
  <2>1. h' = [h EXCEPT !.lapsed = L]
    BY <1>6, <1>8
  <2>2. HistoryOK' /\ SameIds /\ Grown /\ h'.lapsed = L
    BY <1>1, <1>7, <2>1
    DEF HistoryOK, History, SameIds, SameUsed, SameDeleted, Grown
  <2>3. LapsedBy(a, KnownSlots)
    BY <1>7, <2>2 DEF LapsedBy
  <2>4. RequestsOK' /\ req'[c] = Idle /\ Others(c)
    BY <1>1, <1>8, DoneIs
  <2> QED BY <1>1, <1>3, <1>4, <1>5, <2>2, <2>3, <2>4 DEF TypeInv
<1>9. CASE /\ d # None /\ doc[d] # None
           /\ req' = [req EXCEPT ![c] = Delete(c, d, a)]
           /\ h' = [h EXCEPT
                 !.lapsed = IF Held(a, KnownSlots) THEN @ \cup {a} ELSE @,
                 !.crossed = IF Busy(d, Granting \cup Updating)
                             THEN @ \cup {d} ELSE @,
                 !.linking = IF \E e \in Calls : /\ req[e].at \in Creating
                                                 /\ req[e].dep = d
                             THEN @ \cup {d} ELSE @]
  <2>1. PICK C : C = IF Busy(d, Granting \cup Updating)
                     THEN h.crossed \cup {d} ELSE h.crossed
    OBVIOUS
  <2>2. PICK K : K = IF \E e \in Calls : /\ req[e].at \in Creating
                                         /\ req[e].dep = d
                     THEN h.linking \cup {d} ELSE h.linking
    OBVIOUS
  <2>3. h' = [h EXCEPT !.lapsed = L, !.crossed = C, !.linking = K]
    BY <1>6, <1>9, <2>1, <2>2
  <2>4. /\ h.crossed \subseteq Apps /\ h.linking \subseteq Apps /\ d \in Apps
    BY <1>1, <1>3, <1>9 DEF HistoryOK, History
  <2>5. /\ h.crossed \subseteq C /\ C \subseteq Apps
        /\ Busy(d, Granting \cup Updating) => d \in C
    BY <2>1, <2>4
  <2>6. /\ h.linking \subseteq K /\ K \subseteq Apps
        /\ \A e \in Calls : req[e].at \in Creating /\ req[e].dep = d => d \in K
    BY <2>2, <2>4
  <2>7. /\ HistoryOK' /\ SameIds /\ Grown
        /\ h'.lapsed = L /\ h'.crossed = C /\ h'.linking = K
    BY <1>1, <1>7, <2>3, <2>5, <2>6
    DEF HistoryOK, History, SameIds, SameUsed, SameDeleted, Grown
  <2>8. LapsedBy(a, KnownSlots) /\ LinkedBy(d)
    BY <1>7, <2>6, <2>7 DEF LapsedBy, LinkedBy
  <2>9. CrossedBy(c, d, Updating \cup Granting)
    BY <2>5, <2>7 DEF CrossedBy, Busy
  <2>10. PICK q : q = Delete(c, d, a)
    OBVIOUS
  <2>11. q \in Req /\ Fit(q) /\ q.at = "check" /\ q.app = d
    BY <1>1, <1>3, <1>9, <2>4, <2>10, DeletionIs
  <2>12. RequestsOK' /\ req'[c] = q /\ Others(c)
    <3>1. req' = [req EXCEPT ![c] = q]
      BY <1>9, <2>10
    <3> QED BY <1>1, <2>11, <3>1, UpdateIs
  <2>13. FollowsUp(c, d)
    BY <1>9, <2>4, <2>8, <2>9, <2>11, <2>12 DEF FollowsUp
  <2> QED
    BY <1>1, <1>3, <1>4, <1>5, <2>4, <2>7, <2>8, <2>12, <2>13 DEF TypeInv
<1> QED BY <1>8, <1>9 DEF ClearCopies

-----------------------------------------------------------------------------
(* What the steps of a request for a token do.                             *)

\* A request for a token for a, which may have looked up nothing yet.
TokenBegun(c, a) ==
    LET q == req'[c] IN
    /\ TypeInv' /\ Others(c) /\ UNCHANGED stores
    /\ a \in h.used /\ req[c].at = "idle"
    /\ q.at \in {"find", "lookup"} /\ q.app = a
    /\ q.main = None /\ q.dep = None /\ q.had = {}
    /\ q.at = "lookup" => q.slot # "customer"
    /\ SameIds /\ Grown /\ CrossedBy(c, a, Updating \cup Deleting)

\* A request for a token: it reads the document first or the copy.
LEMMA AskTokenIs ==
    ASSUME TypeInv, NEW c \in Calls, NEW a \in Apps,
           NEW l \in {"find", "lookup"}, NEW slot \in Slots,
           l = "lookup" => slot # "customer", AskToken(c, a, l, slot)
    PROVE  TokenBegun(c, a)
<1> DEFINE q == [Idle EXCEPT !.at = l, !.app = a, !.slot = slot]
<1>1. /\ RequestsOK /\ HistoryOK /\ StoreOK /\ a \in h.used
      /\ UNCHANGED <<stores, faults>> /\ Start(c, q)
      /\ h' = [h EXCEPT !.crossed =
                   @ \cup Crossing(c, {a}, Updating \cup Deleting)]
  BY DEF AskToken, TypeInv, stores, vaults
<1>2. /\ q.at = l /\ q.app = a /\ q.main = None /\ q.dep = None
      /\ q.slot = slot /\ q.had = {} /\ q.env = "dev"
  BY DEF Idle
<1>3. l \in Labels /\ l \in Granting
  BY LabelsAre DEF Granting
<1>4. q \in Req
  BY <1>3, IdleIs DEF Req
<1> HIDE DEF q
<1>5. Fit(q)
  BY <1>2, <1>3, LabelsAre
  DEF Fit, Creating, Updating, Deleting, Granting, Envs
<1>6. RequestsOK' /\ req[c].at = "idle" /\ req'[c] = q /\ Others(c)
  BY <1>1, <1>4, <1>5, StartIs
<1>7. PICK C : C = h.crossed \cup Crossing(c, {a}, Updating \cup Deleting)
  OBVIOUS
<1>8. h.crossed \subseteq C /\ C \subseteq Apps
  BY <1>1, <1>7 DEF Crossing, HistoryOK, History
<1>9. HistoryOK' /\ SameIds /\ Grown /\ h'.crossed = C
  BY <1>1, <1>7, <1>8
  DEF HistoryOK, History, SameIds, SameUsed, SameDeleted, Grown
<1>10. CrossedBy(c, a, Updating \cup Deleting)
  BY <1>7, <1>9 DEF CrossedBy, Crossing
<1>11. StoreOK'
  BY <1>1 DEF StoreOK, DocsOK, CacheOK, stores
<1> QED
  BY <1>1, <1>2, <1>6, <1>9, <1>10, <1>11 DEF TypeInv, TokenBegun

\* The copy is looked up, and used, or a new one is going to be made.
LEMMA LookupCopyIs ==
    ASSUME TypeInv, NEW c \in Calls, LookupCopy(c)
    PROVE  LET q == req'[c]
               r == req[c]
               a == req[c].app
           IN  /\ TypeInv' /\ Others(c) /\ UNCHANGED <<stores, h>>
               /\ r.at = "lookup" /\ a \in Apps /\ r.slot \in Slots
               /\ \/ q = Idle
                  \/ /\ q.at = IF r.slot = "customer" THEN "store" ELSE "find"
                     /\ q.app = a /\ q.main = None /\ q.dep = None
                     /\ q.env = r.env /\ q.slot = r.slot
                     /\ q.had \subseteq {r.slot}
                     /\ q.had # {} => cache[a][r.slot] # None
<1> DEFINE r == req[c]
           a == req[c].app
           there == cache[a][r.slot] # None
           had == IF there THEN {r.slot} ELSE {}
           label == IF r.slot = "customer" THEN "store" ELSE "find"
           q == [req[c] EXCEPT !.at = label, !.had = had]
<1>1. /\ RequestsOK /\ HistoryOK /\ StoreOK /\ r.at = "lookup"
      /\ UNCHANGED <<stores, faults, h>>
      /\ Done(c) \/ req' = [req EXCEPT ![c] = q]
  BY DEF LookupCopy, TypeInv, vaults, stores
<1>2. r \in Req /\ Fit(r)
  BY <1>1, ReadyReq DEF RequestsOK
<1>3. /\ a \in Apps /\ r.slot \in Slots /\ r.main = None /\ r.dep = None
      /\ r.env \in Envs
  BY <1>1, <1>2 DEF Fit, Granting, Req
<1>4. StoreOK' /\ HistoryOK'
  BY <1>1 DEF StoreOK, DocsOK, CacheOK, HistoryOK, stores
<1>5. /\ label \in Labels /\ label \in {"store", "find"}
      /\ had \in SUBSET Slots /\ had \subseteq {r.slot} /\ (had # {} => there)
  BY <1>3, LabelsAre DEF Granting
<1>6. CASE Done(c)
  BY <1>1, <1>3, <1>4, <1>6, DoneIs DEF TypeInv
<1>7. CASE req' = [req EXCEPT ![c] = q]
  <2> HIDE DEF label, had
  <2>1. /\ q \in Req /\ q.at = label /\ q.app = a /\ q.main = None
        /\ q.dep = None /\ q.env = r.env /\ q.slot = r.slot /\ q.had = had
    BY <1>2, <1>3, <1>5 DEF Req
  <2>2. req' = [req EXCEPT ![c] = q]
    BY <1>7
  <2> HIDE DEF q
  <2>3. Fit(q)
    BY <1>3, <1>5, <2>1, LabelsAre
    DEF Fit, Creating, Updating, Deleting, Granting
  <2>4. RequestsOK' /\ Others(c) /\ req'[c] = q
    BY <1>1, <2>1, <2>2, <2>3, UpdateIs
  <2> QED BY <1>1, <1>3, <1>4, <1>5, <2>1, <2>4 DEF TypeInv, label
<1> QED BY <1>1, <1>6, <1>7

\* The document is read.
LEMMA FindAppIs ==
    ASSUME TypeInv, NEW c \in Calls, FindApp(c)
    PROVE  LET q == req'[c]
               r == req[c]
               a == req[c].app
           IN  /\ TypeInv' /\ Others(c) /\ UNCHANGED <<stores, h>>
               /\ r.at = "find" /\ a \in Apps
               /\ \/ q = Idle
                  \/ /\ doc[a] # None /\ q.env = doc[a].env
                     /\ q.at = IF r.slot = "customer" THEN "lookup"
                                                      ELSE "store"
                     /\ q.app = a /\ q.main = None /\ q.dep = None
                     /\ q.slot = r.slot /\ q.had = r.had
<1> DEFINE r == req[c]
           a == req[c].app
           label == IF r.slot = "customer" THEN "lookup" ELSE "store"
           q == [req[c] EXCEPT !.at = label, !.env = doc[a].env]
<1>1. /\ RequestsOK /\ HistoryOK /\ StoreOK /\ r.at = "find"
      /\ UNCHANGED <<stores, faults, h>>
      /\ Done(c) \/ (doc[a] # None /\ req' = [req EXCEPT ![c] = q])
  BY DEF FindApp, TypeInv, vaults, stores
<1>2. r \in Req /\ Fit(r)
  BY <1>1, ReadyReq DEF RequestsOK
<1>3. a \in Apps /\ r.main = None /\ r.dep = None
  BY <1>1, <1>2, ReadyReq DEF Fit, Granting
<1>4. StoreOK' /\ HistoryOK'
  BY <1>1 DEF StoreOK, DocsOK, CacheOK, HistoryOK, stores
<1>5. label \in Labels /\ label \in {"store", "lookup"}
  BY LabelsAre DEF Granting
<1>6. CASE Done(c)
  BY <1>1, <1>3, <1>4, <1>6, DoneIs DEF TypeInv
<1>7. CASE doc[a] # None /\ req' = [req EXCEPT ![c] = q]
  <2> HIDE DEF label
  <2>1. doc[a].env \in Envs
    BY <1>1, <1>3, <1>7, DocIs DEF StoreOK
  <2>2. /\ q \in Req /\ q.at = label /\ q.app = a /\ q.main = None
        /\ q.dep = None /\ q.env = doc[a].env /\ q.slot = r.slot
        /\ q.had = r.had
    BY <1>2, <1>3, <1>5, <2>1 DEF Req
  <2>3. req' = [req EXCEPT ![c] = q]
    BY <1>7
  <2> HIDE DEF q
  <2>4. Fit(q)
    BY <1>3, <1>5, <2>1, <2>2, LabelsAre
    DEF Fit, Creating, Updating, Deleting, Granting
  <2>5. RequestsOK' /\ Others(c) /\ req'[c] = q
    BY <1>1, <2>2, <2>3, <2>4, UpdateIs
  <2> QED BY <1>1, <1>3, <1>4, <1>7, <2>2, <2>5 DEF TypeInv, label
<1> QED BY <1>1, <1>6, <1>7

\* The copy is stored.
LEMMA StoreCopyIs ==
    ASSUME TypeInv, NEW c \in Calls, StoreCopy(c)
    PROVE  LET r == req[c]
               a == req[c].app
               slot == req[c].slot
           IN  /\ TypeInv' /\ Others(c)
               /\ UNCHANGED <<doc, site, kms, edv, data, pages, h>>
               /\ r.at = "store" /\ req'[c] = Idle
               /\ a \in Apps /\ slot \in Slots
               /\ SameCopies(a, {slot})
               /\ cache'[a][slot] # None /\ cache'[a][slot].env = r.env
               /\ \/ cache'[a][slot].ttl
                  \/ /\ slot \in r.had
                     /\ cache[a][slot] # None /\ cache[a][slot].ttl
                            => cache'[a][slot].ttl
<1> DEFINE r == req[c]
           a == req[c].app
           slot == req[c].slot
           new == IF slot \in r.had THEN Rewritten(a, slot, r.env)
                  ELSE [env |-> r.env, ttl |-> TRUE]
<1>1. /\ RequestsOK /\ HistoryOK /\ StoreOK /\ r.at = "store" /\ Done(c)
      /\ UNCHANGED <<doc, site, kms, edv, data, pages, faults, h>>
      /\ cache' = [cache EXCEPT ![a][slot] = new]
  BY DEF StoreCopy, TypeInv, vaults
<1>2. r \in Req /\ Fit(r)
  BY <1>1, ReadyReq DEF RequestsOK
<1>3. a \in Apps /\ slot \in Slots /\ r.env \in Envs
  BY <1>1, <1>2 DEF Fit, Req
<1>4. /\ new \in Copy /\ new # None /\ new.env = r.env
      /\ \/ new.ttl
         \/ /\ slot \in r.had
            /\ cache[a][slot] # None /\ cache[a][slot].ttl => new.ttl
  <2>1. PICK e : e = r.env
    OBVIOUS
  <2> HIDE DEF a, slot
  <2>2. CASE slot \in r.had
    <3>1. new = Rewritten(a, slot, e)
      BY <2>1, <2>2
    <3> HIDE DEF new
    <3>2. /\ new \in Copy /\ new # None /\ new.env = e
          /\ cache[a][slot] # None /\ cache[a][slot].ttl => new.ttl
      BY <1>1, <1>3, <2>1, <3>1, RewrittenIs DEF StoreOK
    <3> QED BY <2>1, <2>2, <3>2
  <2>3. CASE slot \notin r.had
    <3>1. new = [env |-> e, ttl |-> TRUE]
      BY <2>1, <2>3
    <3> HIDE DEF new
    <3>2. new \in Copy /\ new.env = e /\ new.ttl
      BY <1>3, <2>1, <3>1 DEF Copy
    <3>3. new # None
      BY <3>2, NoneAssumption
    <3> QED BY <2>1, <3>2, <3>3
  <2> QED BY <2>2, <2>3
<1>5. cache' = [cache EXCEPT ![a] = [cache[a] EXCEPT ![slot] = new]]
  BY <1>1
<1> HIDE DEF new
<1>6. /\ CacheOK' /\ SameCopies(a, {slot}) /\ cache'[a][slot] = new
  BY <1>1, <1>3, <1>4, <1>5 DEF StoreOK, CacheOK, SameCopies
<1>7. StoreOK' /\ HistoryOK'
  BY <1>1, <1>6 DEF StoreOK, DocsOK, HistoryOK
<1>8. RequestsOK' /\ Others(c) /\ req'[c] = Idle
  BY <1>1, DoneIs
<1> QED BY <1>1, <1>3, <1>4, <1>6, <1>7, <1>8 DEF TypeInv

-----------------------------------------------------------------------------
(* What the steps of pages and of the surroundings do.                     *)

\* A page is made or removed.
LEMMA PageIs ==
    ASSUME TypeInv, NEW k \in KycApps, StorePage(k) \/ RemovePage(k)
    PROVE  /\ TypeInv'
           /\ UNCHANGED <<doc, site, kms, edv, data, cache, req, h>>
<1>1. /\ RequestsOK /\ HistoryOK /\ StoreOK
      /\ UNCHANGED <<doc, site, kms, edv, data, cache, req, faults, h>>
      /\ pages' \subseteq pages \cup {k}
  BY DEF StorePage, RemovePage, TypeInv, vaults
<1>2. StoreOK' /\ HistoryOK' /\ RequestsOK'
  BY <1>1 DEF StoreOK, DocsOK, CacheOK, HistoryOK, RequestsOK
<1> QED BY <1>1, <1>2 DEF TypeInv

\* A copy expires.
LEMMA CopyExpiresIs ==
    ASSUME TypeInv, NEW a \in Apps, NEW slot \in Slots, CopyExpires(a, slot)
    PROVE  /\ TypeInv'
           /\ UNCHANGED <<doc, site, kms, edv, data, pages, req>>
           /\ SameCopies(a, {slot}) /\ cache'[a][slot] = None
           /\ SameIds /\ Grown /\ LapsedBy(a, {slot})
<1>1. /\ RequestsOK /\ HistoryOK /\ StoreOK
      /\ UNCHANGED <<doc, site, kms, edv, data, pages, req, faults>>
      /\ cache' = [cache EXCEPT ![a][slot] = None]
      /\ h' = [h EXCEPT !.lapsed = IF Held(a, {slot}) THEN @ \cup {a} ELSE @]
  BY DEF CopyExpires, TypeInv, vaults
<1>2. PICK L : L = IF Held(a, {slot}) THEN h.lapsed \cup {a} ELSE h.lapsed
  OBVIOUS
<1>3. /\ h.lapsed \subseteq L /\ L \subseteq Apps
      /\ Held(a, {slot}) => a \in L
  BY <1>1, <1>2 DEF HistoryOK, History
<1>4. h' = [h EXCEPT !.lapsed = L]
  BY <1>1, <1>2
<1>5. HistoryOK' /\ SameIds /\ Grown /\ h'.lapsed = L
  BY <1>1, <1>3, <1>4
  DEF HistoryOK, History, SameIds, SameUsed, SameDeleted, Grown
<1>6. LapsedBy(a, {slot})
  BY <1>3, <1>5 DEF LapsedBy
<1>7. CacheOK' /\ SameCopies(a, {slot}) /\ cache'[a][slot] = None
  BY <1>1 DEF StoreOK, CacheOK, SameCopies
<1>8. StoreOK' /\ RequestsOK'
  BY <1>1, <1>7 DEF StoreOK, DocsOK, RequestsOK
<1> QED BY <1>1, <1>5, <1>6, <1>7, <1>8 DEF TypeInv

\* A request dies.
LEMMA DieIs ==
    ASSUME TypeInv, NEW c \in Calls, Die(c)
    PROVE  LET r == req[c] IN
           /\ TypeInv' /\ Others(c) /\ UNCHANGED stores
           /\ req'[c] = Idle
           /\ SameIds /\ Grown
           /\ r.at \in Doomed \cup {"unvault", "clear"} => r.app \in h'.cut
           /\ r.at \in Updating => \A x \in Apps :
                  Touches(c, x) => x \in h'.crossed
<1> DEFINE r == req[c]
           a == req[c].app
<1>1. /\ RequestsOK /\ HistoryOK /\ StoreOK /\ Done(c)
      /\ UNCHANGED stores
      /\ faults < MaxFaults /\ faults' = faults + 1
      /\ h' = [h EXCEPT
            !.cut = IF req[c].at \in Doomed \cup {"unvault", "clear"}
                    THEN @ \cup {a} ELSE @,
            !.crossed = IF req[c].at \in Updating
                        THEN @ \cup ({a, req[c].main, req[c].dep} \ {None})
                        ELSE @]
  BY DEF Die, TypeInv, vaults, stores
<1>2. PICK U : U = IF r.at \in Doomed \cup {"unvault", "clear"}
                   THEN h.cut \cup {a} ELSE h.cut
  OBVIOUS
<1>3. PICK C : C = IF r.at \in Updating
                   THEN h.crossed \cup ({a, r.main, r.dep} \ {None})
                   ELSE h.crossed
  OBVIOUS
<1>4. h' = [h EXCEPT !.cut = U, !.crossed = C]
  BY <1>1, <1>2, <1>3
<1>5. /\ h.cut \subseteq Apps /\ h.crossed \subseteq Apps
      /\ r.at # "idle" => a \in Apps
      /\ a \in Apps \cup {None} /\ r.main \in Apps \cup {None}
      /\ r.dep \in Apps \cup {None}
  BY <1>1, ReadyReq, AppsAre DEF HistoryOK, History, RequestsOK, Fit
<1>6. /\ h.cut \subseteq U /\ U \subseteq Apps
      /\ r.at \in Doomed \cup {"unvault", "clear"} => a \in U
  BY <1>2, <1>5 DEF Doomed
<1>7. /\ h.crossed \subseteq C /\ C \subseteq Apps
      /\ r.at \in Updating => \A x \in Apps : Touches(c, x) => x \in C
  BY <1>3, <1>5, AppsAre DEF Touches
<1>8. HistoryOK' /\ SameIds /\ Grown /\ h'.cut = U /\ h'.crossed = C
  BY <1>1, <1>4, <1>6, <1>7
  DEF HistoryOK, History, SameIds, SameUsed, SameDeleted, Grown
<1>9. RequestsOK' /\ Others(c) /\ req'[c] = Idle
  BY <1>1, DoneIs
<1>10. faults' \in 0..MaxFaults
  BY <1>1, ServicesAssumption DEF StoreOK
<1>11. StoreOK'
  BY <1>1, <1>10 DEF StoreOK, DocsOK, CacheOK, stores
<1> QED BY <1>1, <1>6, <1>7, <1>8, <1>9, <1>11 DEF TypeInv

-----------------------------------------------------------------------------
(* Type correctness: the theorem.                                          *)

\* What a request can be at the beginning of.
CreateStarts(c) == \E a \in Apps, dep \in SsiApps \cup {None} :
    (a \in SsiApps => dep = None) /\ CreateAnApp(c, a, dep)

UpdateStarts(c) ==
    \E a \in Apps, env \in Envs \cup {None},
       domain \in Domains \cup {None, "keep"},
       verified \in BOOLEAN, did \in BOOLEAN :
        UpdateAnApp(c, a, env, domain, verified, did)

\* The copy for a customer is not looked up first.
TokenStarts(c) ==
    \E a \in Apps, l \in {"find", "lookup"}, slot \in Slots :
        (l = "lookup" => slot # "customer") /\ AskToken(c, a, l, slot)

DeleteStarts(c) == \E a \in Apps : DeleteApp(c, a)

\* The steps of a request.
StepOf(c) ==
    \/ CreateStarts(c) \/ InsertKeys(c) \/ CreateVault(c) \/ CreateDoc(c)
    \/ UpdateStarts(c) \/ VerifyDns(c) \/ UpdateDoc(c)
    \/ UpdateDependent(c) \/ GetCopies(c) \/ SetCopies(c)
    \/ DeleteStarts(c) \/ CheckLinks(c) \/ Decrypt(c) \/ RegisterVault(c)
    \/ DeleteVault(c) \/ DeleteKeys(c) \/ DropDatabase(c) \/ DeletePage(c)
    \/ DeleteDoc(c) \/ ClearCopies(c)
    \/ TokenStarts(c) \/ LookupCopy(c) \/ FindApp(c) \/ StoreCopy(c)
    \/ Die(c)

\* Every step is one of a request, or of a page, or a copy expires.
LEMMA NextIs ==
    ASSUME Next
    PROVE  \/ \E c \in Calls : StepOf(c)
           \/ \E k \in KycApps : StorePage(k) \/ RemovePage(k)
           \/ \E a \in Apps, slot \in Slots : CopyExpires(a, slot)
<1>1. CASE \E c \in Calls, k \in KycApps, d \in SsiApps :
               CreateAnApp(c, k, d)
  <2>1. PICK c \in Calls, k \in KycApps, d \in SsiApps :
            CreateAnApp(c, k, d)
    BY <1>1
  <2>2. CreateStarts(c)
    BY <2>1, AppsAre DEF CreateStarts
  <2> QED BY <2>2 DEF StepOf
<1>2. CASE \E c \in Calls, a \in SsiApps : CreateAnApp(c, a, None)
  <2>1. PICK c \in Calls, a \in SsiApps : CreateAnApp(c, a, None)
    BY <1>2
  <2>2. CreateStarts(c)
    BY <2>1, AppsAre DEF CreateStarts
  <2> QED BY <2>2 DEF StepOf
<1>3. ASSUME NEW c \in Calls, NEW a \in Apps,
             \E env \in Envs \cup {None},
                domain \in Domains \cup {None, "keep"},
                verified \in BOOLEAN :
             \E did \in IF env = "prod" THEN BOOLEAN ELSE {FALSE} :
                UpdateAnApp(c, a, env, domain, verified, did)
      PROVE  StepOf(c)
  <2>1. UpdateStarts(c)
    BY <1>3 DEF UpdateStarts
  <2> QED BY <2>1 DEF StepOf
<1>4. ASSUME NEW c \in Calls, NEW a \in Apps,
             \/ \E slot \in Slots : GrantPermission(c, a, slot)
             \/ GenerateAccessToken(c, a)
             \/ GenerateWebpageConfigTokens(c, a)
      PROVE  StepOf(c)
  <2>1. TokenStarts(c)
    BY <1>4 DEF TokenStarts, GrantPermission, GenerateAccessToken,
                GenerateWebpageConfigTokens, Slots
  <2> QED BY <2>1 DEF StepOf
<1>5. ASSUME NEW c \in Calls, NEW a \in Apps, DeleteApp(c, a)
      PROVE  StepOf(c)
  <2>1. DeleteStarts(c)
    BY <1>5 DEF DeleteStarts
  <2> QED BY <2>1 DEF StepOf
<1>6. ASSUME NEW c \in Calls,
             \/ InsertKeys(c) \/ CreateVault(c) \/ CreateDoc(c)
             \/ VerifyDns(c) \/ UpdateDoc(c) \/ UpdateDependent(c)
             \/ GetCopies(c) \/ SetCopies(c)
             \/ CheckLinks(c) \/ Decrypt(c) \/ RegisterVault(c)
             \/ DeleteVault(c) \/ DeleteKeys(c) \/ DropDatabase(c)
             \/ DeletePage(c) \/ DeleteDoc(c) \/ ClearCopies(c)
             \/ LookupCopy(c) \/ FindApp(c) \/ StoreCopy(c)
             \/ Die(c)
      PROVE  StepOf(c)
  BY <1>6, Zenon DEF StepOf
<1> QED BY <1>1, <1>2, <1>3, <1>4, <1>5, <1>6 DEF Next

\* A request to update a service, whatever it asks for.
LEMMA UpdateStartsIs ==
    ASSUME TypeInv, NEW c \in Calls, UpdateStarts(c)
    PROVE  \E a \in Apps : UpdateBegun(c, a)
BY UpdateAnAppIs, Zenon DEF UpdateStarts

\* A request for a token, whatever it asks for.
LEMMA TokenStartsIs ==
    ASSUME TypeInv, NEW c \in Calls, TokenStarts(c)
    PROVE  \E a \in Apps : TokenBegun(c, a)
<1>1. PICK a \in Apps, l \in {"find", "lookup"}, slot \in Slots :
          (l = "lookup" => slot # "customer") /\ AskToken(c, a, l, slot)
  BY DEF TokenStarts
<1> QED BY <1>1, AskTokenIs

\* What every step of a request comes to: types, the other requests, and
\* what is excepted from the properties.
LEMMA StepOfIs ==
    ASSUME TypeInv, NEW c \in Calls, StepOf(c)
    PROVE  TypeInv' /\ Others(c) /\ Grown
<1> USE SameHistory
<1>1. CASE CreateStarts(c)
  BY <1>1, CreateAnAppIs DEF CreateStarts
<1>2. CASE InsertKeys(c)
  BY <1>2, InsertKeysIs
<1>3. CASE CreateVault(c)
  BY <1>3, CreateVaultIs
<1>4. CASE CreateDoc(c)
  BY <1>4, CreateDocIs
<1>5. CASE UpdateStarts(c)
  BY <1>5, UpdateStartsIs DEF UpdateBegun
<1>6. CASE VerifyDns(c)
  BY <1>6, VerifyDnsIs
<1>7. CASE UpdateDoc(c)
  BY <1>7, UpdateDocIs
<1>8. CASE UpdateDependent(c)
  BY <1>8, UpdateDependentIs
<1>9. CASE GetCopies(c)
  BY <1>9, GetCopiesIs
<1>10. CASE SetCopies(c)
  BY <1>10, SetCopiesIs
<1>11. CASE DeleteStarts(c)
  BY <1>11, DeleteAppIs DEF DeleteStarts
<1>12. CASE CheckLinks(c)
  BY <1>12, CheckLinksIs DEF Goes, Ends
<1>13. CASE Decrypt(c)
  BY <1>13, DecryptIs DEF Goes, Ends
<1>14. CASE RegisterVault(c)
  BY <1>14, RegisterVaultIs DEF Goes, Ends
<1>15. CASE DeleteVault(c)
  BY <1>15, DeleteVaultIs DEF Goes, Ends
<1>16. CASE DeleteKeys(c)
  BY <1>16, DeleteKeysIs DEF Goes, Ends
<1>17. CASE DropDatabase(c)
  BY <1>17, DropDatabaseIs DEF Goes, Ends
<1>18. CASE DeletePage(c)
  BY <1>18, DeletePageIs DEF Goes, Ends
<1>19. CASE DeleteDoc(c)
  BY <1>19, DeleteDocIs DEF Goes, Ends
<1>20. CASE ClearCopies(c)
  BY <1>20, ClearCopiesIs
<1>21. CASE TokenStarts(c)
  BY <1>21, TokenStartsIs DEF TokenBegun
<1>22. CASE LookupCopy(c)
  BY <1>22, LookupCopyIs
<1>23. CASE FindApp(c)
  BY <1>23, FindAppIs
<1>24. CASE StoreCopy(c)
  BY <1>24, StoreCopyIs
<1>25. CASE Die(c)
  BY <1>25, DieIs
<1> QED BY <1>1, <1>2, <1>3, <1>4, <1>5, <1>6, <1>7, <1>8, <1>9, <1>10,
       <1>11, <1>12, <1>13, <1>14, <1>15, <1>16, <1>17, <1>18, <1>19, <1>20,
       <1>21, <1>22, <1>23, <1>24, <1>25 DEF StepOf

\* The types hold in every initial state.
LEMMA TypeInit ==
    ASSUME Init
    PROVE  TypeInv
<1>1. DocsOK /\ CacheOK
  BY AppsAre DEF Init, DocsOK, CacheOK
<1>2. site \in [Apps -> Site]
  BY DEF Init, NoSite, Site
<1>3. kms \subseteq Apps /\ edv \subseteq Apps /\ data \subseteq Apps
      /\ pages \subseteq KycApps /\ faults \in 0..MaxFaults
  BY ServicesAssumption DEF Init
<1>4. RequestsOK
  BY IdleIs DEF Init, RequestsOK
<1>5. HistoryOK
  BY DEF Init, HistoryOK, History
<1> QED BY <1>1, <1>2, <1>3, <1>4, <1>5 DEF TypeInv, StoreOK

\* Every step preserves the types.
LEMMA TypeNext ==
    ASSUME TypeInv, [Next]_vars
    PROVE  TypeInv'
<1>1. CASE Next
  <2>1. CASE \E c \in Calls : StepOf(c)
    BY <2>1, StepOfIs
  <2>2. CASE \E k \in KycApps : StorePage(k) \/ RemovePage(k)
    BY <2>2, PageIs
  <2>3. CASE \E a \in Apps, slot \in Slots : CopyExpires(a, slot)
    BY <2>3, CopyExpiresIs
  <2> QED BY <1>1, <2>1, <2>2, <2>3, NextIs
<1>2. CASE UNCHANGED vars
  <2>1. StoreOK' /\ RequestsOK' /\ HistoryOK'
    BY <1>2 DEF vars, TypeInv, StoreOK, DocsOK, CacheOK, RequestsOK,
                HistoryOK
  <2> QED BY <2>1 DEF TypeInv
<1> QED BY <1>1, <1>2

\* The types hold throughout.
LEMMA TypeInvariant == Spec => []TypeInv
<1>1. Init => TypeInv
  BY TypeInit
<1>2. TypeInv /\ [Next]_vars => TypeInv'
  BY TypeNext
<1> QED BY <1>1, <1>2, PTL DEF Spec

\* Every variable keeps its type: what a request of app-auth.service.ts knows
\* at an await is enough for what it does next.
THEOREM TypeCorrect == Spec => []TypeOK
<1>1. ASSUME TypeInv
      PROVE  TypeOK
  <2>1. req \in [Calls -> Req]
    BY <1>1, ReadyReq DEF TypeInv, RequestsOK
  <2> QED BY <1>1, <2>1
          DEF TypeInv, StoreOK, DocsOK, CacheOK, HistoryOK, Req, Labels,
              TypeOK
<1> QED BY <1>1, TypeInvariant, PTL

-----------------------------------------------------------------------------
(* CopiesExpire.                                                           *)

\* What a request has read of copies that it will write back is there.
HeldBy(c) ==
    req[c].at \in {"set", "find", "store"} /\ req[c].app \notin h.lapsed
        => \A s \in req[c].had : cache[req[c].app][s] # None

HeldCopies == \A c \in Calls : HeldBy(c)

LapseInv == HeldCopies /\ CopiesExpire

\* A step of c that leaves the copies alone.
LEMMA LapseKept ==
    ASSUME TypeInv, LapseInv, NEW c \in Calls, Others(c), Grown,
           UNCHANGED cache, HeldBy(c)'
    PROVE  LapseInv'
<1>1. ASSUME NEW d \in Calls \ {c}
      PROVE  HeldBy(d)'
  <2>1. HeldBy(d) /\ req'[d] = req[d]
    BY DEF LapseInv, HeldCopies, Others
  <2> QED BY <2>1 DEF HeldBy, Grown
<1>2. HeldCopies'
  BY <1>1 DEF HeldCopies
<1>3. CopiesExpire'
  BY DEF LapseInv, CopiesExpire, Grown
<1> QED BY <1>2, <1>3 DEF LapseInv

\* Such a step, if what it knows then has read no copy.
LEMMA LapseQuiet ==
    ASSUME TypeInv, LapseInv, NEW c \in Calls, Others(c), Grown,
           UNCHANGED cache,
           req'[c].at \notin {"set", "find", "store"} \/ req'[c].had = {}
    PROVE  LapseInv'
<1>1. HeldBy(c)'
  BY DEF HeldBy
<1> QED BY <1>1, LapseKept

\* A step that writes copies of a, each where one was, or to expire.
LEMMA LapseWritten ==
    ASSUME TypeInv, LapseInv, NEW c \in Calls, Others(c), UNCHANGED h,
           NEW a \in Apps, NEW S \in SUBSET Slots, SameCopies(a, S),
           \A s \in S : cache'[a][s] # None,
           \A s \in S : \/ cache'[a][s].ttl
                        \/ a \in h.lapsed
                        \/ cache[a][s] # None /\ (cache[a][s].ttl
                                                  => cache'[a][s].ttl),
           req'[c].at \notin {"set", "find", "store"}
    PROVE  LapseInv'
<1>1. ASSUME NEW d \in Calls
      PROVE  HeldBy(d)'
  <2>1. CASE d = c
    BY <2>1 DEF HeldBy
  <2>2. CASE d # c
    <3>1. /\ HeldBy(d) /\ req'[d] = req[d]
          /\ req[d].at # "idle" => req[d].app \in Apps
          /\ req[d].had \subseteq Slots
      BY <2>2, ReadyReq
      DEF LapseInv, HeldCopies, Others, TypeInv, RequestsOK, Fit
    <3> QED BY <3>1 DEF HeldBy, SameCopies
  <2> QED BY <2>1, <2>2
<1>2. HeldCopies'
  BY <1>1 DEF HeldCopies
<1>3. ASSUME NEW b \in Apps \ h.lapsed, NEW s \in Slots,
             cache'[b][s] # None
      PROVE  cache'[b][s].ttl
  <2>1. cache[b][s] # None => cache[b][s].ttl
    BY DEF LapseInv, CopiesExpire
  <2>2. CASE b = a /\ s \in S
    BY <2>1, <2>2
  <2>3. CASE ~(b = a /\ s \in S)
    BY <1>3, <2>1, <2>3 DEF SameCopies
  <2> QED BY <2>2, <2>3
<1>4. CopiesExpire'
  BY <1>3 DEF CopiesExpire
<1> QED BY <1>2, <1>4 DEF LapseInv

\* A step that removes copies of a: who has read them makes it lapsed.
LEMMA LapseCleared ==
    ASSUME TypeInv, LapseInv, NEW a \in Apps, NEW S \in SUBSET Slots,
           SameCopies(a, S), \A s \in S : cache'[a][s] = None,
           LapsedBy(a, S), Grown,
           \A d \in Calls : \/ req'[d] = req[d]
                            \/ req'[d].at \notin {"set", "find", "store"}
    PROVE  LapseInv'
<1>1. ASSUME NEW d \in Calls
      PROVE  HeldBy(d)'
  <2>1. CASE req'[d].at \notin {"set", "find", "store"}
    BY <2>1 DEF HeldBy
  <2>2. CASE req'[d] = req[d] /\ req[d].at \in {"set", "find", "store"}
    <3>1. /\ HeldBy(d) /\ req[d].app \in Apps
          /\ req[d].had \subseteq Slots
      BY <2>2, ReadyReq
      DEF LapseInv, HeldCopies, TypeInv, RequestsOK, Fit
    <3>2. req[d].app = a /\ req[d].had \cap S # {} => a \in h'.lapsed
      BY <2>2 DEF LapsedBy, Held
    <3> QED BY <2>2, <3>1, <3>2 DEF HeldBy, SameCopies, Grown
  <2> QED BY <2>1, <2>2
<1>2. HeldCopies'
  BY <1>1 DEF HeldCopies
<1>3. CopiesExpire'
  BY DEF LapseInv, CopiesExpire, SameCopies, Grown
<1> QED BY <1>2, <1>3 DEF LapseInv

\* Every step of a request preserves it.
LEMMA LapseStep ==
    ASSUME TypeInv, LapseInv, NEW c \in Calls, StepOf(c)
    PROVE  LapseInv'
<1> USE SameHistory, IdleIs
<1>1. CASE CreateStarts(c)
  BY <1>1, CreateAnAppIs, LapseQuiet
  DEF CreateStarts, stores
<1>2. CASE InsertKeys(c)
  BY <1>2, InsertKeysIs, LapseQuiet
<1>3. CASE CreateVault(c)
  BY <1>3, CreateVaultIs, LapseQuiet
<1>4. CASE CreateDoc(c)
  BY <1>4, CreateDocIs, LapseQuiet
<1>5. CASE UpdateStarts(c)
  BY <1>5, UpdateStartsIs, LapseQuiet
  DEF UpdateBegun, stores
<1>6. CASE VerifyDns(c)
  BY <1>6, VerifyDnsIs, LapseQuiet
  DEF stores
<1>7. CASE UpdateDoc(c)
  BY <1>7, UpdateDocIs, LapseQuiet
<1>8. CASE UpdateDependent(c)
  BY <1>8, UpdateDependentIs, LapseQuiet
<1>9. CASE GetCopies(c)
  <2>1. HeldBy(c)'
    BY <1>9, GetCopiesIs DEF HeldBy, stores
  <2> QED BY <1>9, <2>1, GetCopiesIs, LapseKept DEF stores
<1>10. CASE SetCopies(c)
  <2> DEFINE a == req[c].app
             S == req[c].had
  <2>1. /\ a \in Apps /\ S \in SUBSET Slots /\ Others(c) /\ UNCHANGED h
        /\ SameCopies(a, S) /\ req[c].at = "set"
        /\ \A s \in S : /\ cache'[a][s] # None
                        /\ cache[a][s] # None /\ cache[a][s].ttl
                               => cache'[a][s].ttl
        /\ req'[c].at \in {"idle", "get"}
    BY <1>10, SetCopiesIs DEF Written
  <2>2. a \in h.lapsed \/ \A s \in S : cache[a][s] # None
    BY <2>1 DEF LapseInv, HeldCopies, HeldBy
  <2> HIDE DEF a, S
  <2> QED BY <2>1, <2>2, LapseWritten
<1>11. CASE DeleteStarts(c)
  BY <1>11, DeleteAppIs, LapseQuiet
  DEF DeleteStarts, stores
<1>12. CASE CheckLinks(c)
  BY <1>12, CheckLinksIs, LapseQuiet
  DEF Goes, Ends, stores
<1>13. CASE Decrypt(c)
  BY <1>13, DecryptIs, LapseQuiet
  DEF Goes, Ends, stores
<1>14. CASE RegisterVault(c)
  BY <1>14, RegisterVaultIs, LapseQuiet
  DEF Goes, Ends
<1>15. CASE DeleteVault(c)
  BY <1>15, DeleteVaultIs, LapseQuiet
  DEF Goes, Ends
<1>16. CASE DeleteKeys(c)
  BY <1>16, DeleteKeysIs, LapseQuiet
  DEF Goes, Ends
<1>17. CASE DropDatabase(c)
  BY <1>17, DropDatabaseIs, LapseQuiet
  DEF Goes, Ends
<1>18. CASE DeletePage(c)
  BY <1>18, DeletePageIs, LapseQuiet
  DEF Goes, Ends
<1>19. CASE DeleteDoc(c)
  BY <1>19, DeleteDocIs, LapseQuiet
  DEF Goes, Ends
<1>20. CASE ClearCopies(c)
  <2> DEFINE a == req[c].app
  <2>1. /\ a \in Apps /\ Others(c) /\ Grown
        /\ SameCopies(a, KnownSlots) /\ LapsedBy(a, KnownSlots)
        /\ \A s \in KnownSlots : cache'[a][s] = None
        /\ req'[c].at \in {"idle", "check"}
    BY <1>20, ClearCopiesIs DEF ClearedOf, FollowsUp
  <2>2. KnownSlots \subseteq Slots
    BY DEF KnownSlots
  <2>3. \A d \in Calls : \/ req'[d] = req[d]
                         \/ req'[d].at \notin {"set", "find", "store"}
    BY <2>1 DEF Others
  <2> HIDE DEF a
  <2> QED BY <2>1, <2>2, <2>3, LapseCleared
<1>21. CASE TokenStarts(c)
  BY <1>21, TokenStartsIs, LapseQuiet
  DEF TokenBegun, stores
<1>22. CASE LookupCopy(c)
  <2>1. HeldBy(c)'
    BY <1>22, LookupCopyIs DEF HeldBy, stores
  <2> QED BY <1>22, <2>1, LookupCopyIs, LapseKept DEF stores
<1>23. CASE FindApp(c)
  <2>1. HeldBy(c)
    BY DEF LapseInv, HeldCopies
  <2>2. HeldBy(c)'
    BY <1>23, <2>1, FindAppIs DEF HeldBy, stores
  <2> QED BY <1>23, <2>2, FindAppIs, LapseKept DEF stores
<1>24. CASE StoreCopy(c)
  <2> DEFINE a == req[c].app
             s == req[c].slot
  <2>1. /\ a \in Apps /\ s \in Slots /\ Others(c) /\ UNCHANGED h
        /\ SameCopies(a, {s}) /\ req[c].at = "store"
        /\ cache'[a][s] # None
        /\ \/ cache'[a][s].ttl
           \/ /\ s \in req[c].had
              /\ cache[a][s] # None /\ cache[a][s].ttl
                     => cache'[a][s].ttl
        /\ req'[c].at = "idle"
    BY <1>24, StoreCopyIs
  <2>2. s \in req[c].had => a \in h.lapsed \/ cache[a][s] # None
    BY <2>1 DEF LapseInv, HeldCopies, HeldBy
  <2>3. \/ cache'[a][s].ttl
        \/ a \in h.lapsed
        \/ cache[a][s] # None /\ (cache[a][s].ttl => cache'[a][s].ttl)
    BY <2>1, <2>2
  <2> HIDE DEF a, s
  <2>4. PICK S \in SUBSET Slots : S = {s}
    BY <2>1
  <2> QED BY <2>1, <2>3, <2>4, LapseWritten
<1>25. CASE Die(c)
  BY <1>25, DieIs, LapseQuiet
  DEF stores
<1> QED
  BY <1>1, <1>2, <1>3, <1>4, <1>5, <1>6, <1>7, <1>8, <1>9, <1>10, <1>11,
     <1>12, <1>13, <1>14, <1>15, <1>16, <1>17, <1>18, <1>19, <1>20, <1>21,
     <1>22, <1>23, <1>24, <1>25
  DEF StepOf

\* Every step preserves it.
LEMMA LapseNext ==
    ASSUME TypeInv, LapseInv, [Next]_vars
    PROVE  LapseInv'
<1>1. CASE \E c \in Calls : StepOf(c)
  BY <1>1, LapseStep
<1>2. CASE UNCHANGED <<cache, req, h>>
  BY <1>2 DEF LapseInv, HeldCopies, HeldBy, CopiesExpire
<1>3. CASE \E a \in Apps, s \in Slots : CopyExpires(a, s)
  <2>1. PICK a \in Apps, s \in Slots : CopyExpires(a, s)
    BY <1>3
  <2>2. PICK S \in SUBSET Slots : S = {s}
    OBVIOUS
  <2> QED BY <2>1, <2>2, CopyExpiresIs, LapseCleared
<1> QED BY <1>1, <1>2, <1>3, NextIs, PageIs DEF vars

\* A copy in Redis expires: updateAppRedis and storeDataInRedis, which write
\* back what they have read, keep the time to live of a copy that is there.
\* A copy that was gone by then is the one exception.
THEOREM CopiesDoExpire == Spec => []CopiesExpire
<1>1. Init => LapseInv
  BY IdleIs DEF Init, LapseInv, HeldCopies, HeldBy, CopiesExpire
<1>2. TypeInv /\ LapseInv /\ [Next]_vars => LapseInv'
  BY LapseNext
<1>3. LapseInv => CopiesExpire
  BY DEF LapseInv
<1> QED BY <1>1, <1>2, <1>3, TypeInvariant, PTL DEF Spec

-----------------------------------------------------------------------------
(* Requests that cross.                                                    *)

\* Who changes a service or deletes it, and who reads it to write a copy.
Works(c, x) == \/ Touches(c, x) /\ req[c].at \in Updating
               \/ req[c].app = x /\ req[c].at \in Deleting
Uses(c, x) == Touches(c, x) /\ req[c].at \in Updating \cup Granting

\* Two requests only do so at once if they have made the service crossed.
CrossInv == \A x \in Apps \ h.crossed, c, d \in Calls :
                Works(c, x) /\ Uses(d, x) => c = d

\* A step of c that does not begin to work on a service or to use one, or
\* makes it crossed if others are at it.
LEMMA CrossKept ==
    ASSUME CrossInv, NEW c \in Calls, Others(c), Grown,
           \A x \in Apps \ h'.crossed :
               /\ Works(c, x)' => \/ Works(c, x)
                                  \/ \A d \in Calls \ {c} : ~Uses(d, x)
               /\ Uses(c, x)' => \/ Uses(c, x)
                                 \/ \A d \in Calls \ {c} : ~Works(d, x)
    PROVE  CrossInv'
<1> SUFFICES ASSUME NEW x \in Apps \ h'.crossed, NEW d \in Calls,
                    NEW e \in Calls, Works(d, x)', Uses(e, x)', d # e
             PROVE  FALSE
  BY DEF CrossInv
<1>1. x \notin h.crossed
  BY DEF Grown
<1>2. CASE d = c
  <2>1. Uses(e, x)
    BY <1>2 DEF Others, Uses, Touches
  <2> QED BY <1>1, <1>2, <2>1 DEF CrossInv
<1>3. CASE e = c
  <2>1. Works(d, x)
    BY <1>3 DEF Others, Works, Touches
  <2> QED BY <1>1, <1>3, <2>1 DEF CrossInv
<1>4. CASE d # c /\ e # c
  <2>1. Works(d, x) /\ Uses(e, x)
    BY <1>4 DEF Others, Works, Uses, Touches
  <2> QED BY <1>1, <2>1 DEF CrossInv
<1> QED BY <1>2, <1>3, <1>4

\* A step of c to an await at which it does neither.
LEMMA CrossQuiet ==
    ASSUME CrossInv, NEW c \in Calls, Others(c), Grown,
           req'[c].at \in {"idle"} \cup Creating
    PROVE  CrossInv'
<1>1. ASSUME NEW x
      PROVE  ~Works(c, x)' /\ ~Uses(c, x)'
  BY LabelsAre DEF Works, Uses
<1> QED BY <1>1, CrossKept

\* A step of c from one await of an update to another, or of a request for a
\* token, that goes on with the same services.
LEMMA CrossSame ==
    ASSUME CrossInv, NEW c \in Calls, Others(c), Grown,
           \A x \in Apps : Touches(c, x)' => Touches(c, x),
           \/ req[c].at \in Updating /\ req'[c].at \in Updating
           \/ req[c].at \in Granting /\ req'[c].at \in Granting
    PROVE  CrossInv'
<1>1. ASSUME NEW x \in Apps
      PROVE  /\ Works(c, x)' => Works(c, x)
             /\ Uses(c, x)' => Uses(c, x)
  BY LabelsAre DEF Works, Uses
<1> QED BY <1>1, CrossKept

\* A step of c from one await of a deletion to another.
LEMMA CrossGoes ==
    ASSUME CrossInv, NEW c \in Calls, Grown, NEW from \in Deleting,
           NEW to \in Deleting, Goes(c, from, to)
    PROVE  CrossInv'
<1>1. ASSUME NEW x \in Apps
      PROVE  (Works(c, x)' => Works(c, x)) /\ ~Uses(c, x)'
  BY LabelsAre DEF Works, Uses, Goes, Same
<1> QED BY <1>1, CrossKept DEF Goes

\* The deletion of a begins.
LEMMA CrossDelete ==
    ASSUME CrossInv, NEW c \in Calls, Others(c), Grown, NEW a \in Apps,
           req'[c].at = "check", req'[c].app = a,
           CrossedBy(c, a, Updating \cup Granting)
    PROVE  CrossInv'
<1>1. ASSUME NEW x \in Apps \ h'.crossed
      PROVE  /\ ~Uses(c, x)'
             /\ Works(c, x)' => \A d \in Calls \ {c} : ~Uses(d, x)
  BY LabelsAre, DeletingAre DEF Works, Uses, CrossedBy
<1> QED BY <1>1, CrossKept

\* Every step of a request preserves it.
LEMMA CrossStep ==
    ASSUME TypeInv, CrossInv, NEW c \in Calls, StepOf(c)
    PROVE  CrossInv'
<1> USE SameHistory, IdleIs
<1>1. CASE CreateStarts(c)
  BY <1>1, CreateAnAppIs, CrossQuiet
  DEF CreateStarts, Creating
<1>2. CASE InsertKeys(c)
  BY <1>2, InsertKeysIs, CrossQuiet
  DEF Creating
<1>3. CASE CreateVault(c)
  BY <1>3, CreateVaultIs, CrossQuiet
  DEF Creating
<1>4. CASE CreateDoc(c)
  BY <1>4, CreateDocIs, CrossQuiet
<1>5. CASE UpdateStarts(c)
  <2>1. PICK a \in Apps : UpdateBegun(c, a)
    BY <1>5, UpdateStartsIs
  <2>2. ASSUME NEW x \in Apps \ h'.crossed, Touches(c, x)',
               NEW d \in Calls \ {c}
        PROVE  ~Uses(d, x) /\ ~Works(d, x)
    <3>1. CrossedBy(c, x, Updating \cup Deleting \cup Granting)
      BY <2>1, <2>2, AppsAre DEF UpdateBegun, Touches
    <3> QED BY <3>1 DEF CrossedBy, Uses, Works, Touches
  <2>3. ASSUME NEW x \in Apps
        PROVE  Works(c, x)' \/ Uses(c, x)' => Touches(c, x)'
    BY DEF Works, Uses, Touches
  <2> QED BY <2>1, <2>2, <2>3, CrossKept DEF UpdateBegun
<1>6. CASE VerifyDns(c)
  <2>1. CASE req'[c] = Idle
    BY <1>6, <2>1, VerifyDnsIs, CrossQuiet
  <2>2. CASE req'[c] # Idle
    <3>1. /\ Others(c) /\ Grown
          /\ req[c].at \in Updating /\ req'[c].at \in Updating
          /\ {req'[c].app, req'[c].main, req'[c].dep} \subseteq
                 {req[c].app, req[c].main, req[c].dep, None}
      BY <1>6, <2>2, VerifyDnsIs DEF Updating
    <3>2. \A x \in Apps : Touches(c, x)' => Touches(c, x)
      BY <3>1, AppsAre DEF Touches
    <3> QED BY <3>1, <3>2, CrossSame
  <2> QED BY <2>1, <2>2
<1>7. CASE UpdateDoc(c)
  <2>1. CASE req'[c] = Idle
    BY <1>7, <2>1, UpdateDocIs, CrossQuiet
  <2>2. CASE req'[c] # Idle
    <3>1. /\ Others(c) /\ Grown
          /\ req[c].at \in Updating /\ req'[c].at \in Updating
          /\ {req'[c].app, req'[c].main, req'[c].dep} \subseteq
                 {req[c].app, req[c].main, req[c].dep, None}
      BY <1>7, <2>2, UpdateDocIs DEF Updating
    <3>2. \A x \in Apps : Touches(c, x)' => Touches(c, x)
      BY <3>1, AppsAre DEF Touches
    <3> QED BY <3>1, <3>2, CrossSame
  <2> QED BY <2>1, <2>2
<1>8. CASE UpdateDependent(c)
  <2>1. CASE req'[c] = Idle
    BY <1>8, <2>1, UpdateDependentIs, CrossQuiet
  <2>2. CASE req'[c] # Idle
    <3>1. /\ Others(c) /\ Grown
          /\ req[c].at \in Updating /\ req'[c].at \in Updating
          /\ {req'[c].app, req'[c].main, req'[c].dep} \subseteq
                 {req[c].app, req[c].main, req[c].dep, None}
      BY <1>8, <2>2, UpdateDependentIs DEF Updating
    <3>2. \A x \in Apps : Touches(c, x)' => Touches(c, x)
      BY <3>1, AppsAre DEF Touches
    <3> QED BY <3>1, <3>2, CrossSame
  <2> QED BY <2>1, <2>2
<1>9. CASE GetCopies(c)
  <2>1. CASE req'[c] = Idle
    BY <1>9, <2>1, GetCopiesIs, CrossQuiet
  <2>2. CASE req'[c] # Idle
    <3>1. /\ Others(c) /\ Grown
          /\ req[c].at \in Updating /\ req'[c].at \in Updating
          /\ {req'[c].app, req'[c].main, req'[c].dep} \subseteq
                 {req[c].app, req[c].main, req[c].dep, None}
      BY <1>9, <2>2, GetCopiesIs DEF Updating
    <3>2. \A x \in Apps : Touches(c, x)' => Touches(c, x)
      BY <3>1, AppsAre DEF Touches
    <3> QED BY <3>1, <3>2, CrossSame
  <2> QED BY <2>1, <2>2
<1>10. CASE SetCopies(c)
  <2>1. CASE req'[c] = Idle
    BY <1>10, <2>1, SetCopiesIs, CrossQuiet
  <2>2. CASE req'[c] # Idle
    <3>1. /\ Others(c) /\ Grown
          /\ req[c].at \in Updating /\ req'[c].at \in Updating
          /\ {req'[c].app, req'[c].main, req'[c].dep} \subseteq
                 {req[c].app, req[c].main, req[c].dep, None}
      BY <1>10, <2>2, SetCopiesIs DEF Updating
    <3>2. \A x \in Apps : Touches(c, x)' => Touches(c, x)
      BY <3>1, AppsAre DEF Touches
    <3> QED BY <3>1, <3>2, CrossSame
  <2> QED BY <2>1, <2>2
<1>11. CASE DeleteStarts(c)
  BY <1>11, DeleteAppIs, CrossDelete
  DEF DeleteStarts
<1>12. CASE CheckLinks(c)
  BY <1>12, CheckLinksIs, CrossQuiet, CrossGoes, DeletingAre
  DEF Goes, Ends
<1>13. CASE Decrypt(c)
  BY <1>13, DecryptIs, CrossQuiet, CrossGoes, DeletingAre
  DEF Goes, Ends
<1>14. CASE RegisterVault(c)
  BY <1>14, RegisterVaultIs, CrossQuiet, CrossGoes, DeletingAre
  DEF Goes, Ends
<1>15. CASE DeleteVault(c)
  BY <1>15, DeleteVaultIs, CrossQuiet, CrossGoes, DeletingAre
  DEF Goes, Ends
<1>16. CASE DeleteKeys(c)
  BY <1>16, DeleteKeysIs, CrossQuiet, CrossGoes, DeletingAre
  DEF Goes, Ends
<1>17. CASE DropDatabase(c)
  BY <1>17, DropDatabaseIs, CrossQuiet, CrossGoes, DeletingAre
  DEF Goes, Ends
<1>18. CASE DeletePage(c)
  BY <1>18, DeletePageIs, CrossQuiet, CrossGoes, DeletingAre
  DEF Goes, Ends
<1>19. CASE DeleteDoc(c)
  BY <1>19, DeleteDocIs, CrossQuiet, CrossGoes, DeletingAre
  DEF Goes, Ends
<1>20. CASE ClearCopies(c)
  <2>1. /\ Others(c) /\ Grown
        /\ req'[c] = Idle \/ \E d \in Apps : FollowsUp(c, d)
    BY <1>20, ClearCopiesIs
  <2>2. CASE req'[c] = Idle
    BY <2>1, <2>2, CrossQuiet
  <2>3. CASE \E d \in Apps : FollowsUp(c, d)
    BY <2>1, <2>3, CrossDelete DEF FollowsUp
  <2> QED BY <2>1, <2>2, <2>3
<1>21. CASE TokenStarts(c)
  <2>1. PICK a \in Apps :
            /\ Others(c) /\ Grown /\ CrossedBy(c, a, Updating \cup Deleting)
            /\ req'[c].at \in {"find", "lookup"} /\ req'[c].app = a
            /\ req'[c].main = None /\ req'[c].dep = None
    BY <1>21, TokenStartsIs DEF TokenBegun
  <2>2. ASSUME NEW x \in Apps \ h'.crossed
        PROVE  /\ ~Works(c, x)'
               /\ Uses(c, x)' => \A d \in Calls \ {c} : ~Works(d, x)
    <3>1. req'[c].at \in Granting
      BY <2>1 DEF Granting
    <3>2. ~Works(c, x)'
      BY <3>1, LabelsAre DEF Works
    <3>3. ASSUME NEW d \in Calls \ {c}, x = a, Works(d, x)
          PROVE  FALSE
      BY <2>1, <3>3 DEF Works, CrossedBy, Touches
    <3> QED BY <2>1, <3>2, <3>3, AppsAre DEF Uses, Touches
  <2> QED BY <2>1, <2>2, CrossKept
<1>22. CASE LookupCopy(c)
  <2>1. CASE req'[c] = Idle
    BY <1>22, <2>1, LookupCopyIs, CrossQuiet
  <2>2. CASE req'[c] # Idle
    <3>1. /\ Others(c) /\ Grown
          /\ req[c].at \in Granting /\ req'[c].at \in Granting
          /\ {req'[c].app, req'[c].main, req'[c].dep} \subseteq
                 {req[c].app, req[c].main, req[c].dep, None}
      BY <1>22, <2>2, LookupCopyIs DEF Granting
    <3>2. \A x \in Apps : Touches(c, x)' => Touches(c, x)
      BY <3>1, AppsAre DEF Touches
    <3> QED BY <3>1, <3>2, CrossSame
  <2> QED BY <2>1, <2>2
<1>23. CASE FindApp(c)
  <2>1. CASE req'[c] = Idle
    BY <1>23, <2>1, FindAppIs, CrossQuiet
  <2>2. CASE req'[c] # Idle
    <3>1. /\ Others(c) /\ Grown
          /\ req[c].at \in Granting /\ req'[c].at \in Granting
          /\ {req'[c].app, req'[c].main, req'[c].dep} \subseteq
                 {req[c].app, req[c].main, req[c].dep, None}
      BY <1>23, <2>2, FindAppIs DEF Granting
    <3>2. \A x \in Apps : Touches(c, x)' => Touches(c, x)
      BY <3>1, AppsAre DEF Touches
    <3> QED BY <3>1, <3>2, CrossSame
  <2> QED BY <2>1, <2>2
<1>24. CASE StoreCopy(c)
  BY <1>24, StoreCopyIs, CrossQuiet
<1>25. CASE Die(c)
  BY <1>25, DieIs, CrossQuiet
<1> QED
  BY <1>1, <1>2, <1>3, <1>4, <1>5, <1>6, <1>7, <1>8, <1>9, <1>10, <1>11,
     <1>12, <1>13, <1>14, <1>15, <1>16, <1>17, <1>18, <1>19, <1>20, <1>21,
     <1>22, <1>23, <1>24, <1>25
  DEF StepOf

\* Every step preserves it.
LEMMA CrossNext ==
    ASSUME TypeInv, CrossInv, [Next]_vars
    PROVE  CrossInv'
<1>1. CASE \E c \in Calls : StepOf(c)
  BY <1>1, CrossStep
<1>2. CASE UNCHANGED req /\ Grown
  BY <1>2 DEF CrossInv, Works, Uses, Touches, Grown
<1>3. CASE \E a \in Apps, s \in Slots : CopyExpires(a, s)
  BY <1>2, <1>3, CopyExpiresIs
<1> QED BY <1>1, <1>2, <1>3, NextIs, PageIs, SameHistory DEF vars

\* Requests that cross make what they work on crossed.
LEMMA CrossInvariant == Spec => []CrossInv
<1>1. Init => CrossInv
  BY IdleIs, LabelsAre DEF Init, CrossInv, Works
<1>2. TypeInv /\ CrossInv /\ [Next]_vars => CrossInv'
  BY CrossNext
<1> QED BY <1>1, <1>2, TypeInvariant, PTL DEF Spec

-----------------------------------------------------------------------------
(* LinkedDomain.                                                           *)

\* What an update is about to write of the domain fits what there is: if it
\* links one, that is the one it writes, else the one that is linked stays.
SiteFits(c) ==
    LET a == req[c].app
        new == req[c].site
    IN  a \notin h.moved \cup h.crossed =>
            /\ req[c].at = "dns" => site[a].linked = None /\ new.linked = None
            /\ req[c].at = "update" =>
                   /\ new.linked # None => new.domain = new.linked
                   /\ new.linked = None /\ site[a].linked # None
                          => new.domain \in {"keep", site[a].domain}

LinkInv == LinkedDomain /\ \A c \in Calls : SiteFits(c)

\* A step of c that leaves the domains alone.
LEMMA LinkKept ==
    ASSUME TypeInv, LinkInv, NEW c \in Calls, Others(c), Grown,
           UNCHANGED site, SiteFits(c)'
    PROVE  LinkInv'
<1>1. ASSUME NEW d \in Calls \ {c}
      PROVE  SiteFits(d)'
  <2>1. SiteFits(d) /\ req'[d] = req[d]
    BY DEF LinkInv, Others
  <2> QED BY <2>1 DEF SiteFits, Grown
<1>2. LinkedDomain'
  BY DEF LinkInv, LinkedDomain, Grown
<1> QED BY <1>1, <1>2 DEF LinkInv

\* Such a step, if what it does next is not to write one.
LEMMA LinkQuiet ==
    ASSUME TypeInv, LinkInv, NEW c \in Calls, Others(c), Grown,
           UNCHANGED site, req'[c].at \notin {"dns", "update"}
    PROVE  LinkInv'
<1>1. SiteFits(c)'
  BY DEF SiteFits
<1> QED BY <1>1, LinkKept

\* A step after which a is not linked to a domain.
LEMMA LinkUnlinked ==
    ASSUME TypeInv, LinkInv, NEW c \in Calls, Others(c), Grown,
           NEW a \in Apps, SameDocs(a), site'[a].linked = None,
           req'[c].at \notin {"dns", "update"}
    PROVE  LinkInv'
<1>1. ASSUME NEW d \in Calls
      PROVE  SiteFits(d)'
  <2>1. CASE d = c
    BY <2>1 DEF SiteFits
  <2>2. CASE d # c
    <3>1. SiteFits(d) /\ req'[d] = req[d]
          /\ (req[d].at # "idle" => req[d].app \in Apps)
      BY <2>2, ReadyReq DEF LinkInv, Others, TypeInv, RequestsOK, Fit
    <3> QED BY <3>1 DEF SiteFits, SameDocs, Grown
  <2> QED BY <2>1, <2>2
<1>2. LinkedDomain'
  BY DEF LinkInv, LinkedDomain, SameDocs, Grown
<1> QED BY <1>1, <1>2 DEF LinkInv

\* The document is updated.
LEMMA LinkUpdated ==
    ASSUME TypeInv, LinkInv, CrossInv, NEW c \in Calls, UpdateDoc(c),
           req'[c] # Idle
    PROVE  LinkInv'
<1> DEFINE a == req[c].app
           new == req[c].site
<1>1. /\ Others(c) /\ Grown /\ SameDocs(a)
      /\ a \in Apps /\ req[c].at = "update"
      /\ site'[a].domain = IF new.domain = "keep" THEN site[a].domain
                                                  ELSE new.domain
      /\ site'[a].linked = IF new.linked = None THEN site[a].linked
                                                ELSE new.linked
      /\ req'[c].at \in {"dependent", "get"}
  BY UpdateDocIs
<1>2. new \in SiteUpdate /\ SiteFits(c) /\ Touches(c, a)
      /\ new.linked \in Domains \cup {None}
  BY ReadyReq
  DEF TypeInv, RequestsOK, LinkInv, SiteUpdate, Touches
<1>3. ASSUME a \notin h'.moved \cup h'.crossed
      PROVE  site'[a].linked \in {None, site'[a].domain}
  <2>1. a \notin h.moved \cup h.crossed
    BY <1>1, <1>3 DEF Grown
  <2>2. site[a].linked \in {None, site[a].domain}
    BY <1>1, <2>1 DEF LinkInv, LinkedDomain
  <2>3. /\ new.linked # None => new.domain = new.linked
        /\ new.linked = None /\ site[a].linked # None
               => new.domain \in {"keep", site[a].domain}
    BY <1>1, <1>2, <2>1 DEF SiteFits
  <2>4. "keep" \notin Domains
    BY ServicesAssumption
  <2>5. CASE new.linked # None
    BY <1>1, <1>2, <2>3, <2>4, <2>5
  <2>6. CASE new.linked = None
    BY <1>1, <2>2, <2>3, <2>6
  <2> QED BY <2>5, <2>6
<1>4. LinkedDomain'
  BY <1>1, <1>3 DEF LinkInv, LinkedDomain, SameDocs, Grown
<1>5. ASSUME NEW d \in Calls
      PROVE  SiteFits(d)'
  <2>1. CASE d = c
    BY <1>1, <2>1 DEF SiteFits
  <2>2. CASE d # c
    <3>1. SiteFits(d) /\ req'[d] = req[d]
          /\ (req[d].at # "idle" => req[d].app \in Apps)
      BY <1>1, <2>2, ReadyReq
      DEF LinkInv, Others, TypeInv, RequestsOK, Fit
    <3>2. CASE req[d].app = a /\ req[d].at \in {"dns", "update"}
      <4>1. Works(c, a) /\ Uses(d, a)
        BY <1>1, <1>2, <3>2 DEF Works, Uses, Touches, Updating
      <4>2. a \in h.crossed
        BY <1>1, <2>2, <4>1 DEF CrossInv
      <4> QED BY <1>1, <3>1, <3>2, <4>2 DEF SiteFits, Grown
    <3>3. CASE ~(req[d].app = a /\ req[d].at \in {"dns", "update"})
      BY <1>1, <3>1, <3>3 DEF SiteFits, SameDocs, Grown
    <3> QED BY <3>2, <3>3
  <2> QED BY <2>1, <2>2
<1> QED BY <1>4, <1>5 DEF LinkInv

\* Every step of a request preserves it.
LEMMA LinkStep ==
    ASSUME TypeInv, LinkInv, CrossInv, NEW c \in Calls, StepOf(c)
    PROVE  LinkInv'
<1> USE SameHistory, IdleIs
<1>1. CASE CreateStarts(c)
  BY <1>1, CreateAnAppIs, LinkQuiet
  DEF CreateStarts, stores
<1>2. CASE InsertKeys(c)
  BY <1>2, InsertKeysIs, LinkQuiet
<1>3. CASE CreateVault(c)
  BY <1>3, CreateVaultIs, LinkQuiet
<1>4. CASE CreateDoc(c)
  BY <1>4, CreateDocIs, LinkUnlinked
  DEF NoSite
<1>5. CASE UpdateStarts(c)
  <2>1. PICK a \in Apps : UpdateBegun(c, a)
    BY <1>5, UpdateStartsIs
  <2>2. SiteFits(c)'
    BY <2>1 DEF UpdateBegun, SiteFits, stores
  <2> QED BY <2>1, <2>2, LinkKept DEF UpdateBegun, stores
<1>6. CASE VerifyDns(c)
  <2>1. SiteFits(c)'
    BY <1>6, VerifyDnsIs, ServicesAssumption DEF SiteFits, stores
  <2> QED BY <1>6, <2>1, VerifyDnsIs, LinkKept DEF stores
<1>7. CASE UpdateDoc(c)
  <2>1. CASE req'[c] = Idle
    BY <1>7, <2>1, UpdateDocIs, LinkQuiet
  <2> QED BY <1>7, <2>1, LinkUpdated
<1>8. CASE UpdateDependent(c)
  BY <1>8, UpdateDependentIs, LinkQuiet
<1>9. CASE GetCopies(c)
  BY <1>9, GetCopiesIs, LinkQuiet
  DEF stores
<1>10. CASE SetCopies(c)
  BY <1>10, SetCopiesIs, LinkQuiet
<1>11. CASE DeleteStarts(c)
  BY <1>11, DeleteAppIs, LinkQuiet
  DEF DeleteStarts, stores
<1>12. CASE CheckLinks(c)
  BY <1>12, CheckLinksIs, LinkQuiet
  DEF Goes, Ends, stores
<1>13. CASE Decrypt(c)
  BY <1>13, DecryptIs, LinkQuiet
  DEF Goes, Ends, stores
<1>14. CASE RegisterVault(c)
  BY <1>14, RegisterVaultIs, LinkQuiet
  DEF Goes, Ends
<1>15. CASE DeleteVault(c)
  BY <1>15, DeleteVaultIs, LinkQuiet
  DEF Goes, Ends
<1>16. CASE DeleteKeys(c)
  BY <1>16, DeleteKeysIs, LinkQuiet
  DEF Goes, Ends
<1>17. CASE DropDatabase(c)
  BY <1>17, DropDatabaseIs, LinkQuiet
  DEF Goes, Ends
<1>18. CASE DeletePage(c)
  BY <1>18, DeletePageIs, LinkQuiet
  DEF Goes, Ends
<1>19. CASE DeleteDoc(c)
  BY <1>19, DeleteDocIs, LinkUnlinked
  DEF Goes, Ends, NoSite
<1>20. CASE ClearCopies(c)
  BY <1>20, ClearCopiesIs, LinkQuiet
  DEF FollowsUp
<1>21. CASE TokenStarts(c)
  BY <1>21, TokenStartsIs, LinkQuiet
  DEF TokenBegun, stores
<1>22. CASE LookupCopy(c)
  BY <1>22, LookupCopyIs, LinkQuiet
  DEF stores
<1>23. CASE FindApp(c)
  BY <1>23, FindAppIs, LinkQuiet
  DEF stores
<1>24. CASE StoreCopy(c)
  BY <1>24, StoreCopyIs, LinkQuiet
<1>25. CASE Die(c)
  BY <1>25, DieIs, LinkQuiet
  DEF stores
<1> QED
  BY <1>1, <1>2, <1>3, <1>4, <1>5, <1>6, <1>7, <1>8, <1>9, <1>10, <1>11,
     <1>12, <1>13, <1>14, <1>15, <1>16, <1>17, <1>18, <1>19, <1>20, <1>21,
     <1>22, <1>23, <1>24, <1>25
  DEF StepOf

\* Every step preserves it.
LEMMA LinkNext ==
    ASSUME TypeInv, LinkInv, CrossInv, [Next]_vars
    PROVE  LinkInv'
<1>1. CASE \E c \in Calls : StepOf(c)
  BY <1>1, LinkStep
<1>2. CASE UNCHANGED <<req, site>> /\ Grown
  <2>1. ASSUME NEW c \in Calls
        PROVE  SiteFits(c)'
    BY <1>2 DEF LinkInv, SiteFits, Grown
  <2> QED BY <1>2, <2>1 DEF LinkInv, LinkedDomain, Grown
<1>3. CASE \E a \in Apps, s \in Slots : CopyExpires(a, s)
  BY <1>2, <1>3, CopyExpiresIs
<1> QED BY <1>1, <1>2, <1>3, NextIs, PageIs, SameHistory DEF vars

\* updateAnApp keeps a verified domain: what the linkage credential of a
\* service names is its domain, whatever requests update and delete it, if
\* they send hasDomainVerified and do not overlap.
THEOREM DomainsStayLinked == Spec => []LinkedDomain
<1>1. Init => LinkInv
  BY IdleIs DEF Init, LinkInv, LinkedDomain, SiteFits, NoSite
<1>2. TypeInv /\ CrossInv /\ LinkInv /\ [Next]_vars => LinkInv'
  BY LinkNext
<1>3. LinkInv => LinkedDomain
  BY DEF LinkInv
<1> QED BY <1>1, <1>2, <1>3, TypeInvariant, CrossInvariant, PTL DEF Spec

-----------------------------------------------------------------------------
(* What becomes of a request that is at some await.                        *)

\* It is still at it, or has gone on to one of the same kind.
LEMMA AtKept ==
    ASSUME NEW c \in Calls, Others(c), NEW x, NEW L, At(x, L),
           req[c].app = x /\ req[c].at \in L
               => req'[c].app = x /\ req'[c].at \in L
    PROVE  At(x, L)'
<1>1. PICK d \in Calls : req[d].app = x /\ req[d].at \in L
  BY DEF At
<1>2. req'[d].app = x /\ req'[d].at \in L
  BY <1>1 DEF Others
<1> QED BY <1>2 DEF At

\* It was at it before, or is the one that made the step.
LEMMA AtWas ==
    ASSUME NEW c \in Calls, Others(c), NEW x, NEW L, At(x, L)'
    PROVE  At(x, L) \/ (req'[c].app = x /\ req'[c].at \in L)
<1>1. PICK d \in Calls : req'[d].app = x /\ req'[d].at \in L
  BY DEF At
<1> QED BY <1>1 DEF At, Others

-----------------------------------------------------------------------------
(* What there is of a service before it has its document.                  *)

\* What exists of a service exists of one whose id was given.
UsedInv ==
    /\ \A a \in Apps : doc[a] # None \/ a \in h.deleted => a \in h.used
    /\ \A c \in Calls : req[c].at \in Creating \cup Deleting \cup Granting
                            => req[c].app \in h.used

\* A service that is not made, or being made.
New(a) == a \notin h.used \/ At(a, Creating)

\* Nobody has a document or a copy of it, or works on either.
Fresh(a) == /\ doc[a] = None /\ a \notin h.deleted
            /\ \A s \in Slots : cache[a][s] = None
Holds(c) == \/ req[c].at \in Deleting \cup {"store"}
            \/ req[c].at = "set" /\ req[c].had # {}
            \/ req[c].at = "lookup" /\ req[c].slot = "customer"

\* Its keys are made before its document.
Keyed(c) == /\ req[c].at \in {"vault", "insert"} => req[c].app \in kms
            /\ req[c].at = "insert" => req[c].app \in edv

NewInv ==
    /\ \A a \in Apps : New(a) => Fresh(a)
    /\ \A c \in Calls, a \in Apps :
           Holds(c) /\ New(a) => req[c].app # a
    /\ \A c, d \in Calls :
           req[c].at \in Creating /\ req[d].at \in Creating
               /\ req[c].app = req[d].app => c = d
    /\ \A c \in Calls : Keyed(c)

\* What a step of c makes new was new before.
LEMMA NewWas ==
    ASSUME NEW c \in Calls, Others(c), h.used \subseteq h'.used,
           req'[c].at \in Creating => New(req'[c].app),
           NEW x, New(x)'
    PROVE  New(x)
<1>1. CASE x \notin h'.used
  BY <1>1 DEF New
<1>2. CASE At(x, Creating)'
  <2>1. At(x, Creating) \/ (req'[c].app = x /\ req'[c].at \in Creating)
    BY <1>2, AtWas
  <2> QED BY <2>1 DEF New
<1> QED BY <1>1, <1>2 DEF New

\* What a step of c that is not about a new service may do.
LEMMA NewKept ==
    ASSUME TypeInv, NewInv, NEW c \in Calls, Others(c),
           h.used \subseteq h'.used,
           req'[c].at \notin Creating,
           \A x \in Apps : New(x)' => /\ Fresh(x) => Fresh(x)'
                                      /\ x \in kms => x \in kms'
                                      /\ x \in edv => x \in edv',
           \A x \in Apps : Holds(c)' /\ New(x)' => req'[c].app # x
    PROVE  NewInv'
<1>1. ASSUME NEW x, New(x)'
      PROVE  New(x)
  BY <1>1, NewWas
<1>2. ASSUME NEW d \in Calls \ {c}
      PROVE  /\ \A x \in Apps : Holds(d)' /\ New(x)' => req'[d].app # x
             /\ Keyed(d)'
  <2>1. /\ req'[d] = req[d] /\ Keyed(d)
        /\ \A x \in Apps : Holds(d) /\ New(x) => req[d].app # x
    BY DEF NewInv, Others
  <2>2. Holds(d)' = Holds(d)
    BY <2>1 DEF Holds
  <2>3. \A x \in Apps : Holds(d)' /\ New(x)' => req'[d].app # x
    BY <1>1, <2>1, <2>2
  <2>4. PICK y : y = req[d].app
    OBVIOUS
  <2>5. req[d].at \in Creating => y \in Apps /\ New(y)'
    <3>1. req[d].at \in Creating => y \in Apps
      BY <2>4, ReadyReq, LabelsAre DEF TypeInv, RequestsOK, Fit
    <3>2. req[d].at \in Creating => At(y, Creating)'
      BY <2>1, <2>4 DEF At
    <3> QED BY <3>1, <3>2 DEF New
  <2>6. req[d].at \in Creating /\ y \in kms => y \in kms'
    BY <2>5
  <2>7. req[d].at \in Creating /\ y \in edv => y \in edv'
    BY <2>5
  <2>8. Keyed(d)'
    BY <2>1, <2>4, <2>6, <2>7 DEF Keyed, Creating
  <2> QED BY <2>3, <2>8
<1>3. Keyed(c)'
  BY DEF Keyed, Creating
<1>4. ASSUME NEW a \in Apps, New(a)'
      PROVE  Fresh(a)'
  <2>1. New(a) /\ Fresh(a)
    BY <1>1, <1>4 DEF NewInv
  <2> QED BY <1>4, <2>1
<1>5. ASSUME NEW d \in Calls, NEW e \in Calls,
             req'[d].at \in Creating, req'[e].at \in Creating,
             req'[d].app = req'[e].app
      PROVE  d = e
  BY <1>5 DEF NewInv, Others
<1> QED BY <1>2, <1>3, <1>4, <1>5 DEF NewInv

\* Such a step if it leaves documents and copies alone, and the keys too.
LEMMA NewQuiet ==
    ASSUME TypeInv, NewInv, NEW c \in Calls, Others(c),
           UNCHANGED <<doc, cache>>, SameDeleted,
           h.used \subseteq h'.used,
           req'[c].at \notin Creating,
           kms \subseteq kms', edv \subseteq edv',
           \A x \in Apps : Holds(c)' /\ New(x) => req'[c].app # x
    PROVE  NewInv'
<1>1. ASSUME NEW x \in Apps
      PROVE  Fresh(x) => Fresh(x)'
  BY DEF Fresh, SameDeleted
<1>2. \A x \in Apps : Holds(c)' /\ New(x)' => req'[c].app # x
  BY NewWas
<1> QED BY <1>1, <1>2, NewKept

\* A step of c that is about a service that is not new.
LEMMA NewElse ==
    ASSUME TypeInv, NewInv, NEW c \in Calls, Others(c),
           h.used \subseteq h'.used,
           req'[c].at \notin Creating,
           NEW a \in Apps, ~New(a),
           \A x \in Apps \ {a} : /\ doc'[x] = doc[x] /\ cache'[x] = cache[x]
                                 /\ x \in h'.deleted => x \in h.deleted
                                 /\ x \in kms => x \in kms'
                                 /\ x \in edv => x \in edv',
           \A x \in Apps : Holds(c)' /\ New(x) => req'[c].app # x
    PROVE  NewInv'
<1>1. ~New(a)'
  BY NewWas
<1>2. ASSUME NEW x \in Apps, New(x)'
      PROVE  /\ Fresh(x) => Fresh(x)'
             /\ x \in kms => x \in kms'
             /\ x \in edv => x \in edv'
  BY <1>1, <1>2 DEF Fresh
<1>3. \A x \in Apps : Holds(c)' /\ New(x)' => req'[c].app # x
  BY NewWas
<1> QED BY <1>2, <1>3, NewKept

\* Who holds something of a service, or has just read its document, is not at
\* work on a new one.
LEMMA NotNew ==
    ASSUME NewInv
    PROVE  /\ \A c \in Calls, a \in Apps :
                  Holds(c) /\ New(a) => req[c].app # a
           /\ \A a \in Apps : doc[a] # None => ~New(a)
BY DEF NewInv, Fresh

\* Who begins, updates or makes a service holds nothing of it.
LEMMA HoldsNot ==
    ASSUME NEW c,
           \/ req'[c].at \in {"idle", "dns", "update", "dependent", "get",
                              "find"}
           \/ req'[c].at \in Creating
    PROVE  ~Holds(c)'
BY DEF Holds, Creating, Deleting

\* A step of c after which what exists of a service is of one that is used.
LEMMA UsedKept ==
    ASSUME UsedInv, NEW c \in Calls, Others(c), h.used \subseteq h'.used,
           \A a \in Apps : doc'[a] # None \/ a \in h'.deleted
               => doc[a] # None \/ a \in h.deleted \/ a \in h.used,
           req'[c].at \in Creating \cup Deleting \cup Granting
               => req'[c].app \in h'.used
    PROVE  UsedInv'
BY DEF UsedInv, Others

\* Such a step that leaves the documents alone.
LEMMA UsedQuiet ==
    ASSUME UsedInv, NEW c \in Calls, Others(c), SameIds, UNCHANGED doc,
           req'[c].at \in Creating \cup Deleting \cup Granting
               => req'[c].app \in h.used
    PROVE  UsedInv'
BY UsedKept DEF SameIds, SameUsed, SameDeleted

\* Who makes a service, deletes it or asks for a token of it, uses its id.
LEMMA UsedIs ==
    ASSUME UsedInv, NEW c \in Calls,
           req[c].at \in Creating \cup Deleting \cup Granting
    PROVE  req[c].app \in h.used
BY DEF UsedInv

\* Every step of a request preserves it.
LEMMA UsedStep ==
    ASSUME TypeInv, UsedInv, NEW c \in Calls, StepOf(c)
    PROVE  UsedInv'
<1> USE SameHistory, IdleIs, LabelsAre
<1>1. CASE CreateStarts(c)
  BY <1>1, CreateAnAppIs, UsedKept
  DEF CreateStarts, stores, SameDeleted
<1>2. CASE InsertKeys(c)
  BY <1>2, InsertKeysIs, UsedQuiet, UsedIs
  DEF Creating, Same
<1>3. CASE CreateVault(c)
  BY <1>3, CreateVaultIs, UsedQuiet, UsedIs
  DEF Creating, Same
<1>4. CASE CreateDoc(c)
  <2>1. req[c].app \in h.used
    BY <1>4, CreateDocIs, UsedIs DEF Creating
  <2> QED BY <1>4, <2>1, CreateDocIs, UsedKept DEF SameDocs
<1>5. CASE UpdateStarts(c)
  BY <1>5, UpdateStartsIs, UsedQuiet
  DEF UpdateBegun, stores, Updating
<1>6. CASE VerifyDns(c)
  BY <1>6, VerifyDnsIs, UsedQuiet
  DEF stores, Updating
<1>7. CASE UpdateDoc(c)
  <2>1. /\ \A a \in Apps : doc'[a] # None => doc[a] # None
        /\ Others(c) /\ SameIds
        /\ req'[c].at \in {"idle", "dependent", "get"}
    BY <1>7, UpdateDocIs DEF SameDocs
  <2> QED BY <2>1, UsedKept
      DEF SameIds, SameUsed, SameDeleted, Creating, Deleting, Granting
<1>8. CASE UpdateDependent(c)
  <2>1. /\ \A a \in Apps : doc'[a] # None => doc[a] # None
        /\ Others(c) /\ SameIds /\ req'[c].at = "get"
    BY <1>8, UpdateDependentIs DEF SameDocs
  <2> QED BY <2>1, UsedKept
      DEF SameIds, SameUsed, SameDeleted, Creating, Deleting, Granting
<1>9. CASE GetCopies(c)
  BY <1>9, GetCopiesIs, UsedQuiet
  DEF stores, Updating
<1>10. CASE SetCopies(c)
  BY <1>10, SetCopiesIs, UsedQuiet
  DEF stores, Updating
<1>11. CASE DeleteStarts(c)
  BY <1>11, DeleteAppIs, UsedQuiet
  DEF DeleteStarts, stores, UsedInv
<1>12. CASE CheckLinks(c)
  BY <1>12, CheckLinksIs, UsedQuiet, UsedIs, DeletingAre
  DEF Goes, Ends, Same, stores
<1>13. CASE Decrypt(c)
  BY <1>13, DecryptIs, UsedQuiet, UsedIs, DeletingAre
  DEF Goes, Ends, Same, stores
<1>14. CASE RegisterVault(c)
  BY <1>14, RegisterVaultIs, UsedQuiet, UsedIs, DeletingAre
  DEF Goes, Ends, Same
<1>15. CASE DeleteVault(c)
  BY <1>15, DeleteVaultIs, UsedQuiet, UsedIs, DeletingAre
  DEF Goes, Ends, Same
<1>16. CASE DeleteKeys(c)
  BY <1>16, DeleteKeysIs, UsedQuiet, UsedIs, DeletingAre
  DEF Goes, Ends, Same
<1>17. CASE DropDatabase(c)
  BY <1>17, DropDatabaseIs, UsedQuiet, UsedIs, DeletingAre
  DEF Goes, Ends, Same
<1>18. CASE DeletePage(c)
  BY <1>18, DeletePageIs, UsedQuiet, UsedIs, DeletingAre
  DEF Goes, Ends, Same
<1>19. CASE DeleteDoc(c)
  <2>1. req[c].app \in h.used
    BY <1>19, DeleteDocIs, UsedIs, DeletingAre DEF Goes
  <2> QED BY <1>19, <2>1, DeleteDocIs, UsedKept
      DEF Goes, Same, SameDocs, SameUsed
<1>20. CASE ClearCopies(c)
  BY <1>20, ClearCopiesIs, UsedQuiet
  DEF FollowsUp, UsedInv
<1>21. CASE TokenStarts(c)
  BY <1>21, TokenStartsIs, UsedQuiet
  DEF TokenBegun, stores
<1>22. CASE LookupCopy(c)
  <2>1. /\ Others(c) /\ UNCHANGED doc /\ SameIds /\ req[c].at \in Granting
        /\ req'[c].at = "idle" \/ req'[c].app = req[c].app
    BY <1>22, LookupCopyIs DEF stores, Granting
  <2> QED BY <2>1, UsedQuiet, UsedIs
<1>23. CASE FindApp(c)
  <2>1. /\ Others(c) /\ UNCHANGED doc /\ SameIds /\ req[c].at \in Granting
        /\ req'[c].at = "idle" \/ req'[c].app = req[c].app
    BY <1>23, FindAppIs DEF stores, Granting
  <2> QED BY <2>1, UsedQuiet, UsedIs
<1>24. CASE StoreCopy(c)
  <2>1. Others(c) /\ UNCHANGED <<doc, h>> /\ req'[c].at = "idle"
    BY <1>24, StoreCopyIs
  <2> QED BY <2>1, UsedQuiet
<1>25. CASE Die(c)
  BY <1>25, DieIs, UsedQuiet
  DEF stores
<1> QED
  BY <1>1, <1>2, <1>3, <1>4, <1>5, <1>6, <1>7, <1>8, <1>9, <1>10, <1>11,
     <1>12, <1>13, <1>14, <1>15, <1>16, <1>17, <1>18, <1>19, <1>20, <1>21,
     <1>22, <1>23, <1>24, <1>25
  DEF StepOf

\* A step of c that works at making a service.
LEMMA NewMaking ==
    ASSUME TypeInv, NewInv, NEW c \in Calls, Others(c),
           UNCHANGED <<doc, cache>>, SameDeleted,
           h.used \subseteq h'.used,
           kms \subseteq kms', edv \subseteq edv', Keyed(c)',
           req'[c].at \in Creating, NEW a \in Apps, req'[c].app = a, New(a),
           \A d \in Calls \ {c} : req[d].at \in Creating => req[d].app # a
    PROVE  NewInv'
<1>1. ASSUME NEW x, New(x)'
      PROVE  New(x)
  BY <1>1, NewWas
<1>2. ASSUME NEW d \in Calls
      PROVE  /\ \A x \in Apps : Holds(d)' /\ New(x)' => req'[d].app # x
             /\ Keyed(d)'
  <2>1. CASE d = c
    BY <2>1, HoldsNot
  <2>2. CASE d # c
    <3>1. /\ req'[d] = req[d] /\ Keyed(d)
          /\ \A x \in Apps : Holds(d) /\ New(x) => req[d].app # x
      BY <2>2 DEF NewInv, Others
    <3>2. Holds(d)' = Holds(d) /\ Keyed(d)'
      BY <3>1 DEF Holds, Keyed
    <3> QED BY <1>1, <3>1, <3>2
  <2> QED BY <2>1, <2>2
<1>3. ASSUME NEW x \in Apps, New(x)'
      PROVE  Fresh(x)'
  BY <1>1, <1>3 DEF NewInv, Fresh, SameDeleted
<1>4. ASSUME NEW d \in Calls, NEW e \in Calls,
             req'[d].at \in Creating, req'[e].at \in Creating,
             req'[d].app = req'[e].app
      PROVE  d = e
  BY <1>4 DEF NewInv, Others
<1> QED BY <1>2, <1>3, <1>4 DEF NewInv

\* Every step of a request preserves what is said of new services.
LEMMA NewStep ==
    ASSUME TypeInv, UsedInv, NewInv, NEW c \in Calls, StepOf(c)
    PROVE  NewInv'
<1> USE SameHistory, IdleIs
<1>1. CASE CreateStarts(c)
  <2>1. PICK a \in Apps :
            /\ Others(c) /\ UNCHANGED stores /\ a \notin h.used
            /\ req'[c].at = "keys" /\ req'[c].app = a
            /\ h'.used = h.used \cup {a} /\ SameDeleted
    BY <1>1, CreateAnAppIs DEF CreateStarts
  <2>2. Keyed(c)'
    BY <2>1 DEF Keyed
  <2>3. \A d \in Calls : req[d].at \in Creating => req[d].app # a
    BY <2>1, UsedIs
  <2>4. New(a) /\ req'[c].at \in Creating
    BY <2>1 DEF New, Creating
  <2> QED BY <2>1, <2>2, <2>3, <2>4, NewMaking DEF stores
<1>2. CASE InsertKeys(c)
  <2> DEFINE a == req[c].app
  <2>1. /\ Others(c) /\ UNCHANGED <<doc, edv, cache>> /\ SameIds
        /\ req[c].at \in Creating /\ req'[c].at \in Creating
        /\ req'[c].app = a /\ a \in Apps /\ kms' = kms \cup {a}
    BY <1>2, InsertKeysIs DEF Creating, Same
  <2>2. Keyed(c)'
    BY <1>2, InsertKeysIs DEF Keyed, NewInv, Same
  <2>3. \A d \in Calls \ {c} : req[d].at \in Creating => req[d].app # a
    BY <2>1 DEF NewInv
  <2>4. New(a)
    BY <2>1 DEF New, At
  <2> HIDE DEF a
  <2> QED BY <2>1, <2>2, <2>3, <2>4, NewMaking DEF SameIds, SameUsed
<1>3. CASE CreateVault(c)
  <2> DEFINE a == req[c].app
  <2>1. /\ Others(c) /\ UNCHANGED <<doc, kms, cache>> /\ SameIds
        /\ req[c].at \in Creating /\ req'[c].at \in Creating
        /\ req'[c].app = a /\ a \in Apps /\ edv' = edv \cup {a}
    BY <1>3, CreateVaultIs DEF Creating, Same
  <2>2. Keyed(c)'
    BY <1>3, CreateVaultIs DEF Keyed, NewInv, Same
  <2>3. \A d \in Calls \ {c} : req[d].at \in Creating => req[d].app # a
    BY <2>1 DEF NewInv
  <2>4. New(a)
    BY <2>1 DEF New, At
  <2> HIDE DEF a
  <2> QED BY <2>1, <2>2, <2>3, <2>4, NewMaking DEF SameIds, SameUsed
<1>4. CASE CreateDoc(c)
  <2>0. PICK a : a = req[c].app
    OBVIOUS
  <2>1. /\ Others(c) /\ UNCHANGED <<kms, edv, cache>> /\ SameIds
        /\ SameDocs(a) /\ a \in Apps
        /\ req[c].at \in Creating /\ req'[c].at = "idle"
    BY <1>4, <2>0, CreateDocIs DEF Creating
  <2>2. a \in h'.used
    BY <2>0, <2>1, UsedIs DEF SameIds, SameUsed
  <2>3. ~At(a, Creating)'
    BY <2>0, <2>1, LabelsAre DEF NewInv, At, Others
  <2>4. ~New(a)'
    BY <2>2, <2>3 DEF New
  <2>5. \A x \in Apps : New(x)' => (Fresh(x) => Fresh(x)')
    BY <2>1, <2>4 DEF Fresh, SameDocs, SameIds, SameDeleted
  <2> QED BY <2>1, <2>5, NewKept, HoldsNot, LabelsAre
      DEF SameIds, SameUsed
<1>5. CASE UpdateStarts(c)
  <2>1. /\ Others(c) /\ UNCHANGED stores /\ SameIds
        /\ req'[c].at \in {"dns", "update"}
    BY <1>5, UpdateStartsIs DEF UpdateBegun
  <2> QED BY <2>1, NewQuiet, HoldsNot
      DEF stores, SameIds, SameUsed, Creating
<1>6. CASE VerifyDns(c)
  <2>1. /\ Others(c) /\ UNCHANGED stores /\ SameIds
        /\ req'[c].at \in {"idle", "update"}
    BY <1>6, VerifyDnsIs
  <2> QED BY <2>1, NewQuiet, HoldsNot
      DEF stores, SameIds, SameUsed, Creating
<1>7. CASE UpdateDoc(c)
  <2>1. /\ Others(c) /\ UNCHANGED <<kms, edv, cache>> /\ SameIds
        /\ \A x \in Apps : doc[x] = None => doc'[x] = None
        /\ req'[c].at \in {"idle", "dependent", "get"}
    BY <1>7, UpdateDocIs DEF SameDocs
  <2>2. \A x \in Apps : Fresh(x) => Fresh(x)'
    BY <2>1 DEF Fresh, SameIds, SameDeleted
  <2> QED BY <2>1, <2>2, NewKept, HoldsNot
      DEF SameIds, SameUsed, Creating
<1>8. CASE UpdateDependent(c)
  <2>1. /\ Others(c) /\ UNCHANGED <<kms, edv, cache>> /\ SameIds
        /\ \A x \in Apps : doc[x] = None => doc'[x] = None
        /\ req'[c].at = "get"
    BY <1>8, UpdateDependentIs DEF SameDocs
  <2>2. \A x \in Apps : Fresh(x) => Fresh(x)'
    BY <2>1 DEF Fresh, SameIds, SameDeleted
  <2> QED BY <2>1, <2>2, NewKept, HoldsNot
      DEF SameIds, SameUsed, Creating
<1>9. CASE GetCopies(c)
  <2>1. /\ Others(c) /\ UNCHANGED stores /\ SameIds /\ req'[c].at = "set"
        /\ req'[c].app = req[c].app
        /\ req'[c].had = {s \in KnownSlots : cache[req[c].app][s] # None}
    BY <1>9, GetCopiesIs
  <2>2. ASSUME NEW x \in Apps, New(x), req'[c].app = x
        PROVE  ~Holds(c)'
    <3>1. Fresh(x)
      BY <2>2 DEF NewInv
    <3>2. req'[c].had = {}
      BY <2>1, <2>2, <3>1 DEF Fresh, KnownSlots
    <3> QED BY <2>1, <3>2 DEF Holds, Deleting
  <2> QED BY <2>1, <2>2, NewQuiet
      DEF stores, SameIds, SameUsed, Creating
<1>10. CASE SetCopies(c)
  <2>0. PICK a, S : a = req[c].app /\ S = req[c].had
    OBVIOUS
  <2>1. /\ Others(c) /\ UNCHANGED <<doc, kms, edv>> /\ SameIds
        /\ a \in Apps /\ S \subseteq Slots /\ SameCopies(a, S)
        /\ req[c].at = "set" /\ req'[c].at \in {"idle", "get"}
    BY <1>10, <2>0, SetCopiesIs DEF Written
  <2>2. S # {} => ~New(a)
    BY <2>0, <2>1 DEF NewInv, Holds
  <2>3. ~New(a)' \/ S = {}
    BY <2>1, <2>2, NewWas DEF SameIds, SameUsed, Creating
  <2>4. \A x \in Apps : New(x)' => (Fresh(x) => Fresh(x)')
    BY <2>1, <2>3 DEF Fresh, SameCopies, SameIds, SameDeleted
  <2> QED BY <2>1, <2>4, NewKept, HoldsNot
      DEF SameIds, SameUsed, Creating
<1>11. CASE DeleteStarts(c)
  <2>1. PICK a \in Apps :
            /\ Others(c) /\ UNCHANGED stores /\ SameIds
            /\ doc[a] # None /\ req'[c].at = "check" /\ req'[c].app = a
    BY <1>11, DeleteAppIs DEF DeleteStarts
  <2>2. ~New(a)
    BY <2>1, NotNew
  <2> QED BY <2>1, <2>2, NewQuiet DEF stores, SameIds, SameUsed, Creating
<1>12. CASE CheckLinks(c)
  <2>1. /\ Others(c) /\ UNCHANGED <<doc, cache>> /\ SameIds
        /\ kms \subseteq kms' /\ edv \subseteq edv'
        /\ req[c].at \in Deleting
        /\ \/ req'[c].at = "idle"
           \/ req'[c].at \in Deleting /\ req'[c].app = req[c].app
    BY <1>12, CheckLinksIs, DeletingAre DEF Goes, Ends, Same, stores
  <2>2. \A x \in Apps : New(x) => req[c].app # x
    BY <2>1 DEF NewInv, Holds
  <2> QED BY <2>1, <2>2, NewQuiet, HoldsNot, LabelsAre
      DEF SameIds, SameUsed
<1>13. CASE Decrypt(c)
  <2>1. /\ Others(c) /\ UNCHANGED <<doc, cache>> /\ SameIds
        /\ kms \subseteq kms' /\ edv \subseteq edv'
        /\ req[c].at \in Deleting
        /\ \/ req'[c].at = "idle"
           \/ req'[c].at \in Deleting /\ req'[c].app = req[c].app
    BY <1>13, DecryptIs, DeletingAre DEF Goes, Ends, Same, stores
  <2>2. \A x \in Apps : New(x) => req[c].app # x
    BY <2>1 DEF NewInv, Holds
  <2> QED BY <2>1, <2>2, NewQuiet, HoldsNot, LabelsAre
      DEF SameIds, SameUsed
<1>14. CASE RegisterVault(c)
  <2>1. /\ Others(c) /\ UNCHANGED <<doc, cache>> /\ SameIds
        /\ kms \subseteq kms' /\ edv \subseteq edv'
        /\ req[c].at \in Deleting
        /\ \/ req'[c].at = "idle"
           \/ req'[c].at \in Deleting /\ req'[c].app = req[c].app
    BY <1>14, RegisterVaultIs, DeletingAre DEF Goes, Ends, Same
  <2>2. \A x \in Apps : New(x) => req[c].app # x
    BY <2>1 DEF NewInv, Holds
  <2> QED BY <2>1, <2>2, NewQuiet, HoldsNot, LabelsAre
      DEF SameIds, SameUsed
<1>15. CASE DeleteVault(c)
  <2> DEFINE a == req[c].app
  <2>1. /\ Others(c) /\ SameUsed /\ a \in Apps /\ req[c].at \in Deleting
        /\ \A x \in Apps \ {a} :
               /\ doc'[x] = doc[x] /\ cache'[x] = cache[x]
               /\ x \in h'.deleted => x \in h.deleted
               /\ x \in kms => x \in kms'
               /\ x \in edv => x \in edv'
        /\ \/ req'[c].at = "idle"
           \/ req'[c].at \in Deleting /\ req'[c].app = a
    BY <1>15, DeleteVaultIs, DeletingAre
    DEF Goes, Ends, Same, SameIds, SameUsed, SameDeleted
  <2>2. \A x \in Apps : New(x) => a # x
    BY <2>1 DEF NewInv, Holds
  <2> HIDE DEF a
  <2> QED BY <2>1, <2>2, NewElse, HoldsNot, LabelsAre DEF SameUsed
<1>16. CASE DeleteKeys(c)
  <2> DEFINE a == req[c].app
  <2>1. /\ Others(c) /\ SameUsed /\ a \in Apps /\ req[c].at \in Deleting
        /\ \A x \in Apps \ {a} :
               /\ doc'[x] = doc[x] /\ cache'[x] = cache[x]
               /\ x \in h'.deleted => x \in h.deleted
               /\ x \in kms => x \in kms'
               /\ x \in edv => x \in edv'
        /\ \/ req'[c].at = "idle"
           \/ req'[c].at \in Deleting /\ req'[c].app = a
    BY <1>16, DeleteKeysIs, DeletingAre
    DEF Goes, Ends, Same, SameIds, SameUsed, SameDeleted
  <2>2. \A x \in Apps : New(x) => a # x
    BY <2>1 DEF NewInv, Holds
  <2> HIDE DEF a
  <2> QED BY <2>1, <2>2, NewElse, HoldsNot, LabelsAre DEF SameUsed
<1>17. CASE DropDatabase(c)
  <2>1. /\ Others(c) /\ UNCHANGED <<doc, cache>> /\ SameIds
        /\ kms \subseteq kms' /\ edv \subseteq edv'
        /\ req[c].at \in Deleting
        /\ \/ req'[c].at = "idle"
           \/ req'[c].at \in Deleting /\ req'[c].app = req[c].app
    BY <1>17, DropDatabaseIs, DeletingAre DEF Goes, Ends, Same
  <2>2. \A x \in Apps : New(x) => req[c].app # x
    BY <2>1 DEF NewInv, Holds
  <2> QED BY <2>1, <2>2, NewQuiet, HoldsNot, LabelsAre
      DEF SameIds, SameUsed
<1>18. CASE DeletePage(c)
  <2>1. /\ Others(c) /\ UNCHANGED <<doc, cache>> /\ SameIds
        /\ kms \subseteq kms' /\ edv \subseteq edv'
        /\ req[c].at \in Deleting
        /\ \/ req'[c].at = "idle"
           \/ req'[c].at \in Deleting /\ req'[c].app = req[c].app
    BY <1>18, DeletePageIs, DeletingAre DEF Goes, Ends, Same
  <2>2. \A x \in Apps : New(x) => req[c].app # x
    BY <2>1 DEF NewInv, Holds
  <2> QED BY <2>1, <2>2, NewQuiet, HoldsNot, LabelsAre
      DEF SameIds, SameUsed
<1>19. CASE DeleteDoc(c)
  <2> DEFINE a == req[c].app
  <2>1. /\ Others(c) /\ SameUsed /\ a \in Apps /\ req[c].at \in Deleting
        /\ \A x \in Apps \ {a} :
               /\ doc'[x] = doc[x] /\ cache'[x] = cache[x]
               /\ x \in h'.deleted => x \in h.deleted
               /\ x \in kms => x \in kms'
               /\ x \in edv => x \in edv'
        /\ \/ req'[c].at = "idle"
           \/ req'[c].at \in Deleting /\ req'[c].app = a
    BY <1>19, DeleteDocIs, DeletingAre
    DEF Goes, Ends, Same, SameIds, SameUsed, SameDeleted, SameDocs
  <2>2. \A x \in Apps : New(x) => a # x
    BY <2>1 DEF NewInv, Holds
  <2> HIDE DEF a
  <2> QED BY <2>1, <2>2, NewElse, HoldsNot, LabelsAre DEF SameUsed
<1>20. CASE ClearCopies(c)
  <2> DEFINE a == req[c].app
  <2>1. /\ Others(c) /\ SameIds /\ a \in Apps /\ req[c].at \in Deleting
        /\ UNCHANGED <<doc, kms, edv>>
        /\ \A x \in Apps \ {a} : cache'[x] = cache[x]
        /\ \/ req'[c].at = "idle"
           \/ req'[c].at \in Deleting /\ doc[req'[c].app] # None
    BY <1>20, ClearCopiesIs, DeletingAre
    DEF ClearedOf, SameCopies, FollowsUp
  <2>2. \A x \in Apps : New(x) => a # x
    BY <2>1 DEF NewInv, Holds
  <2>3. \A x \in Apps : Holds(c)' /\ New(x) => req'[c].app # x
    BY <2>1, NotNew, HoldsNot
  <2> HIDE DEF a
  <2> QED BY <2>1, <2>2, <2>3, NewElse, LabelsAre
      DEF SameIds, SameUsed, SameDeleted
<1>21. CASE TokenStarts(c)
  <2>1. /\ Others(c) /\ UNCHANGED stores /\ SameIds
        /\ req'[c].at \in {"find", "lookup"}
        /\ req'[c].at = "lookup" => req'[c].slot # "customer"
    BY <1>21, TokenStartsIs DEF TokenBegun
  <2>2. ~Holds(c)' /\ req'[c].at \notin Creating
    BY <2>1 DEF Holds, Deleting, Creating
  <2> QED BY <2>1, <2>2, NewQuiet DEF stores, SameIds, SameUsed
<1>22. CASE LookupCopy(c)
  <2>1. /\ Others(c) /\ UNCHANGED stores /\ SameIds /\ req[c].at = "lookup"
        /\ \/ req'[c].at \in {"idle", "find"}
           \/ /\ req'[c].at = "store" /\ req'[c].app = req[c].app
              /\ req[c].slot = "customer"
    BY <1>22, LookupCopyIs
  <2>2. \A x \in Apps : Holds(c)' /\ New(x) => req'[c].app # x
    BY <2>1, HoldsNot DEF NewInv, Holds
  <2> QED BY <2>1, <2>2, NewQuiet DEF stores, SameIds, SameUsed, Creating
<1>23. CASE FindApp(c)
  <2>1. /\ Others(c) /\ UNCHANGED stores /\ SameIds
        /\ \/ req'[c].at = "idle"
           \/ /\ req'[c].at \in {"lookup", "store"}
              /\ doc[req'[c].app] # None
    BY <1>23, FindAppIs
  <2>2. \A x \in Apps : Holds(c)' /\ New(x) => req'[c].app # x
    BY <2>1, HoldsNot, NotNew
  <2> QED BY <2>1, <2>2, NewQuiet DEF stores, SameIds, SameUsed, Creating
<1>24. CASE StoreCopy(c)
  <2> DEFINE a == req[c].app
  <2>1. /\ Others(c) /\ UNCHANGED <<doc, kms, edv>> /\ SameIds /\ a \in Apps
        /\ \A x \in Apps \ {a} : cache'[x] = cache[x]
        /\ req[c].at = "store" /\ req'[c].at = "idle"
    BY <1>24, StoreCopyIs DEF SameCopies
  <2>2. \A x \in Apps : New(x) => a # x
    BY <2>1 DEF NewInv, Holds
  <2> HIDE DEF a
  <2> QED BY <2>1, <2>2, NewElse, HoldsNot, LabelsAre
      DEF SameIds, SameUsed, SameDeleted
<1>25. CASE Die(c)
  <2>1. Others(c) /\ UNCHANGED stores /\ SameIds /\ req'[c].at = "idle"
    BY <1>25, DieIs
  <2> QED BY <2>1, NewQuiet, HoldsNot
      DEF stores, SameIds, SameUsed, Creating
<1> QED
  BY <1>1, <1>2, <1>3, <1>4, <1>5, <1>6, <1>7, <1>8, <1>9, <1>10, <1>11,
     <1>12, <1>13, <1>14, <1>15, <1>16, <1>17, <1>18, <1>19, <1>20, <1>21,
     <1>22, <1>23, <1>24, <1>25
  DEF StepOf

\* What a step that is about no request does to the documents and copies.
Aside == /\ UNCHANGED <<doc, site, kms, edv, data, req>> /\ SameIds /\ Grown
         /\ \A a \in Apps, s \in Slots : cache'[a][s] \in {cache[a][s], None}

\* A page, a copy that expires, or nothing.
LEMMA AsideIs ==
    ASSUME TypeInv, [Next]_vars
    PROVE  Aside \/ \E c \in Calls : StepOf(c)
<1> USE SameHistory
<1>1. CASE UNCHANGED vars
  BY <1>1 DEF vars, Aside
<1>2. CASE \E k \in KycApps : StorePage(k) \/ RemovePage(k)
  BY <1>2, PageIs DEF Aside
<1>3. CASE \E a \in Apps, slot \in Slots : CopyExpires(a, slot)
  BY <1>3, CopyExpiresIs DEF Aside, SameCopies
<1> QED BY <1>1, <1>2, <1>3, NextIs

\* Every step preserves what is said of used services and of new ones.
LEMMA NewNext ==
    ASSUME TypeInv, UsedInv, NewInv, [Next]_vars
    PROVE  UsedInv' /\ NewInv'
<1>1. CASE \E c \in Calls : StepOf(c)
  BY <1>1, UsedStep, NewStep
<1>2. CASE Aside
  <2>1. UsedInv'
    BY <1>2 DEF Aside, UsedInv, SameIds, SameUsed, SameDeleted
  <2>2. \A c \in Calls : Holds(c)' = Holds(c) /\ Keyed(c)' = Keyed(c)
    BY <1>2 DEF Aside, Holds, Keyed
  <2>3. \A a \in Apps : New(a)' = New(a)
    BY <1>2 DEF Aside, New, At, SameIds, SameUsed
  <2>4. \A a \in Apps : Fresh(a) => Fresh(a)'
    BY <1>2 DEF Aside, Fresh, SameIds, SameDeleted
  <2>5. NewInv'
    BY <1>2, <2>2, <2>3, <2>4 DEF Aside, NewInv
  <2> QED BY <2>1, <2>5
<1> QED BY <1>1, <1>2, AsideIs

\* A service gets its document last.
LEMMA NewInvariant == Spec => [](UsedInv /\ NewInv)
<1>1. Init => UsedInv /\ NewInv
  <2> SUFFICES ASSUME Init
               PROVE  UsedInv /\ NewInv
    OBVIOUS
  <2>1. /\ \A c \in Calls : req[c].at = "idle"
        /\ \A a \in Apps : doc[a] = None /\ \A s \in Slots : cache[a][s] = None
        /\ h.used = {} /\ h.deleted = {}
    BY IdleIs DEF Init
  <2>2. UsedInv
    BY <2>1, LabelsAre DEF UsedInv
  <2>3. NewInv
    BY <2>1, LabelsAre DEF NewInv, Fresh, Holds, Keyed
  <2> QED BY <2>2, <2>3
<1>2. TypeInv /\ UsedInv /\ NewInv /\ [Next]_vars => UsedInv' /\ NewInv'
  BY NewNext
<1> QED BY <1>1, <1>2, TypeInvariant, PTL DEF Spec

-----------------------------------------------------------------------------
(* DocHasKeys.                                                             *)

\* The secret of a service goes after the vault, the document last.
Forgotten == {"drop", "unpage", "delete"}

\* Which of the two is there, if there is a document.
KeysAt(a) ==
    doc[a] # None => /\ a \in kms \/ a \in h.cut \/ At(a, Forgotten)
                     /\ a \in edv \/ a \in h.cut \/ At(a, Doomed)

KeysInv == \A a \in Apps : KeysAt(a)

\* A step of c that is about a.
LEMMA KeysKept ==
    ASSUME KeysInv, NEW c \in Calls, Others(c), Grown,
           NEW a, a = req[c].app, a \in Apps => KeysAt(a)',
           \A x \in Apps \ {a} : /\ doc'[x] # None => doc[x] # None
                                 /\ x \in kms => x \in kms'
                                 /\ x \in edv => x \in edv'
    PROVE  KeysInv'
<1>1. ASSUME NEW x \in Apps, x # a
      PROVE  KeysAt(x)'
  <2>1. KeysAt(x)
    BY DEF KeysInv
  <2>2. /\ At(x, Forgotten) => At(x, Forgotten)'
        /\ At(x, Doomed) => At(x, Doomed)'
    BY <1>1, AtKept
  <2> QED BY <1>1, <2>1, <2>2 DEF KeysAt, Grown
<1> QED BY <1>1 DEF KeysInv

\* Such a step that takes nothing away, and if it is past the point of no
\* return goes on there.
LEMMA KeysQuiet ==
    ASSUME KeysInv, NEW c \in Calls, Others(c), Grown,
           \A x \in Apps : /\ doc'[x] # None => doc[x] # None
                           /\ x \in kms => x \in kms'
                           /\ x \in edv => x \in edv',
           req[c].at \in Doomed =>
               /\ req'[c].app = req[c].app /\ req'[c].at \in Doomed
               /\ req[c].at \in Forgotten => req'[c].at \in Forgotten
    PROVE  KeysInv'
<1>1. ASSUME NEW x \in Apps
      PROVE  KeysAt(x)'
  <2>1. KeysAt(x)
    BY DEF KeysInv
  <2>2. /\ At(x, Forgotten) => At(x, Forgotten)'
        /\ At(x, Doomed) => At(x, Doomed)'
    BY AtKept DEF Forgotten, Doomed
  <2> QED BY <2>1, <2>2 DEF KeysAt, Grown
<1> QED BY <1>1 DEF KeysInv

\* Every step of a request preserves it.
LEMMA KeysStep ==
    ASSUME TypeInv, NewInv, KeysInv, NEW c \in Calls, StepOf(c)
    PROVE  KeysInv'
<1> USE SameHistory, IdleIs
<1>1. CASE CreateStarts(c)
  <2>1. /\ Others(c) /\ Grown /\ req[c].at \notin Doomed
        /\ \A x \in Apps : /\ doc'[x] # None => doc[x] # None
                           /\ x \in kms => x \in kms'
                           /\ x \in edv => x \in edv'
    BY <1>1, CreateAnAppIs
    DEF Doomed, CreateStarts, stores
  <2> QED BY <2>1, KeysQuiet
<1>2. CASE InsertKeys(c)
  <2>1. /\ Others(c) /\ Grown /\ req[c].at \notin Doomed
        /\ \A x \in Apps : /\ doc'[x] # None => doc[x] # None
                           /\ x \in kms => x \in kms'
                           /\ x \in edv => x \in edv'
    BY <1>2, InsertKeysIs
    DEF Doomed
  <2> QED BY <2>1, KeysQuiet
<1>3. CASE CreateVault(c)
  <2>1. /\ Others(c) /\ Grown /\ req[c].at \notin Doomed
        /\ \A x \in Apps : /\ doc'[x] # None => doc[x] # None
                           /\ x \in kms => x \in kms'
                           /\ x \in edv => x \in edv'
    BY <1>3, CreateVaultIs
    DEF Doomed
  <2> QED BY <2>1, KeysQuiet
<1>4. CASE CreateDoc(c)
  <2>0. PICK a : a = req[c].app
    OBVIOUS
  <2>1. /\ Others(c) /\ Grown /\ UNCHANGED <<kms, edv>> /\ SameDocs(a)
        /\ a \in kms /\ a \in edv
    BY <1>4, <2>0, CreateDocIs DEF NewInv, Keyed
  <2>2. KeysAt(a)'
    BY <2>1 DEF KeysAt
  <2> QED BY <2>0, <2>1, <2>2, KeysKept DEF SameDocs
<1>5. CASE UpdateStarts(c)
  <2>1. /\ Others(c) /\ Grown /\ req[c].at \notin Doomed
        /\ \A x \in Apps : /\ doc'[x] # None => doc[x] # None
                           /\ x \in kms => x \in kms'
                           /\ x \in edv => x \in edv'
    BY <1>5, UpdateStartsIs
    DEF Doomed, UpdateBegun, stores
  <2> QED BY <2>1, KeysQuiet
<1>6. CASE VerifyDns(c)
  <2>1. /\ Others(c) /\ Grown /\ req[c].at \notin Doomed
        /\ \A x \in Apps : /\ doc'[x] # None => doc[x] # None
                           /\ x \in kms => x \in kms'
                           /\ x \in edv => x \in edv'
    BY <1>6, VerifyDnsIs
    DEF Doomed, stores
  <2> QED BY <2>1, KeysQuiet
<1>7. CASE UpdateDoc(c)
  <2>1. /\ Others(c) /\ Grown /\ req[c].at \notin Doomed
        /\ \A x \in Apps : /\ doc'[x] # None => doc[x] # None
                           /\ x \in kms => x \in kms'
                           /\ x \in edv => x \in edv'
    BY <1>7, UpdateDocIs
    DEF Doomed, SameDocs
  <2> QED BY <2>1, KeysQuiet
<1>8. CASE UpdateDependent(c)
  <2>1. /\ Others(c) /\ Grown /\ req[c].at \notin Doomed
        /\ \A x \in Apps : /\ doc'[x] # None => doc[x] # None
                           /\ x \in kms => x \in kms'
                           /\ x \in edv => x \in edv'
    BY <1>8, UpdateDependentIs
    DEF Doomed, SameDocs
  <2> QED BY <2>1, KeysQuiet
<1>9. CASE GetCopies(c)
  <2>1. /\ Others(c) /\ Grown /\ req[c].at \notin Doomed
        /\ \A x \in Apps : /\ doc'[x] # None => doc[x] # None
                           /\ x \in kms => x \in kms'
                           /\ x \in edv => x \in edv'
    BY <1>9, GetCopiesIs
    DEF Doomed, stores
  <2> QED BY <2>1, KeysQuiet
<1>10. CASE SetCopies(c)
  <2>1. /\ Others(c) /\ Grown /\ req[c].at \notin Doomed
        /\ \A x \in Apps : /\ doc'[x] # None => doc[x] # None
                           /\ x \in kms => x \in kms'
                           /\ x \in edv => x \in edv'
    BY <1>10, SetCopiesIs
    DEF Doomed
  <2> QED BY <2>1, KeysQuiet
<1>11. CASE DeleteStarts(c)
  <2>1. /\ Others(c) /\ Grown /\ req[c].at \notin Doomed
        /\ \A x \in Apps : /\ doc'[x] # None => doc[x] # None
                           /\ x \in kms => x \in kms'
                           /\ x \in edv => x \in edv'
    BY <1>11, DeleteAppIs
    DEF Doomed, DeleteStarts, stores
  <2> QED BY <2>1, KeysQuiet
<1>12. CASE CheckLinks(c)
  <2>1. /\ Others(c) /\ Grown /\ req[c].at \notin Doomed
        /\ \A x \in Apps : /\ doc'[x] # None => doc[x] # None
                           /\ x \in kms => x \in kms'
                           /\ x \in edv => x \in edv'
    BY <1>12, CheckLinksIs
    DEF Doomed, stores, Goes, Ends
  <2> QED BY <2>1, KeysQuiet
<1>13. CASE Decrypt(c)
  <2>1. /\ Others(c) /\ Grown /\ req[c].at \notin Doomed
        /\ \A x \in Apps : /\ doc'[x] # None => doc[x] # None
                           /\ x \in kms => x \in kms'
                           /\ x \in edv => x \in edv'
    BY <1>13, DecryptIs
    DEF Doomed, stores, Goes, Ends
  <2> QED BY <2>1, KeysQuiet
<1>14. CASE RegisterVault(c)
  <2>1. /\ Others(c) /\ Grown /\ req[c].at \notin Doomed
        /\ \A x \in Apps : /\ doc'[x] # None => doc[x] # None
                           /\ x \in kms => x \in kms'
                           /\ x \in edv => x \in edv'
    BY <1>14, RegisterVaultIs
    DEF Doomed, Goes, Ends
  <2> QED BY <2>1, KeysQuiet
<1>15. CASE DeleteVault(c)
  <2>0. PICK a : a = req[c].app
    OBVIOUS
  <2>1. /\ Others(c) /\ Grown /\ UNCHANGED <<doc, kms>> /\ a \in Apps
        /\ edv' = edv \ {a} /\ req[c].at = "unvault"
        /\ \/ req'[c].app = a /\ req'[c].at = "forget"
           \/ a \notin edv
    BY <1>15, <2>0, DeleteVaultIs DEF Goes, Ends, Same
  <2>2. /\ At(a, Forgotten) => At(a, Forgotten)'
        /\ At(a, Doomed) => At(a, Doomed)'
    BY <2>1, AtKept DEF Forgotten, Doomed
  <2>3. req'[c].app = a /\ req'[c].at = "forget" => At(a, Doomed)'
    BY DEF At, Doomed
  <2>4. KeysAt(a)'
    BY <2>1, <2>2, <2>3 DEF KeysInv, KeysAt, Grown
  <2> QED BY <2>0, <2>1, <2>4, KeysKept
<1>16. CASE DeleteKeys(c)
  <2>0. PICK a : a = req[c].app
    OBVIOUS
  <2>1. /\ Others(c) /\ Grown /\ UNCHANGED <<doc, edv>> /\ a \in Apps
        /\ kms' = kms \ {a} /\ req[c].at = "forget"
        /\ \/ req'[c].app = a /\ req'[c].at = "drop"
           \/ a \notin kms
    BY <1>16, <2>0, DeleteKeysIs DEF Goes, Ends, Same
  <2>2. At(a, Forgotten) => At(a, Forgotten)'
    BY <2>1, AtKept DEF Forgotten
  <2>3. req'[c].app = a /\ req'[c].at = "drop" => At(a, Forgotten)'
    BY DEF At, Forgotten
  <2>4. At(a, Forgotten)' => At(a, Doomed)'
    BY DEF At, Forgotten, Doomed
  <2>5. doc[a] # None => a \in h'.cut \/ At(a, Forgotten)'
    BY <2>1, <2>2, <2>3 DEF KeysInv, KeysAt, Grown
  <2>6. KeysAt(a)'
    BY <2>1, <2>4, <2>5 DEF KeysAt
  <2> QED BY <2>0, <2>1, <2>6, KeysKept
<1>17. CASE DropDatabase(c)
  <2>1. /\ Others(c) /\ Grown /\ UNCHANGED <<doc, kms, edv>>
        /\ req'[c].app = req[c].app /\ req'[c].at \in Forgotten
    BY <1>17, DropDatabaseIs DEF Goes, Same, Forgotten
  <2> QED BY <2>1, KeysQuiet DEF Forgotten, Doomed
<1>18. CASE DeletePage(c)
  <2>1. /\ Others(c) /\ Grown /\ UNCHANGED <<doc, kms, edv>>
        /\ req'[c].app = req[c].app /\ req'[c].at \in Forgotten
    BY <1>18, DeletePageIs DEF Goes, Same, Forgotten
  <2> QED BY <2>1, KeysQuiet DEF Forgotten, Doomed
<1>19. CASE DeleteDoc(c)
  <2>0. PICK a : a = req[c].app
    OBVIOUS
  <2>1. /\ Others(c) /\ Grown /\ UNCHANGED <<kms, edv>> /\ SameDocs(a)
        /\ doc'[a] = None
    BY <1>19, <2>0, DeleteDocIs DEF Goes
  <2>2. KeysAt(a)'
    BY <2>1 DEF KeysAt
  <2> QED BY <2>0, <2>1, <2>2, KeysKept DEF SameDocs
<1>20. CASE ClearCopies(c)
  <2>1. /\ Others(c) /\ Grown /\ req[c].at \notin Doomed
        /\ \A x \in Apps : /\ doc'[x] # None => doc[x] # None
                           /\ x \in kms => x \in kms'
                           /\ x \in edv => x \in edv'
    BY <1>20, ClearCopiesIs
    DEF Doomed
  <2> QED BY <2>1, KeysQuiet
<1>21. CASE TokenStarts(c)
  <2>1. /\ Others(c) /\ Grown /\ req[c].at \notin Doomed
        /\ \A x \in Apps : /\ doc'[x] # None => doc[x] # None
                           /\ x \in kms => x \in kms'
                           /\ x \in edv => x \in edv'
    BY <1>21, TokenStartsIs
    DEF Doomed, TokenBegun, stores
  <2> QED BY <2>1, KeysQuiet
<1>22. CASE LookupCopy(c)
  <2>1. /\ Others(c) /\ Grown /\ req[c].at \notin Doomed
        /\ \A x \in Apps : /\ doc'[x] # None => doc[x] # None
                           /\ x \in kms => x \in kms'
                           /\ x \in edv => x \in edv'
    BY <1>22, LookupCopyIs
    DEF Doomed, stores
  <2> QED BY <2>1, KeysQuiet
<1>23. CASE FindApp(c)
  <2>1. /\ Others(c) /\ Grown /\ req[c].at \notin Doomed
        /\ \A x \in Apps : /\ doc'[x] # None => doc[x] # None
                           /\ x \in kms => x \in kms'
                           /\ x \in edv => x \in edv'
    BY <1>23, FindAppIs
    DEF Doomed, stores
  <2> QED BY <2>1, KeysQuiet
<1>24. CASE StoreCopy(c)
  <2>1. /\ Others(c) /\ Grown /\ req[c].at \notin Doomed
        /\ \A x \in Apps : /\ doc'[x] # None => doc[x] # None
                           /\ x \in kms => x \in kms'
                           /\ x \in edv => x \in edv'
    BY <1>24, StoreCopyIs
    DEF Doomed
  <2> QED BY <2>1, KeysQuiet
<1>25. CASE Die(c)
  <2>0. PICK a : a = req[c].app
    OBVIOUS
  <2>1. /\ Others(c) /\ Grown /\ UNCHANGED <<doc, kms, edv>>
        /\ req[c].at \in Doomed => a \in h'.cut
    BY <1>25, <2>0, DieIs DEF stores
  <2>2. CASE req[c].at \in Doomed
    BY <2>0, <2>1, <2>2, KeysKept DEF KeysAt
  <2>3. CASE req[c].at \notin Doomed
    BY <2>1, <2>3, KeysQuiet
  <2> QED BY <2>2, <2>3
<1> QED
  BY <1>1, <1>2, <1>3, <1>4, <1>5, <1>6, <1>7, <1>8, <1>9, <1>10, <1>11,
     <1>12, <1>13, <1>14, <1>15, <1>16, <1>17, <1>18, <1>19, <1>20, <1>21,
     <1>22, <1>23, <1>24, <1>25
  DEF StepOf

\* Every step preserves it.
LEMMA KeysNext ==
    ASSUME TypeInv, NewInv, KeysInv, [Next]_vars
    PROVE  KeysInv'
<1>1. CASE \E c \in Calls : StepOf(c)
  BY <1>1, KeysStep
<1>2. CASE Aside
  BY <1>2 DEF Aside, KeysInv, KeysAt, At, Grown
<1> QED BY <1>1, <1>2, AsideIs

\* A service that can be used has its keys: createAnApp makes the document
\* after the secret and the vault, deleteApp takes it away after them, and
\* between the two nothing takes away either, unless a deletion was cut.
THEOREM DocumentsHaveKeys == Spec => []DocHasKeys
<1>1. Init => KeysInv
  BY DEF Init, KeysInv, KeysAt
<1>2. TypeInv /\ NewInv /\ KeysInv /\ [Next]_vars => KeysInv'
  BY KeysNext
<1>3. ASSUME KeysInv
      PROVE  DocHasKeys
  <2>1. \A a \in Apps : At(a, Forgotten) => At(a, Doomed)
    BY DEF At, Forgotten, Doomed
  <2> QED BY <1>3, <2>1 DEF KeysInv, KeysAt, DocHasKeys
<1> QED BY <1>1, <1>2, <1>3, TypeInvariant, NewInvariant, PTL DEF Spec

-----------------------------------------------------------------------------
(* What is left of a deleted service.                                      *)

\* The awaits of a deletion once the vault is gone, and the secret is.
After == {"drop", "unpage", "delete", "clear"}
Past == After \cup {"forget"}

\* What is gone at each.  Another deletion may have registered the vault.
GoneAt(a) ==
    /\ a \in h.deleted => doc[a] = None
    /\ At(a, {"clear"}) => a \in h.deleted
    /\ a \in h.deleted \/ At(a, After) => a \notin kms
    /\ (a \in h.deleted \/ At(a, Past)) /\ a \notin h.cut
           => a \notin edv \/ At(a, {"unvault"})
    /\ a \in h.deleted \/ At(a, After \ {"drop"})
           => a \notin data \/ a \in h.undropped

GoneInv == \A a \in Apps : GoneAt(a)

\* What a step of c leaves gone of x.
StaysGone(x) == /\ doc[x] = None => doc'[x] = None
                /\ x \in h'.deleted <=> x \in h.deleted
                /\ x \in kms' => x \in kms
                /\ x \in edv' => x \in edv
                /\ x \in data' => x \in data

\* A step of c that does not go on at an await at which more is gone.
LEMMA GoneOne ==
    ASSUME NEW c \in Calls, Others(c), Grown, NEW x, GoneAt(x), StaysGone(x),
           req'[c].app = x => req'[c].at \notin Past,
           req[c].app = x /\ req[c].at = "unvault" =>
               x \notin edv' \/ x \in h'.cut
    PROVE  GoneAt(x)'
<1>1. /\ At(x, {"clear"})' => At(x, {"clear"})
      /\ At(x, After)' => At(x, After)
      /\ At(x, Past)' => At(x, Past)
      /\ At(x, After \ {"drop"})' => At(x, After \ {"drop"})
  BY AtWas DEF Past, After
<1>2. ASSUME At(x, {"unvault"})
      PROVE  x \notin edv' \/ x \in h'.cut \/ At(x, {"unvault"})'
  BY <1>2, AtKept
<1> QED BY <1>1, <1>2 DEF GoneAt, StaysGone, Grown

\* A step of c that is about a.
LEMMA GoneKept ==
    ASSUME GoneInv, NEW c \in Calls, Others(c), Grown,
           NEW a, a \in Apps => GoneAt(a)', a = req[c].app,
           \A x \in Apps \ {a} : StaysGone(x),
           req'[c].app = a \/ req'[c].at \notin Past
    PROVE  GoneInv'
<1>1. ASSUME NEW x \in Apps, x # a
      PROVE  GoneAt(x)'
  BY <1>1, GoneOne DEF GoneInv
<1> QED BY <1>1 DEF GoneInv

\* A step of c after which nothing more is gone.
LEMMA GoneQuiet ==
    ASSUME GoneInv, NEW c \in Calls, Others(c), Grown,
           \A x \in Apps : StaysGone(x),
           req'[c].at \notin Past, req[c].at # "unvault"
    PROVE  GoneInv'
BY GoneOne DEF GoneInv

\* A step of c that makes something of a new service.
LEMMA GoneMade ==
    ASSUME NewInv, GoneInv, NEW c \in Calls, Others(c), Grown,
           NEW a \in Apps, New(a), a = req[c].app, SameDeleted,
           \A x \in Apps \ {a} : StaysGone(x),
           req'[c].at \notin Deleting
    PROVE  GoneInv'
<1>1. a \notin h'.deleted
  BY DEF NewInv, Fresh, SameDeleted
<1>2. ASSUME NEW L, At(a, L)', L \subseteq Deleting
      PROVE  FALSE
  <2>1. At(a, L)
    BY <1>2, AtWas
  <2>2. PICK d \in Calls : req[d].app = a /\ req[d].at \in L
    BY <2>1 DEF At
  <2> QED BY <1>2, <2>2 DEF NewInv, Holds
<1>3. /\ ~At(a, {"clear"})' /\ ~At(a, After)' /\ ~At(a, Past)'
      /\ ~At(a, After \ {"drop"})'
  BY <1>2 DEF After, Past, Deleting
<1>4. GoneAt(a)'
  BY <1>1, <1>3 DEF GoneAt
<1>5. req'[c].at \notin Past
  BY DEF Past, After, Deleting
<1> QED BY <1>4, <1>5, GoneKept

\* Every step of a request preserves it.
LEMMA GoneStep ==
    ASSUME TypeInv, NewInv, GoneInv, NEW c \in Calls, StepOf(c)
    PROVE  GoneInv'
<1> USE SameHistory, IdleIs
<1>1. CASE CreateStarts(c)
  <2>1. /\ Others(c) /\ Grown /\ req[c].at # "unvault"
        /\ \A x \in Apps : StaysGone(x)
        /\ req'[c].at \notin Past
    BY <1>1, CreateAnAppIs
    DEF StaysGone, SameIds, SameDeleted, Past, After, CreateStarts, stores
  <2> QED BY <2>1, GoneQuiet
<1>2. CASE InsertKeys(c)
  <2>0. PICK a : a = req[c].app
    OBVIOUS
  <2>1. /\ Others(c) /\ Grown /\ a \in Apps /\ SameDeleted
        /\ req[c].at \in Creating
        /\ req'[c].at \in {"idle"} \cup Creating
        /\ \A x \in Apps \ {a} : StaysGone(x)
    BY <1>2, <2>0, InsertKeysIs
    DEF StaysGone, SameIds, SameDeleted, Creating, SameDocs
  <2>2. New(a)
    BY <2>0, <2>1 DEF New, At
  <2> QED BY <2>0, <2>1, <2>2, LabelsAre, GoneMade
<1>3. CASE CreateVault(c)
  <2>0. PICK a : a = req[c].app
    OBVIOUS
  <2>1. /\ Others(c) /\ Grown /\ a \in Apps /\ SameDeleted
        /\ req[c].at \in Creating
        /\ req'[c].at \in {"idle"} \cup Creating
        /\ \A x \in Apps \ {a} : StaysGone(x)
    BY <1>3, <2>0, CreateVaultIs
    DEF StaysGone, SameIds, SameDeleted, Creating, SameDocs
  <2>2. New(a)
    BY <2>0, <2>1 DEF New, At
  <2> QED BY <2>0, <2>1, <2>2, LabelsAre, GoneMade
<1>4. CASE CreateDoc(c)
  <2>0. PICK a : a = req[c].app
    OBVIOUS
  <2>1. /\ Others(c) /\ Grown /\ a \in Apps /\ SameDeleted
        /\ req[c].at \in Creating
        /\ req'[c].at \in {"idle"} \cup Creating
        /\ \A x \in Apps \ {a} : StaysGone(x)
    BY <1>4, <2>0, CreateDocIs
    DEF StaysGone, SameIds, SameDeleted, Creating, SameDocs
  <2>2. New(a)
    BY <2>0, <2>1 DEF New, At
  <2> QED BY <2>0, <2>1, <2>2, LabelsAre, GoneMade
<1>5. CASE UpdateStarts(c)
  <2>1. /\ Others(c) /\ Grown /\ req[c].at # "unvault"
        /\ \A x \in Apps : StaysGone(x)
        /\ req'[c].at \notin Past
    BY <1>5, UpdateStartsIs
    DEF StaysGone, SameIds, SameDeleted, Past, After, UpdateBegun, stores
  <2> QED BY <2>1, GoneQuiet
<1>6. CASE VerifyDns(c)
  <2>1. /\ Others(c) /\ Grown /\ req[c].at # "unvault"
        /\ \A x \in Apps : StaysGone(x)
        /\ req'[c].at \notin Past
    BY <1>6, VerifyDnsIs
    DEF StaysGone, SameIds, SameDeleted, Past, After, stores
  <2> QED BY <2>1, GoneQuiet
<1>7. CASE UpdateDoc(c)
  <2>1. /\ Others(c) /\ Grown /\ req[c].at # "unvault"
        /\ \A x \in Apps : StaysGone(x)
        /\ req'[c].at \notin Past
    BY <1>7, UpdateDocIs
    DEF StaysGone, SameIds, SameDeleted, Past, After, SameDocs
  <2> QED BY <2>1, GoneQuiet
<1>8. CASE UpdateDependent(c)
  <2>1. /\ Others(c) /\ Grown /\ req[c].at # "unvault"
        /\ \A x \in Apps : StaysGone(x)
        /\ req'[c].at \notin Past
    BY <1>8, UpdateDependentIs
    DEF StaysGone, SameIds, SameDeleted, Past, After, SameDocs
  <2> QED BY <2>1, GoneQuiet
<1>9. CASE GetCopies(c)
  <2>1. /\ Others(c) /\ Grown /\ req[c].at # "unvault"
        /\ \A x \in Apps : StaysGone(x)
        /\ req'[c].at \notin Past
    BY <1>9, GetCopiesIs
    DEF StaysGone, SameIds, SameDeleted, Past, After, stores
  <2> QED BY <2>1, GoneQuiet
<1>10. CASE SetCopies(c)
  <2>1. /\ Others(c) /\ Grown /\ req[c].at # "unvault"
        /\ \A x \in Apps : StaysGone(x)
        /\ req'[c].at \notin Past
    BY <1>10, SetCopiesIs
    DEF StaysGone, SameIds, SameDeleted, Past, After
  <2> QED BY <2>1, GoneQuiet
<1>11. CASE DeleteStarts(c)
  <2>1. /\ Others(c) /\ Grown /\ req[c].at # "unvault"
        /\ \A x \in Apps : StaysGone(x)
        /\ req'[c].at \notin Past
    BY <1>11, DeleteAppIs
    DEF StaysGone, SameIds, SameDeleted, Past, After, DeleteStarts, stores
  <2> QED BY <2>1, GoneQuiet
<1>12. CASE CheckLinks(c)
  <2>1. /\ Others(c) /\ Grown /\ req[c].at # "unvault"
        /\ \A x \in Apps : StaysGone(x)
        /\ req'[c].at \notin Past
    BY <1>12, CheckLinksIs
    DEF StaysGone, SameIds, SameDeleted, Past, After, stores, Goes, Ends
  <2> QED BY <2>1, GoneQuiet
<1>13. CASE Decrypt(c)
  <2>1. /\ Others(c) /\ Grown /\ req[c].at # "unvault"
        /\ \A x \in Apps : StaysGone(x)
        /\ req'[c].at \notin Past
    BY <1>13, DecryptIs
    DEF StaysGone, SameIds, SameDeleted, Past, After, stores, Goes, Ends
  <2> QED BY <2>1, GoneQuiet
<1>14. CASE RegisterVault(c)
  <2>0. PICK a : a = req[c].app
    OBVIOUS
  <2>1. /\ Others(c) /\ Grown /\ a \in Apps /\ GoneAt(a)
        /\ \A x \in Apps \ {a} : StaysGone(x)
        /\ UNCHANGED <<doc, kms, data, h>>
        /\ req'[c].at = "unvault" /\ req'[c].app = a
    BY <1>14, <2>0, RegisterVaultIs
    DEF GoneInv, StaysGone, SameIds, SameDeleted, Goes, Ends, Same
  <2>2. /\ At(a, {"clear"})' => At(a, {"clear"})
        /\ At(a, After)' => At(a, After)
        /\ At(a, After \ {"drop"})' => At(a, After \ {"drop"})
    BY <2>1, AtWas DEF After
  <2>3. At(a, {"unvault"})'
    BY <2>1 DEF At
  <2>9. GoneAt(a)'
    BY <2>1, <2>2, <2>3 DEF GoneAt
  <2>10. req'[c].app = a \/ req'[c].at \notin Past
    BY <2>1 DEF Past, After
  <2> QED BY <2>0, <2>1, <2>9, <2>10, GoneKept
<1>15. CASE DeleteVault(c)
  <2>0. PICK a : a = req[c].app
    OBVIOUS
  <2>1. /\ Others(c) /\ Grown /\ a \in Apps /\ GoneAt(a)
        /\ \A x \in Apps \ {a} : StaysGone(x)
        /\ UNCHANGED <<doc, kms, data, h>> /\ a \notin edv'
        /\ \/ req'[c].at = "idle"
           \/ req'[c].at = "forget" /\ req'[c].app = a
    BY <1>15, <2>0, DeleteVaultIs
    DEF GoneInv, StaysGone, SameIds, SameDeleted, Goes, Ends, Same
  <2>2. /\ At(a, {"clear"})' => At(a, {"clear"})
        /\ At(a, After)' => At(a, After)
        /\ At(a, After \ {"drop"})' => At(a, After \ {"drop"})
    BY <2>1, AtWas DEF After
  <2>9. GoneAt(a)'
    BY <2>1, <2>2 DEF GoneAt
  <2>10. req'[c].app = a \/ req'[c].at \notin Past
    BY <2>1 DEF Past, After
  <2> QED BY <2>0, <2>1, <2>9, <2>10, GoneKept
<1>16. CASE DeleteKeys(c)
  <2>0. PICK a : a = req[c].app
    OBVIOUS
  <2>1. /\ Others(c) /\ Grown /\ a \in Apps /\ GoneAt(a)
        /\ \A x \in Apps \ {a} : StaysGone(x)
        /\ UNCHANGED <<doc, edv, data, h>> /\ a \notin kms'
        /\ req[c].at = "forget"
        /\ \/ req'[c].at = "idle"
           \/ req'[c].at = "drop" /\ req'[c].app = a
    BY <1>16, <2>0, DeleteKeysIs
    DEF GoneInv, StaysGone, SameIds, SameDeleted, Goes, Ends, Same
  <2>2. /\ At(a, {"clear"})' => At(a, {"clear"})
        /\ At(a, After \ {"drop"})' => At(a, After \ {"drop"})
        /\ At(a, {"unvault"}) => At(a, {"unvault"})'
    BY <2>1, AtWas, AtKept DEF After
  <2>3. At(a, Past)
    BY <2>0, <2>1 DEF At, Past
  <2>9. GoneAt(a)'
    BY <2>1, <2>2, <2>3 DEF GoneAt
  <2>10. req'[c].app = a \/ req'[c].at \notin Past
    BY <2>1 DEF Past, After
  <2> QED BY <2>0, <2>1, <2>9, <2>10, GoneKept
<1>17. CASE DropDatabase(c)
  <2>0. PICK a : a = req[c].app
    OBVIOUS
  <2>1. /\ Others(c) /\ Grown /\ a \in Apps /\ GoneAt(a)
        /\ \A x \in Apps \ {a} : StaysGone(x)
        /\ UNCHANGED <<doc, kms, edv>> /\ SameDeleted
        /\ a \notin data' \/ a \in h'.undropped
        /\ req[c].at = "drop"
        /\ req'[c].at \in {"unpage", "delete"} /\ req'[c].app = a
    BY <1>17, <2>0, DropDatabaseIs
    DEF GoneInv, StaysGone, SameIds, SameDeleted, Goes, Ends, Same
  <2>2. /\ At(a, {"clear"})' => At(a, {"clear"})
        /\ At(a, {"unvault"}) => At(a, {"unvault"})'
    BY <2>1, AtWas, AtKept
  <2>3. At(a, Past) /\ At(a, After)
    BY <2>0, <2>1 DEF At, Past, After
  <2>9. GoneAt(a)'
    BY <2>1, <2>2, <2>3 DEF GoneAt, Grown, SameDeleted
  <2>10. req'[c].app = a \/ req'[c].at \notin Past
    BY <2>1 DEF Past, After
  <2> QED BY <2>0, <2>1, <2>9, <2>10, GoneKept
<1>18. CASE DeletePage(c)
  <2>0. PICK a : a = req[c].app
    OBVIOUS
  <2>1. /\ Others(c) /\ Grown /\ a \in Apps /\ GoneAt(a)
        /\ \A x \in Apps \ {a} : StaysGone(x)
        /\ UNCHANGED <<doc, kms, edv, data, h>>
        /\ req[c].at = "unpage"
        /\ req'[c].at = "delete" /\ req'[c].app = a
    BY <1>18, <2>0, DeletePageIs
    DEF GoneInv, StaysGone, SameIds, SameDeleted, Goes, Ends, Same
  <2>2. /\ At(a, {"clear"})' => At(a, {"clear"})
        /\ At(a, {"unvault"}) => At(a, {"unvault"})'
    BY <2>1, AtWas, AtKept
  <2>3. At(a, Past) /\ At(a, After) /\ At(a, After \ {"drop"})
    BY <2>0, <2>1 DEF At, Past, After
  <2>9. GoneAt(a)'
    BY <2>1, <2>2, <2>3 DEF GoneAt
  <2>10. req'[c].app = a \/ req'[c].at \notin Past
    BY <2>1 DEF Past, After
  <2> QED BY <2>0, <2>1, <2>9, <2>10, GoneKept
<1>19. CASE DeleteDoc(c)
  <2>0. PICK a : a = req[c].app
    OBVIOUS
  <2>1. /\ Others(c) /\ Grown /\ a \in Apps /\ GoneAt(a)
        /\ \A x \in Apps \ {a} : StaysGone(x)
        /\ UNCHANGED <<kms, edv, data>> /\ doc'[a] = None
        /\ h'.deleted = h.deleted \cup {a}
        /\ req[c].at = "delete"
        /\ req'[c].at = "clear" /\ req'[c].app = a
    BY <1>19, <2>0, DeleteDocIs
    DEF GoneInv, StaysGone, SameIds, SameDeleted, Goes, Ends, Same,
        SameDocs
  <2>2. At(a, {"unvault"}) => At(a, {"unvault"})'
    BY <2>1, AtKept
  <2>3. At(a, Past) /\ At(a, After) /\ At(a, After \ {"drop"})
    BY <2>0, <2>1 DEF At, Past, After
  <2>9. GoneAt(a)'
    BY <2>1, <2>2, <2>3 DEF GoneAt, Grown
  <2>10. req'[c].app = a \/ req'[c].at \notin Past
    BY <2>1 DEF Past, After
  <2> QED BY <2>0, <2>1, <2>9, <2>10, GoneKept
<1>20. CASE ClearCopies(c)
  <2>1. /\ Others(c) /\ Grown /\ req[c].at # "unvault"
        /\ \A x \in Apps : StaysGone(x)
        /\ req'[c].at \notin Past
    BY <1>20, ClearCopiesIs
    DEF StaysGone, SameIds, SameDeleted, Past, After, FollowsUp
  <2> QED BY <2>1, GoneQuiet
<1>21. CASE TokenStarts(c)
  <2>1. /\ Others(c) /\ Grown /\ req[c].at # "unvault"
        /\ \A x \in Apps : StaysGone(x)
        /\ req'[c].at \notin Past
    BY <1>21, TokenStartsIs
    DEF StaysGone, SameIds, SameDeleted, Past, After, TokenBegun, stores
  <2> QED BY <2>1, GoneQuiet
<1>22. CASE LookupCopy(c)
  <2>1. /\ Others(c) /\ Grown /\ req[c].at # "unvault"
        /\ \A x \in Apps : StaysGone(x)
        /\ req'[c].at \notin Past
    BY <1>22, LookupCopyIs
    DEF StaysGone, SameIds, SameDeleted, Past, After, stores
  <2> QED BY <2>1, GoneQuiet
<1>23. CASE FindApp(c)
  <2>1. /\ Others(c) /\ Grown /\ req[c].at # "unvault"
        /\ \A x \in Apps : StaysGone(x)
        /\ req'[c].at \notin Past
    BY <1>23, FindAppIs
    DEF StaysGone, SameIds, SameDeleted, Past, After, stores
  <2> QED BY <2>1, GoneQuiet
<1>24. CASE StoreCopy(c)
  <2>1. /\ Others(c) /\ Grown /\ req[c].at # "unvault"
        /\ \A x \in Apps : StaysGone(x)
        /\ req'[c].at \notin Past
    BY <1>24, StoreCopyIs
    DEF StaysGone, SameIds, SameDeleted, Past, After
  <2> QED BY <2>1, GoneQuiet
<1>25. CASE Die(c)
  <2>1. /\ Others(c) /\ Grown /\ SameIds /\ UNCHANGED stores
        /\ req[c].at = "unvault" => req[c].app \in h'.cut
        /\ req'[c].at = "idle"
    BY <1>25, DieIs
  <2>2. ASSUME NEW x \in Apps
        PROVE  GoneAt(x)'
    <3>1. GoneAt(x) /\ StaysGone(x) /\ req'[c].at \notin Past
      BY <2>1
      DEF GoneInv, StaysGone, stores, SameIds, SameDeleted, Past, After
    <3> QED BY <2>1, <3>1, GoneOne
  <2> QED BY <2>2 DEF GoneInv
<1> QED
  BY <1>1, <1>2, <1>3, <1>4, <1>5, <1>6, <1>7, <1>8, <1>9, <1>10, <1>11,
     <1>12, <1>13, <1>14, <1>15, <1>16, <1>17, <1>18, <1>19, <1>20, <1>21,
     <1>22, <1>23, <1>24, <1>25
  DEF StepOf

-----------------------------------------------------------------------------
(* The copies of a deleted service.                                        *)

\* Who will store a copy of what it has read of a document.
Stores(c) == \/ req[c].at = "store"
             \/ req[c].at = "lookup" /\ req[c].slot = "customer"

\* The document is still there, unless the service is crossed.
Backed(c) == Stores(c) => \/ doc[req[c].app] # None
                          \/ req[c].app \in h.crossed

BackedInv == \A c \in Calls : Backed(c)

\* Such a request is at a service that it uses.
LEMMA StoresIs ==
    ASSUME TypeInv, NEW c \in Calls, Stores(c)
    PROVE  /\ req[c].at \in Granting /\ req[c].app \in Apps
           /\ Uses(c, req[c].app)
<1>1. req[c].at \in Granting
  BY DEF Stores, Granting
<1>2. req[c].app \in Apps
  BY <1>1, ReadyReq, LabelsAre DEF TypeInv, RequestsOK, Fit
<1> QED BY <1>1, <1>2 DEF Uses, Touches

\* A step of c that takes no document away.
LEMMA BackedKept ==
    ASSUME TypeInv, BackedInv, NEW c \in Calls, Others(c), Grown,
           \A x \in Apps : doc[x] # None => doc'[x] # None,
           Backed(c)'
    PROVE  BackedInv'
<1>1. ASSUME NEW d \in Calls \ {c}
      PROVE  Backed(d)'
  <2>1. req'[d] = req[d] /\ Backed(d) /\ (Stores(d) => req[d].app \in Apps)
    BY StoresIs DEF Others, BackedInv
  <2>2. Stores(d)' = Stores(d)
    BY <2>1 DEF Stores
  <2> QED BY <2>1, <2>2 DEF Backed, Grown
<1> QED BY <1>1 DEF BackedInv

\* Such a step to an await at which it is not about to store a copy.
LEMMA BackedQuiet ==
    ASSUME TypeInv, BackedInv, NEW c \in Calls, Others(c), Grown,
           \A x \in Apps : doc[x] # None => doc'[x] # None,
           req'[c].at \notin {"store", "lookup"}
    PROVE  BackedInv'
<1>1. Backed(c)'
  BY DEF Backed, Stores
<1> QED BY <1>1, BackedKept

\* Every step of a request preserves it.
LEMMA BackedStep ==
    ASSUME TypeInv, CrossInv, BackedInv, NEW c \in Calls, StepOf(c)
    PROVE  BackedInv'
<1> USE SameHistory, IdleIs
<1>1. CASE CreateStarts(c)
  <2>1. /\ Others(c) /\ Grown
        /\ \A x \in Apps : doc[x] # None => doc'[x] # None
        /\ req'[c].at \notin {"store", "lookup"}
    BY <1>1, CreateAnAppIs
    DEF CreateStarts, stores
  <2> QED BY <2>1, BackedQuiet
<1>2. CASE InsertKeys(c)
  <2>1. /\ Others(c) /\ Grown
        /\ \A x \in Apps : doc[x] # None => doc'[x] # None
        /\ req'[c].at \notin {"store", "lookup"}
    BY <1>2, InsertKeysIs
  <2> QED BY <2>1, BackedQuiet
<1>3. CASE CreateVault(c)
  <2>1. /\ Others(c) /\ Grown
        /\ \A x \in Apps : doc[x] # None => doc'[x] # None
        /\ req'[c].at \notin {"store", "lookup"}
    BY <1>3, CreateVaultIs
  <2> QED BY <2>1, BackedQuiet
<1>4. CASE CreateDoc(c)
  <2>1. /\ Others(c) /\ Grown
        /\ \A x \in Apps : doc[x] # None => doc'[x] # None
        /\ req'[c].at \notin {"store", "lookup"}
    BY <1>4, CreateDocIs
    DEF SameDocs
  <2> QED BY <2>1, BackedQuiet
<1>5. CASE UpdateStarts(c)
  <2>1. /\ Others(c) /\ Grown
        /\ \A x \in Apps : doc[x] # None => doc'[x] # None
        /\ req'[c].at \notin {"store", "lookup"}
    BY <1>5, UpdateStartsIs
    DEF UpdateBegun, stores
  <2> QED BY <2>1, BackedQuiet
<1>6. CASE VerifyDns(c)
  <2>1. /\ Others(c) /\ Grown
        /\ \A x \in Apps : doc[x] # None => doc'[x] # None
        /\ req'[c].at \notin {"store", "lookup"}
    BY <1>6, VerifyDnsIs
    DEF stores
  <2> QED BY <2>1, BackedQuiet
<1>7. CASE UpdateDoc(c)
  <2>1. /\ Others(c) /\ Grown
        /\ \A x \in Apps : doc[x] # None => doc'[x] # None
        /\ req'[c].at \notin {"store", "lookup"}
    BY <1>7, UpdateDocIs
    DEF SameDocs
  <2> QED BY <2>1, BackedQuiet
<1>8. CASE UpdateDependent(c)
  <2>1. /\ Others(c) /\ Grown
        /\ \A x \in Apps : doc[x] # None => doc'[x] # None
        /\ req'[c].at \notin {"store", "lookup"}
    BY <1>8, UpdateDependentIs
    DEF SameDocs
  <2> QED BY <2>1, BackedQuiet
<1>9. CASE GetCopies(c)
  <2>1. /\ Others(c) /\ Grown
        /\ \A x \in Apps : doc[x] # None => doc'[x] # None
        /\ req'[c].at \notin {"store", "lookup"}
    BY <1>9, GetCopiesIs
    DEF stores
  <2> QED BY <2>1, BackedQuiet
<1>10. CASE SetCopies(c)
  <2>1. /\ Others(c) /\ Grown
        /\ \A x \in Apps : doc[x] # None => doc'[x] # None
        /\ req'[c].at \notin {"store", "lookup"}
    BY <1>10, SetCopiesIs
  <2> QED BY <2>1, BackedQuiet
<1>11. CASE DeleteStarts(c)
  <2>1. /\ Others(c) /\ Grown
        /\ \A x \in Apps : doc[x] # None => doc'[x] # None
        /\ req'[c].at \notin {"store", "lookup"}
    BY <1>11, DeleteAppIs
    DEF DeleteStarts, stores
  <2> QED BY <2>1, BackedQuiet
<1>12. CASE CheckLinks(c)
  <2>1. /\ Others(c) /\ Grown
        /\ \A x \in Apps : doc[x] # None => doc'[x] # None
        /\ req'[c].at \notin {"store", "lookup"}
    BY <1>12, CheckLinksIs
    DEF stores, Goes, Ends
  <2> QED BY <2>1, BackedQuiet
<1>13. CASE Decrypt(c)
  <2>1. /\ Others(c) /\ Grown
        /\ \A x \in Apps : doc[x] # None => doc'[x] # None
        /\ req'[c].at \notin {"store", "lookup"}
    BY <1>13, DecryptIs
    DEF stores, Goes, Ends
  <2> QED BY <2>1, BackedQuiet
<1>14. CASE RegisterVault(c)
  <2>1. /\ Others(c) /\ Grown
        /\ \A x \in Apps : doc[x] # None => doc'[x] # None
        /\ req'[c].at \notin {"store", "lookup"}
    BY <1>14, RegisterVaultIs
    DEF Goes, Ends
  <2> QED BY <2>1, BackedQuiet
<1>15. CASE DeleteVault(c)
  <2>1. /\ Others(c) /\ Grown
        /\ \A x \in Apps : doc[x] # None => doc'[x] # None
        /\ req'[c].at \notin {"store", "lookup"}
    BY <1>15, DeleteVaultIs
    DEF Goes, Ends
  <2> QED BY <2>1, BackedQuiet
<1>16. CASE DeleteKeys(c)
  <2>1. /\ Others(c) /\ Grown
        /\ \A x \in Apps : doc[x] # None => doc'[x] # None
        /\ req'[c].at \notin {"store", "lookup"}
    BY <1>16, DeleteKeysIs
    DEF Goes, Ends
  <2> QED BY <2>1, BackedQuiet
<1>17. CASE DropDatabase(c)
  <2>1. /\ Others(c) /\ Grown
        /\ \A x \in Apps : doc[x] # None => doc'[x] # None
        /\ req'[c].at \notin {"store", "lookup"}
    BY <1>17, DropDatabaseIs
    DEF Goes, Ends
  <2> QED BY <2>1, BackedQuiet
<1>18. CASE DeletePage(c)
  <2>1. /\ Others(c) /\ Grown
        /\ \A x \in Apps : doc[x] # None => doc'[x] # None
        /\ req'[c].at \notin {"store", "lookup"}
    BY <1>18, DeletePageIs
    DEF Goes, Ends
  <2> QED BY <2>1, BackedQuiet
<1>19. CASE DeleteDoc(c)
  <2>0. PICK a : a = req[c].app
    OBVIOUS
  <2>1. /\ Others(c) /\ Grown /\ a \in Apps /\ SameDocs(a)
        /\ req[c].at = "delete" /\ req'[c].at = "clear"
    BY <1>19, <2>0, DeleteDocIs DEF Goes
  <2>2. Works(c, a)
    BY <2>0, <2>1, DeletingAre DEF Works
  <2>3. ASSUME NEW d \in Calls
        PROVE  Backed(d)'
    <3>1. CASE d = c
      BY <2>1, <3>1 DEF Backed, Stores
    <3>2. CASE d # c
      <4>1. /\ req'[d] = req[d] /\ Backed(d)
            /\ Stores(d) => req[d].app \in Apps /\ Uses(d, req[d].app)
        BY <2>1, <3>2, StoresIs DEF Others, BackedInv
      <4>2. Stores(d)' = Stores(d)
        BY <4>1 DEF Stores
      <4>3. Stores(d) /\ req[d].app = a => a \in h.crossed
        BY <2>1, <2>2, <3>2, <4>1 DEF CrossInv
      <4> QED BY <2>1, <4>1, <4>2, <4>3 DEF Backed, SameDocs, Grown
    <3> QED BY <3>1, <3>2
  <2> QED BY <2>3 DEF BackedInv
<1>20. CASE ClearCopies(c)
  <2>1. /\ Others(c) /\ Grown
        /\ \A x \in Apps : doc[x] # None => doc'[x] # None
        /\ req'[c].at \notin {"store", "lookup"}
    BY <1>20, ClearCopiesIs
    DEF FollowsUp
  <2> QED BY <2>1, BackedQuiet
<1>21. CASE TokenStarts(c)
  <2>1. /\ Others(c) /\ Grown /\ UNCHANGED doc
        /\ req'[c].at \in {"find", "lookup"}
        /\ req'[c].at = "lookup" => req'[c].slot # "customer"
    BY <1>21, TokenStartsIs DEF TokenBegun, stores
  <2>2. Backed(c)'
    BY <2>1 DEF Backed, Stores
  <2> QED BY <2>1, <2>2, BackedKept
<1>22. CASE LookupCopy(c)
  <2>1. /\ Others(c) /\ Grown /\ UNCHANGED <<doc, h>> /\ req[c].at = "lookup"
        /\ \/ req'[c].at \in {"idle", "find"}
           \/ /\ req'[c].at = "store" /\ req'[c].app = req[c].app
              /\ req[c].slot = "customer"
    BY <1>22, LookupCopyIs DEF stores
  <2>2. Backed(c)'
    BY <2>1 DEF Backed, BackedInv, Stores
  <2> QED BY <2>1, <2>2, BackedKept
<1>23. CASE FindApp(c)
  <2>1. /\ Others(c) /\ Grown /\ UNCHANGED doc
        /\ req'[c].at = "idle" \/ doc[req'[c].app] # None
    BY <1>23, FindAppIs DEF stores
  <2>2. Backed(c)'
    BY <2>1 DEF Backed, Stores
  <2> QED BY <2>1, <2>2, BackedKept
<1>24. CASE StoreCopy(c)
  <2>1. /\ Others(c) /\ Grown
        /\ \A x \in Apps : doc[x] # None => doc'[x] # None
        /\ req'[c].at \notin {"store", "lookup"}
    BY <1>24, StoreCopyIs
  <2> QED BY <2>1, BackedQuiet
<1>25. CASE Die(c)
  <2>1. /\ Others(c) /\ Grown
        /\ \A x \in Apps : doc[x] # None => doc'[x] # None
        /\ req'[c].at \notin {"store", "lookup"}
    BY <1>25, DieIs
    DEF stores
  <2> QED BY <2>1, BackedQuiet
<1> QED
  BY <1>1, <1>2, <1>3, <1>4, <1>5, <1>6, <1>7, <1>8, <1>9, <1>10, <1>11,
     <1>12, <1>13, <1>14, <1>15, <1>16, <1>17, <1>18, <1>19, <1>20, <1>21,
     <1>22, <1>23, <1>24, <1>25
  DEF StepOf

\* Known copies are there until its deletion clears them, and nobody is about
\* to write others.
ClearAt(a) ==
    a \in h.deleted /\ a \notin h.cut /\ a \notin h.crossed =>
        /\ \A s \in KnownSlots : cache[a][s] # None => At(a, {"clear"})
        /\ \A c \in Calls : req[c].at = "set" /\ req[c].app = a
                                => req[c].had = {}

ClearInv == \A a \in Apps : ClearAt(a)

\* A step of c that adds no known copy of x.
LEMMA ClearOne ==
    ASSUME NEW c \in Calls, Others(c), Grown, NEW x, ClearAt(x),
           x \in h'.deleted /\ x \notin h'.cut /\ x \notin h'.crossed =>
               /\ x \in h.deleted
               /\ \A s \in KnownSlots : cache'[x][s] # None
                      => cache[x][s] # None
               /\ req'[c].at = "set" /\ req'[c].app = x
                      => req'[c].had = {}
               /\ req[c].at = "clear" => req[c].app # x
    PROVE  ClearAt(x)'
<1>1. ASSUME At(x, {"clear"}), req[c].at = "clear" => req[c].app # x
      PROVE  At(x, {"clear"})'
  BY <1>1, AtKept
<1>2. \A d \in Calls \ {c} : req'[d] = req[d]
  BY DEF Others
<1>3. SUFFICES ASSUME x \in h'.deleted, x \notin h'.cut, x \notin h'.crossed
               PROVE  ClearAt(x)'
  BY DEF ClearAt
<1>4. x \in h.deleted /\ x \notin h.cut /\ x \notin h.crossed
  BY <1>3 DEF Grown
<1> QED BY <1>1, <1>2, <1>3, <1>4 DEF ClearAt

\* A step of c that adds none, of whatever service.
LEMMA ClearQuiet ==
    ASSUME ClearInv, NEW c \in Calls, Others(c), Grown, SameDeleted,
           UNCHANGED cache, req'[c].at # "set", req[c].at # "clear"
    PROVE  ClearInv'
BY ClearOne DEF ClearInv, SameDeleted

\* Every step of a request preserves it.
LEMMA ClearStep ==
    ASSUME TypeInv, CrossInv, GoneInv, BackedInv, ClearInv,
           NEW c \in Calls, StepOf(c)
    PROVE  ClearInv'
<1> USE SameHistory, IdleIs
<1>1. CASE CreateStarts(c)
  <2>1. /\ Others(c) /\ Grown /\ SameDeleted /\ UNCHANGED cache
        /\ req'[c].at # "set" /\ req[c].at # "clear"
    BY <1>1, CreateAnAppIs
    DEF SameIds, CreateStarts, stores
  <2> QED BY <2>1, ClearQuiet
<1>2. CASE InsertKeys(c)
  <2>1. /\ Others(c) /\ Grown /\ SameDeleted /\ UNCHANGED cache
        /\ req'[c].at # "set" /\ req[c].at # "clear"
    BY <1>2, InsertKeysIs
    DEF SameIds
  <2> QED BY <2>1, ClearQuiet
<1>3. CASE CreateVault(c)
  <2>1. /\ Others(c) /\ Grown /\ SameDeleted /\ UNCHANGED cache
        /\ req'[c].at # "set" /\ req[c].at # "clear"
    BY <1>3, CreateVaultIs
    DEF SameIds
  <2> QED BY <2>1, ClearQuiet
<1>4. CASE CreateDoc(c)
  <2>1. /\ Others(c) /\ Grown /\ SameDeleted /\ UNCHANGED cache
        /\ req'[c].at # "set" /\ req[c].at # "clear"
    BY <1>4, CreateDocIs
    DEF SameIds
  <2> QED BY <2>1, ClearQuiet
<1>5. CASE UpdateStarts(c)
  <2>1. /\ Others(c) /\ Grown /\ SameDeleted /\ UNCHANGED cache
        /\ req'[c].at # "set" /\ req[c].at # "clear"
    BY <1>5, UpdateStartsIs
    DEF SameIds, UpdateBegun, stores
  <2> QED BY <2>1, ClearQuiet
<1>6. CASE VerifyDns(c)
  <2>1. /\ Others(c) /\ Grown /\ SameDeleted /\ UNCHANGED cache
        /\ req'[c].at # "set" /\ req[c].at # "clear"
    BY <1>6, VerifyDnsIs
    DEF SameIds, stores
  <2> QED BY <2>1, ClearQuiet
<1>7. CASE UpdateDoc(c)
  <2>1. /\ Others(c) /\ Grown /\ SameDeleted /\ UNCHANGED cache
        /\ req'[c].at # "set" /\ req[c].at # "clear"
    BY <1>7, UpdateDocIs
    DEF SameIds
  <2> QED BY <2>1, ClearQuiet
<1>8. CASE UpdateDependent(c)
  <2>1. /\ Others(c) /\ Grown /\ SameDeleted /\ UNCHANGED cache
        /\ req'[c].at # "set" /\ req[c].at # "clear"
    BY <1>8, UpdateDependentIs
    DEF SameIds
  <2> QED BY <2>1, ClearQuiet
<1>9. CASE GetCopies(c)
  <2>0. PICK a : a = req[c].app
    OBVIOUS
  <2>1. /\ Others(c) /\ Grown /\ SameDeleted /\ UNCHANGED cache /\ a \in Apps
        /\ req[c].at = "get" /\ req'[c].app = a
        /\ req'[c].had = {s \in KnownSlots : cache[a][s] # None}
    BY <1>9, <2>0, GetCopiesIs DEF stores, SameIds
  <2>2. Uses(c, a)
    BY <2>0, <2>1 DEF Uses, Touches, Updating
  <2>3. ASSUME a \notin h.crossed
        PROVE  ~At(a, {"clear"})
    <3>1. ASSUME NEW d \in Calls, req[d].app = a, req[d].at = "clear"
          PROVE  FALSE
      <4>1. Works(d, a)
        BY <3>1, DeletingAre DEF Works
      <4> QED BY <2>1, <2>2, <2>3, <3>1, <4>1 DEF CrossInv
    <3> QED BY <3>1 DEF At
  <2>4. a \in h'.deleted /\ a \notin h'.cut /\ a \notin h'.crossed
            => req'[c].had = {}
    BY <2>1, <2>3 DEF ClearInv, ClearAt, SameDeleted, Grown
  <2>5. ASSUME NEW x \in Apps
        PROVE  ClearAt(x)'
    <3>1. ClearAt(x)
      BY DEF ClearInv
    <3> QED BY <2>1, <2>4, <3>1, ClearOne DEF SameDeleted
  <2> QED BY <2>5 DEF ClearInv
<1>10. CASE SetCopies(c)
  <2>0. PICK a, S : a = req[c].app /\ S = req[c].had
    OBVIOUS
  <2>1. /\ Others(c) /\ UNCHANGED h /\ a \in Apps /\ S \subseteq Slots
        /\ SameCopies(a, S)
        /\ req[c].at = "set" /\ req'[c].at \in {"idle", "get"}
    BY <1>10, <2>0, SetCopiesIs DEF Written
  <2>2. a \in h.deleted /\ a \notin h.cut /\ a \notin h.crossed => S = {}
    BY <2>0, <2>1 DEF ClearInv, ClearAt
  <2>3. ASSUME NEW x \in Apps,
               x \in h.deleted /\ x \notin h.cut /\ x \notin h.crossed,
               NEW s \in KnownSlots, cache'[x][s] # None
        PROVE  cache[x][s] # None
    BY <2>1, <2>2, <2>3 DEF SameCopies, KnownSlots
  <2>4. ASSUME NEW x \in Apps
        PROVE  ClearAt(x)'
    <3>1. ClearAt(x)
      BY DEF ClearInv
    <3> QED BY <2>1, <2>3, <3>1, ClearOne
  <2> QED BY <2>4 DEF ClearInv
<1>11. CASE DeleteStarts(c)
  <2>1. /\ Others(c) /\ Grown /\ SameDeleted /\ UNCHANGED cache
        /\ req'[c].at # "set" /\ req[c].at # "clear"
    BY <1>11, DeleteAppIs
    DEF SameIds, DeleteStarts, stores
  <2> QED BY <2>1, ClearQuiet
<1>12. CASE CheckLinks(c)
  <2>1. /\ Others(c) /\ Grown /\ SameDeleted /\ UNCHANGED cache
        /\ req'[c].at # "set" /\ req[c].at # "clear"
    BY <1>12, CheckLinksIs
    DEF SameIds, stores, Goes, Ends
  <2> QED BY <2>1, ClearQuiet
<1>13. CASE Decrypt(c)
  <2>1. /\ Others(c) /\ Grown /\ SameDeleted /\ UNCHANGED cache
        /\ req'[c].at # "set" /\ req[c].at # "clear"
    BY <1>13, DecryptIs
    DEF SameIds, stores, Goes, Ends
  <2> QED BY <2>1, ClearQuiet
<1>14. CASE RegisterVault(c)
  <2>1. /\ Others(c) /\ Grown /\ SameDeleted /\ UNCHANGED cache
        /\ req'[c].at # "set" /\ req[c].at # "clear"
    BY <1>14, RegisterVaultIs
    DEF SameIds, Goes, Ends
  <2> QED BY <2>1, ClearQuiet
<1>15. CASE DeleteVault(c)
  <2>1. /\ Others(c) /\ Grown /\ SameDeleted /\ UNCHANGED cache
        /\ req'[c].at # "set" /\ req[c].at # "clear"
    BY <1>15, DeleteVaultIs
    DEF SameIds, Goes, Ends
  <2> QED BY <2>1, ClearQuiet
<1>16. CASE DeleteKeys(c)
  <2>1. /\ Others(c) /\ Grown /\ SameDeleted /\ UNCHANGED cache
        /\ req'[c].at # "set" /\ req[c].at # "clear"
    BY <1>16, DeleteKeysIs
    DEF SameIds, Goes, Ends
  <2> QED BY <2>1, ClearQuiet
<1>17. CASE DropDatabase(c)
  <2>1. /\ Others(c) /\ Grown /\ SameDeleted /\ UNCHANGED cache
        /\ req'[c].at # "set" /\ req[c].at # "clear"
    BY <1>17, DropDatabaseIs
    DEF SameIds, Goes, Ends
  <2> QED BY <2>1, ClearQuiet
<1>18. CASE DeletePage(c)
  <2>1. /\ Others(c) /\ Grown /\ SameDeleted /\ UNCHANGED cache
        /\ req'[c].at # "set" /\ req[c].at # "clear"
    BY <1>18, DeletePageIs
    DEF SameIds, Goes, Ends
  <2> QED BY <2>1, ClearQuiet
<1>19. CASE DeleteDoc(c)
  <2>0. PICK a : a = req[c].app
    OBVIOUS
  <2>1. /\ Others(c) /\ Grown /\ a \in Apps /\ UNCHANGED cache
        /\ h'.deleted = h.deleted \cup {a}
        /\ req[c].at = "delete" /\ req'[c].at = "clear" /\ req'[c].app = a
    BY <1>19, <2>0, DeleteDocIs DEF Goes, Same
  <2>2. Works(c, a)
    BY <2>0, <2>1, DeletingAre DEF Works
  <2>3. ASSUME NEW d \in Calls, req'[d].at = "set", req'[d].app = a
        PROVE  a \in h'.crossed
    <3>1. Uses(d, a) /\ d # c
      BY <2>1, <2>3 DEF Others, Uses, Touches, Updating
    <3> QED BY <2>1, <2>2, <3>1 DEF CrossInv, Grown
  <2>4. At(a, {"clear"})'
    BY <2>1 DEF At
  <2>5. ClearAt(a)'
    BY <2>3, <2>4 DEF ClearAt
  <2>6. ASSUME NEW x \in Apps \ {a}
        PROVE  ClearAt(x)'
    <3>1. ClearAt(x)
      BY DEF ClearInv
    <3> QED BY <2>1, <3>1, ClearOne
  <2> QED BY <2>5, <2>6 DEF ClearInv
<1>20. CASE ClearCopies(c)
  <2>0. PICK a : a = req[c].app
    OBVIOUS
  <2>1. /\ Others(c) /\ Grown /\ SameDeleted /\ a \in Apps
        /\ \A x \in Apps \ {a} : cache'[x] = cache[x]
        /\ \A s \in KnownSlots : cache'[a][s] = None
        /\ req[c].at = "clear" /\ req'[c].at \in {"idle", "check"}
    BY <1>20, <2>0, ClearCopiesIs
    DEF ClearedOf, SameCopies, SameIds, FollowsUp
  <2>2. ClearAt(a)'
    <3>1. ClearAt(a)
      BY <2>1 DEF ClearInv
    <3> QED BY <2>1, <3>1 DEF ClearAt, Others, SameDeleted, Grown
  <2>3. ASSUME NEW x \in Apps \ {a}
        PROVE  ClearAt(x)'
    <3>1. ClearAt(x)
      BY DEF ClearInv
    <3> QED BY <2>0, <2>1, <3>1, ClearOne DEF SameDeleted
  <2> QED BY <2>2, <2>3 DEF ClearInv
<1>21. CASE TokenStarts(c)
  <2>1. /\ Others(c) /\ Grown /\ SameDeleted /\ UNCHANGED cache
        /\ req'[c].at # "set" /\ req[c].at # "clear"
    BY <1>21, TokenStartsIs
    DEF SameIds, TokenBegun, stores
  <2> QED BY <2>1, ClearQuiet
<1>22. CASE LookupCopy(c)
  <2>1. /\ Others(c) /\ Grown /\ SameDeleted /\ UNCHANGED cache
        /\ req'[c].at # "set" /\ req[c].at # "clear"
    BY <1>22, LookupCopyIs
    DEF SameIds, stores
  <2> QED BY <2>1, ClearQuiet
<1>23. CASE FindApp(c)
  <2>1. /\ Others(c) /\ Grown /\ SameDeleted /\ UNCHANGED cache
        /\ req'[c].at # "set" /\ req[c].at # "clear"
    BY <1>23, FindAppIs
    DEF SameIds, stores
  <2> QED BY <2>1, ClearQuiet
<1>24. CASE StoreCopy(c)
  <2>0. PICK a : a = req[c].app
    OBVIOUS
  <2>1. /\ Others(c) /\ UNCHANGED h /\ a \in Apps
        /\ \A x \in Apps \ {a} : cache'[x] = cache[x]
        /\ req[c].at = "store" /\ req'[c].at = "idle"
    BY <1>24, <2>0, StoreCopyIs DEF SameCopies
  <2>2. a \notin h.deleted \/ a \in h.crossed
    <3>1. doc[a] # None \/ a \in h.crossed
      BY <2>0, <2>1 DEF BackedInv, Backed, Stores
    <3> QED BY <2>1, <3>1 DEF GoneInv, GoneAt
  <2>3. ASSUME NEW x \in Apps
        PROVE  ClearAt(x)'
    <3>1. ClearAt(x)
      BY DEF ClearInv
    <3> QED BY <2>1, <2>2, <3>1, ClearOne
  <2> QED BY <2>3 DEF ClearInv
<1>25. CASE Die(c)
  <2>0. PICK a : a = req[c].app
    OBVIOUS
  <2>1. /\ Others(c) /\ Grown /\ SameDeleted /\ UNCHANGED cache
        /\ req'[c].at = "idle"
        /\ req[c].at = "clear" => a \in h'.cut
    BY <1>25, <2>0, DieIs DEF stores, SameIds
  <2>2. ASSUME NEW x \in Apps
        PROVE  ClearAt(x)'
    <3>1. ClearAt(x)
      BY DEF ClearInv
    <3> QED BY <2>0, <2>1, <3>1, ClearOne DEF SameDeleted
  <2> QED BY <2>2 DEF ClearInv
<1> QED
  BY <1>1, <1>2, <1>3, <1>4, <1>5, <1>6, <1>7, <1>8, <1>9, <1>10, <1>11,
     <1>12, <1>13, <1>14, <1>15, <1>16, <1>17, <1>18, <1>19, <1>20, <1>21,
     <1>22, <1>23, <1>24, <1>25
  DEF StepOf

\* What is left of deleted services, and who is about to write of them.
DeletedInv == GoneInv /\ BackedInv /\ ClearInv

\* Every step preserves it.
LEMMA DeletedNext ==
    ASSUME TypeInv, CrossInv, NewInv, DeletedInv, [Next]_vars
    PROVE  DeletedInv'
<1>1. GoneInv /\ BackedInv /\ ClearInv
  BY DEF DeletedInv
<1>2. CASE \E c \in Calls : StepOf(c)
  BY <1>1, <1>2, GoneStep, BackedStep, ClearStep DEF DeletedInv
<1>3. CASE Aside
  <2>1. \A a, L : At(a, L)' = At(a, L)
    BY <1>3 DEF Aside, At
  <2>2. GoneInv'
    BY <1>1, <1>3, <2>1
    DEF Aside, GoneInv, GoneAt, Grown, SameIds, SameDeleted
  <2>3. BackedInv'
    BY <1>1, <1>3 DEF Aside, BackedInv, Backed, Stores, Grown
  <2>4. ASSUME NEW a \in Apps
        PROVE  ClearAt(a)'
    <3>1. ClearAt(a)
      BY <1>1 DEF ClearInv
    <3> QED BY <1>3, <2>1, <3>1
            DEF Aside, ClearAt, Grown, SameIds, SameDeleted, KnownSlots
  <2> QED BY <2>2, <2>3, <2>4 DEF ClearInv, DeletedInv
<1> QED BY <1>2, <1>3, AsideIs

\* When the deletions of a service have ended, nothing is left of it:
\* deleteApp deletes vault, secret, database, document and copies one after
\* the other, and no other request brings one of them back, unless a deletion
\* was cut, or a request that writes a copy overlapped it.
THEOREM DeletedIsGone == Spec => []GoneIsGone
<1>1. Init => DeletedInv
  <2> SUFFICES ASSUME Init
               PROVE  DeletedInv
    OBVIOUS
  <2>1. /\ \A c \in Calls : req[c].at = "idle"
        /\ \A a \in Apps : doc[a] = None
        /\ h.deleted = {}
    BY IdleIs DEF Init
  <2>2. \A a \in Apps : /\ ~At(a, {"clear"}) /\ ~At(a, After)
                        /\ ~At(a, Past) /\ ~At(a, After \ {"drop"})
    BY <2>1 DEF At, After, Past
  <2>3. GoneInv
    BY <2>1, <2>2 DEF GoneInv, GoneAt
  <2>4. BackedInv /\ ClearInv
    BY <2>1 DEF BackedInv, Backed, Stores, ClearInv, ClearAt
  <2> QED BY <2>3, <2>4 DEF DeletedInv
<1>2. TypeInv /\ CrossInv /\ (UsedInv /\ NewInv) /\ DeletedInv
          /\ [Next]_vars => DeletedInv'
  BY DeletedNext
<1>3. ASSUME TypeInv, DeletedInv
      PROVE  GoneIsGone
  <2> SUFFICES ASSUME NEW a \in h.deleted, a \notin h.cut, ~At(a, Deleting)
               PROVE  /\ doc[a] = None /\ a \notin kms \cup edv
                      /\ a \in data => a \in h.undropped
                      /\ a \notin h.crossed =>
                             \A slot \in KnownSlots : cache[a][slot] = None
    BY DEF GoneIsGone
  <2>1. a \in Apps
    BY <1>3 DEF TypeInv, HistoryOK, History
  <2>2. GoneAt(a) /\ ClearAt(a)
    BY <1>3, <2>1 DEF DeletedInv, GoneInv, ClearInv
  <2>3. ~At(a, {"unvault"}) /\ ~At(a, {"clear"})
    BY DeletingAre DEF At
  <2> QED BY <2>2, <2>3 DEF GoneAt, ClearAt
<1> QED BY <1>1, <1>2, <1>3, TypeInvariant, CrossInvariant, NewInvariant, PTL
        DEF Spec

-----------------------------------------------------------------------------
(* NoDangling.                                                             *)

\* A service that is there, and nobody deletes.
Stands(n) == doc[n] # None /\ ~At(n, Deleting)

\* What is being made depends on what stands.
MakerAt(c) ==
    req[c].at \in Creating /\ req[c].dep \notin {None} \cup h.linking
        => Stands(req[c].dep)

\* A deletion that has looked for services that depend on a found none.
Leaves(a) == At(a, Deleting \ {"check"})
LeftAt(a) == a \notin h.linking /\ Leaves(a) => Unlinked(a)

DangleInv == /\ NoDangling
             /\ \A c \in Calls : MakerAt(c)
             /\ \A a \in Apps : LeftAt(a)

\* What x depends on after a step it depended on before, or it stands.
Rests(x) ==
    doc'[x] # None =>
        \/ doc'[x].dep \in {None} \cup h'.linking
        \/ doc[x] # None /\ doc'[x].dep = doc[x].dep
        \/ Stands(doc'[x].dep)

\* A step of c that takes away only what nobody depends on, and lets depend
\* only on what stands.
LEMMA DangleKept ==
    ASSUME TypeInv, TypeInv', DangleInv, NEW c \in Calls, Others(c), Grown,
           \A x \in Apps : Rests(x) /\ (doc[x] # None => \/ doc'[x] # None
                                                         \/ Leaves(x)),
           req'[c].at \in Creating =>
               \/ req'[c].dep \in {None} \cup h'.linking
               \/ Stands(req'[c].dep),
           req'[c].at \in Deleting =>
               \/ req[c].app = req'[c].app /\ req[c].at \in Deleting
               \/ LinkedBy(req'[c].app),
           req'[c].at \in Deleting \ {"check"} =>
               /\ req[c].app = req'[c].app /\ req[c].at \in Deleting
               /\ req[c].at # "check" \/ Unlinked(req[c].app)
    PROVE  DangleInv'
<1>1. \A x : Leaves(x) => At(x, Deleting)
  BY DEF Leaves, At
<1>2. ASSUME NEW n \in Apps, Stands(n)
      PROVE  doc'[n] # None
  BY <1>1, <1>2 DEF Stands
<1>3. ASSUME NEW k \in KycApps, doc'[k] # None,
             doc'[k].dep \notin {None} \cup h'.linking
      PROVE  doc'[doc'[k].dep] # None
  <2>1. k \in Apps /\ Rests(k)
    BY AppsAre
  <2>2. PICK n : n = doc'[k].dep
    OBVIOUS
  <2>3. n \in Apps /\ n \notin h'.linking /\ n # None
    BY <1>3, <2>1, <2>2, AppsAre DEF TypeInv, StoreOK, DocsOK, Doc
  <2>4. CASE Stands(n)
    BY <1>2, <2>2, <2>3, <2>4
  <2>5. CASE doc[k] # None /\ n = doc[k].dep
    <3>1. doc[n] # None
      BY <2>3, <2>5 DEF DangleInv, NoDangling, Grown
    <3>2. ~Leaves(n)
      BY <2>3, <2>5 DEF DangleInv, LeftAt, Unlinked, Grown
    <3> QED BY <2>2, <2>3, <3>1, <3>2
  <2> QED BY <1>3, <2>1, <2>2, <2>3, <2>4, <2>5 DEF Rests
<1>4. NoDangling'
  BY <1>3 DEF NoDangling
<1>5. ASSUME NEW d \in Calls, req'[d].at \in Creating,
             req'[d].dep \notin {None} \cup h'.linking
      PROVE  Stands(req[d].dep)'
  <2>1. PICK n : n = req'[d].dep
    OBVIOUS
  <2>2. n \in Apps /\ n \notin h'.linking /\ n # None
    BY <1>5, <2>1, AppsAre, ReadyReq DEF TypeInv, RequestsOK, Ready, Req
  <2>3. Stands(n)
    <3>1. CASE d = c
      BY <1>5, <2>1, <2>2, <3>1
    <3>2. CASE d # c
      BY <1>5, <2>1, <2>2, <3>2 DEF Others, DangleInv, MakerAt, Grown
    <3> QED BY <3>1, <3>2
  <2>4. doc'[n] # None
    BY <1>2, <2>2, <2>3
  <2>5. ~At(n, Deleting)'
    <3> SUFFICES ASSUME At(n, Deleting)'
                 PROVE  FALSE
      OBVIOUS
    <3>1. ~At(n, Deleting)
      BY <2>3 DEF Stands
    <3>2. req'[c].app = n /\ req'[c].at \in Deleting
      BY <3>1, AtWas
    <3>3. LinkedBy(n)
      BY <3>1, <3>2 DEF At
    <3>4. d # c
      BY <1>5, <3>2, LabelsAre
    <3>5. req[d].at \in Creating /\ req[d].dep = n
      BY <1>5, <2>1, <3>4 DEF Others
    <3> QED BY <2>2, <3>3, <3>5 DEF LinkedBy
  <2> QED BY <2>1, <2>4, <2>5 DEF Stands, At
<1>6. \A d \in Calls : MakerAt(d)'
  BY <1>5 DEF MakerAt
<1>7. ASSUME NEW a \in Apps, a \notin h'.linking, Leaves(a)'
      PROVE  Unlinked(a)'
  <2>1. Leaves(a) \/ (req'[c].app = a /\ req'[c].at \in Deleting \ {"check"})
    BY <1>7, AtWas DEF Leaves
  <2>2. At(a, Deleting) /\ Unlinked(a)
    <3>1. CASE Leaves(a)
      BY <1>1, <1>7, <3>1 DEF DangleInv, LeftAt, Grown
    <3>2. CASE ~Leaves(a) /\ req'[c].app = a
               /\ req'[c].at \in Deleting \ {"check"}
      <4>1. /\ req[c].app = a /\ req[c].at \in Deleting
            /\ req[c].at # "check" \/ Unlinked(a)
        BY <3>2
      <4>2. req[c].at = "check"
        BY <3>2, <4>1 DEF Leaves, At
      <4> QED BY <4>1, <4>2 DEF At
    <3> QED BY <2>1, <3>1, <3>2
  <2>3. ASSUME NEW k \in KycApps, doc'[k] # None, doc'[k].dep = a
        PROVE  FALSE
    <3>1. k \in Apps /\ Rests(k) /\ a # None
      BY AppsAre
    <3>2. ~Stands(a)
      BY <2>2 DEF Stands
    <3> QED BY <1>7, <2>2, <2>3, <3>1, <3>2 DEF Rests, Unlinked
  <2> QED BY <2>3 DEF Unlinked
<1>8. \A a \in Apps : LeftAt(a)'
  BY <1>7 DEF LeftAt
<1> QED BY <1>4, <1>6, <1>8 DEF DangleInv

\* A step of c that leaves the documents alone, and the deletion it works at,
\* if it does, behind or before the same check.
LEMMA DangleQuiet ==
    ASSUME TypeInv, TypeInv', DangleInv, NEW c \in Calls, Others(c), Grown,
           UNCHANGED doc,
           req'[c].at \in Creating =>
               req[c].at \in Creating /\ req'[c].dep = req[c].dep,
           req'[c].at \in Deleting =>
               /\ req[c].app = req'[c].app
               /\ req[c].at \in Deleting \ {"check"}
    PROVE  DangleInv'
<1>1. \A x \in Apps : Rests(x)
  BY DEF Rests
<1>2. req'[c].at \in Creating =>
          \/ req'[c].dep \in {None} \cup h'.linking
          \/ Stands(req'[c].dep)
  BY DEF DangleInv, MakerAt, Grown
<1> QED BY <1>1, <1>2, DangleKept

\* Every step of a request preserves it.
LEMMA DangleStep ==
    ASSUME TypeInv, TypeInv', DangleInv, NEW c \in Calls, StepOf(c)
    PROVE  DangleInv'
<1> USE SameHistory, IdleIs, LabelsAre
<1>1. CASE CreateStarts(c)
  <2>1. PICK a \in Apps, dep \in SsiApps \cup {None} :
            /\ Others(c) /\ Grown /\ UNCHANGED doc
            /\ req'[c].at = "keys" /\ req'[c].dep = dep
            /\ Leaving(dep) => dep \in h'.linking
    BY <1>1, CreateAnAppIs DEF CreateStarts, stores
  <2>2. dep \in {None} \cup h'.linking \/ Stands(dep)
    BY <2>1 DEF Leaving, Stands
  <2>3. \A x \in Apps : Rests(x)
    BY <2>1 DEF Rests
  <2> QED BY <2>1, <2>2, <2>3, DangleKept DEF Deleting
<1>2. CASE InsertKeys(c)
  <2>1. /\ Others(c) /\ Grown /\ UNCHANGED doc
        /\ req[c].at \in Creating /\ req'[c].at \in Creating
        /\ req'[c].dep = req[c].dep
    BY <1>2, InsertKeysIs
    DEF Creating, Same
  <2> QED BY <2>1, DangleQuiet
<1>3. CASE CreateVault(c)
  <2>1. /\ Others(c) /\ Grown /\ UNCHANGED doc
        /\ req[c].at \in Creating /\ req'[c].at \in Creating
        /\ req'[c].dep = req[c].dep
    BY <1>3, CreateVaultIs
    DEF Creating, Same
  <2> QED BY <2>1, DangleQuiet
<1>4. CASE CreateDoc(c)
  <2>0. PICK a : a = req[c].app
    OBVIOUS
  <2>1. /\ Others(c) /\ UNCHANGED h /\ Grown /\ SameDocs(a) /\ a \in Apps
        /\ req[c].at \in Creating /\ req'[c].at = "idle"
        /\ doc'[a] # None /\ doc'[a].dep = req[c].dep
    BY <1>4, <2>0, CreateDocIs DEF Creating
  <2>2. Rests(a)
    BY <2>1 DEF Rests, DangleInv, MakerAt
  <2>3. \A x \in Apps \ {a} : Rests(x)
    BY <2>1 DEF Rests, SameDocs
  <2> QED BY <2>1, <2>2, <2>3, DangleKept DEF SameDocs
<1>5. CASE UpdateStarts(c)
  <2>1. /\ Others(c) /\ Grown /\ UNCHANGED doc
        /\ req'[c].at \notin Creating \cup Deleting
    BY <1>5, UpdateStartsIs
    DEF UpdateBegun, stores, Creating, Deleting
  <2> QED BY <2>1, DangleQuiet
<1>6. CASE VerifyDns(c)
  <2>1. /\ Others(c) /\ Grown /\ UNCHANGED doc
        /\ req'[c].at \notin Creating \cup Deleting
    BY <1>6, VerifyDnsIs
    DEF stores, Creating, Deleting
  <2> QED BY <2>1, DangleQuiet
<1>7. CASE UpdateDoc(c)
  <2>0. PICK a : a = req[c].app
    OBVIOUS
  <2>1. /\ Others(c) /\ Grown /\ SameDocs(a) /\ a \in Apps
        /\ req'[c].at \in {"idle", "dependent", "get"}
        /\ \/ UNCHANGED doc
           \/ /\ doc[a] # None /\ doc'[a] # None
              /\ doc'[a].dep # doc[a].dep /\ Leaving(doc'[a].dep)
                     => doc'[a].dep \in h'.linking
    BY <1>7, <2>0, UpdateDocIs
  <2>2. Rests(a)
    BY <2>1 DEF Rests, Leaving, Stands
  <2>3. \A x \in Apps \ {a} : Rests(x)
    BY <2>1 DEF Rests, SameDocs
  <2> QED BY <2>1, <2>2, <2>3, DangleKept DEF SameDocs, Creating, Deleting
<1>8. CASE UpdateDependent(c)
  <2>0. PICK a : a = req[c].dep
    OBVIOUS
  <2>1. /\ Others(c) /\ Grown /\ SameDocs(a) /\ a \in Apps
        /\ req'[c].at = "get"
        /\ \/ doc[a] = None /\ doc'[a] = None
           \/ doc[a] # None /\ doc'[a] # None /\ doc'[a].dep = doc[a].dep
    BY <1>8, <2>0, UpdateDependentIs
  <2>2. \A x \in Apps : Rests(x)
    BY <2>1 DEF Rests, SameDocs
  <2> QED BY <2>1, <2>2, DangleKept DEF SameDocs, Creating, Deleting
<1>9. CASE GetCopies(c)
  <2>1. /\ Others(c) /\ Grown /\ UNCHANGED doc
        /\ req'[c].at \notin Creating \cup Deleting
    BY <1>9, GetCopiesIs
    DEF stores, Creating, Deleting
  <2> QED BY <2>1, DangleQuiet
<1>10. CASE SetCopies(c)
  <2>1. /\ Others(c) /\ Grown /\ UNCHANGED doc
        /\ req'[c].at \notin Creating \cup Deleting
    BY <1>10, SetCopiesIs
    DEF Creating, Deleting
  <2> QED BY <2>1, DangleQuiet
<1>11. CASE DeleteStarts(c)
  <2>1. PICK a \in Apps :
            /\ Others(c) /\ Grown /\ UNCHANGED doc
            /\ req'[c].at = "check" /\ req'[c].app = a /\ LinkedBy(a)
    BY <1>11, DeleteAppIs DEF DeleteStarts, stores
  <2>2. \A x \in Apps : Rests(x)
    BY <2>1 DEF Rests
  <2> QED BY <2>1, <2>2, DeletingAre, DangleKept
<1>12. CASE CheckLinks(c)
  <2>1. /\ Others(c) /\ Grown /\ UNCHANGED doc
        /\ \/ req'[c].at = "idle"
           \/ /\ req[c].at \in Deleting /\ Unlinked(req[c].app)
              /\ req'[c].at \in Deleting /\ req[c].app = req'[c].app
    BY <1>12, CheckLinksIs, DeletingAre DEF Goes, Ends, Same, stores
  <2>2. \A x \in Apps : Rests(x)
    BY <2>1 DEF Rests
  <2> QED BY <2>1, <2>2, DangleKept
<1>13. CASE Decrypt(c)
  <2>1. /\ Others(c) /\ Grown /\ UNCHANGED doc
        /\ \/ req'[c].at = "idle"
           \/ /\ req[c].at \in Deleting \ {"check"}
              /\ req'[c].at \in Deleting /\ req[c].app = req'[c].app
    BY <1>13, DecryptIs, DeletingAre DEF Goes, Ends, Same, stores
  <2> QED BY <2>1, DangleQuiet
<1>14. CASE RegisterVault(c)
  <2>1. /\ Others(c) /\ Grown /\ UNCHANGED doc
        /\ \/ req'[c].at = "idle"
           \/ /\ req[c].at \in Deleting \ {"check"}
              /\ req'[c].at \in Deleting /\ req[c].app = req'[c].app
    BY <1>14, RegisterVaultIs, DeletingAre DEF Goes, Ends, Same
  <2> QED BY <2>1, DangleQuiet
<1>15. CASE DeleteVault(c)
  <2>1. /\ Others(c) /\ Grown /\ UNCHANGED doc
        /\ \/ req'[c].at = "idle"
           \/ /\ req[c].at \in Deleting \ {"check"}
              /\ req'[c].at \in Deleting /\ req[c].app = req'[c].app
    BY <1>15, DeleteVaultIs, DeletingAre DEF Goes, Ends, Same
  <2> QED BY <2>1, DangleQuiet
<1>16. CASE DeleteKeys(c)
  <2>1. /\ Others(c) /\ Grown /\ UNCHANGED doc
        /\ \/ req'[c].at = "idle"
           \/ /\ req[c].at \in Deleting \ {"check"}
              /\ req'[c].at \in Deleting /\ req[c].app = req'[c].app
    BY <1>16, DeleteKeysIs, DeletingAre DEF Goes, Ends, Same
  <2> QED BY <2>1, DangleQuiet
<1>17. CASE DropDatabase(c)
  <2>1. /\ Others(c) /\ Grown /\ UNCHANGED doc
        /\ \/ req'[c].at = "idle"
           \/ /\ req[c].at \in Deleting \ {"check"}
              /\ req'[c].at \in Deleting /\ req[c].app = req'[c].app
    BY <1>17, DropDatabaseIs, DeletingAre DEF Goes, Ends, Same
  <2> QED BY <2>1, DangleQuiet
<1>18. CASE DeletePage(c)
  <2>1. /\ Others(c) /\ Grown /\ UNCHANGED doc
        /\ \/ req'[c].at = "idle"
           \/ /\ req[c].at \in Deleting \ {"check"}
              /\ req'[c].at \in Deleting /\ req[c].app = req'[c].app
    BY <1>18, DeletePageIs, DeletingAre DEF Goes, Ends, Same
  <2> QED BY <2>1, DangleQuiet
<1>19. CASE DeleteDoc(c)
  <2>0. PICK a : a = req[c].app
    OBVIOUS
  <2>1. /\ Others(c) /\ Grown /\ SameDocs(a) /\ a \in Apps
        /\ doc'[a] = None /\ req'[c].app = a
        /\ req[c].at = "delete" /\ req'[c].at = "clear"
    BY <1>19, <2>0, DeleteDocIs DEF Goes, Same
  <2>2. Leaves(a)
    BY <2>0, <2>1, DeletingAre DEF Leaves, At
  <2>3. \A x \in Apps : Rests(x)
    BY <2>1 DEF Rests, SameDocs
  <2>4. \A x \in Apps : doc[x] # None => doc'[x] # None \/ Leaves(x)
    BY <2>1, <2>2 DEF SameDocs
  <2> QED BY <2>0, <2>1, <2>3, <2>4, DeletingAre, DangleKept
<1>20. CASE ClearCopies(c)
  <2>1. /\ Others(c) /\ Grown /\ UNCHANGED doc
        /\ \/ req'[c].at = "idle"
           \/ req'[c].at = "check" /\ LinkedBy(req'[c].app)
    BY <1>20, ClearCopiesIs DEF FollowsUp
  <2>2. \A x \in Apps : Rests(x)
    BY <2>1 DEF Rests
  <2> QED BY <2>1, <2>2, DeletingAre, DangleKept
<1>21. CASE TokenStarts(c)
  <2>1. /\ Others(c) /\ Grown /\ UNCHANGED doc
        /\ req'[c].at \notin Creating \cup Deleting
    BY <1>21, TokenStartsIs
    DEF TokenBegun, stores, Creating, Deleting
  <2> QED BY <2>1, DangleQuiet
<1>22. CASE LookupCopy(c)
  <2>1. /\ Others(c) /\ Grown /\ UNCHANGED doc
        /\ req'[c].at \notin Creating \cup Deleting
    BY <1>22, LookupCopyIs
    DEF stores, Creating, Deleting
  <2> QED BY <2>1, DangleQuiet
<1>23. CASE FindApp(c)
  <2>1. /\ Others(c) /\ Grown /\ UNCHANGED doc
        /\ req'[c].at \notin Creating \cup Deleting
    BY <1>23, FindAppIs
    DEF stores, Creating, Deleting
  <2> QED BY <2>1, DangleQuiet
<1>24. CASE StoreCopy(c)
  <2>1. /\ Others(c) /\ Grown /\ UNCHANGED doc
        /\ req'[c].at \notin Creating \cup Deleting
    BY <1>24, StoreCopyIs
    DEF Creating, Deleting
  <2> QED BY <2>1, DangleQuiet
<1>25. CASE Die(c)
  <2>1. /\ Others(c) /\ Grown /\ UNCHANGED doc
        /\ req'[c].at \notin Creating \cup Deleting
    BY <1>25, DieIs
    DEF stores, Creating, Deleting
  <2> QED BY <2>1, DangleQuiet
<1> QED
  BY <1>1, <1>2, <1>3, <1>4, <1>5, <1>6, <1>7, <1>8, <1>9, <1>10, <1>11,
     <1>12, <1>13, <1>14, <1>15, <1>16, <1>17, <1>18, <1>19, <1>20, <1>21,
     <1>22, <1>23, <1>24, <1>25
  DEF StepOf

\* Every step preserves it.
LEMMA DangleNext ==
    ASSUME TypeInv, DangleInv, [Next]_vars
    PROVE  DangleInv'
<1>1. CASE \E c \in Calls : StepOf(c)
  BY <1>1, DangleStep, TypeNext
<1>2. CASE Aside
  <2>1. \A x, L : At(x, L)' = At(x, L)
    BY <1>2 DEF Aside, At
  <2>2. NoDangling'
    BY <1>2 DEF Aside, DangleInv, NoDangling, Grown
  <2>3. ASSUME NEW c \in Calls
        PROVE  MakerAt(c)'
    BY <1>2, <2>1 DEF Aside, DangleInv, MakerAt, Stands, At, Grown
  <2>4. ASSUME NEW a \in Apps
        PROVE  LeftAt(a)'
    BY <1>2, <2>1 DEF Aside, DangleInv, LeftAt, Leaves, Unlinked, Grown
  <2> QED BY <2>2, <2>3, <2>4 DEF DangleInv
<1> QED BY <1>1, <1>2, AsideIs

\* deleteApp refuses to delete a service others depend on, which holds over
\* its awaits: a KYC service depends on one that is there, but if it was
\* linked to one that was not, or that was being deleted.
THEOREM NothingDangles == Spec => []NoDangling
<1>1. Init => DangleInv
  <2> SUFFICES ASSUME Init
               PROVE  DangleInv
    OBVIOUS
  <2>1. /\ \A c \in Calls : req[c].at = "idle"
        /\ \A a \in Apps : doc[a] = None
    BY IdleIs DEF Init
  <2>2. \A a \in Apps : ~Leaves(a)
    BY <2>1, LabelsAre DEF Leaves, At
  <2> QED BY <2>1, <2>2, LabelsAre, AppsAre
          DEF DangleInv, NoDangling, MakerAt, LeftAt
<1>2. TypeInv /\ DangleInv /\ [Next]_vars => DangleInv'
  BY DangleNext
<1>3. DangleInv => NoDangling
  BY DEF DangleInv
<1> QED BY <1>1, <1>2, <1>3, TypeInvariant, PTL DEF Spec

-----------------------------------------------------------------------------
(* CopiesAgree.                                                            *)

\* The known copies of a have its env.
Agree(a) == \A s \in KnownSlots :
    doc[a] # None /\ cache[a][s] # None => cache[a][s].env = doc[a].env

\* An update that has written the document of a has its copies to do.
Writes(c, a) ==
    \/ req[c].main = a /\ req[c].at \in {"dependent", "get", "set"}
    \/ req[c].app = a /\ req[c].at \in {"get", "set"}

\* There was none, when it was a service in the making, nor will there be.
Blank(c, a) == /\ \A s \in KnownSlots : cache[a][s] = None
               /\ req[c].app = a /\ req[c].at = "set" => req[c].had = {}

EnvOf(c, a) == doc[a] = None \/ req[c].env = doc[a].env

\* What a request is about to write in copies of a is what the document says,
\* and it writes all there are.
Right(c, a) ==
    /\ Writes(c, a) => EnvOf(c, a) \/ Blank(c, a)
    /\ req[c].app = a /\ req[c].at = "set"
           => \A s \in KnownSlots : cache[a][s] # None => s \in req[c].had
    /\ req[c].app = a /\ Stores(c) => EnvOf(c, a)

AgreeAt(a) ==
    a \notin h.crossed => /\ Agree(a) \/ \E c \in Calls : Writes(c, a)
                          /\ \A c \in Calls : Right(c, a)

AgreeInv == \A a \in Apps : AgreeAt(a)

\* What the document of x says of env is what it said, if it says something,
\* and no copy of x is new.
Calm(x) == /\ doc'[x] # None => doc[x] # None /\ doc'[x].env = doc[x].env
           /\ \A s \in KnownSlots : cache'[x][s] \in {cache[x][s], None}

\* A step of c that leaves what others are about to write right.
LEMMA AgreeOne ==
    ASSUME NEW c \in Calls, Others(c), Grown, NEW x, AgreeAt(x),
           x \notin h'.crossed => /\ Calm(x) /\ Right(c, x)'
                                  /\ Writes(c, x) => Writes(c, x)'
    PROVE  AgreeAt(x)'
<1> SUFFICES ASSUME x \notin h'.crossed
             PROVE  /\ Agree(x)' \/ \E d \in Calls : Writes(d, x)'
                    /\ \A d \in Calls : Right(d, x)'
  BY DEF AgreeAt
<1>1. /\ Agree(x) \/ \E d \in Calls : Writes(d, x)
      /\ \A d \in Calls : Right(d, x)
  BY DEF AgreeAt, Grown
<1>2. Agree(x) => Agree(x)'
  BY DEF Agree, Calm
<1>3. ASSUME NEW d \in Calls \ {c}
      PROVE  (Writes(d, x)' = Writes(d, x)) /\ Right(d, x)'
  <2>1. req'[d] = req[d] /\ Right(d, x)
    BY <1>1 DEF Others
  <2>2. Writes(d, x)' = Writes(d, x) /\ Stores(d)' = Stores(d)
    BY <2>1 DEF Writes, Stores
  <2>3. EnvOf(d, x) => EnvOf(d, x)'
    BY <2>1 DEF EnvOf, Calm
  <2>4. Blank(d, x) => Blank(d, x)'
    BY <2>1 DEF Blank, Calm
  <2>5. req[d].app = x /\ req[d].at = "set" =>
            \A s \in KnownSlots : cache'[x][s] # None => s \in req[d].had
    BY <2>1 DEF Right, Calm
  <2> QED BY <2>1, <2>2, <2>3, <2>4, <2>5 DEF Right
<1> QED BY <1>1, <1>2, <1>3

\* A step of c that writes nothing, nor will.
LEMMA AgreeQuiet ==
    ASSUME AgreeInv, NEW c \in Calls, Others(c), Grown,
           \A x \in Apps : Calm(x),
           req[c].at \notin {"dependent", "get", "set"},
           req'[c].at \notin {"dependent", "get", "set", "store", "lookup"}
    PROVE  AgreeInv'
<1>1. ASSUME NEW x \in Apps
      PROVE  AgreeAt(x)'
  <2>1. ~Writes(c, x) /\ Right(c, x)'
    BY DEF Writes, Right, Stores
  <2> QED BY <2>1, AgreeOne DEF AgreeInv
<1> QED BY <1>1 DEF AgreeInv

\* Who writes copies of a works on it and uses it.
LEMMA WritesIs ==
    ASSUME NEW c \in Calls, NEW a
    PROVE  /\ Writes(c, a) => Works(c, a) /\ Uses(c, a)
           /\ req[c].app = a /\ req[c].at = "set" => Writes(c, a)
           /\ req[c].app = a /\ Stores(c) => Uses(c, a)
BY DEF Writes, Works, Uses, Touches, Updating, Stores, Granting

\* A step of one who changes x, which nobody else uses.
LEMMA AgreeAlone ==
    ASSUME CrossInv, NEW c \in Calls, Others(c), Grown,
           NEW x \in Apps, Works(c, x),
           x \notin h'.crossed => /\ Agree(x)' \/ Writes(c, x)'
                                  /\ Right(c, x)'
    PROVE  AgreeAt(x)'
<1> SUFFICES ASSUME x \notin h'.crossed
             PROVE  \A d \in Calls : Right(d, x)'
  BY DEF AgreeAt
<1>1. ASSUME NEW d \in Calls \ {c}
      PROVE  Right(d, x)'
  <2>1. req'[d] = req[d] /\ ~Uses(d, x)
    BY DEF Others, CrossInv, Grown
  <2>2. /\ ~Writes(d, x)
        /\ ~(req[d].app = x /\ req[d].at = "set")
        /\ ~(req[d].app = x /\ Stores(d))
    BY <2>1, WritesIs
  <2>3. Writes(d, x)' = Writes(d, x) /\ Stores(d)' = Stores(d)
    BY <2>1 DEF Writes, Stores
  <2> QED BY <2>1, <2>2, <2>3 DEF Right
<1> QED BY <1>1

\* Every step of a request preserves it.
LEMMA AgreeStep ==
    ASSUME TypeInv, CrossInv, NewInv, AgreeInv, NEW c \in Calls, StepOf(c)
    PROVE  AgreeInv'
<1> USE SameHistory, IdleIs
<1>1. CASE CreateStarts(c)
  <2>1. /\ Others(c) /\ Grown /\ \A x \in Apps : Calm(x)
        /\ req[c].at \notin {"dependent", "get", "set"}
        /\ req'[c].at \notin {"dependent", "get", "set", "store", "lookup"}
    BY <1>1, CreateAnAppIs
    DEF Calm, CreateStarts, stores
  <2> QED BY <2>1, AgreeQuiet
<1>2. CASE InsertKeys(c)
  <2>1. /\ Others(c) /\ Grown /\ \A x \in Apps : Calm(x)
        /\ req[c].at \notin {"dependent", "get", "set"}
        /\ req'[c].at \notin {"dependent", "get", "set", "store", "lookup"}
    BY <1>2, InsertKeysIs
    DEF Calm
  <2> QED BY <2>1, AgreeQuiet
<1>3. CASE CreateVault(c)
  <2>1. /\ Others(c) /\ Grown /\ \A x \in Apps : Calm(x)
        /\ req[c].at \notin {"dependent", "get", "set"}
        /\ req'[c].at \notin {"dependent", "get", "set", "store", "lookup"}
    BY <1>3, CreateVaultIs
    DEF Calm
  <2> QED BY <2>1, AgreeQuiet
<1>4. CASE CreateDoc(c)
  <2>0. PICK a : a = req[c].app
    OBVIOUS
  <2>1. /\ Others(c) /\ Grown /\ UNCHANGED <<cache, h>> /\ SameDocs(a)
        /\ a \in Apps /\ req[c].at = "insert" /\ req'[c].at = "idle"
    BY <1>4, <2>0, CreateDocIs
  <2>2. New(a)
    BY <2>0, <2>1 DEF New, At, Creating
  <2>3. \A s \in KnownSlots : cache[a][s] = None
    BY <2>1, <2>2 DEF NewInv, Fresh, KnownSlots
  <2>4. ASSUME NEW d \in Calls
        PROVE  Right(d, a)'
    <3>1. CASE d = c
      BY <2>1, <3>1 DEF Right, Writes, Stores
    <3>2. CASE d # c
      <4>1. /\ req'[d] = req[d]
            /\ req[d].app = a => ~Holds(d)
        BY <2>1, <2>2, <3>2 DEF Others, NewInv
      <4>2. Blank(d, a)'
        BY <2>1, <2>3, <4>1 DEF Blank, Holds
      <4>3. ~(req'[d].app = a /\ Stores(d)')
        BY <4>1 DEF Holds, Stores
      <4> QED BY <2>1, <2>3, <4>2, <4>3 DEF Right
    <3> QED BY <3>1, <3>2
  <2>5. AgreeAt(a)'
    BY <2>1, <2>3, <2>4 DEF AgreeAt, Agree
  <2>6. ASSUME NEW x \in Apps \ {a}
        PROVE  AgreeAt(x)'
    <3>1. Calm(x) /\ Right(c, x)' /\ ~Writes(c, x)
      BY <2>1 DEF Calm, SameDocs, Right, Writes, Stores
    <3> QED BY <2>1, <3>1, AgreeOne DEF AgreeInv
  <2> QED BY <2>5, <2>6 DEF AgreeInv
<1>5. CASE UpdateStarts(c)
  <2>1. /\ Others(c) /\ Grown /\ \A x \in Apps : Calm(x)
        /\ req[c].at \notin {"dependent", "get", "set"}
        /\ req'[c].at \notin {"dependent", "get", "set", "store", "lookup"}
    BY <1>5, UpdateStartsIs
    DEF Calm, UpdateBegun, stores
  <2> QED BY <2>1, AgreeQuiet
<1>6. CASE VerifyDns(c)
  <2>1. /\ Others(c) /\ Grown /\ \A x \in Apps : Calm(x)
        /\ req[c].at \notin {"dependent", "get", "set"}
        /\ req'[c].at \notin {"dependent", "get", "set", "store", "lookup"}
    BY <1>6, VerifyDnsIs
    DEF Calm, stores
  <2> QED BY <2>1, AgreeQuiet
<1>7. CASE UpdateDoc(c)
  <2>0. PICK a : a = req[c].app
    OBVIOUS
  <2>1. /\ Others(c) /\ Grown /\ UNCHANGED cache /\ SameDocs(a)
        /\ a \in Apps /\ req[c].at = "update" /\ req[c].main = a
        /\ \/ req'[c].at = "idle" /\ UNCHANGED doc
           \/ /\ doc'[a] # None /\ doc'[a].env = req'[c].env
              /\ req'[c].at \in {"dependent", "get"}
              /\ req'[c].app = a /\ req'[c].main = a
    BY <1>7, <2>0, UpdateDocIs
  <2>2. CASE req'[c].at = "idle"
    <3>1. \A x \in Apps : Calm(x)
      BY <2>1, <2>2 DEF Calm
    <3> QED BY <2>1, <2>2, <3>1, AgreeQuiet
  <2>3. CASE req'[c].at # "idle"
    <3>1. Works(c, a)
      BY <2>0, <2>1 DEF Works, Touches, Updating
    <3>2. Writes(c, a)' /\ Right(c, a)'
      BY <2>1, <2>3 DEF Writes, Right, EnvOf, Stores
    <3>3. AgreeAt(a)'
      BY <2>1, <3>1, <3>2, AgreeAlone
    <3>4. ASSUME NEW x \in Apps \ {a}
          PROVE  AgreeAt(x)'
      <4>1. Calm(x) /\ Right(c, x)' /\ ~Writes(c, x)
        BY <2>1, <2>3 DEF Calm, SameDocs, Right, Writes, Stores
      <4> QED BY <2>1, <4>1, AgreeOne DEF AgreeInv
    <3> QED BY <3>3, <3>4 DEF AgreeInv
  <2> QED BY <2>2, <2>3
<1>8. CASE UpdateDependent(c)
  <2>0. PICK a : a = req[c].dep
    OBVIOUS
  <2>1. /\ Others(c) /\ Grown /\ UNCHANGED cache /\ SameDocs(a)
        /\ a \in Apps /\ req[c].at = "dependent"
        /\ doc'[a] = None \/ doc'[a].env = req[c].env
        /\ req'[c].at = "get" /\ req'[c].app = a
        /\ req'[c].main = req[c].main /\ req'[c].env = req[c].env
    BY <1>8, <2>0, UpdateDependentIs
  <2>2. Works(c, a)
    BY <2>0, <2>1 DEF Works, Touches, Updating
  <2>3. Writes(c, a)' /\ Right(c, a)'
    BY <2>1 DEF Writes, Right, EnvOf, Stores
  <2>4. AgreeAt(a)'
    BY <2>1, <2>2, <2>3, AgreeAlone
  <2>5. ASSUME NEW x \in Apps \ {a}
        PROVE  AgreeAt(x)'
    <3>1. Calm(x) /\ AgreeAt(x)
      BY <2>1 DEF Calm, SameDocs, AgreeInv
    <3>2. Writes(c, x) <=> Writes(c, x)'
      <4>1. req[c].app = x => req[c].at \notin {"get", "set"}
        BY <2>1
      <4> QED BY <2>1, <4>1 DEF Writes
    <3>3. Right(c, x) => Right(c, x)'
      BY <2>1, <3>2 DEF Right, EnvOf, Blank, Stores, SameDocs
    <3>4. x \notin h'.crossed => Right(c, x)
      BY <2>1, <3>1 DEF AgreeAt, Grown
    <3> QED BY <2>1, <3>1, <3>2, <3>3, <3>4, AgreeOne
  <2> QED BY <2>4, <2>5 DEF AgreeInv
<1>9. CASE GetCopies(c)
  <2>0. PICK a : a = req[c].app
    OBVIOUS
  <2>1. /\ Others(c) /\ Grown /\ UNCHANGED <<doc, cache>>
        /\ a \in Apps /\ req[c].at = "get" /\ req'[c].at = "set"
        /\ req'[c].app = a
        /\ req'[c].main = req[c].main /\ req'[c].env = req[c].env
        /\ req'[c].had = {s \in KnownSlots : cache[a][s] # None}
    BY <1>9, <2>0, GetCopiesIs DEF stores
  <2>2. ASSUME NEW x \in Apps
        PROVE  AgreeAt(x)'
    <3>1. Calm(x) /\ AgreeAt(x)
      BY <2>1 DEF Calm, AgreeInv
    <3>2. Writes(c, x) <=> Writes(c, x)'
      BY <2>0, <2>1 DEF Writes
    <3>3. (EnvOf(c, x) => EnvOf(c, x)') /\ (Blank(c, x) => Blank(c, x)')
      BY <2>1 DEF EnvOf, Blank
    <3>4. Right(c, x) => Right(c, x)'
      BY <2>1, <3>2, <3>3 DEF Right, Stores
    <3>5. x \notin h'.crossed => Right(c, x)
      BY <2>1, <3>1 DEF AgreeAt, Grown
    <3> QED BY <2>1, <3>1, <3>2, <3>4, <3>5, AgreeOne
  <2> QED BY <2>2 DEF AgreeInv
<1>10. CASE SetCopies(c)
  <2>0. PICK a, S : a = req[c].app /\ S = req[c].had
    OBVIOUS
  <2>1. /\ Others(c) /\ Grown /\ UNCHANGED <<doc, h>>
        /\ a \in Apps /\ S \subseteq Slots /\ req[c].at = "set"
        /\ SameCopies(a, S)
        /\ \A s \in S : cache'[a][s].env = req[c].env
        /\ \/ a = req[c].main /\ req'[c].at = "idle"
           \/ /\ a # req[c].main /\ req'[c].at = "get"
              /\ req'[c].app = req[c].main /\ req'[c].main = req[c].main
              /\ req'[c].env = req[c].env
    BY <1>10, <2>0, SetCopiesIs DEF Written
  <2>2. Writes(c, a) /\ Works(c, a)
    BY <2>0, <2>1, WritesIs DEF Writes
  <2>3. ~Writes(c, a)' /\ Right(c, a)'
    BY <2>1 DEF Writes, Right, Stores
  <2>4. ASSUME a \notin h.crossed
        PROVE  Agree(a)'
    <3>1. Right(c, a)
      BY <2>1, <2>4 DEF AgreeInv, AgreeAt
    <3>2. ASSUME NEW s \in KnownSlots, doc'[a] # None, cache'[a][s] # None
          PROVE  cache'[a][s].env = doc'[a].env
      <4>1. s \in Slots /\ (s \notin S => cache'[a][s] = cache[a][s])
        BY <2>1 DEF SameCopies, KnownSlots
      <4>2. s \in S
        BY <2>0, <2>1, <3>1, <3>2, <4>1 DEF Right
      <4>3. EnvOf(c, a)
        BY <2>0, <2>1, <2>2, <3>1, <4>2 DEF Right, Blank
      <4> QED BY <2>1, <3>2, <4>2, <4>3 DEF EnvOf
    <3> QED BY <3>2 DEF Agree
  <2>5. AgreeAt(a)'
    BY <2>1, <2>2, <2>3, <2>4, AgreeAlone
  <2>6. ASSUME NEW x \in Apps \ {a}
        PROVE  AgreeAt(x)'
    <3>1. Calm(x) /\ AgreeAt(x)
      BY <2>1 DEF Calm, SameCopies, AgreeInv
    <3>2. Writes(c, x) => Writes(c, x)'
      BY <2>0, <2>1 DEF Writes
    <3>3. Writes(c, x)' => Writes(c, x)
      BY <2>0, <2>1 DEF Writes
    <3>4. Right(c, x) => Right(c, x)'
      <4>1. /\ cache'[x] = cache[x] /\ req'[c].at \in {"idle", "get"}
            /\ Writes(c, x)' => req'[c].env = req[c].env
        BY <2>1 DEF SameCopies, Writes
      <4>2. Writes(c, x)' /\ EnvOf(c, x) => EnvOf(c, x)'
        BY <2>1, <4>1 DEF EnvOf
      <4>3. Blank(c, x) => Blank(c, x)'
        BY <4>1 DEF Blank
      <4> QED BY <3>3, <4>1, <4>2, <4>3 DEF Right, Stores
    <3>5. x \notin h'.crossed => Right(c, x)
      BY <2>1, <3>1 DEF AgreeAt
    <3> QED BY <2>1, <3>1, <3>2, <3>4, <3>5, AgreeOne
  <2> QED BY <2>5, <2>6 DEF AgreeInv
<1>11. CASE DeleteStarts(c)
  <2>1. /\ Others(c) /\ Grown /\ \A x \in Apps : Calm(x)
        /\ req[c].at \notin {"dependent", "get", "set"}
        /\ req'[c].at \notin {"dependent", "get", "set", "store", "lookup"}
    BY <1>11, DeleteAppIs
    DEF Calm, DeleteStarts, stores
  <2> QED BY <2>1, AgreeQuiet
<1>12. CASE CheckLinks(c)
  <2>1. /\ Others(c) /\ Grown /\ \A x \in Apps : Calm(x)
        /\ req[c].at \notin {"dependent", "get", "set"}
        /\ req'[c].at \notin {"dependent", "get", "set", "store", "lookup"}
    BY <1>12, CheckLinksIs
    DEF Calm, stores, Goes, Ends
  <2> QED BY <2>1, AgreeQuiet
<1>13. CASE Decrypt(c)
  <2>1. /\ Others(c) /\ Grown /\ \A x \in Apps : Calm(x)
        /\ req[c].at \notin {"dependent", "get", "set"}
        /\ req'[c].at \notin {"dependent", "get", "set", "store", "lookup"}
    BY <1>13, DecryptIs
    DEF Calm, stores, Goes, Ends
  <2> QED BY <2>1, AgreeQuiet
<1>14. CASE RegisterVault(c)
  <2>1. /\ Others(c) /\ Grown /\ \A x \in Apps : Calm(x)
        /\ req[c].at \notin {"dependent", "get", "set"}
        /\ req'[c].at \notin {"dependent", "get", "set", "store", "lookup"}
    BY <1>14, RegisterVaultIs
    DEF Calm, Goes, Ends
  <2> QED BY <2>1, AgreeQuiet
<1>15. CASE DeleteVault(c)
  <2>1. /\ Others(c) /\ Grown /\ \A x \in Apps : Calm(x)
        /\ req[c].at \notin {"dependent", "get", "set"}
        /\ req'[c].at \notin {"dependent", "get", "set", "store", "lookup"}
    BY <1>15, DeleteVaultIs
    DEF Calm, Goes, Ends
  <2> QED BY <2>1, AgreeQuiet
<1>16. CASE DeleteKeys(c)
  <2>1. /\ Others(c) /\ Grown /\ \A x \in Apps : Calm(x)
        /\ req[c].at \notin {"dependent", "get", "set"}
        /\ req'[c].at \notin {"dependent", "get", "set", "store", "lookup"}
    BY <1>16, DeleteKeysIs
    DEF Calm, Goes, Ends
  <2> QED BY <2>1, AgreeQuiet
<1>17. CASE DropDatabase(c)
  <2>1. /\ Others(c) /\ Grown /\ \A x \in Apps : Calm(x)
        /\ req[c].at \notin {"dependent", "get", "set"}
        /\ req'[c].at \notin {"dependent", "get", "set", "store", "lookup"}
    BY <1>17, DropDatabaseIs
    DEF Calm, Goes, Ends
  <2> QED BY <2>1, AgreeQuiet
<1>18. CASE DeletePage(c)
  <2>1. /\ Others(c) /\ Grown /\ \A x \in Apps : Calm(x)
        /\ req[c].at \notin {"dependent", "get", "set"}
        /\ req'[c].at \notin {"dependent", "get", "set", "store", "lookup"}
    BY <1>18, DeletePageIs
    DEF Calm, Goes, Ends
  <2> QED BY <2>1, AgreeQuiet
<1>19. CASE DeleteDoc(c)
  <2>1. /\ Others(c) /\ Grown /\ \A x \in Apps : Calm(x)
        /\ req[c].at \notin {"dependent", "get", "set"}
        /\ req'[c].at \notin {"dependent", "get", "set", "store", "lookup"}
    BY <1>19, DeleteDocIs
    DEF Calm, Goes, Ends, SameDocs
  <2> QED BY <2>1, AgreeQuiet
<1>20. CASE ClearCopies(c)
  <2>1. /\ Others(c) /\ Grown /\ UNCHANGED doc /\ req[c].at = "clear"
        /\ req'[c].at \in {"idle", "check"}
        /\ ClearedOf(req[c].app) /\ req[c].app \in Apps
    BY <1>20, ClearCopiesIs DEF FollowsUp
  <2>2. \A x \in Apps : Calm(x)
    BY <2>1 DEF Calm, ClearedOf, SameCopies
  <2> QED BY <2>1, <2>2, AgreeQuiet
<1>21. CASE TokenStarts(c)
  <2>1. /\ Others(c) /\ Grown /\ UNCHANGED <<doc, cache>>
        /\ req[c].at = "idle" /\ req'[c].at \in {"find", "lookup"}
        /\ req'[c].at = "lookup" => req'[c].slot # "customer"
    BY <1>21, TokenStartsIs DEF TokenBegun, stores
  <2>2. ASSUME NEW x \in Apps
        PROVE  AgreeAt(x)'
    <3>1. Calm(x) /\ Right(c, x)' /\ ~Writes(c, x)
      BY <2>1 DEF Calm, Right, Writes, Stores
    <3> QED BY <2>1, <3>1, AgreeOne DEF AgreeInv
  <2> QED BY <2>2 DEF AgreeInv
<1>22. CASE LookupCopy(c)
  <2>1. /\ Others(c) /\ Grown /\ UNCHANGED <<doc, cache, h>>
        /\ req[c].at = "lookup"
        /\ \/ req'[c].at \in {"idle", "find"}
           \/ /\ req'[c].at = "store" /\ req'[c].app = req[c].app
              /\ req[c].slot = "customer" /\ req'[c].env = req[c].env
    BY <1>22, LookupCopyIs DEF stores
  <2>2. ASSUME NEW x \in Apps
        PROVE  AgreeAt(x)'
    <3>1. AgreeAt(x) /\ Calm(x) /\ ~Writes(c, x) /\ ~Writes(c, x)'
      BY <2>1 DEF AgreeInv, Calm, Writes
    <3>2. Right(c, x) => Right(c, x)'
      BY <2>1, <3>1 DEF Right, Stores, EnvOf
    <3> QED BY <2>1, <3>1, <3>2, AgreeOne DEF AgreeAt
  <2> QED BY <2>2 DEF AgreeInv
<1>23. CASE FindApp(c)
  <2>1. /\ Others(c) /\ Grown /\ UNCHANGED <<doc, cache>>
        /\ req[c].at = "find"
        /\ \/ req'[c].at = "idle"
           \/ /\ req'[c].at \in {"lookup", "store"}
              /\ req'[c].env = doc[req'[c].app].env
    BY <1>23, FindAppIs DEF stores
  <2>2. ASSUME NEW x \in Apps
        PROVE  AgreeAt(x)'
    <3>1. AgreeAt(x) /\ Calm(x) /\ ~Writes(c, x) /\ ~Writes(c, x)'
      BY <2>1 DEF AgreeInv, Calm, Writes
    <3>2. Right(c, x)'
      BY <2>1, <3>1 DEF Right, Stores, EnvOf
    <3> QED BY <2>1, <3>1, <3>2, AgreeOne DEF AgreeAt
  <2> QED BY <2>2 DEF AgreeInv
<1>24. CASE StoreCopy(c)
  <2>0. PICK a, t : a = req[c].app /\ t = req[c].slot
    OBVIOUS
  <2>1. /\ Others(c) /\ Grown /\ UNCHANGED <<doc, h>>
        /\ a \in Apps /\ req[c].at = "store" /\ req'[c].at = "idle"
        /\ SameCopies(a, {t}) /\ cache'[a][t].env = req[c].env
    BY <1>24, <2>0, StoreCopyIs
  <2>2. Uses(c, a) /\ Stores(c)
    BY <2>0, <2>1, WritesIs DEF Stores
  <2>3. ASSUME a \notin h.crossed
        PROVE  Agree(a)' /\ \A d \in Calls : Right(d, a)'
    <3>1. /\ Agree(a) \/ \E d \in Calls : Writes(d, a)
          /\ \A d \in Calls : Right(d, a)
      BY <2>1, <2>3 DEF AgreeInv, AgreeAt
    <3>2. \A d \in Calls : ~Writes(d, a)
      <4>1. ASSUME NEW d \in Calls, Writes(d, a)
            PROVE  FALSE
        <5>1. Works(d, a) /\ d = c
          BY <2>1, <2>2, <2>3, <4>1, WritesIs DEF CrossInv
        <5> QED BY <2>1, <4>1, <5>1 DEF Writes
      <4> QED BY <4>1
    <3>3. EnvOf(c, a)
      BY <2>0, <2>1, <2>2, <3>1 DEF Right
    <3>4. Agree(a)'
      <4>1. ASSUME NEW s \in KnownSlots, doc'[a] # None, cache'[a][s] # None
            PROVE  cache'[a][s].env = doc'[a].env
        BY <2>1, <3>1, <3>2, <3>3, <4>1
        DEF Agree, EnvOf, SameCopies, KnownSlots
      <4> QED BY <4>1 DEF Agree
    <3>5. ASSUME NEW d \in Calls
          PROVE  Right(d, a)'
      <4>1. CASE d = c
        BY <2>1, <4>1 DEF Right, Writes, Stores
      <4>2. CASE d # c
        <5>1. req'[d] = req[d] /\ Right(d, a) /\ ~Writes(d, a)
          BY <2>1, <3>1, <3>2, <4>2 DEF Others
        <5>2. /\ Writes(d, a)' = Writes(d, a) /\ Stores(d)' = Stores(d)
              /\ EnvOf(d, a)' = EnvOf(d, a)
          BY <2>1, <5>1 DEF Writes, Stores, EnvOf
        <5>3. ~(req[d].app = a /\ req[d].at = "set")
          BY <5>1, WritesIs
        <5> QED BY <5>1, <5>2, <5>3 DEF Right
      <4> QED BY <4>1, <4>2
    <3> QED BY <3>4, <3>5
  <2>4. AgreeAt(a)'
    BY <2>1, <2>3 DEF AgreeAt
  <2>5. ASSUME NEW x \in Apps \ {a}
        PROVE  AgreeAt(x)'
    <3>1. Calm(x) /\ Right(c, x)' /\ ~Writes(c, x)
      BY <2>1 DEF Calm, SameCopies, Right, Writes, Stores
    <3> QED BY <2>1, <3>1, AgreeOne DEF AgreeInv
  <2> QED BY <2>4, <2>5 DEF AgreeInv
<1>25. CASE Die(c)
  <2>1. /\ Others(c) /\ Grown /\ UNCHANGED <<doc, cache>>
        /\ req'[c].at = "idle"
        /\ req[c].at \in Updating => \A x \in Apps :
               Touches(c, x) => x \in h'.crossed
    BY <1>25, DieIs DEF stores
  <2>2. ASSUME NEW x \in Apps
        PROVE  AgreeAt(x)'
    <3>1. AgreeAt(x) /\ Calm(x) /\ Right(c, x)'
      BY <2>1 DEF AgreeInv, Calm, Right, Writes, Stores
    <3>2. Writes(c, x) => x \in h'.crossed
      BY <2>1 DEF Writes, Touches, Updating
    <3> QED BY <2>1, <3>1, <3>2, AgreeOne
  <2> QED BY <2>2 DEF AgreeInv
<1> QED
  BY <1>1, <1>2, <1>3, <1>4, <1>5, <1>6, <1>7, <1>8, <1>9, <1>10, <1>11,
     <1>12, <1>13, <1>14, <1>15, <1>16, <1>17, <1>18, <1>19, <1>20, <1>21,
     <1>22, <1>23, <1>24, <1>25
  DEF StepOf

\* Every step preserves it.
LEMMA AgreeNext ==
    ASSUME TypeInv, CrossInv, NewInv, AgreeInv, [Next]_vars
    PROVE  AgreeInv'
<1>1. CASE \E c \in Calls : StepOf(c)
  BY <1>1, AgreeStep
<1>2. CASE Aside
  <2>1. ASSUME NEW x \in Apps
        PROVE  AgreeAt(x)'
    <3>1. /\ AgreeAt(x) /\ Calm(x) /\ UNCHANGED <<doc, req>> /\ Grown
      BY <1>2 DEF Aside, Calm, AgreeInv, KnownSlots
    <3>2. \A c \in Calls : /\ Writes(c, x)' = Writes(c, x)
                           /\ Stores(c)' = Stores(c)
                           /\ EnvOf(c, x)' = EnvOf(c, x)
                           /\ Blank(c, x) => Blank(c, x)'
      BY <3>1 DEF Writes, Stores, EnvOf, Blank, Calm
    <3>3. \A c \in Calls : Right(c, x) => Right(c, x)'
      BY <3>1, <3>2 DEF Right, Calm
    <3>4. Agree(x) => Agree(x)'
      BY <3>1 DEF Agree, Calm
    <3> QED BY <3>1, <3>2, <3>3, <3>4 DEF AgreeAt, Grown
  <2> QED BY <2>1 DEF AgreeInv
<1> QED BY <1>1, <1>2, AsideIs

\* What tokens refer to says the env of the service: updateAnApp writes the
\* copies after the document, and for a token a copy is made of a document
\* that was read before, unless requests overlap, which makes it crossed.
THEOREM CopiesDoAgree == Spec => []CopiesAgree
<1>1. Init => AgreeInv
  <2> SUFFICES ASSUME Init
               PROVE  AgreeInv
    OBVIOUS
  <2>1. /\ \A c \in Calls : req[c].at = "idle"
        /\ \A a \in Apps : doc[a] = None
    BY IdleIs DEF Init
  <2> QED BY <2>1 DEF AgreeInv, AgreeAt, Agree, Right, Writes, Stores
<1>2. TypeInv /\ CrossInv /\ (UsedInv /\ NewInv) /\ AgreeInv
          /\ [Next]_vars => AgreeInv'
  BY AgreeNext
<1>3. ASSUME AgreeInv
      PROVE  CopiesAgree
  <2> SUFFICES ASSUME NEW a \in Apps \ h.crossed
               PROVE  Agree(a) \/ Busy(a, Updating)
    BY DEF CopiesAgree, Agree
  <2>1. CASE \E c \in Calls : Writes(c, a)
    BY <2>1, WritesIs DEF Uses, Writes, Busy, Touches, Updating
  <2>2. CASE Agree(a)
    BY <2>2
  <2> QED BY <1>3, <2>1, <2>2 DEF AgreeInv, AgreeAt
<1> QED BY <1>1, <1>2, <1>3, TypeInvariant, CrossInvariant, NewInvariant, PTL
        DEF Spec
=============================================================================
