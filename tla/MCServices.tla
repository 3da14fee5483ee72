----------------------------- MODULE MCServices -----------------------------
(***************************************************************************)
(* Instances of Services for TLC: one SSI service and one or two KYC       *)
(* services.                                                               *)
(***************************************************************************)
EXTENDS Services, FiniteSets, TLC

Symmetry == Permutations(Calls)

Verified == [NoSite EXCEPT !.domain = CHOOSE d \in Domains : TRUE]
Unchanged == [NoSite EXCEPT !.domain = "keep"]

\* The domains play no part: a service has one while its env is prod, and an
\* update takes it away with the env.
Plain ==
    /\ h.moved = {}
    /\ \A a \in Apps : site[a] = IF doc[a] # None /\ doc[a].env = "prod"
                                    /\ a \in KycApps
                                  THEN Verified
                                  ELSE NoSite
    /\ \A c \in Calls : req[c].at = "update" =>
          /\ req[c].env # None
          /\ req[c].site = IF req[c].app \in SsiApps THEN Unchanged
                           ELSE IF req[c].env = "prod" THEN Verified ELSE NoSite

\* Only the domain of an SSI service that has no copies.
Sited ==
    /\ \A k \in KycApps : k \notin h.used
    /\ \A a \in Apps, slot \in Slots : cache[a][slot] = None
    /\ faults = 0
    /\ {req[c].at : c \in Calls} \subseteq Updating \cup {"idle"}

\* Bounds of the check: one copy of a service at a time, none after a fault or
\* a link to what is not there; nothing is made while there is a copy or a
\* page, or updated or cut while there is a page; of one service at most the
\* history is special, and without a fault; from then on requests do not
\* overlap.
Bounded ==
    LET copies == {x \in Apps \X Slots : cache[x[1]][x[2]] # None}
        busy == {req[c].at : c \in Calls}
    IN  /\ Cardinality(copies) + faults + Cardinality(h.linking) <= 1
        /\ copies # {} \/ pages # {} => busy \cap Creating = {}
        /\ pages # {} => busy \cap Updating = {} /\ faults = 0
        /\ Cardinality(h.crossed \cup h.lapsed) + faults <= 1
        /\ h.crossed \cup h.lapsed # {} =>
               Cardinality({c \in Calls : req[c].at # "idle"}) <= 1
        /\ Plain \/ Sited

\* KYC services depend on an SSI service that is there.
Linked == Bounded /\ h.linking = {}
=============================================================================
