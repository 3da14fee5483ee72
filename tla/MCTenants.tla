----------------------------- MODULE MCTenants -----------------------------
(***************************************************************************)
(* An instance of Tenants for TLC.                                         *)
(***************************************************************************)
EXTENDS Tenants, FiniteSets, TLC

Symmetry == Permutations(Calls) \cup Permutations(Roles) \cup Permutations(Sids)

Membership == {"create", "accept", "delete", "attach"}
Listing == {"mget", "stale", "exists", "scan", "read", "backfill", "flag"}
At(labels) == {c \in Calls : req[c].at \in labels}
Live == {s \in Sids : sess[s] # None}

\* Listings, and sessions that are written back after their end, are explored
\* for a membership that stays as it is; changes of memberships with one
\* session at a time.
OneMembership == /\ invites = 1 /\ edits = 0 /\ h.out = {}
                 /\ At(Membership) = {}
                 /\ \A a \in Admins : docs[a]["user"] # None
NoListing == /\ backfilled = {} /\ At(Listing) = {}
             /\ h.raced = {} /\ h.shortened = {}
             /\ Cardinality(Live) <= 1

\* A request that dies overlaps with no other, an invitation that was accepted
\* does not expire; one session at a time is to be written back, while one
\* other request goes on and none dies.
Bounded ==
    /\ OneMembership \/ NoListing
    /\ Cardinality(owed) <= 1
    /\ owed # {} => deaths = 0
    /\ deaths > 0 \/ owed # {} =>
          Cardinality({c \in Calls : req[c] # Idle}) <= 1
    /\ \A a \in Admins :
          docs[a]["user"] # None /\ docs[a]["user"].accepted
              => docs[a]["user"].valid
=============================================================================
