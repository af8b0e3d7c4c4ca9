----------------------------- MODULE ClaimLedger -----------------------------
(***************************************************************************)
(* The claim tables of the engine's Postgres state authority: which        *)
(* routing releases are registered, which batches of works are claimed by  *)
(* which tier, and until when.  A claim is a LEASE: it blocks its works    *)
(* while its status is "active" and its end lies in the future, and it     *)
(* stops blocking without any write when the clock passes that end.        *)
(*                                                                         *)
(* This module holds the state and the effect of each RPC on it; the       *)
(* modules that extend it decide when an RPC runs: `Claims` as database    *)
(* transactions, `TierRun` as calls of the tier runners.                   *)
(***************************************************************************)
EXTENDS Integers, FiniteSets

CONSTANTS
    Works,        \* work ids
    LockTiers,    \* tiers whose claims exclude each other (screens, extract, human)
    Measurement,  \* the tier whose claims neither take nor respect the lock
    Releases,     \* routing releases
    ClaimIds      \* ids the database can mint

ASSUME MeasurementAssumption == Measurement \notin LockTiers

VARIABLES
    releases,     \* engine_releases: the registered ones
    claims,       \* engine_claims joined with engine_claim_items
    now           \* the database's clock

ledger == <<releases, claims, now>>

Tiers == LockTiers \cup {Measurement}
EndStatuses == {"complete", "cancelled", "failed"}

\* A claim row; "absent" is an id that has not been minted.
ClaimRow == [status  : {"absent", "active"} \cup EndStatuses,
             release : Releases \cup {""},
             tier    : Tiers \cup {""},
             items   : SUBSET Works,
             expires : Nat]
NoClaim == [status |-> "absent", release |-> "", tier |-> "", items |-> {}, expires |-> 0]

LedgerTypeOK ==
    /\ releases \subseteq Releases
    /\ claims \in [ClaimIds -> ClaimRow]
    /\ now \in Nat

LedgerInit ==
    /\ releases = {}
    /\ claims = [id \in ClaimIds |-> NoClaim]
    /\ now = 0

-----------------------------------------------------------------------------
\* status = active AND expires_at > now() is what blocks re-claiming.
Live(id, at) == claims[id].status = "active" /\ claims[id].expires > at

\* Mutant: a claim blocks until somebody ends it, as before the lease column.
ConflictsUntilEnded(tier, items, at) ==
    {id \in ClaimIds : /\ claims[id].status = "active"
                       /\ claims[id].tier = tier
                       /\ claims[id].items \cap items # {}}

\* Mutant: only a claim holding the whole batch is in conflict with it.
ConflictsWhole(tier, items, at) ==
    {id \in ClaimIds : /\ Live(id, at)
                       /\ claims[id].tier = tier
                       /\ items \subseteq claims[id].items}

\* The claims the conflict check of engine_claim_batch counts.  It does not
\* look at the release: a work is one work under every routing.
Conflicts(tier, items, at) ==
    {id \in ClaimIds : /\ Live(id, at)
                       /\ claims[id].tier = tier
                       /\ claims[id].items \cap items # {}}

\* Mutant: only claims made under the same release are in conflict.
ClaimablePerRelease(release, tier, items, until, at) ==
    /\ items # {}
    /\ until > at
    /\ release \in releases
    /\ tier # Measurement =>
          \A id \in Conflicts(tier, items, at) : claims[id].release # release

\* The refusals of engine_claim_batch, in one predicate.
Claimable(release, tier, items, until, at) ==
    /\ items # {}
    /\ until > at
    /\ release \in releases
    /\ tier # Measurement => Conflicts(tier, items, at) = {}

\* Mutant: release and tier change places in the insert.
InsertClaimSwapped(id, release, tier, items, until) ==
    claims' = [claims EXCEPT ![id] = [status |-> "active", release |-> tier,
                                      tier |-> release, items |-> items,
                                      expires |-> until]]

InsertClaim(id, release, tier, items, until) ==
    claims' = [claims EXCEPT ![id] = [status |-> "active", release |-> release,
                                      tier |-> tier, items |-> items,
                                      expires |-> until]]

\* Mutant: a settled claim can be ended again.
EndableAgain(id) == claims[id].status # "absent"

\* engine_release_claim: only an active claim ends; an expired one still may.
Endable(id) == claims[id].status = "active"
EndClaim(id, status) == claims' = [claims EXCEPT ![id].status = status]

\* Mutant: a renewal looks at the status only.
RenewableLapsed(id, at) == claims[id].status = "active"

\* engine_renew_claim: a lease that has run out is refused, and a renewal
\* never shortens.
Renewable(id, at) == Live(id, at)
ExtendLease(id, until) ==
    claims' = [claims EXCEPT ![id].expires = IF until > @ THEN until ELSE @]

-----------------------------------------------------------------------------
\* The promise behind the tables: each (tier, work) is a slot, a claim is a
\* holder that takes all its slots at once and gives them up for good.
Holders(slot) ==
    {id \in ClaimIds : Live(id, now) /\ claims[id].tier = slot[1]
                                     /\ slot[2] \in claims[id].items}
holders == [slot \in LockTiers \X Works |-> Holders(slot)]
retired == {id \in ClaimIds : /\ claims[id].status # "absent"
                              /\ claims[id].tier \in LockTiers
                              /\ ~Live(id, now)}

Leased == INSTANCE WorkLease WITH Slots <- LockTiers \X Works, Holder <- ClaimIds

\* The claim tables implement exclusive leases that are never taken back.
ImplementsWorkLease == Leased!Spec
=============================================================================
