-------------------------------- MODULE Claims --------------------------------
(***************************************************************************)
(* The claim RPCs as database transactions.  PostgREST runs each RPC in    *)
(* one READ COMMITTED transaction, and now() is the time that transaction  *)
(* BEGAN, while each statement reads the rows committed when it starts.    *)
(* A claim has three moments: Begin fixes its clock, Check takes the       *)
(* advisory lock of its tier and looks for conflicts, Commit writes.  The  *)
(* lock is held from Check to Commit, so the claims of a tier go one at a  *)
(* time, but it is no lock for a renewal or an end, which may commit in    *)
(* between.  Those have two moments: they hold the lock of their one row   *)
(* from the SELECT to the COMMIT, so what they read is what they write on. *)
(***************************************************************************)
EXTENDS ClaimLedger

CONSTANTS
    Leases,      \* lease ends a client may send (its own clock plus the TTL)
    MaxOpen,     \* bound: transactions open at once
    MaxTime      \* bound: the clock

ASSUME LeasesAssumption == Leases \subseteq Nat

VARIABLES
    txns,        \* transactions that have begun and neither committed nor aborted
    revived      \* history: claims renewed by a transaction that straddled their lease end

vars == <<releases, claims, now, txns, revived>>

ClaimTxn == [op : {"claim"}, id : ClaimIds, release : Releases, tier : Tiers,
             items : SUBSET Works, until : Leases, at : Nat, checked : BOOLEAN]
RenewTxn == [op : {"renew"}, id : ClaimIds, until : Leases, at : Nat]
EndTxn   == [op : {"end"}, id : ClaimIds, status : EndStatuses, at : Nat]

Init == LedgerInit /\ txns = {} /\ revived = {}

-----------------------------------------------------------------------------
Begin(txn) ==
    /\ Cardinality(txns) < MaxOpen
    /\ txns' = txns \cup {txn}
    /\ UNCHANGED <<ledger, revived>>

\* The id is minted by the database: no row and no open transaction has it.
BeginClaim(id, release, tier, items, until) ==
    /\ claims[id].status = "absent"
    /\ \A x \in txns : x.op = "claim" => x.id # id
    /\ Begin([op |-> "claim", id |-> id, release |-> release, tier |-> tier,
              items |-> items, until |-> until, at |-> now, checked |-> FALSE])

BeginRenew(id, until) ==
    /\ claims[id].status # "absent"
    /\ Begin([op |-> "renew", id |-> id, until |-> until, at |-> now])

BeginEnd(id, status) ==
    /\ claims[id].status # "absent"
    /\ Begin([op |-> "end", id |-> id, status |-> status, at |-> now])

\* A claim has looked and holds the advisory lock of its tier until it ends.
\* Mutant: the lock is given up with the SELECT.
Unlocked(x) == TRUE
LockFree(x) ==
    x.tier # Measurement => \A y \in txns : ~(y.op = "claim" /\ y.checked /\ y.tier = x.tier)

\* The refusals and the conflict check, against the claims committed by now.
CheckClaim(x) ==
    /\ x.op = "claim" /\ ~x.checked
    /\ LockFree(x)
    /\ Claimable(x.release, x.tier, x.items, x.until, x.at)
    /\ txns' = (txns \ {x}) \cup {[x EXCEPT !.checked = TRUE]}
    /\ UNCHANGED <<ledger, revived>>

CommitClaim(x) ==
    /\ x.op = "claim" /\ x.checked
    /\ InsertClaim(x.id, x.release, x.tier, x.items, x.until)
    /\ txns' = txns \ {x}
    /\ UNCHANGED <<releases, now, revived>>

\* The lease ended between the beginning of this renewal and its commit.
Straddles(x) == Live(x.id, x.at) /\ ~Live(x.id, now)

CommitRenew(x) ==
    /\ x.op = "renew"
    /\ Renewable(x.id, x.at)
    /\ ExtendLease(x.id, x.until)
    /\ txns' = txns \ {x}
    /\ revived' = IF Straddles(x) THEN revived \cup {x.id} ELSE revived
    /\ UNCHANGED <<releases, now>>

CommitEnd(x) ==
    /\ x.op = "end"
    /\ Endable(x.id)
    /\ EndClaim(x.id, x.status)
    /\ txns' = txns \ {x}
    /\ UNCHANGED <<releases, now, revived>>

\* A refusal raises, a lost connection aborts: either way nothing is written.
Rollback(x) == txns' = txns \ {x} /\ UNCHANGED <<ledger, revived>>

\* Re-registering is a no-op: the id is the hash of the payload.
RegisterRelease(r) ==
    /\ releases' = releases \cup {r}
    /\ UNCHANGED <<claims, now, txns, revived>>

Tick ==
    /\ now < MaxTime
    /\ now' = now + 1
    /\ UNCHANGED <<releases, claims, txns, revived>>

Next ==
    \/ \E id \in ClaimIds, r \in Releases, t \in Tiers, S \in SUBSET Works, u \in Leases :
           BeginClaim(id, r, t, S, u)
    \/ \E id \in ClaimIds, u \in Leases : BeginRenew(id, u)
    \/ \E id \in ClaimIds, s \in EndStatuses : BeginEnd(id, s)
    \/ \E x \in txns : CheckClaim(x)
    \/ \E x \in txns : CommitClaim(x)
    \/ \E x \in txns : CommitRenew(x)
    \/ \E x \in txns : CommitEnd(x)
    \/ \E x \in txns : Rollback(x)
    \/ \E r \in Releases : RegisterRelease(r)
    \/ Tick

Spec == Init /\ [][Next]_vars

-----------------------------------------------------------------------------
\* The tables and the open transactions have the shape the schema gives them.
TypeOK ==
    /\ LedgerTypeOK
    /\ txns \subseteq ClaimTxn \cup RenewTxn \cup EndTxn
    /\ revived \subseteq ClaimIds

\* Live claims of one locking tier that share a work.
Overlap(g, h) ==
    /\ g # h
    /\ Live(g, now) /\ Live(h, now)
    /\ claims[g].tier = claims[h].tier
    /\ claims[g].tier \in LockTiers
    /\ claims[g].items \cap claims[h].items # {}

\* Two live claims of one locking tier never share a work: the double spend
\* the lease and the advisory lock of engine_claim_batch exist to prevent, and
\* which the refusal claim_lease_lost of engine_renew_claim is said to exclude.
Exclusion == \A g, h \in ClaimIds : ~Overlap(g, h)

\* However claims, renewals and ends interleave and however long they stay open,
\* two live claims share a work only if one of them was renewed by a transaction
\* that began while its lease ran and committed after it had ended: between its
\* conflict check and its commit, a claim of engine_claim_batch is overtaken by no
\* other claim, and by an engine_renew_claim only in that way.
ExclusionUnlessRevived ==
    \A g, h \in ClaimIds : Overlap(g, h) => g \in revived \/ h \in revived

\* A claim is a record of what was spent: once written it keeps its release,
\* tier and works, its lease is never shortened, and once ended it keeps its
\* status, however late another runner ends or renews it.
Permanence ==
    [][\A id \in ClaimIds :
           claims[id].status # "absent" =>
               /\ claims'[id].release = claims[id].release
               /\ claims'[id].tier = claims[id].tier
               /\ claims'[id].items = claims[id].items
               /\ claims'[id].expires >= claims[id].expires
               /\ claims[id].status # "active" => claims'[id] = claims[id]]_vars

-----------------------------------------------------------------------------
\* The leases that were never revived are exclusive leases in the sense of
\* WorkLease, also while others overlap them.
Firm(id) == Live(id, now) /\ id \notin revived
firmHolders ==
    [slot \in LockTiers \X Works |->
        {id \in ClaimIds : Firm(id) /\ claims[id].tier = slot[1] /\ slot[2] \in claims[id].items}]
firmRetired ==
    {id \in ClaimIds : /\ claims[id].status # "absent"
                       /\ claims[id].tier \in LockTiers
                       /\ ~Firm(id)}

FirmLease == INSTANCE WorkLease WITH Slots <- LockTiers \X Works, Holder <- ClaimIds,
                                     holders <- firmHolders, retired <- firmRetired

\* The three RPCs take a batch whole or not at all, of works nobody firmly holds,
\* and a claim that ended, ran out or was written too late never holds again.
ImplementsFirmLease == FirmLease!Spec
=============================================================================
