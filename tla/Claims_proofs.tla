---------------------------- MODULE Claims_proofs ----------------------------
(***************************************************************************)
(* Theorems about Claims, for every set of works, tiers, releases, claim   *)
(* ids and lease ends, and every number of open transactions.              *)
(***************************************************************************)
EXTENDS Claims, ClaimLedger_proofs

-----------------------------------------------------------------------------
\* The shape of a row after each effect on the tables.

LEMMA InsertType ==
    ASSUME LedgerTypeOK, NEW id \in ClaimIds, NEW r \in Releases, NEW t \in Tiers,
           NEW S \in SUBSET Works, NEW u \in Nat, InsertClaim(id, r, t, S, u)
    PROVE  claims' \in [ClaimIds -> ClaimRow]
  BY DEF LedgerTypeOK, InsertClaim, ClaimRow

\* A row with another status, or another lease end, is still a row.
LEMMA StatusUpdate ==
    ASSUME NEW c \in ClaimRow, NEW s \in EndStatuses
    PROVE  [c EXCEPT !.status = s] \in ClaimRow
  BY DEF ClaimRow

LEMMA ExpiresUpdate ==
    ASSUME NEW c \in ClaimRow, NEW u \in Nat
    PROVE  [c EXCEPT !.expires = u] \in ClaimRow
  BY DEF ClaimRow

LEMMA EndType ==
    ASSUME LedgerTypeOK, NEW id \in ClaimIds, NEW s \in EndStatuses, EndClaim(id, s)
    PROVE  claims' \in [ClaimIds -> ClaimRow]
<1>1. claims \in [ClaimIds -> ClaimRow]
  BY DEF LedgerTypeOK
<1>2. PICK c \in ClaimRow : c = claims[id]
  BY <1>1
<1>3. claims' = [claims EXCEPT ![id] = [c EXCEPT !.status = s]]
  BY <1>2 DEF EndClaim
<1>4. PICK d \in ClaimRow : d = [c EXCEPT !.status = s]
  BY StatusUpdate
<1>5. QED
  BY <1>1, <1>3, <1>4

LEMMA ExtendType ==
    ASSUME LedgerTypeOK, NEW id \in ClaimIds, NEW u \in Nat, ExtendLease(id, u)
    PROVE  claims' \in [ClaimIds -> ClaimRow]
<1>1. claims \in [ClaimIds -> ClaimRow]
  BY DEF LedgerTypeOK
<1>2. PICK c \in ClaimRow : c = claims[id]
  BY <1>1
<1>3. PICK v : v = IF u > c.expires THEN u ELSE c.expires
  OBVIOUS
<1>4. v \in Nat
  BY <1>3 DEF ClaimRow
<1>5. claims' = [claims EXCEPT ![id] = [c EXCEPT !.expires = v]]
  BY <1>2, <1>3 DEF ExtendLease
<1>6. PICK d \in ClaimRow : d = [c EXCEPT !.expires = v]
  BY <1>4, ExpiresUpdate
<1>7. QED
  BY <1>1, <1>5, <1>6

LEMMA TxnType ==
    ASSUME TypeOK, NEW x \in txns
    PROVE  /\ x.at \in Nat
           /\ x.op = "claim" => x \in ClaimTxn /\ x.checked \in BOOLEAN
           /\ x.op = "renew" => x \in RenewTxn
           /\ x.op = "end" => x \in EndTxn
  BY DEF TypeOK, ClaimTxn, RenewTxn, EndTxn

\* A claim that has looked differs from itself before in nothing else.
LEMMA CheckedTxn ==
    ASSUME NEW x \in ClaimTxn
    PROVE  LET z == [x EXCEPT !.checked = TRUE]
           IN  /\ z \in ClaimTxn /\ z.op = "claim" /\ z.checked
               /\ z.id = x.id /\ z.release = x.release /\ z.tier = x.tier
               /\ z.items = x.items /\ z.until = x.until /\ z.at = x.at
  BY DEF ClaimTxn

\* Type correctness: whatever transactions run and abort, the tables and the
\* open transactions keep the shape the schema gives them.
THEOREM TypeCorrect == Spec => []TypeOK
<1>1. Init => TypeOK
  <2>1. NoClaim \in ClaimRow
    BY DEF NoClaim, ClaimRow
  <2>2. QED
    BY <2>1 DEF Init, TypeOK, LedgerInit, LedgerTypeOK
<1>2. TypeOK /\ [Next]_vars => TypeOK'
  <2> SUFFICES ASSUME TypeOK, [Next]_vars PROVE TypeOK'
    OBVIOUS
  <2> USE DEF TypeOK
  <2>1. ASSUME NEW id \in ClaimIds, NEW r \in Releases, NEW t \in Tiers,
               NEW S \in SUBSET Works, NEW u \in Leases, BeginClaim(id, r, t, S, u)
        PROVE  TypeOK'
    <3>1. now \in Nat
      BY DEF LedgerTypeOK
    <3>2. PICK z : z = [op |-> "claim", id |-> id, release |-> r, tier |-> t,
                        items |-> S, until |-> u, at |-> now, checked |-> FALSE]
      OBVIOUS
    <3>3. z \in ClaimTxn
      BY <3>1, <3>2 DEF ClaimTxn
    <3>4. txns' = txns \cup {z}
      BY <2>1, <3>2 DEF BeginClaim, Begin
    <3>5. QED
      BY <2>1, <3>3, <3>4 DEF BeginClaim, Begin, ledger, LedgerTypeOK
  <2>2. ASSUME NEW id \in ClaimIds, NEW u \in Leases, BeginRenew(id, u)
        PROVE  TypeOK'
    BY <2>2 DEF BeginRenew, Begin, ledger, LedgerTypeOK, RenewTxn
  <2>3. ASSUME NEW id \in ClaimIds, NEW s \in EndStatuses, BeginEnd(id, s)
        PROVE  TypeOK'
    BY <2>3 DEF BeginEnd, Begin, ledger, LedgerTypeOK, EndTxn
  <2>4. ASSUME NEW x \in txns, CommitClaim(x)
        PROVE  TypeOK'
    <3>1. x \in ClaimTxn
      BY <2>4, TxnType DEF CommitClaim
    <3>2. claims' \in [ClaimIds -> ClaimRow]
      BY <2>4, <3>1, InsertType, LeasesAssumption DEF CommitClaim, ClaimTxn
    <3>3. QED
      BY <2>4, <3>2 DEF CommitClaim, LedgerTypeOK
  <2>5. ASSUME NEW x \in txns, CommitRenew(x)
        PROVE  TypeOK'
    <3>1. x \in RenewTxn
      BY <2>5, TxnType DEF CommitRenew
    <3>2. claims' \in [ClaimIds -> ClaimRow]
      BY <2>5, <3>1, ExtendType, LeasesAssumption DEF CommitRenew, RenewTxn
    <3>3. QED
      BY <2>5, <3>1, <3>2 DEF CommitRenew, LedgerTypeOK, RenewTxn
  <2>6. ASSUME NEW x \in txns, CommitEnd(x)
        PROVE  TypeOK'
    <3>1. x \in EndTxn
      BY <2>6, TxnType DEF CommitEnd
    <3>2. claims' \in [ClaimIds -> ClaimRow]
      BY <2>6, <3>1, EndType DEF CommitEnd, EndTxn
    <3>3. QED
      BY <2>6, <3>2 DEF CommitEnd, LedgerTypeOK
  <2>7. ASSUME NEW x \in txns, Rollback(x)
        PROVE  TypeOK'
    BY <2>7 DEF Rollback, ledger, LedgerTypeOK
  <2>12. ASSUME NEW x \in txns, CheckClaim(x)
         PROVE  TypeOK'
    <3>1. x \in ClaimTxn
      BY <2>12, TxnType DEF CheckClaim
    <3>2. PICK z \in ClaimTxn : z = [x EXCEPT !.checked = TRUE]
      BY <3>1, CheckedTxn
    <3>3. QED
      BY <2>12, <3>2 DEF CheckClaim, ledger, LedgerTypeOK
  <2>8. ASSUME NEW r \in Releases, RegisterRelease(r)
        PROVE  TypeOK'
    BY <2>8 DEF RegisterRelease, LedgerTypeOK
  <2>9. CASE Tick
    BY <2>9 DEF Tick, LedgerTypeOK
  <2>10. CASE UNCHANGED vars
    BY <2>10 DEF vars, LedgerTypeOK
  <2>11. QED
    BY <2>1, <2>2, <2>3, <2>4, <2>5, <2>6, <2>7, <2>8, <2>9, <2>10, <2>12 DEF Next
<1>3. QED
  BY <1>1, <1>2, PTL DEF Spec

-----------------------------------------------------------------------------
\* An open transaction began in the past.
ClockInv == \A x \in txns : x.at <= now

\* A written claim names a known tier and at least one work.
RowInv ==
    \A id \in ClaimIds :
        claims[id].status # "absent" => claims[id].tier \in Tiers /\ claims[id].items # {}

LEMMA ClockInvariant == Spec => []ClockInv
<1>1. Init => ClockInv
  BY DEF Init, ClockInv
<1>2. TypeOK /\ TypeOK' /\ ClockInv /\ [Next]_vars => ClockInv'
  <2> SUFFICES ASSUME TypeOK, TypeOK', ClockInv, [Next]_vars PROVE ClockInv'
    OBVIOUS
  <2>1. now \in Nat /\ \A x \in txns : x.at \in Nat
    BY TxnType DEF TypeOK, LedgerTypeOK
  <2>2. ASSUME NEW txn, Begin(txn), txn.at = now
        PROVE  ClockInv'
    BY <2>1, <2>2 DEF Begin, ledger, ClockInv
  <2>3. ASSUME txns' \subseteq txns, now' = now
        PROVE  ClockInv'
    BY <2>3 DEF ClockInv
  <2>4. CASE Tick
    BY <2>1, <2>4 DEF Tick, ClockInv
  <2>5. CASE UNCHANGED vars
    BY <2>3, <2>5 DEF vars
  <2>6. ASSUME NEW x \in txns, CommitClaim(x) \/ CommitRenew(x) \/ CommitEnd(x) \/ Rollback(x)
        PROVE  ClockInv'
    BY <2>3, <2>6 DEF CommitClaim, CommitRenew, CommitEnd, Rollback, ledger
  <2>7. ASSUME NEW r \in Releases, RegisterRelease(r)
        PROVE  ClockInv'
    BY <2>3, <2>7 DEF RegisterRelease
  <2>8. ASSUME NEW id \in ClaimIds, NEW r \in Releases, NEW t \in Tiers,
               NEW S \in SUBSET Works, NEW u \in Leases, BeginClaim(id, r, t, S, u)
        PROVE  ClockInv'
    BY <2>2, <2>8 DEF BeginClaim
  <2>9. ASSUME NEW id \in ClaimIds, NEW u \in Leases, BeginRenew(id, u)
        PROVE  ClockInv'
    BY <2>2, <2>9 DEF BeginRenew
  <2>10. ASSUME NEW id \in ClaimIds, NEW s \in EndStatuses, BeginEnd(id, s)
        PROVE  ClockInv'
    BY <2>2, <2>10 DEF BeginEnd
  <2>12. ASSUME NEW x \in txns, CheckClaim(x)
         PROVE  ClockInv'
    <3>1. x \in ClaimTxn
      BY <2>12, TxnType DEF CheckClaim
    <3>2. PICK z \in ClaimTxn : z = [x EXCEPT !.checked = TRUE] /\ z.at = x.at
      BY <3>1, CheckedTxn
    <3>3. QED
      BY <2>12, <3>2 DEF CheckClaim, ledger, ClockInv
  <2>11. QED
    BY <2>4, <2>5, <2>6, <2>7, <2>8, <2>9, <2>10, <2>12 DEF Next
<1>3. QED
  BY <1>1, <1>2, TypeCorrect, PTL DEF Spec

-----------------------------------------------------------------------------
\* Every step either leaves the claims alone, or inserts, extends or ends one.
Inserts(x) == /\ x \in ClaimTxn /\ x \in txns
              /\ x.checked
              /\ InsertClaim(x.id, x.release, x.tier, x.items, x.until)
              /\ now' = now /\ revived' = revived /\ txns' = txns \ {x}
Extends(x) == /\ x \in RenewTxn /\ x \in txns
              /\ Renewable(x.id, x.at) /\ ExtendLease(x.id, x.until)
              /\ now' = now /\ txns' = txns \ {x}
              /\ revived' = IF Straddles(x) THEN revived \cup {x.id} ELSE revived
Ends(x)    == /\ x \in EndTxn /\ x \in txns
              /\ Endable(x.id) /\ EndClaim(x.id, x.status)
              /\ now' = now /\ revived' = revived /\ txns' = txns \ {x}

LEMMA Effects ==
    ASSUME TypeOK, [Next]_vars
    PROVE  \/ claims' = claims /\ now' = now /\ revived' = revived
           \/ claims' = claims /\ revived' = revived /\ Tick
           \/ \E x \in txns : Inserts(x) \/ Extends(x) \/ Ends(x)
<1>1. ASSUME NEW x \in txns, CommitClaim(x) PROVE Inserts(x)
  BY <1>1, TxnType DEF CommitClaim, Inserts
<1>2. ASSUME NEW x \in txns, CommitRenew(x) PROVE Extends(x)
  BY <1>2, TxnType DEF CommitRenew, Extends
<1>3. ASSUME NEW x \in txns, CommitEnd(x) PROVE Ends(x)
  BY <1>3, TxnType DEF CommitEnd, Ends
<1>4. ASSUME NEW txn, Begin(txn) PROVE claims' = claims /\ now' = now /\ revived' = revived
  BY <1>4 DEF Begin, ledger
<1>5. CASE UNCHANGED vars
  BY <1>5 DEF vars
<1>6. CASE \/ \E id \in ClaimIds, r \in Releases, t \in Tiers, S \in SUBSET Works, u \in Leases :
                 BeginClaim(id, r, t, S, u)
           \/ \E id \in ClaimIds, u \in Leases : BeginRenew(id, u)
           \/ \E id \in ClaimIds, s \in EndStatuses : BeginEnd(id, s)
  BY <1>4, <1>6 DEF BeginClaim, BeginRenew, BeginEnd
<1>7. CASE \E x \in txns : Rollback(x) \/ CheckClaim(x)
  BY <1>7 DEF Rollback, CheckClaim, ledger
<1>8. CASE \E r \in Releases : RegisterRelease(r)
  BY <1>8 DEF RegisterRelease
<1>9. CASE Tick
  BY <1>9 DEF Tick
<1>10. QED
  BY <1>1, <1>2, <1>3, <1>5, <1>6, <1>7, <1>8, <1>9 DEF Next

\* An update of one field leaves the others as they were.
LEMMA RowUpdate ==
    ASSUME NEW r \in ClaimRow, NEW v
    PROVE  /\ LET e == [r EXCEPT !.expires = v]
              IN  e.release = r.release /\ e.tier = r.tier /\ e.items = r.items /\ e.expires = v
                  /\ e.status = r.status
           /\ LET e == [r EXCEPT !.status = v]
              IN  e.release = r.release /\ e.tier = r.tier /\ e.items = r.items
                  /\ e.expires = r.expires
  BY DEF ClaimRow

\* A claim that has looked offers at least one work.
OfferInv == \A x \in txns : x.op = "claim" /\ x.checked => x.items # {}

LEMMA OfferInvariant == Spec => []OfferInv
<1>1. Init => OfferInv
  BY DEF Init, OfferInv
<1>2. TypeOK /\ OfferInv /\ [Next]_vars => OfferInv'
  <2> SUFFICES ASSUME TypeOK, OfferInv, [Next]_vars PROVE OfferInv'
    OBVIOUS
  <2>1. CASE txns' \subseteq txns
    BY <2>1 DEF OfferInv
  <2>2. CASE \/ \E id \in ClaimIds, r \in Releases, t \in Tiers, S \in SUBSET Works, u \in Leases :
                   BeginClaim(id, r, t, S, u)
             \/ \E id \in ClaimIds, u \in Leases : BeginRenew(id, u)
             \/ \E id \in ClaimIds, s \in EndStatuses : BeginEnd(id, s)
    BY <2>2 DEF BeginClaim, BeginRenew, BeginEnd, Begin, OfferInv
  <2>3. ASSUME NEW x \in txns, CheckClaim(x)
        PROVE  OfferInv'
    <3>1. x \in ClaimTxn
      BY <2>3, TxnType DEF CheckClaim
    <3>2. PICK z \in ClaimTxn : z = [x EXCEPT !.checked = TRUE] /\ z.items = x.items
      BY <3>1, CheckedTxn
    <3>3. QED
      BY <2>3, <3>2 DEF CheckClaim, Claimable, OfferInv
  <2>4. QED
    BY <2>1, <2>2, <2>3
    DEF Next, CommitClaim, CommitRenew, CommitEnd, Rollback, RegisterRelease, Tick, vars
<1>3. QED
  BY <1>1, <1>2, TypeCorrect, PTL DEF Spec

\* The id of a transaction that inserts has no row: it was fresh when the
\* transaction began, and only that transaction can insert it.
FreshInv ==
    \A x \in txns :
        x.op = "claim" =>
            /\ claims[x.id].status = "absent"
            /\ \A y \in txns : y.op = "claim" /\ y.id = x.id => y = x

LEMMA RowInvariant == Spec => []RowInv
<1>1. Init => RowInv
  <2>1. NoClaim.status = "absent"
    BY DEF NoClaim
  <2>2. QED
    BY <2>1 DEF Init, LedgerInit, RowInv
<1>2. TypeOK /\ OfferInv /\ RowInv /\ [Next]_vars => RowInv'
  <2> SUFFICES ASSUME TypeOK, OfferInv, RowInv, [Next]_vars PROVE RowInv'
    OBVIOUS
  <2>1. claims \in [ClaimIds -> ClaimRow]
    BY DEF TypeOK, LedgerTypeOK
  <2>2. ASSUME NEW x \in txns, Inserts(x) PROVE RowInv'
    <3>1. x \in ClaimTxn /\ x.items # {}
      BY <2>2, TxnType DEF Inserts, OfferInv, ClaimTxn
    <3>2. /\ claims'[x.id].tier = x.tier /\ claims'[x.id].items = x.items
          /\ \A id \in ClaimIds : id # x.id => claims'[id] = claims[id]
      BY <2>1, <2>2, <3>1 DEF Inserts, InsertClaim, ClaimTxn
    <3>3. x.tier \in Tiers
      BY <3>1 DEF ClaimTxn
    <3>4. QED
      BY <3>1, <3>2, <3>3 DEF RowInv
  <2>3. ASSUME NEW x \in txns, Extends(x) PROVE RowInv'
    <3>1. PICK c \in ClaimRow : c = claims[x.id]
      BY <2>1, <2>3 DEF Extends, RenewTxn
    <3>2. PICK v : claims' = [claims EXCEPT ![x.id] = [c EXCEPT !.expires = v]]
      BY <2>3, <3>1 DEF Extends, ExtendLease
    <3>3. PICK d : d = [c EXCEPT !.expires = v]
      OBVIOUS
    <3>4. d.status = c.status /\ d.tier = c.tier /\ d.items = c.items
      BY <3>3, RowUpdate
    <3>5. QED
      BY <2>1, <3>1, <3>2, <3>3, <3>4 DEF RowInv
  <2>4. ASSUME NEW x \in txns, Ends(x) PROVE RowInv'
    <3>1. PICK c \in ClaimRow : c = claims[x.id]
      BY <2>1, <2>4 DEF Ends, EndTxn
    <3>2. /\ claims' = [claims EXCEPT ![x.id] = [c EXCEPT !.status = x.status]]
          /\ c.status = "active" /\ x.id \in ClaimIds
      BY <2>4, <3>1 DEF Ends, EndClaim, Endable, EndTxn
    <3>3. PICK d : d = [c EXCEPT !.status = x.status]
      OBVIOUS
    <3>4. d.tier = c.tier /\ d.items = c.items
      BY <3>3, RowUpdate
    <3>5. c.tier \in Tiers /\ c.items # {}
      BY <3>1, <3>2 DEF RowInv
    <3>6. QED
      BY <2>1, <3>1, <3>2, <3>3, <3>4, <3>5 DEF RowInv
  <2>5. QED
    BY <2>2, <2>3, <2>4, Effects DEF RowInv
<1>3. QED
  BY <1>1, <1>2, TypeCorrect, OfferInvariant, PTL DEF Spec

LEMMA FreshInvariant == Spec => []FreshInv
<1>1. Init => FreshInv
  BY DEF Init, FreshInv
<1>2. TypeOK /\ FreshInv /\ [Next]_vars => FreshInv'
  <2> SUFFICES ASSUME TypeOK, FreshInv, [Next]_vars PROVE FreshInv'
    OBVIOUS
  <2>1. claims \in [ClaimIds -> ClaimRow]
    BY DEF TypeOK, LedgerTypeOK
  <2>2. ASSUME NEW id \in ClaimIds, NEW r \in Releases, NEW t \in Tiers,
               NEW S \in SUBSET Works, NEW u \in Leases, BeginClaim(id, r, t, S, u)
        PROVE  FreshInv'
    <3>1. PICK z : z = [op |-> "claim", id |-> id, release |-> r, tier |-> t,
                        items |-> S, until |-> u, at |-> now, checked |-> FALSE]
      OBVIOUS
    <3>2. z.id = id
      BY <3>1
    <3>3. claims' = claims /\ txns' = txns \cup {z}
      BY <2>2, <3>1 DEF BeginClaim, Begin, ledger
    <3>4. claims[id].status = "absent" /\ \A y \in txns : y.op = "claim" => y.id # id
      BY <2>2 DEF BeginClaim
    <3>5. QED
      BY <3>2, <3>3, <3>4 DEF FreshInv
  <2>3. ASSUME NEW id \in ClaimIds, NEW u \in Leases, BeginRenew(id, u)
        PROVE  FreshInv'
    BY <2>3 DEF BeginRenew, Begin, ledger, FreshInv
  <2>4. ASSUME NEW id \in ClaimIds, NEW s \in EndStatuses, BeginEnd(id, s)
        PROVE  FreshInv'
    BY <2>4 DEF BeginEnd, Begin, ledger, FreshInv
  <2>5. ASSUME NEW x \in txns, CommitClaim(x)
        PROVE  FreshInv'
    <3>1. x \in ClaimTxn
      BY <2>5, TxnType DEF CommitClaim
    <3>2. \A y \in txns' : y.op = "claim" => y.id # x.id
      BY <2>5 DEF CommitClaim, FreshInv
    <3>3. \A id \in ClaimIds : id # x.id => claims'[id] = claims[id]
      BY <2>1, <2>5, <3>1 DEF CommitClaim, InsertClaim, ClaimTxn
    <3>4. \A y \in txns : y.op = "claim" => y.id \in ClaimIds
      BY TxnType DEF ClaimTxn
    <3>5. QED
      BY <2>5, <3>2, <3>3, <3>4 DEF CommitClaim, FreshInv
  <2>6. ASSUME NEW x \in txns, CommitRenew(x) \/ CommitEnd(x)
        PROVE  FreshInv'
    <3>1. x.id \in ClaimIds /\ claims[x.id].status # "absent"
      BY <2>6, TxnType DEF CommitRenew, CommitEnd, RenewTxn, EndTxn, Renewable, Live, Endable
    <3>2. \A id \in ClaimIds : id # x.id => claims'[id] = claims[id]
      BY <2>1, <2>6 DEF CommitRenew, CommitEnd, ExtendLease, EndClaim
    <3>3. \A y \in txns : y.op = "claim" => y.id \in ClaimIds
      BY TxnType DEF ClaimTxn
    <3>4. QED
      BY <2>6, <3>1, <3>2, <3>3 DEF CommitRenew, CommitEnd, FreshInv
  <2>7. ASSUME NEW x \in txns, Rollback(x)
        PROVE  FreshInv'
    BY <2>7 DEF Rollback, ledger, FreshInv
  <2>8. CASE (\E r \in Releases : RegisterRelease(r)) \/ Tick \/ UNCHANGED vars
    BY <2>8 DEF RegisterRelease, Tick, vars, FreshInv
  <2>10. ASSUME NEW x \in txns, CheckClaim(x)
         PROVE  FreshInv'
    <3>1. x \in ClaimTxn
      BY <2>10, TxnType DEF CheckClaim
    <3>2. PICK z \in ClaimTxn : z = [x EXCEPT !.checked = TRUE] /\ z.id = x.id
      BY <3>1, CheckedTxn
    <3>3. claims' = claims /\ txns' = (txns \ {x}) \cup {z}
      BY <2>10, <3>2 DEF CheckClaim, ledger
    <3>4. x.op = "claim"
      BY <2>10 DEF CheckClaim
    <3>5. /\ claims[z.id].status = "absent"
          /\ \A y \in txns : y.op = "claim" /\ y.id = z.id => y = x
      BY <3>2, <3>4 DEF FreshInv
    <3>6. \A y \in txns' : y.op = "claim" /\ y.id = z.id => y = z
      BY <3>3, <3>5
    <3>7. \A y \in txns : y # x /\ y.op = "claim" => y.id # z.id
      BY <3>5
    <3>8. \A y \in txns' : y.op = "claim" /\ y # z =>
              /\ claims'[y.id].status = "absent"
              /\ \A y2 \in txns' : y2.op = "claim" /\ y2.id = y.id => y2 = y
      BY <3>3, <3>7 DEF FreshInv
    <3>9. QED
      BY <3>3, <3>5, <3>6, <3>8 DEF FreshInv
  <2>9. QED
    BY <2>2, <2>3, <2>4, <2>5, <2>6, <2>7, <2>8, <2>10 DEF Next
<1>3. QED
  BY <1>1, <1>2, TypeCorrect, PTL DEF Spec

-----------------------------------------------------------------------------
\* Permanence of the ledger, whatever the transactions interleave to: a row
\* is never rewritten, a lease never shortened, an ended claim never touched.
THEOREM LedgerPermanence == Spec => Permanence
<1>1. TypeOK /\ FreshInv /\ [Next]_vars =>
        \A id \in ClaimIds :
           claims[id].status # "absent" =>
               /\ claims'[id].release = claims[id].release
               /\ claims'[id].tier = claims[id].tier
               /\ claims'[id].items = claims[id].items
               /\ claims'[id].expires >= claims[id].expires
               /\ claims[id].status # "active" => claims'[id] = claims[id]
  <2> SUFFICES ASSUME TypeOK, FreshInv, [Next]_vars,
                      NEW id \in ClaimIds, claims[id].status # "absent"
               PROVE  /\ claims'[id].release = claims[id].release
                      /\ claims'[id].tier = claims[id].tier
                      /\ claims'[id].items = claims[id].items
                      /\ claims'[id].expires >= claims[id].expires
                      /\ claims[id].status # "active" => claims'[id] = claims[id]
    OBVIOUS
  <2>1. claims \in [ClaimIds -> ClaimRow] /\ claims[id].expires \in Nat
    BY DEF TypeOK, LedgerTypeOK, ClaimRow
  <2>2. CASE claims'[id] = claims[id]
    BY <2>1, <2>2
  <2>3. ASSUME NEW x \in txns, Inserts(x) PROVE claims'[id] = claims[id]
    BY <2>1, <2>3 DEF Inserts, InsertClaim, ClaimTxn, FreshInv
  <2>4. ASSUME NEW x \in txns, Extends(x), x.id = id
        PROVE  /\ claims'[id] = [claims[id] EXCEPT !.expires =
                                   IF x.until > @ THEN x.until ELSE @]
               /\ claims[id].status = "active" /\ x.until \in Nat
    BY <2>1, <2>4, LeasesAssumption DEF Extends, ExtendLease, Renewable, Live, RenewTxn
  <2>5. ASSUME NEW x \in txns, Ends(x), x.id = id
        PROVE  /\ claims'[id] = [claims[id] EXCEPT !.status = x.status]
               /\ claims[id].status = "active"
    BY <2>1, <2>5 DEF Ends, EndClaim, Endable
  <2>6. ASSUME NEW x \in txns, Extends(x) \/ Ends(x), x.id # id
        PROVE  claims'[id] = claims[id]
    BY <2>1, <2>6 DEF Extends, Ends, ExtendLease, EndClaim
  <2>7. claims[id] \in ClaimRow
    BY <2>1
  <2>8. ASSUME NEW x \in txns, Extends(x), x.id = id
        PROVE  /\ claims'[id].release = claims[id].release
               /\ claims'[id].tier = claims[id].tier
               /\ claims'[id].items = claims[id].items
               /\ claims'[id].expires >= claims[id].expires
    <3> DEFINE u == IF x.until > claims[id].expires THEN x.until ELSE claims[id].expires
    <3>1. claims'[id] = [claims[id] EXCEPT !.expires = u]
      BY <2>4, <2>8
    <3>2. u >= claims[id].expires
      <4>1. x.until \in Nat
        BY <2>4, <2>8
      <4>2. QED
        BY <2>1, <4>1
    <3> HIDE DEF u
    <3>3. QED
      BY <2>7, <3>1, <3>2, RowUpdate
  <2>9. ASSUME NEW x \in txns, Ends(x), x.id = id
        PROVE  /\ claims'[id].release = claims[id].release
               /\ claims'[id].tier = claims[id].tier
               /\ claims'[id].items = claims[id].items
               /\ claims'[id].expires >= claims[id].expires
    <3>1. claims'[id] = [claims[id] EXCEPT !.status = x.status]
      BY <2>5, <2>9
    <3>2. /\ claims'[id].release = claims[id].release
          /\ claims'[id].tier = claims[id].tier
          /\ claims'[id].items = claims[id].items
          /\ claims'[id].expires = claims[id].expires
      BY <2>7, <3>1, RowUpdate
    <3>3. QED
      BY <2>1, <3>2
  <2>10. QED
    BY <2>2, <2>3, <2>4, <2>5, <2>6, <2>8, <2>9, Effects
<1>2. QED
  BY <1>1, TypeCorrect, FreshInvariant, PTL DEF Spec, Permanence

-----------------------------------------------------------------------------
\* What the advisory lock keeps while a claim is between its check and its
\* commit: it is the only one of its tier there, and no firm lease holds one of
\* its works.  A lease that was revived meanwhile may.
Locking(x) == x.op = "claim" /\ x.checked /\ x.tier \in LockTiers

LockInv ==
    /\ \A x, y \in txns : Locking(x) /\ Locking(y) /\ x.tier = y.tier => x = y
    /\ \A x \in txns, h \in ClaimIds :
          Locking(x) /\ Firm(h) /\ claims[h].tier = x.tier => x.items \cap claims[h].items = {}

\* A lease becomes firm by its insert only: a renewal makes live what was live,
\* or it straddled the lease end and is remembered for it.
LEMMA FirmAfter ==
    ASSUME TypeOK, FreshInv, [Next]_vars, NEW id \in ClaimIds, Firm(id)'
    PROVE  \/ /\ Firm(id)
              /\ claims'[id].tier = claims[id].tier
              /\ claims'[id].items = claims[id].items
           \/ \E x \in txns : /\ Inserts(x) /\ x.id = id
                              /\ claims'[id].tier = x.tier
                              /\ claims'[id].items = x.items
<1>1. /\ claims \in [ClaimIds -> ClaimRow] /\ claims[id] \in ClaimRow
      /\ claims[id].expires \in Nat /\ now \in Nat
  BY DEF TypeOK, LedgerTypeOK, ClaimRow
<1>2. CASE claims' = claims /\ now' = now /\ revived' = revived
  BY <1>2 DEF Firm, Live
<1>3. CASE claims' = claims /\ revived' = revived /\ Tick
  BY <1>1, <1>3 DEF Firm, Live, Tick
<1>4. ASSUME NEW x \in txns, Inserts(x), x.id = id
      PROVE  claims'[id].tier = x.tier /\ claims'[id].items = x.items
  BY <1>1, <1>4 DEF Inserts, InsertClaim
<1>5. ASSUME NEW x \in txns, Inserts(x) \/ Extends(x) \/ Ends(x), x.id # id
      PROVE  claims'[id] = claims[id] /\ Firm(id)
  <2>1. claims'[id] = claims[id] /\ now' = now
    BY <1>1, <1>5 DEF Inserts, Extends, Ends, InsertClaim, ExtendLease, EndClaim
  <2>2. revived \subseteq revived'
    BY <1>5 DEF Inserts, Extends, Ends
  <2>3. QED
    BY <2>1, <2>2 DEF Firm, Live
<1>6. ASSUME NEW x \in txns, Extends(x), x.id = id
      PROVE  /\ Firm(id)
             /\ claims'[id].tier = claims[id].tier
             /\ claims'[id].items = claims[id].items
  <2>1. Live(id, x.at)
    BY <1>6 DEF Extends, Renewable
  <2>2. ~Straddles(x) /\ id \notin revived
    BY <1>6 DEF Extends, Firm
  <2>3. Firm(id)
    BY <1>6, <2>1, <2>2 DEF Straddles, Firm
  <2>4. PICK u : claims'[id] = [claims[id] EXCEPT !.expires = u]
    BY <1>1, <1>6 DEF Extends, ExtendLease
  <2>5. QED
    BY <1>1, <2>3, <2>4, RowUpdate
<1>7. ASSUME NEW x \in txns, Ends(x), x.id = id PROVE FALSE
  <2>1. claims'[id].status = x.status
    BY <1>1, <1>7 DEF Ends, EndClaim, ClaimRow
  <2>2. x.status # "active"
    BY <1>7 DEF Ends, EndTxn, EndStatuses
  <2>3. QED
    BY <2>1, <2>2 DEF Firm, Live
<1>8. QED
  BY <1>2, <1>3, <1>4, <1>5, <1>6, <1>7, Effects

\* At its check a claim conflicts with no lease that is live now: one that
\* outlives the present outlives the moment the transaction began.
LEMMA CheckFree ==
    ASSUME TypeOK, ClockInv, NEW x \in txns, CheckClaim(x), x.tier \in LockTiers,
           NEW h \in ClaimIds, Live(h, now), claims[h].tier = x.tier
    PROVE  x.items \cap claims[h].items = {}
<1>1. claims[h].expires \in Nat /\ now \in Nat /\ x.at \in Nat /\ x.at <= now
  BY TxnType DEF TypeOK, LedgerTypeOK, ClaimRow, ClockInv
<1>2. Live(h, x.at)
  BY <1>1 DEF Live
<1>3. x.tier # Measurement
  BY MeasurementAssumption
<1>4. Conflicts(x.tier, x.items, x.at) = {}
  BY <1>3 DEF CheckClaim, Claimable
<1>5. QED
  BY <1>2, <1>4 DEF Conflicts

\* Every step keeps the open transactions, adds one that has not looked, lets
\* one look, or removes one.
LEMMA TxnSteps ==
    ASSUME TypeOK, [Next]_vars
    PROVE  \/ \A y \in txns' : y \in txns \/ ~Locking(y)
           \/ \E x \in txns : CheckClaim(x)
<1>1. CASE txns' \subseteq txns
  BY <1>1
<1>2. CASE \/ \E id \in ClaimIds, r \in Releases, t \in Tiers, S \in SUBSET Works, u \in Leases :
                 BeginClaim(id, r, t, S, u)
           \/ \E id \in ClaimIds, u \in Leases : BeginRenew(id, u)
           \/ \E id \in ClaimIds, s \in EndStatuses : BeginEnd(id, s)
  BY <1>2 DEF BeginClaim, BeginRenew, BeginEnd, Begin, Locking
<1>3. QED
  BY <1>1, <1>2
  DEF Next, CommitClaim, CommitRenew, CommitEnd, Rollback, RegisterRelease, Tick, vars

LEMMA LockInvariant == Spec => []LockInv
<1>1. Init => LockInv
  BY DEF Init, LockInv
<1>2. TypeOK /\ ClockInv /\ FreshInv /\ LockInv /\ [Next]_vars => LockInv'
  <2> SUFFICES ASSUME TypeOK, ClockInv, FreshInv, LockInv, [Next]_vars PROVE LockInv'
    OBVIOUS
  <2>1. ASSUME NEW x \in txns, CheckClaim(x)
        PROVE  LockInv'
    <3>1. x \in ClaimTxn
      BY <2>1, TxnType DEF CheckClaim
    <3>2. PICK z \in ClaimTxn :
              /\ z = [x EXCEPT !.checked = TRUE] /\ z.op = "claim" /\ z.checked
              /\ z.tier = x.tier /\ z.items = x.items
      BY <3>1, CheckedTxn
    <3>3. /\ txns' = (txns \ {x}) \cup {z}
          /\ claims' = claims /\ now' = now /\ revived' = revived
      BY <2>1, <3>2 DEF CheckClaim, ledger
    <3>4. ASSUME x.tier \in LockTiers, NEW y \in txns, Locking(y) PROVE y.tier # x.tier
      BY <2>1, <3>4, MeasurementAssumption DEF CheckClaim, LockFree, Locking
    <3>5. \A y1, y2 \in txns' : Locking(y1) /\ Locking(y2) /\ y1.tier = y2.tier => y1 = y2
      <4> SUFFICES ASSUME NEW y1 \in txns', NEW y2 \in txns',
                          Locking(y1), Locking(y2), y1.tier = y2.tier
                   PROVE  y1 = y2
        OBVIOUS
      <4>1. CASE y1 = z /\ y2 \in txns
        BY <3>2, <3>4, <4>1 DEF Locking
      <4>2. CASE y2 = z /\ y1 \in txns
        BY <3>2, <3>4, <4>2 DEF Locking
      <4>3. CASE y1 \in txns /\ y2 \in txns
        BY <4>3 DEF LockInv
      <4>4. QED
        BY <3>3, <4>1, <4>2, <4>3
    <3>6. ASSUME NEW y \in txns', NEW h \in ClaimIds, Locking(y), Firm(h), claims[h].tier = y.tier
          PROVE  y.items \cap claims[h].items = {}
      <4>1. CASE y = z
        BY <2>1, <3>2, <3>6, <4>1, CheckFree DEF Locking, Firm
      <4>2. CASE y \in txns
        BY <3>6, <4>2 DEF LockInv
      <4>3. QED
        BY <3>3, <4>1, <4>2
    <3>7. \A h \in ClaimIds : Firm(h)' <=> Firm(h)
      BY <3>3 DEF Firm, Live
    <3>8. QED
      BY <3>3, <3>5, <3>6, <3>7 DEF LockInv, Locking
  <2>2. CASE \A y \in txns' : y \in txns \/ ~Locking(y)
    <3>1. \A x, y \in txns' : Locking(x) /\ Locking(y) /\ x.tier = y.tier => x = y
      BY <2>2 DEF LockInv
    <3>2. ASSUME NEW y \in txns', NEW h \in ClaimIds,
                 Locking(y), Firm(h)', claims'[h].tier = y.tier
          PROVE  y.items \cap claims'[h].items = {}
      <4>1. y \in txns
        BY <2>2, <3>2
      <4>2. CASE Firm(h) /\ claims'[h].tier = claims[h].tier /\ claims'[h].items = claims[h].items
        BY <3>2, <4>1, <4>2 DEF LockInv
      <4>3. ASSUME NEW x \in txns, Inserts(x), claims'[h].tier = x.tier
            PROVE  FALSE
        <5>1. Locking(x) /\ x.tier = y.tier
          BY <3>2, <4>3 DEF Inserts, Locking, ClaimTxn
        <5>2. x = y
          BY <3>2, <4>1, <5>1 DEF LockInv
        <5>3. QED
          BY <4>3, <5>2 DEF Inserts
      <4>4. QED
        BY <3>2, <4>2, <4>3, FirmAfter
    <3>3. QED
      BY <3>1, <3>2 DEF LockInv, Locking
  <2>3. QED
    BY <2>1, <2>2, TxnSteps
<1>3. QED
  BY <1>1, <1>2, TypeCorrect, ClockInvariant, FreshInvariant, PTL DEF Spec

-----------------------------------------------------------------------------
\* Two firm leases of one locking tier share no work.
FirmApart ==
    \A g, h \in ClaimIds :
        /\ g # h /\ Firm(g) /\ Firm(h)
        /\ claims[g].tier = claims[h].tier /\ claims[g].tier \in LockTiers
        => claims[g].items \cap claims[h].items = {}

LEMMA FirmStayApart == Spec => []FirmApart
<1>1. Init => FirmApart
  <2>1. NoClaim.status = "absent"
    BY DEF NoClaim
  <2>2. QED
    BY <2>1 DEF Init, LedgerInit, FirmApart, Firm, Live
<1>2. TypeOK /\ FreshInv /\ LockInv /\ FirmApart /\ [Next]_vars => FirmApart'
  <2> SUFFICES ASSUME TypeOK, FreshInv, LockInv, FirmApart, [Next]_vars,
                      NEW g \in ClaimIds, NEW h \in ClaimIds, g # h,
                      Firm(g)', Firm(h)',
                      claims'[g].tier = claims'[h].tier, claims'[g].tier \in LockTiers
               PROVE  claims'[g].items \cap claims'[h].items = {}
    BY DEF FirmApart
  <2>1. CASE /\ Firm(g) /\ claims'[g].tier = claims[g].tier /\ claims'[g].items = claims[g].items
             /\ Firm(h) /\ claims'[h].tier = claims[h].tier /\ claims'[h].items = claims[h].items
    BY <2>1 DEF FirmApart
  <2>2. ASSUME NEW x \in txns, Inserts(x),
               NEW a \in ClaimIds, NEW b \in ClaimIds, a # b, x.id = a,
               claims'[a].tier = x.tier, claims'[a].items = x.items,
               Firm(b)', claims'[b].tier = claims'[a].tier,
               claims'[a].tier \in LockTiers
        PROVE  claims'[a].items \cap claims'[b].items = {}
    <3>1. claims'[b] = claims[b] /\ now' = now /\ revived' = revived
      BY <2>2 DEF Inserts, InsertClaim, TypeOK, LedgerTypeOK
    <3>2. Firm(b)
      BY <2>2, <3>1 DEF Firm, Live
    <3>3. Locking(x)
      BY <2>2 DEF Inserts, Locking, ClaimTxn
    <3>4. QED
      BY <2>2, <3>1, <3>2, <3>3 DEF LockInv
  <2>3. CASE \E x \in txns : /\ Inserts(x) /\ x.id = g
                             /\ claims'[g].tier = x.tier /\ claims'[g].items = x.items
    BY <2>2, <2>3
  <2>4. CASE \E x \in txns : /\ Inserts(x) /\ x.id = h
                             /\ claims'[h].tier = x.tier /\ claims'[h].items = x.items
    BY <2>2, <2>4
  <2>5. QED
    BY <2>1, <2>3, <2>4, FirmAfter
<1>3. QED
  BY <1>1, <1>2, TypeCorrect, FreshInvariant, LockInvariant, PTL DEF Spec

\* For any number of claims, works, tiers and transactions, open as long as they
\* like: two live claims share a work only if a renewal straddled the end of the
\* lease of one of them (engine_claim_batch against engine_renew_claim).
THEOREM OverlapsAreRevived == Spec => []ExclusionUnlessRevived
<1>1. FirmApart => ExclusionUnlessRevived
  BY DEF FirmApart, ExclusionUnlessRevived, Overlap, Firm
<1>2. QED
  BY <1>1, FirmStayApart, PTL

-----------------------------------------------------------------------------
\* Every step of the tables is one of exclusive leases, or none.

\* A step that inserts nothing leaves every row its works and makes none firm.
LEMMA NoInsert ==
    ASSUME TypeOK, FreshInv, [Next]_vars, ~\E x \in txns : Inserts(x), NEW id \in ClaimIds
    PROVE  /\ claims'[id].tier = claims[id].tier /\ claims'[id].items = claims[id].items
           /\ (claims'[id].status = "absent") <=> (claims[id].status = "absent")
           /\ Firm(id)' => Firm(id)
<1>1. claims \in [ClaimIds -> ClaimRow]
  BY DEF TypeOK, LedgerTypeOK
<1>2. Firm(id)' => Firm(id)
  BY FirmAfter
<1>3. CASE claims' = claims
  BY <1>2, <1>3
<1>4. ASSUME NEW x \in txns, Extends(x) \/ Ends(x)
      PROVE  /\ claims'[id].tier = claims[id].tier /\ claims'[id].items = claims[id].items
             /\ (claims'[id].status = "absent") <=> (claims[id].status = "absent")
  <2>1. CASE x.id # id
    BY <1>1, <1>4, <2>1 DEF Extends, Ends, ExtendLease, EndClaim
  <2>2. CASE x.id = id /\ Extends(x)
    <3>1. PICK u : claims'[id] = [claims[id] EXCEPT !.expires = u]
      BY <1>1, <2>2 DEF Extends, ExtendLease
    <3>2. claims'[id].status = claims[id].status
      BY <1>1, <3>1, RowUpdate
    <3>3. QED
      BY <1>1, <3>1, <3>2, RowUpdate
  <2>3. CASE x.id = id /\ Ends(x)
    <3>1. /\ claims'[id] = [claims[id] EXCEPT !.status = x.status]
          /\ claims[id].status = "active" /\ x.status \in EndStatuses
      BY <1>1, <2>3 DEF Ends, EndClaim, Endable, EndTxn
    <3>2. PICK c \in ClaimRow : c = claims[id]
      BY <1>1
    <3>3. PICK d : d = [c EXCEPT !.status = x.status]
      OBVIOUS
    <3>4. d.status = x.status /\ x.status # "absent"
      BY <3>1, <3>3 DEF ClaimRow, EndStatuses
    <3>5. QED
      BY <1>1, <3>1, <3>2, <3>3, <3>4, RowUpdate
  <2>4. QED
    BY <1>4, <2>1, <2>2, <2>3
<1>5. QED
  BY <1>2, <1>3, <1>4, Effects

LEMMA FirmGivesUp ==
    ASSUME TypeOK, FreshInv, RowInv, [Next]_vars, ~\E x \in txns : Inserts(x)
    PROVE  [FirmLease!Next]_<<firmHolders, firmRetired>>
<1> DEFINE H == {id \in ClaimIds : Firm(id) /\ ~Firm(id)' /\ claims[id].tier \in LockTiers}
<1>1. \A id \in ClaimIds :
          /\ claims'[id].tier = claims[id].tier /\ claims'[id].items = claims[id].items
          /\ (claims'[id].status = "absent") <=> (claims[id].status = "absent")
          /\ Firm(id)' => Firm(id)
  BY NoInsert
<1>2. firmHolders' = [slot \in Slot |-> firmHolders[slot] \ H]
  <2>1. ASSUME NEW slot \in Slot
        PROVE  {id \in ClaimIds : Firm(id)' /\ claims'[id].tier = slot[1] /\ slot[2] \in claims'[id].items}
               = firmHolders[slot] \ H
    <3>1. slot[1] \in LockTiers
      BY DEF Slot
    <3>2. firmHolders[slot] = {id \in ClaimIds : /\ Firm(id) /\ claims[id].tier = slot[1]
                                                 /\ slot[2] \in claims[id].items}
      BY DEF firmHolders, Slot
    <3>3. QED
      BY <1>1, <3>1, <3>2
  <2>2. QED
    BY <2>1 DEF firmHolders, Slot
<1>3. firmRetired' = firmRetired \cup H
  <2>1. \A id \in ClaimIds : Firm(id) => claims[id].status # "absent"
    BY DEF Firm, Live
  <2>2. QED
    BY <1>1, <2>1 DEF firmRetired
<1>4. ASSUME NEW h \in H PROVE \E s \in Slot : h \in firmHolders[s]
  <2>1. claims[h] \in ClaimRow /\ claims[h].items # {}
    BY DEF Firm, Live, RowInv, TypeOK, LedgerTypeOK
  <2>2. PICK w \in Works : w \in claims[h].items
    BY <2>1 DEF ClaimRow
  <2>3. PICK s \in Slot : s = <<claims[h].tier, w>>
    BY DEF Slot
  <2>4. h \in firmHolders[s]
    BY <2>2, <2>3 DEF firmHolders, Slot
  <2>5. QED
    BY <2>4
<1>5. FirmLease!GiveUp(H)
  BY <1>2, <1>3, <1>4 DEF FirmLease!GiveUp, Slot
<1>6. H \in SUBSET ClaimIds
  OBVIOUS
<1>7. QED
  BY <1>5, <1>6 DEF FirmLease!Next

\* An insert takes a slot of its tier for each work, unless the lease it writes
\* is over already, or it is one of measurement, which holds nothing.
LEMMA FirmTakes ==
    ASSUME TypeOK, FreshInv, OfferInv, LockInv, NEW x \in txns, Inserts(x)
    PROVE  [FirmLease!Next]_<<firmHolders, firmRetired>>
<1> DEFINE S == {x.tier} \X x.items
<1>1. /\ claims \in [ClaimIds -> ClaimRow]
      /\ x.id \in ClaimIds /\ x.items \in SUBSET Works /\ x.items # {}
      /\ claims[x.id].status = "absent"
  BY DEF Inserts, ClaimTxn, OfferInv, FreshInv, TypeOK, LedgerTypeOK
<1>2. /\ claims'[x.id].status = "active" /\ claims'[x.id].tier = x.tier
      /\ claims'[x.id].items = x.items
      /\ \A i \in ClaimIds : i # x.id => claims'[i] = claims[i]
  BY <1>1 DEF Inserts, InsertClaim
<1>3. ~Firm(x.id) /\ \A i \in ClaimIds : i # x.id => (Firm(i)' <=> Firm(i))
  BY <1>1, <1>2 DEF Firm, Live, Inserts
<1>4. ASSUME NEW slot \in Slot, ~(Firm(x.id)' /\ slot[1] = x.tier /\ slot[2] \in x.items)
      PROVE  {id \in ClaimIds : Firm(id)' /\ claims'[id].tier = slot[1] /\ slot[2] \in claims'[id].items}
             = firmHolders[slot]
  <2>1. firmHolders[slot] = {id \in ClaimIds : /\ Firm(id) /\ claims[id].tier = slot[1]
                                               /\ slot[2] \in claims[id].items}
    BY DEF firmHolders, Slot
  <2>2. QED
    BY <1>2, <1>3, <1>4, <2>1
<1>5. CASE x.tier \notin LockTiers
  <2>1. firmHolders' = firmHolders
    BY <1>4, <1>5 DEF firmHolders, Slot
  <2>2. firmRetired' = firmRetired
    BY <1>1, <1>2, <1>3, <1>5 DEF firmRetired
  <2>3. QED
    BY <2>1, <2>2
<1>6. CASE x.tier \in LockTiers /\ ~Firm(x.id)'
  <2>1. firmHolders' = firmHolders
    BY <1>4, <1>6 DEF firmHolders, Slot
  <2>2. firmRetired' = firmRetired \cup {x.id}
    BY <1>1, <1>2, <1>3, <1>6 DEF firmRetired
  <2>3. \A s \in Slot : x.id \notin firmHolders[s]
    BY <1>3 DEF firmHolders, Slot
  <2>4. FirmLease!Forgo(x.id)
    BY <2>1, <2>2, <2>3 DEF FirmLease!Forgo, Slot
  <2>5. QED
    BY <1>1, <2>4 DEF FirmLease!Next
<1>7. CASE x.tier \in LockTiers /\ Firm(x.id)'
  <2>1. Locking(x)
    BY <1>7 DEF Inserts, Locking, ClaimTxn
  <2>2. ASSUME NEW slot \in Slot, slot \in S
        PROVE  /\ firmHolders[slot] = {}
               /\ {id \in ClaimIds : Firm(id)' /\ claims'[id].tier = slot[1] /\ slot[2] \in claims'[id].items}
                  = {x.id}
    <3>1. slot[1] = x.tier /\ slot[2] \in x.items
      BY <2>2
    <3>2. \A i \in ClaimIds : Firm(i) /\ claims[i].tier = slot[1] => slot[2] \notin claims[i].items
      BY <2>1, <3>1 DEF LockInv
    <3>3. firmHolders[slot] = {}
      BY <3>2 DEF firmHolders, Slot
    <3>4. \A i \in ClaimIds :
              Firm(i)' /\ claims'[i].tier = slot[1] /\ slot[2] \in claims'[i].items <=> i = x.id
      BY <1>2, <1>3, <1>7, <3>1, <3>2
    <3>5. QED
      BY <1>1, <3>3, <3>4
  <2>3. ASSUME NEW slot \in Slot, slot \notin S
        PROVE  {id \in ClaimIds : Firm(id)' /\ claims'[id].tier = slot[1] /\ slot[2] \in claims'[id].items}
               = firmHolders[slot]
    BY <1>4, <2>3 DEF Slot
  <2>4. S # {} /\ S \subseteq Slot
    <3>1. PICK w \in x.items : TRUE
      BY <1>1
    <3>2. <<x.tier, w>> \in S
      BY <3>1
    <3>3. ASSUME NEW s \in S PROVE s \in Slot
      BY <1>1, <1>7, <3>3 DEF Slot
    <3>4. QED
      BY <3>2, <3>3
  <2>5. firmHolders' = [slot \in Slot |-> IF slot \in S THEN {x.id} ELSE firmHolders[slot]]
    BY <2>2, <2>3 DEF firmHolders, Slot
  <2>6. x.id \notin firmRetired /\ firmRetired' = firmRetired
    BY <1>1, <1>2, <1>3, <1>7 DEF firmRetired
  <2>7. \A slot \in Slot : x.id \notin firmHolders[slot]
    BY <1>3 DEF firmHolders, Slot
  <2>8. \A slot \in S : firmHolders[slot] = {}
    BY <2>2, <2>4
  <2>9. FirmLease!Take(x.id, S)
    BY <2>4, <2>5, <2>6, <2>7, <2>8 DEF FirmLease!Take, Slot
  <2>10. QED
    BY <1>1, <2>4, <2>9 DEF FirmLease!Next, Slot
<1>8. QED
  BY <1>5, <1>6, <1>7

\* The claim tables, their clock and their transactions, open as long as they
\* like, implement exclusive leases taken whole, at most once, and given up for
\* good, if a lease is not counted once a renewal that straddled its end revived it.
THEOREM Implements == Spec => ImplementsFirmLease
<1>1. Init => FirmLease!Init
  <2> SUFFICES ASSUME Init PROVE FirmLease!Init
    OBVIOUS
  <2>1. NoClaim.status = "absent"
    BY DEF NoClaim
  <2>2. \A id \in ClaimIds : claims[id].status = "absent"
    BY <2>1 DEF Init, LedgerInit
  <2>3. firmRetired = {} /\ \A id \in ClaimIds : ~Firm(id)
    BY <2>2 DEF firmRetired, Firm, Live
  <2>4. firmHolders = [s \in Slot |-> {}]
    BY <2>3 DEF firmHolders, Slot
  <2>5. QED
    BY <2>3, <2>4 DEF FirmLease!Init, Slot
<1>2. TypeOK /\ FreshInv /\ OfferInv /\ LockInv /\ RowInv /\ [Next]_vars =>
          [FirmLease!Next]_<<firmHolders, firmRetired>>
  BY FirmGivesUp, FirmTakes
<1>3. QED
  BY <1>1, <1>2, TypeCorrect, FreshInvariant, OfferInvariant, LockInvariant, RowInvariant, PTL
  DEF Spec, ImplementsFirmLease, FirmLease!Spec

-----------------------------------------------------------------------------
\* Transactions are prompt when none is open while the clock moves.
Prompt == [][now' # now => txns = {}]_vars

\* Then every open transaction sees the present, and nothing is revived.
PromptInv == revived = {} /\ \A x \in txns : x.at = now

LEMMA NothingStraddles == Spec /\ Prompt => []PromptInv
<1>1. Init => PromptInv
  BY DEF Init, PromptInv
<1>2. TypeOK /\ PromptInv /\ [Next]_vars /\ [now' # now => txns = {}]_vars => PromptInv'
  <2> SUFFICES ASSUME TypeOK, PromptInv, [Next]_vars, [now' # now => txns = {}]_vars
               PROVE  PromptInv'
    OBVIOUS
  <2>1. revived' = {}
    <3>1. ASSUME NEW x \in txns, Extends(x) PROVE ~Straddles(x)
      BY DEF PromptInv, Straddles
    <3>2. QED
      BY <3>1, Effects DEF PromptInv, Inserts, Extends, Ends
  <2>2. CASE Tick \/ UNCHANGED vars
    BY <2>1, <2>2 DEF Tick, vars, PromptInv, TypeOK, LedgerTypeOK
  <2>3. ASSUME NEW txn, Begin(txn), txn.at = now
        PROVE  PromptInv'
    BY <2>1, <2>3 DEF Begin, ledger, PromptInv
  <2>4. CASE txns' \subseteq txns /\ now' = now
    BY <2>1, <2>4 DEF PromptInv
  <2>5. ASSUME NEW x \in txns, CheckClaim(x)
        PROVE  PromptInv'
    <3>1. x \in ClaimTxn
      BY <2>5, TxnType DEF CheckClaim
    <3>2. PICK z \in ClaimTxn : z = [x EXCEPT !.checked = TRUE] /\ z.at = x.at
      BY <3>1, CheckedTxn
    <3>3. QED
      BY <2>1, <2>5, <3>2 DEF CheckClaim, ledger, PromptInv
  <2>6. CASE \/ \E id \in ClaimIds, r \in Releases, t \in Tiers, S \in SUBSET Works, u \in Leases :
                   BeginClaim(id, r, t, S, u)
             \/ \E id \in ClaimIds, u \in Leases : BeginRenew(id, u)
             \/ \E id \in ClaimIds, s \in EndStatuses : BeginEnd(id, s)
    BY <2>3, <2>6 DEF BeginClaim, BeginRenew, BeginEnd
  <2>7. QED
    BY <2>2, <2>4, <2>5, <2>6
    DEF Next, CommitClaim, CommitRenew, CommitEnd, Rollback, RegisterRelease, ledger
<1>3. QED
  BY <1>1, <1>2, TypeCorrect, PTL DEF Spec, Prompt

\* With prompt transactions live claims of one locking tier never share a work:
\* the refusal claim_lease_lost of engine_renew_claim then keeps its promise.
THEOREM MutualExclusion == Spec /\ Prompt => []Exclusion
<1>1. PromptInv /\ ExclusionUnlessRevived => Exclusion
  BY DEF PromptInv, ExclusionUnlessRevived, Exclusion
<1>2. QED
  BY <1>1, NothingStraddles, OverlapsAreRevived, PTL

\* With prompt transactions every live lease is firm, so that the tables are
\* exclusive leases without exception.
THEOREM PromptImplements == Spec /\ Prompt => ImplementsWorkLease
<1>1. ASSUME PromptInv
      PROVE  holders = firmHolders /\ retired = firmRetired
  <2>1. \A id \in ClaimIds : Firm(id) <=> Live(id, now)
    BY <1>1 DEF PromptInv, Firm
  <2>2. QED
    BY <2>1 DEF holders, Holders, firmHolders, retired, firmRetired
<1>2. PromptInv /\ FirmLease!Init => Leased!Init
  BY <1>1 DEF FirmLease!Init, Leased!Init
<1>3. ASSUME PromptInv, PromptInv', [FirmLease!Next]_<<firmHolders, firmRetired>>
      PROVE  [Leased!Next]_<<holders, retired>>
  <2>1. holders = firmHolders /\ retired = firmRetired
    BY <1>1, <1>3
  <2>2. holders' = firmHolders' /\ retired' = firmRetired'
    <3>1. \A id \in ClaimIds : Firm(id)' <=> Live(id, now)'
      BY <1>3 DEF PromptInv, Firm
    <3>2. QED
      BY <3>1 DEF holders, Holders, firmHolders, retired, firmRetired
  <2>3. ASSUME NEW H \in SUBSET ClaimIds, FirmLease!GiveUp(H)
        PROVE  Leased!GiveUp(H)
    BY <2>1, <2>2, <2>3 DEF Leased!GiveUp, FirmLease!GiveUp
  <2>4. ASSUME NEW h \in ClaimIds, FirmLease!Forgo(h)
        PROVE  Leased!Forgo(h)
    BY <2>1, <2>2, <2>4 DEF Leased!Forgo, FirmLease!Forgo
  <2>5. ASSUME NEW h \in ClaimIds, NEW S \in SUBSET (LockTiers \X Works), FirmLease!Take(h, S)
        PROVE  Leased!Take(h, S)
    BY <2>1, <2>2, <2>5 DEF Leased!Take, FirmLease!Take
  <2>6. CASE FirmLease!Next
    BY <2>3, <2>4, <2>5, <2>6 DEF Leased!Next, FirmLease!Next
  <2>7. CASE UNCHANGED <<firmHolders, firmRetired>>
    BY <2>1, <2>2, <2>7
  <2>8. QED
    BY <1>3, <2>6, <2>7
<1>4. QED
  BY <1>2, <1>3, Implements, NothingStraddles, PTL
  DEF ImplementsFirmLease, FirmLease!Spec, ImplementsWorkLease, Leased!Spec

\* With transactions that end before the clock moves, a claim that
\* ended or ran out is never live again: a renewal judged by the time its
\* transaction began revives nothing (engine_renew_claim).
THEOREM NothingRevived == Spec /\ Prompt => []Apart /\ NeverAgain
  BY PromptImplements, LeaseKeeps, PTL
=============================================================================
