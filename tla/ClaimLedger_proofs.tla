-------------------------- MODULE ClaimLedger_proofs --------------------------
(***************************************************************************)
(* What the effect of each RPC on the claim tables is to the abstract      *)
(* leases of WorkLease: a claim takes slots, and anything else a step can  *)
(* do to the tables gives some up or none.                                 *)
(***************************************************************************)
EXTENDS ClaimLedger, TLAPS

Slot == LockTiers \X Works

\* A claim that was written holds at least one work.
HoldsSome == \A id \in ClaimIds : claims[id].status # "absent" => claims[id].items # {}

\* Claims that stop being live give up what they held.
LEMMA GivesUp ==
    ASSUME LedgerTypeOK, HoldsSome,
           \A id \in ClaimIds : /\ claims'[id].tier = claims[id].tier
                                /\ claims'[id].items = claims[id].items
                                /\ (claims'[id].status = "absent") <=> (claims[id].status = "absent")
                                /\ Live(id, now)' => Live(id, now)
    PROVE  [Leased!Next]_<<holders, retired>>
<1> DEFINE H == {id \in ClaimIds : /\ Live(id, now) /\ ~Live(id, now)'
                                  /\ claims[id].tier \in LockTiers}
<1>1. \A slot \in Slot : Holders(slot)' = Holders(slot) \ H
  <2> SUFFICES ASSUME NEW slot \in Slot PROVE Holders(slot)' = Holders(slot) \ H
    OBVIOUS
  <2>1. slot[1] \in LockTiers
    BY DEF Slot
  <2>2. \A id \in ClaimIds : id \in Holders(slot)' <=> id \in Holders(slot) /\ id \notin H
    BY <2>1 DEF Holders
  <2>3. QED
    BY <2>2 DEF Holders
<1>2. holders' = [slot \in Slot |-> holders[slot] \ H]
  BY <1>1 DEF holders, Slot
<1>3. retired' = retired \cup H
  <2>1. \A id \in ClaimIds : Live(id, now) => claims[id].status # "absent"
    BY DEF Live
  <2>2. QED
    BY <2>1 DEF retired
<1>4. ASSUME NEW h \in H PROVE \E s \in Slot : h \in holders[s]
  <2>1. claims[h] \in ClaimRow /\ claims[h].items # {}
    BY DEF Live, HoldsSome, LedgerTypeOK
  <2>2. PICK w \in Works : w \in claims[h].items
    BY <2>1 DEF ClaimRow
  <2>3. <<claims[h].tier, w>> \in Slot
    BY DEF Slot
  <2>4. h \in Holders(<<claims[h].tier, w>>)
    BY <2>2 DEF Holders
  <2>5. QED
    BY <2>3, <2>4 DEF holders, Slot
<1>5. Leased!GiveUp(H)
  BY <1>2, <1>3, <1>4 DEF Leased!GiveUp, Slot
<1>6. H \in SUBSET ClaimIds
  OBVIOUS
<1>7. QED
  BY <1>5, <1>6 DEF Leased!Next

\* A claim takes a slot of its tier for each work of the batch, or is one of
\* measurement and takes none.
LEMMA Takes ==
    ASSUME LedgerTypeOK, NEW id \in ClaimIds, NEW release, NEW tier, NEW items \in SUBSET Works,
           NEW until \in Nat, claims[id].status = "absent",
           Claimable(release, tier, items, until, now),
           InsertClaim(id, release, tier, items, until), now' = now
    PROVE  [Leased!Next]_<<holders, retired>>
<1> DEFINE S == {tier} \X items
<1>1. claims \in [ClaimIds -> ClaimRow] /\ items # {} /\ until > now
  BY DEF LedgerTypeOK, Claimable
<1>2. /\ claims'[id].status = "active" /\ claims'[id].tier = tier
      /\ claims'[id].items = items /\ claims'[id].expires = until
      /\ \A i \in ClaimIds : i # id => claims'[i] = claims[i]
  BY <1>1 DEF InsertClaim
<1>3. Live(id, now)' /\ ~Live(id, now)
  BY <1>1, <1>2 DEF Live
<1>4. \A i \in ClaimIds : i # id => (Live(i, now)' <=> Live(i, now))
  BY <1>2 DEF Live
<1>5. ASSUME NEW slot \in Slot, ~(slot[1] = tier /\ slot[2] \in items)
      PROVE  Holders(slot)' = Holders(slot)
  <2>1. id \notin Holders(slot)' /\ id \notin Holders(slot)
    BY <1>2, <1>3, <1>5 DEF Holders
  <2>2. QED
    BY <1>2, <1>4, <2>1 DEF Holders
<1>6. CASE tier \notin LockTiers
  <2>1. \A slot \in Slot : Holders(slot)' = Holders(slot)
    BY <1>5, <1>6 DEF Slot
  <2>2. retired' = retired
    BY <1>2, <1>4, <1>6 DEF retired
  <2>3. QED
    BY <2>1, <2>2 DEF holders, Slot
<1>7. CASE tier \in LockTiers
  <2>1. Conflicts(tier, items, now) = {}
    BY <1>7, MeasurementAssumption DEF Claimable
  <2>2. ASSUME NEW slot \in Slot, slot \in S
        PROVE  Holders(slot) = {} /\ Holders(slot)' = {id}
    <3>1. slot[1] = tier /\ slot[2] \in items
      BY <2>2
    <3>2. Holders(slot) = {}
      BY <2>1, <3>1 DEF Holders, Conflicts
    <3>3. \A i \in ClaimIds : i # id => i \notin Holders(slot)'
      BY <1>2, <1>4, <3>2 DEF Holders
    <3>4. id \in Holders(slot)'
      BY <1>2, <1>3, <3>1 DEF Holders
    <3>5. QED
      BY <3>2, <3>3, <3>4 DEF Holders
  <2>3. ASSUME NEW slot \in Slot, slot \notin S
        PROVE  Holders(slot)' = Holders(slot)
    BY <1>5, <2>3 DEF Slot
  <2>4. S # {} /\ S \subseteq Slot
    <3>1. PICK w \in items : TRUE
      BY <1>1
    <3>2. <<tier, w>> \in S
      BY <3>1
    <3>3. ASSUME NEW s \in S PROVE s \in Slot
      BY <1>7, <3>3 DEF Slot
    <3>4. QED
      BY <3>2, <3>3
  <2>5. holders' = [slot \in Slot |-> IF slot \in S THEN {id} ELSE holders[slot]]
    BY <2>2, <2>3 DEF holders, Slot
  <2>6. id \notin retired /\ retired' = retired
    BY <1>2, <1>3, <1>4 DEF retired
  <2>7. \A slot \in Slot : id \notin holders[slot]
    BY <1>3 DEF holders, Holders, Slot
  <2>8. \A slot \in S : holders[slot] = {}
    BY <2>2, <2>4 DEF holders, Slot
  <2>9. Leased!Take(id, S)
    BY <2>4, <2>5, <2>6, <2>7, <2>8 DEF Leased!Take, Slot
  <2>10. QED
    BY <2>4, <2>9 DEF Leased!Next, Slot
<1>8. QED
  BY <1>6, <1>7

\* Before any claim nothing is held.
LEMMA NothingHeld ==
    ASSUME claims = [id \in ClaimIds |-> NoClaim]
    PROVE  Leased!Init /\ HoldsSome
<1>1. \A id \in ClaimIds : claims[id].status = "absent"
  BY DEF NoClaim
<1>2. \A slot \in Slot : Holders(slot) = {}
  BY <1>1 DEF Holders, Live
<1>3. retired = {}
  BY <1>1 DEF retired
<1>4. QED
  BY <1>1, <1>2, <1>3 DEF Leased!Init, holders, Slot, HoldsSome

\* At most one live claim holds a work of a tier.
Apart ==
    \A g, h \in ClaimIds, w \in Works :
        /\ Live(g, now) /\ Live(h, now)
        /\ claims[g].tier = claims[h].tier /\ claims[g].tier \in LockTiers
        /\ w \in claims[g].items /\ w \in claims[h].items
        => g = h

\* A claim that ended or ran out is never live again.
NeverAgain ==
    [][\A id \in ClaimIds :
          claims[id].status # "absent" /\ claims[id].tier \in LockTiers /\ ~Live(id, now)
          => ~Live(id, now)']_<<claims, now>>

LEMMA HoldersStep ==
    ASSUME Leased!Exclusive, [Leased!Next]_<<holders, retired>>
    PROVE  Leased!Exclusive' /\ retired \subseteq retired'
<1>1. \A s \in LockTiers \X Works : \A i, j \in holders[s] : i = j /\ i \notin retired
  BY DEF Leased!Exclusive
<1>2. ASSUME NEW H \in SUBSET ClaimIds, Leased!GiveUp(H)
      PROVE  Leased!Exclusive' /\ retired \subseteq retired'
  BY <1>1, <1>2 DEF Leased!GiveUp, Leased!Exclusive
<1>3. ASSUME NEW i \in ClaimIds, NEW S \in SUBSET (LockTiers \X Works), Leased!Take(i, S)
      PROVE  Leased!Exclusive' /\ retired \subseteq retired'
  BY <1>1, <1>3 DEF Leased!Take, Leased!Exclusive
<1>4. CASE UNCHANGED <<holders, retired>>
  BY <1>4 DEF Leased!Exclusive
<1>6. ASSUME NEW i \in ClaimIds, Leased!Forgo(i)
      PROVE  Leased!Exclusive' /\ retired \subseteq retired'
  BY <1>1, <1>6 DEF Leased!Forgo, Leased!Exclusive
<1>5. QED
  BY <1>2, <1>3, <1>4, <1>6 DEF Leased!Next

\* What an exclusive lease promises follows from its steps alone, so whatever
\* implements WorkLease keeps it: no work of a tier is claimed twice at a time,
\* and a claim that ended or ran out has no works again, however late its calls
\* arrive (engine_claim_batch, engine_renew_claim).
THEOREM LeaseKeeps == ImplementsWorkLease => []Apart /\ NeverAgain
<1>1. Leased!Init => Leased!Exclusive
  BY DEF Leased!Init, Leased!Exclusive
<1>2. Leased!Exclusive => Apart
  <2> SUFFICES ASSUME Leased!Exclusive, NEW g \in ClaimIds, NEW h \in ClaimIds, NEW w \in Works,
                      Live(g, now), Live(h, now),
                      claims[g].tier = claims[h].tier, claims[g].tier \in LockTiers,
                      w \in claims[g].items, w \in claims[h].items
               PROVE  g = h
    BY DEF Apart
  <2>1. PICK s \in LockTiers \X Works : s = <<claims[g].tier, w>>
    OBVIOUS
  <2>2. g \in Holders(s) /\ h \in Holders(s)
    BY <2>1 DEF Holders
  <2>3. holders[s] = Holders(s)
    BY DEF holders
  <2>4. QED
    BY <2>2, <2>3 DEF Leased!Exclusive
<1>3. ASSUME retired \subseteq retired'
      PROVE  \A id \in ClaimIds :
                 claims[id].status # "absent" /\ claims[id].tier \in LockTiers /\ ~Live(id, now)
                 => ~Live(id, now)'
  BY <1>3 DEF retired
<1>4. Leased!Exclusive /\ [Leased!Next]_<<holders, retired>> => Leased!Exclusive'
  BY HoldersStep
<1>5. Leased!Exclusive /\ [Leased!Next]_<<holders, retired>> =>
          [\A id \in ClaimIds :
               claims[id].status # "absent" /\ claims[id].tier \in LockTiers /\ ~Live(id, now)
               => ~Live(id, now)']_<<claims, now>>
  BY <1>3, HoldersStep
<1>6. QED
  BY <1>1, <1>2, <1>4, <1>5, PTL DEF ImplementsWorkLease, Leased!Spec, NeverAgain
=============================================================================
