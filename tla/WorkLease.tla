------------------------------ MODULE WorkLease ------------------------------
(***************************************************************************)
(* What the claim system promises a runner, without rows, clocks or        *)
(* transactions.  A slot is one work in one tier.  A holder takes a set    *)
(* of free slots, all or nothing, once; when it gives them up (it ended,   *)
(* or its lease ran out) it is retired and never holds a slot again.       *)
(***************************************************************************)
CONSTANTS Slots, Holder

VARIABLES
    holders,   \* who holds each slot
    retired    \* holders that have given up what they held

Init == holders = [s \in Slots |-> {}] /\ retired = {}

Take(h, S) ==
    /\ S # {} /\ S \subseteq Slots
    /\ h \notin retired
    /\ \A s \in Slots : h \notin holders[s]
    /\ \A s \in S : holders[s] = {}
    /\ holders' = [s \in Slots |-> IF s \in S THEN {h} ELSE holders[s]]
    /\ retired' = retired

\* Several leases can run out at one moment.
GiveUp(H) ==
    /\ \A h \in H : \E s \in Slots : h \in holders[s]
    /\ holders' = [s \in Slots |-> holders[s] \ H]
    /\ retired' = retired \cup H

\* A holder's time was over before it took anything: its claim was written
\* after the end of its own lease.
Forgo(h) ==
    /\ \A s \in Slots : h \notin holders[s]
    /\ retired' = retired \cup {h}
    /\ holders' = holders

Next == \/ \E H \in SUBSET Holder : GiveUp(H)
        \/ \E h \in Holder : Forgo(h)
        \/ \E h \in Holder, S \in SUBSET Slots : Take(h, S)

Spec == Init /\ [][Next]_<<holders, retired>>

\* At most one holder per slot, and a retired holder holds nothing.
Exclusive ==
    \A s \in Slots : \A g, h \in holders[s] : g = h /\ g \notin retired
=============================================================================
