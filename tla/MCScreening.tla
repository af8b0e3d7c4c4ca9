----------------------------- MODULE MCScreening -----------------------------
\* TLC instances of Screening: two generations, the newer of which accepts the
\* older, and rows older than both.
EXTENDS Screening

CONSTANTS r1, r2, g1, g2, t1, t2

NewAcceptsOld == [g \in Screens |-> IF g = g2 THEN {g1} ELSE {}]

Old(v, a) ==
    [tier |-> "main", mode |-> "live", gen |-> Unrecorded, asked |-> Unrecorded,
     voter |-> v, said |-> a]
\* Nothing, under either generation, or an old discard that the older one keeps.
OldDiscard == <<Old(1, "no"), Old(2, "no")>>
Before2 == {[rows |-> <<>>, screen |-> g] : g \in Screens} \cup {[rows |-> OldDiscard, screen |-> g1]}
=============================================================================
