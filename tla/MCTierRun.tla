------------------------------- MODULE MCTierRun -------------------------------
\* TLC instances of TierRun.  Ids are minted in a fixed order, so a behaviour
\* is not repeated under renamed ids; the safety run also
\* identifies states that differ in the names of works, runners and releases.
EXTENDS TierRun, TLC

WholePile == {Works}                       \* screen --run

\* Works, runners and releases are compared for equality only.
Symmetry == Permutations(Works) \cup Permutations(Runners) \cup Permutations(Releases)

\* The bound on claim ids is never reached: no runner waits for an id.
IdsLeft == \E id \in ClaimIds : claims[id].status = "absent"
=============================================================================
