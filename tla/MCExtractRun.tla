---------------------------- MODULE MCExtractRun ----------------------------
\* TLC instances of ExtractRun.
EXTENDS ExtractRun, TLC

\* Works and runs are compared for equality only.
Symmetry == Permutations(Works) \cup Permutations(Runs)

AllOrNone == {{}, Works}
Together == {Works}

\* A claim that holds nothing and that no process has in hand plays no part any
\* more, whatever it once held: nothing but its absence from Fresh is looked at.
InHand == {runs[r].claim : r \in Runs}
View ==
    <<[id \in ClaimIds |->
          IF Live(id, now) \/ id \in InHand \/ claims[id].status = "absent"
          THEN claims[id] ELSE [NoClaim EXCEPT !.status = "complete"]],
      rows, runs, faults>>
=============================================================================
