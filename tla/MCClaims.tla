------------------------------- MODULE MCClaims -------------------------------
\* TLC instances of Claims.  Works and claim ids are interchangeable: the
\* modules compare them for equality only.
EXTENDS Claims, TLC

Symmetry == Permutations(Works) \cup Permutations(ClaimIds)
=============================================================================
