---------------------------- MODULE MCProviderCalls ----------------------------
\* TLC instances of ProviderCalls.
EXTENDS ProviderCalls, TLC

CONSTANTS p1, t1, t2

OneProcess == t1 :> p1 @@ t2 :> p1
=============================================================================
