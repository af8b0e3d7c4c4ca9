----------------------------- MODULE MCCacheSync -----------------------------
\* TLC instances of CacheSync: two machines, a part of two shards, the first of
\* which holds an answer of each machine, and a part of one shard.
EXTENDS CacheSync, TLC

CONSTANTS m1, m2, e1, e2, e3, e4, p1, p2

ThreeShards == [e \in Entries |-> IF e = e4 THEN 3 ELSE IF e = e3 THEN 2 ELSE 1]
TwoParts == [s \in Shards |-> IF s = 3 THEN p2 ELSE p1]
AllOrFirst == {Parts, {p1}}
OwnBuys == [m \in Machines |-> IF m = m1 THEN {} ELSE {e2}]
TheRest == [m \in Machines |-> IF m = m1 THEN {e1} ELSE {e3, e4}]
=============================================================================
