---------------------------- MODULE MCOrderedMap ----------------------------
EXTENDS OrderedMap

CONSTANTS k1, k2

\* Three keys in two buckets: +0 and k1 collide.
MCHashes == {1, 2}
MCHash   == [k \in Keys |-> IF k = k2 THEN 2 ELSE 1]
=============================================================================
