----------------------------- MODULE MCSessions -----------------------------
EXTENDS Sessions

\* Two regions; the ids of the first end where those of the second begin.
MCFirstSid == [r \in Regions |-> r * MaxBlobs]

See(region, at, thin, depth) == [region |-> region, at |-> at, thin |-> thin, depth |-> depth]
MCBlobs ==
    {See(2, 1, FALSE, 1), See(2, 3, FALSE, 2), See(2, 3, TRUE, 1), See(3, 1, FALSE, 1)}
=============================================================================
