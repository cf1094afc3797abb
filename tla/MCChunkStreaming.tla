------------------------- MODULE MCChunkStreaming -------------------------
(* Two chunks; the bodies of both their lives, and of a double load.        *)
EXTENDS ChunkStreaming, TLC

CONSTANTS p1, p2, p3, p4, c1, c2, k1, k2

MCParticles == {p1, p2, p3, p4}
MCEntities == {c1, c2}
MCEntityOf == [p \in Particles |-> IF p \in {p1, p2} THEN c1 ELSE c2]
MCKGIds == {k1, k2}
MCKGOf == [c \in Entities |-> IF c = c1 THEN k1 ELSE k2]

Symmetry == Permutations({p1, p2}) \cup Permutations({p3, p4})
=============================================================================
