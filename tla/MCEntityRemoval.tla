------------------------- MODULE MCEntityRemoval -------------------------
(* Two entities, one of two bodies; its ids surround the other's.           *)
EXTENDS EntityRemoval

CONSTANTS p1, p2, p3, e1, e2

MCParticles == {p1, p2, p3}
MCEntities == {e1, e2}
MCEntityOf == [p \in Particles |-> IF p = p3 THEN e2 ELSE e1]
MCKGIds == 1 .. 3
MCKGOwner == [k \in MCKGIds |-> IF k = 2 THEN e2 ELSE e1]
=============================================================================
