------------------------- MODULE MCParticleStore -------------------------
(* The instance TLC checks: three particles, two of them of one entity.     *)
EXTENDS ParticleStore, TLC

CONSTANTS p1, p2, p3, e1, e2

MCParticles == {p1, p2, p3}
MCEntities == {e1, e2}
MCEntityOf == [p \in Particles |-> IF p = p3 THEN e2 ELSE e1]

\* p1 and p2 have the same owner; the ids of bonds and of KG particles are
\* interchangeable.
Symmetry == Permutations({p1, p2}) \cup Permutations(KGIds) \cup Permutations(GluonIds)
=============================================================================
