\* Three particles, two KG ids, one bond at a time: every pair of tables can
\* hold the dying slot, the tail, both or neither.
CONSTANTS
    p1 = p1
    p2 = p2
    p3 = p3
    e1 = e1
    e2 = e2
    Particles <- MCParticles
    Entities <- MCEntities
    EntityOf <- MCEntityOf
    KGIds = {k1, k2}
    GluonIds = {g1}
    FRAMES_IN_FLIGHT = 1
    MaxParticles = 3
    MaxPending = 1
    MaxDeletions = 1
    MaxEvents = 1
SPECIFICATION Spec
SYMMETRY Symmetry
INVARIANTS
    TypeOK
    IndicesLive
    EntityListsExact
    PairIndexExact
    RenderMapsInverse
PROPERTIES
    CachedIdFollows
    ImplementsWorld
