CONSTANTS
    p1 = p1
    p2 = p2
    p3 = p3
    p4 = p4
    c1 = c1
    c2 = c2
    k1 = k1
    k2 = k2
    Particles <- MCParticles
    Entities <- MCEntities
    EntityOf <- MCEntityOf
    KGIds <- MCKGIds
    KGOf <- MCKGOf
    GluonIds = {}
    FRAMES_IN_FLIGHT = 1
    MaxParticles = 4
    MaxPending = 0
    MaxDeletions = 2
    MaxEvents = 0
SPECIFICATION StreamingSpec
SYMMETRY Symmetry
INVARIANTS
BindingNeverCrosses
IndicesLive
