\* Liveness: no symmetry.
CONSTANTS
    p1 = p1
    p2 = p2
    p3 = p3
    e1 = e1
    e2 = e2
    Particles <- MCParticles
    Entities <- MCEntities
    EntityOf <- MCEntityOf
    KGIds <- MCKGIds
    KGOwner <- MCKGOwner
    NoEntity = NoEntity
    GluonIds = {}
    FRAMES_IN_FLIGHT = 2
    MaxParticles = 3
    MaxPending = 0
    MaxDeletions = 2
    MaxEvents = 0
SPECIFICATION RemovalSpec
INVARIANTS
    RemovalIsExact
    DestroyedStaysUnmapped
PROPERTIES
    DeletionsHappen
    ImplementsWorld
