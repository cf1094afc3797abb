\* One birth waiting while one deletion falls due in the same render.
CONSTANTS
    p1 = p1
    p2 = p2
    p3 = p3
    e1 = e1
    e2 = e2
    Particles <- MCParticles
    Entities <- MCEntities
    EntityOf <- MCEntityOf
    KGIds = {}
    GluonIds = {}
    FRAMES_IN_FLIGHT = 3
    MaxParticles = 3
    MaxPending = 1
    MaxDeletions = 1
    MaxEvents = 0
SPECIFICATION Spec
PROPERTY
    PredictionStands
