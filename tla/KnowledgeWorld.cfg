CONSTANTS
    Creature = 1
    Input = Input
    Capability = Capability
    Values = {v, w}
    NoValue = NoValue
    NoEvent = NoEvent
    None = None
    Capacities = {2, 3}
    BatchCapacities = {2}
    max_entities = 3
    max_relations = 2
    LastEntity = 3
    MaxOps = 3
    MaxEvents = 4
SYMMETRY Symmetry
SPECIFICATION Spec
INVARIANTS
    TypeOK
    UndoRestores
    ReaderMissesNothing
    RelationsTold
    CapabilityCurrent
