\* A full queue needs one more chunk than it holds, one in the worker's hand
\* and one result: three chunks, two places.
CONSTANTS
    Coords = {a, b, c}
    None = None
    max_queue_size = 2
SPECIFICATION FairSpec
INVARIANTS
    TypeOK
    PendingIsExact
    InFlightOnce
PROPERTIES
    ImplementsPipeline
    StopReturns
    AcceptedIsDelivered
