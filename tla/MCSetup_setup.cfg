SPECIFICATION Spec
CONSTANTS
    InstanceValues = 3
    GenerationValues = 1
    SourceValues = 4
    SessionValues = 2
    ReservedValues = 1
    Threads = {t1, t2}
    Nobody = Nobody
    MaxOvertakes = 1
    MaxLeftover = 1
    MaxAddresses = 2
SYMMETRY ThreadSymmetry
INVARIANTS
    TypeOK
    CleanupExact
    InstanceIdsDistinct
    EventsHaveOneOwner
    ForeignEventsNotOwned
    NoSocketLeaked
    FallbackInOrder
    CreatedIsValid
