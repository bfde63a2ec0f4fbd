SPECIFICATION PollingSpec
CONSTANTS
    SlotCount = 2
    SlotSize = 2
    Data = {0, 1, 2}
    Zero = 0
    Items <- MCItems
    BufSizes = {1, 2, 3}
    MaxBatch = 2
    MaxSent = 3
INVARIANTS
    TypeOK
    NoSlotRace
    Bounded
    QueuedIntact
PROPERTIES
    ImplementsFifo
    PushTerminates
    AllDelivered
