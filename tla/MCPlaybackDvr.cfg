SPECIFICATION Spec
CONSTANTS
    Kinds = {"Playback", "Record"}
    Threads = {"t1"}
    Workers = {1, 2}
    QueueCapacity <- MCQueueCapacity
    Chunk = 2
    Low = 0
    High = 2
    MaxPackets = 1
    MaxEpoch = 2
INVARIANTS OneNotifier
PROPERTIES  CloseCompletes
CHECK_DEADLOCK FALSE
