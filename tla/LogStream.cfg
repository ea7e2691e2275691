\* A ring that wraps more than twice.
CONSTANTS
    RingSize = 6
    MaxBatch = 4
    MaxLines = 20
    MaxScroll = 7
    Rows = {1, 2, 3, 6, 7}
SPECIFICATION Spec
INVARIANTS TypeOK BufferIsTheTail WindowIsFull
PROPERTIES PausedViewStays
