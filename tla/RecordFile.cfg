SPECIFICATION Spec
CONSTANTS
    None = None
    Channel = {a, b}
    BlockSize = 2
    MaxSamples = 5
    MaxSeek = 3
INVARIANTS SampleAtIndex FlushedReadable
PROPERTIES MovesBySamples
CHECK_DEADLOCK FALSE
