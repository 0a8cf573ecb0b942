\* The processing thread passes over the queue while packets of two peers arrive.
SPECIFICATION SocketSpec
CONSTANTS
    c1 = c1
    c2 = c2
    c3 = c3
    s1 = s1
    s2 = s2
    Container <- MCContainer
    NULL = NULL
    MaxPackets = 3
    Sender <- MCSender
    DataSize <- MCDataSize
    HeaderSize = 2
    Buffer = 2
    MaxAttempts = 1
    SIZE_MAX = 9
    AnySize <- MCAnySize
    MaxErrors = 1
INVARIANTS
    PassHandlesAll
