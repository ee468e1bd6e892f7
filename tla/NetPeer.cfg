SPECIFICATION FairSpec
CONSTANTS
    Streams = {t1, t2}
    Probers = {l1}
    Backlog = 2
    Buffer = 1
    Payload = 2
    Pieces = 2
    Probes = 2
    MaxSends = 1
INVARIANTS
    SenderIsNotAhead
    OwnEchoUnlessLost
PROPERTIES
    EveryoneIsServed
