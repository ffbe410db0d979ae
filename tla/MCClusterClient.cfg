SPECIFICATION Spec
CONSTANTS
    r1 = r1
    r2 = r2
    c1 = c1
    c2 = c2
    reader = reader
    key = key
    also = also
    put = put
    other = other
    Replicas = {r1, r2}
    Clients = {c1, c2}
    Readers = {reader}
    Keys = {key, also, c1, c2}
    Values = {put, other}
    Tombstone = Tombstone
    None = None
    FlushAt = 3
    CompactAt = 2
    SnapshotAt = 2
    Pieces = 2
    MaxTries = 3
    Addresses <- MCAddresses
    Scenes <- MCScenes
INVARIANTS
    ContentsExact
    SnapshotsExact
    Restartable
    ReadsLinear
    

    
CHECK_DEADLOCK FALSE
