CONSTANTS
    Projects = {1, 2}
    Buckets = {1, 2}
    s1 = s1
    s2 = s2
    s3 = s3
    Streams <- MCStreams
    Obj <- MCObj
    Adapters = {1, 2}
    Impl <- MCImplSpanner
    Owner <- MCOwner
    MaxTime = 4
    AOSIs <- MCAOSIs
    MaxPartitions = 2
    Ranges <- MCRanges
    PassAOST = TRUE
    PartitionFlags = {FALSE, TRUE}
    NoExpiry = NoExpiry
    Nil = Nil
    InvalidRequest = InvalidRequest
    BackendError = BackendError

SPECIFICATION Spec

INVARIANT SnapshotHonoured
