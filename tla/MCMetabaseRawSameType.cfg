CONSTANTS
    Projects = {1, 2}
    Buckets = {1, 2}
    s1 = s1
    s2 = s2
    s3 = s3
    Streams <- MCStreams
    Obj <- MCObj
    Adapters = {1, 2}
    Impl <- MCImplSameType
    Owner <- MCOwner
    MaxTime = 4
    AOSIs <- MCAOSIs
    MaxPartitions = 2
    Ranges <- MCRanges
    PassAOST = FALSE
    PartitionFlags = {FALSE}
    MaxRowsPerCopy = 1
    BatchInputs <- MCBatchInputs
    NoExpiry = NoExpiry
    Nil = Nil
    OK = OK
    InvalidRequest = InvalidRequest
    BackendError = BackendError

SPECIFICATION RawSpec

INVARIANT TalliesSortedUnique
