CONSTANTS
    BufSize = 2
    MaxWrite = 3
    MaxBytes = 5
    MaxReaderCloses = 2
    Nil = Nil
SPECIFICATION Spec
PROPERTY BlobRefinement
INVARIANT SizeReportsWritten
INVARIANT ReleasedAtMostOnce
