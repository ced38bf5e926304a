CONSTANTS
    g1 = g1
    g2 = g2
    n1 = n1
    n2 = n2
    Adapters = {1, 2}
    Impl <- MCImpl
    Owner <- MCOwner
    ZeroOwner = 1
    Nodes <- MCNodes
    SegIds <- MCSegIds
    SegProject <- MCSegProject
    SegNodes <- MCSegNodes
    SegInputs <- MCSegInputs
    MaxRowsPerCopy = 1
    CallBound <- MCCallBound
    DeleteAloneOnly = TRUE
    OK = OK
    BackendError = BackendError
    DataIntegrityError = DataIntegrityError

SPECIFICATION Spec


INVARIANT SegmentsBehindOwner

\* Every helper call has returned and the bounds allow no more: the
\* caller may stop there.
CHECK_DEADLOCK FALSE
