---------------------------- MODULE AbstractTally ----------------------------
(***************************************************************************)
(* What CollectBucketTallies promises its caller, whatever the adapters   *)
(* and query strategies behind it.  Each adapter keeps a history of its   *)
(* table that writes only extend.  A request for an inverted range is     *)
(* refused at once.  Any other request is answered once, by an error or   *)
(* by the tallies of one snapshot per adapter: a snapshot taken no       *)
(* earlier than the staleness the caller allowed and no later than the   *)
(* answer, listed strictly ascending by bucket location.                  *)
(***************************************************************************)
EXTENDS Integers, Sequences, FiniteSets, Functions

CONSTANTS
    Adapters,
    MaxTime,
    Requests,        \* the requests callers make, with Now defaulted
    ValidRange(_),   \* To is not ordered before From
    Oldest(_),       \* the oldest snapshot a request allows
    TallyOf(_, _),   \* the set of bucket tallies of a table for a request
    Before(_, _),    \* the ascending order of tallies
    InvalidRequest, BackendError, Nil

VARIABLES now, db, fpc, req, result

tvars == <<now, db, fpc, req, result>>

TInit ==
    /\ now = 1
    /\ db = [a \in Adapters |-> [t \in 0..MaxTime |-> {}]]
    /\ fpc = "idle"
    /\ req = Nil
    /\ result = Nil

\* A write commits at a fresh timestamp and leaves every snapshot up to
\* the previous one as it was.
TWrite ==
    /\ now < MaxTime
    /\ now' = now + 1
    /\ \A a \in Adapters : \A t \in 0..now : db'[a][t] = db[a][t]
    /\ UNCHANGED <<fpc, req, result>>

TRequest ==
    /\ fpc \in {"idle", "done"}
    /\ req' \in Requests
    /\ req'.now = now
    /\ IF ValidRange(req')
       THEN fpc' = "collecting" /\ result' = Nil
       ELSE fpc' = "done" /\ result' = InvalidRequest
    /\ UNCHANGED <<now, db>>

Ascending(s) == \A i \in 1..Len(s) - 1 : Before(s[i], s[i + 1])

\* The tallies of the snapshots rt, each tally once, in ascending order.
ListsSnapshots(s, rt) ==
    LET all == UNION {TallyOf(db[a][rt[a]], req) : a \in Adapters}
    IN  /\ Range(s) = all
        /\ Len(s) = Cardinality(all)
        /\ Ascending(s)

TAnswer ==
    /\ fpc = "collecting"
    /\ fpc' = "done"
    /\ \/ result' = BackendError
       \/ \E rt \in [Adapters -> Oldest(req)..now] : ListsSnapshots(result', rt)
    /\ UNCHANGED <<now, db, req>>

TNext == TWrite \/ TRequest \/ TAnswer

TSpec == TInit /\ [][TNext]_tvars

=============================================================================
