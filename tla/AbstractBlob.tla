---------------------------- MODULE AbstractBlob ----------------------------
(***************************************************************************)
(* What a blob writer promises its caller, whatever its buffering: bytes *)
(* accepted while it is open; then, once, either a committed blob that   *)
(* holds exactly the bytes accepted before the commit, or nothing.  A    *)
(* committed or discarded blob never changes again.  Bytes accepted      *)
(* after that reach no blob.                                             *)
(***************************************************************************)
EXTENDS Naturals

CONSTANTS MaxBytes, Nil

VARIABLES
    phase,   \* "open", "committed" or "discarded"
    data,    \* bytes the writer accepted
    stored   \* the committed blob's bytes, or Nil

avars == <<phase, data, stored>>

AInit == phase = "open" /\ data = 0 /\ stored = Nil

\* Bytes accepted: more data, the blob untouched.
Accept ==
    /\ \E n \in data + 1..MaxBytes : data' = n
    /\ UNCHANGED <<phase, stored>>

\* Commit: the blob holds what was accepted, or the commit fails and the
\* writer is discarded.
ACommit ==
    /\ phase = "open"
    /\ \/ phase' = "committed" /\ stored' = data
       \/ phase' = "discarded" /\ UNCHANGED stored
    /\ UNCHANGED data

ACancel ==
    /\ phase = "open"
    /\ phase' = "discarded"
    /\ UNCHANGED <<data, stored>>

ANext == Accept \/ ACommit \/ ACancel

ASpec == AInit /\ [][ANext]_avars

=============================================================================
