----------------------------- MODULE BlobWriter -----------------------------
(***************************************************************************)
(* storagenode/blobstore/filestore/blob.go: the blobWriter a storage node *)
(* writes a piece through.  Bytes go through a bufio.Writer of BufSize    *)
(* into a temporary file; Commit flushes and hands the file to            *)
(* Dir.Commit, Cancel closes and removes it.  One caller uses a writer,   *)
(* in any order of calls; the writer takes no lock.                       *)
(*                                                                         *)
(* Dir.Commit lives outside this repository.  It is modelled as what it  *)
(* is documented to do: close the handle, then rename the temporary file *)
(* to the blob's path, or remove it and return the error.                *)
(*                                                                         *)
(* A blobReader of the committed blob may then be opened (Dir.Open, also  *)
(* outside this repository) and used beside the writer's remaining calls.*)
(***************************************************************************)
EXTENDS Naturals

CONSTANTS
    BufSize,    \* the bufio.Writer size (bufferSize)
    MaxWrite,   \* the largest len(p) a caller passes to Write
    MaxBytes,   \* bound on the bytes a behaviour writes
    MaxReaderCloses, \* bound on the Close calls a reader gets
    Nil

ASSUME BufSize \in Nat \ {0} /\ MaxWrite \in Nat \ {0} /\ MaxBytes \in Nat

VARIABLES
    closed,       \* blob.closed
    buf,          \* the bufio.Writer: [buffered, onDisk, err]
    fhCloses,     \* how often fh.Close ran
    trackCloses,  \* how often track.Close ran (the leak.Ref)
    tmp,          \* the temporary file: "temp", "removed" or "renamed"
    target,       \* the committed blob's bytes, or Nil
    written,      \* bytes of the Writes that returned no error (ghost)
    sizeRet,      \* last successful Size: [pos, written then], or Nil
    ret,          \* "ok" or "err": what the last call returned
    rpc,          \* the blobReader: "none" before Open, then "open"
    rFileCloses,  \* how often the reader's File.Close ran
    rTrackCloses  \* how often the reader's track.Close ran

readerVars == <<rpc, rFileCloses, rTrackCloses>>

vars == <<closed, buf, fhCloses, trackCloses, tmp, target, written, sizeRet, ret, readerVars>>

fhOpen == fhCloses = 0

-----------------------------------------------------------------------------
(***************************************************************************)
(* bufio.Writer.  A write to the file may fail whenever it happens, and   *)
(* always fails once fh is closed; an error is sticky: every later Write  *)
(* and Flush returns it and moves no byte.                                *)
(***************************************************************************)
FileWrite(st, n) ==
    {[st EXCEPT !.err = TRUE]} \cup
        IF fhOpen THEN {[st EXCEPT !.onDisk = @ + n]} ELSE {}

\* Writer.Flush: the set of states it may leave.
Flush(st) ==
    IF st.err \/ st.buffered = 0 THEN {st}
    ELSE {[s EXCEPT !.buffered = IF s.err THEN @ ELSE 0] : s \in FileWrite(st, st.buffered)}

\* Writer.Write: while p does not fit, write it straight to the file when
\* the buffer is empty, else fill the buffer and flush; then buffer the rest.
RECURSIVE BufWrite(_, _)
BufWrite(st, n) ==
    CASE st.err                           -> {st}
      [] n <= BufSize - st.buffered      -> {[st EXCEPT !.buffered = @ + n]}
      [] st.buffered = 0                 -> FileWrite(st, n)
      [] OTHER ->
            LET fill == BufSize - st.buffered
            IN  UNION {BufWrite(f, n - fill) :
                        f \in Flush([st EXCEPT !.buffered = BufSize])}

Ok(st) == IF st.err THEN "err" ELSE "ok"

-----------------------------------------------------------------------------
\* blobWriter.Write: return blob.buffer.Write(p).
Write ==
    \E n \in 1..MaxWrite :
        /\ written + n <= MaxBytes
        /\ \E st \in BufWrite(buf, n) :
            /\ buf' = st
            /\ written' = IF st.err THEN written ELSE written + n
            /\ ret' = Ok(st)
        /\ UNCHANGED <<closed, fhCloses, trackCloses, tmp, target, sizeRet>>
    /\ UNCHANGED readerVars

\* Mutant: Seek without the flush, reporting the file offset alone.
SeekNoFlush(st) == {st}

\* if err := blob.buffer.Flush(); err != nil { return 0, err }
SeekFlush(st) == Flush(st)

\* blobWriter.Size: Seek(0, io.SeekCurrent), which flushes first and then
\* seeks fh; a closed fh fails the seek.
Size ==
    \E st \in SeekFlush(buf) :
        /\ buf' = st
        /\ IF st.err \/ ~fhOpen
           THEN ret' = "err" /\ UNCHANGED sizeRet
           ELSE ret' = "ok" /\ sizeRet' = [pos |-> st.onDisk, written |-> written]
        /\ UNCHANGED <<closed, fhCloses, trackCloses, tmp, target, written>>
    /\ UNCHANGED readerVars

\* Mutant: the closed check dropped from Cancel.
CancelSkipsNever == FALSE

\* if blob.closed { return nil }
CancelSkips == closed

\* blobWriter.Cancel: close fh, remove the file (which may fail), close the
\* leak tracker.  While closed is unset fh is open, so only the remove
\* can fail.
Cancel ==
    /\ IF CancelSkips
       THEN UNCHANGED <<closed, fhCloses, trackCloses, tmp>> /\ ret' = "ok"
       ELSE /\ closed' = TRUE
            /\ fhCloses' = fhCloses + 1
            /\ trackCloses' = trackCloses + 1
            /\ \/ tmp' = "removed" /\ ret' = "ok"
               \/ tmp' = tmp /\ ret' = "err"
    /\ UNCHANGED <<buf, target, written, sizeRet>>
    /\ UNCHANGED readerVars

\* Mutant: Commit hands the file over without flushing the buffer.
CommitNoFlush(st) == {st}

\* if err := blob.buffer.Flush(); err != nil { return err }
CommitFlush(st) == Flush(st)

(***************************************************************************)
(* blobWriter.Commit.  closed is set before the flush, and a failed flush *)
(* returns with fh and the tracker still open (the TODO of line 134).    *)
(***************************************************************************)
Commit ==
    /\ IF closed
       THEN ret' = "err" /\ UNCHANGED <<closed, buf, fhCloses, trackCloses, tmp, target>>
       ELSE /\ closed' = TRUE
            /\ \E st \in CommitFlush(buf) :
                /\ buf' = st
                /\ IF st.err
                   THEN ret' = "err" /\ UNCHANGED <<fhCloses, trackCloses, tmp, target>>
                   ELSE \* dir.Commit, then track.Close
                        /\ fhCloses' = fhCloses + 1
                        /\ trackCloses' = trackCloses + 1
                        /\ \/ tmp' = "renamed" /\ ret' = "ok"
                              /\ target' = st.onDisk
                           \/ tmp' = "removed" /\ ret' = "err" /\ UNCHANGED target
    /\ UNCHANGED <<written, sizeRet>>
    /\ UNCHANGED readerVars

\* newBlobWriter over a freshly created temporary file.
Init ==
    /\ closed = FALSE
    /\ buf = [buffered |-> 0, onDisk |-> 0, err |-> FALSE]
    /\ fhCloses = 0
    /\ trackCloses = 0
    /\ tmp = "temp"
    /\ target = Nil
    /\ written = 0
    /\ sizeRet = Nil
    /\ ret = "ok"
    /\ rpc = "none"
    /\ rFileCloses = 0
    /\ rTrackCloses = 0

-----------------------------------------------------------------------------
\* Dir.Open of the committed blob, then newBlobReader(track, file, version).
ReaderOpen ==
    /\ rpc = "none"
    /\ tmp = "renamed"
    /\ rpc' = "open"
    /\ ret' = "ok"
    /\ UNCHANGED <<closed, buf, fhCloses, trackCloses, tmp, target, written, sizeRet,
                   rFileCloses, rTrackCloses>>

\* blobReader.Size: Stat, which fails once the file is closed.
ReaderSize ==
    /\ rpc = "open"
    /\ ret' \in IF rFileCloses = 0 THEN {"ok", "err"} ELSE {"err"}
    /\ UNCHANGED <<closed, buf, fhCloses, trackCloses, tmp, target, written, sizeRet,
                   readerVars>>

\* errs.Combine(blob.File.Close(), blob.track.Close()): both calls are
\* evaluated before their errors are combined.
ReaderTrackClosed(fileOk) == TRUE

\* blobReader.Close, with no closed flag: a second Close runs both closes
\* again, and File.Close then returns os.ErrClosed.
ReaderClose ==
    /\ rpc = "open"
    /\ rFileCloses < MaxReaderCloses
    /\ \E fileOk \in IF rFileCloses = 0 THEN BOOLEAN ELSE {FALSE} :
        /\ rFileCloses' = rFileCloses + 1
        /\ rTrackCloses' = rTrackCloses + (IF ReaderTrackClosed(fileOk) THEN 1 ELSE 0)
        /\ ret' = IF fileOk THEN "ok" ELSE "err"
    /\ UNCHANGED <<closed, buf, fhCloses, trackCloses, tmp, target, written, sizeRet, rpc>>

Next == Write \/ Size \/ Cancel \/ Commit \/ ReaderOpen \/ ReaderSize \/ ReaderClose

Spec == Init /\ [][Next]_vars

-----------------------------------------------------------------------------
(***************************************************************************)
(* The writer implements AbstractBlob: it is open until Commit or Cancel *)
(* first runs, a committed blob holds exactly the bytes Writes accepted  *)
(* before the commit (those still in the bufio buffer included), and a   *)
(* committed blob is never removed nor a discarded one committed by a    *)
(* later Cancel or Commit.                                                *)
(***************************************************************************)
Phase == CASE tmp = "renamed" -> "committed"
           [] closed          -> "discarded"
           [] OTHER           -> "open"

Blob == INSTANCE AbstractBlob WITH
            phase <- Phase, data <- written, stored <- target

BlobRefinement == Blob!ASpec

(***************************************************************************)
(* Size reports the bytes written so far, including those still buffered,*)
(* because Seek flushes before asking fh for its offset.                 *)
(***************************************************************************)
SizeReportsWritten == sizeRet # Nil => sizeRet.pos = sizeRet.written

(***************************************************************************)
(* Whatever the order of Commit and Cancel calls, fh and the leak tracker *)
(* are released at most once: the closed flag makes the second call a    *)
(* no-op.                                                                 *)
(***************************************************************************)
ReleasedAtMostOnce == fhCloses <= 1 /\ trackCloses <= 1

(***************************************************************************)
(* Once Commit or Cancel has run, fh and the leak tracker are released,  *)
(* so a writer whose commit failed does not leak its handle.              *)
(***************************************************************************)
ClosedWriterReleased == closed => fhCloses = 1 /\ trackCloses = 1

=============================================================================
