------------------------------- MODULE FileIO -------------------------------
(***************************************************************************)
(* jfs_fio_write and jfs_fio_read of src/modules/file_io.c at the two ends *)
(* of a pipe, one call each; an end is closed when its call returns.       *)
(*                                                                         *)
(* The writer's bytes are numbered from 1.  read and write may transfer    *)
(* less than asked, be interrupted or fail.  Neither loop resets *err      *)
(* after an interruption: see Counted.                                     *)
(***************************************************************************)
EXTENDS Integers, Sequences

CONSTANTS
  MaxSize,  \* bound: the sizes the calls are made with are 0..MaxSize
  PipeCap   \* what the pipe holds

ASSUME IOAssumption == MaxSize \in Nat /\ PipeCap \in Nat \ {0}

End == {"w", "r"}

VARIABLES
  size,        \* size[e]: the size the call at end e was made with
  total,       \* total[e]: total_written, total_read
  err,         \* err[e]: *err
  returned,    \* the ends whose call returned
  pipe,        \* the bytes in the pipe
  buf,         \* read_buf; 0 is a byte that was not written yet
  interrupted  \* history: the ends whose call was interrupted

vars == <<size, total, err, returned, pipe, buf, interrupted>>

Init ==
  /\ size \in [End -> 0..MaxSize]
  /\ total = [e \in End |-> 0] /\ err = [e \in End |-> "OK"]
  /\ returned = {} /\ interrupted = {}
  /\ pipe = <<>> /\ buf = [i \in 1..MaxSize |-> 0]

\* Mutant: the first transfer ends the loop.
LoopEndsEarly(e) == total[e] > 0 \/ size[e] = 0

LoopEnds(e) == total[e] >= size[e]

Looping(e) == e \notin returned /\ ~LoopEnds(e)

\* The call leaves its loop and returns.
Return(e) ==
  /\ e \notin returned /\ LoopEnds(e)
  /\ returned' = returned \cup {e}
  /\ UNCHANGED <<size, total, err, pipe, buf, interrupted>>

\* Mutant: one byte too many is counted.
CountedMore(e, n) == total[e] + n + 1

\* total[e] after n bytes were transferred.  Once *err is JFS_ERR_INTER it
\* stays so, and the loop goes on without counting.
Counted(e, n) == IF err[e] = "INTER" THEN total[e] ELSE total[e] + n

\* Mutant: every write starts at the first byte of the buffer.
ChunkFromStart(n) == [i \in 1..n |-> i]

\* The n bytes at write_buf + total_written.
Chunk(n) == [i \in 1..n |-> total["w"] + i]

\* write takes n bytes.
Write(n) ==
  /\ Looping("w") /\ "r" \notin returned
  /\ n \in 1..(size["w"] - total["w"]) /\ n <= PipeCap - Len(pipe)
  /\ pipe' = pipe \o Chunk(n)
  /\ total' = [total EXCEPT !["w"] = Counted("w", n)]
  /\ UNCHANGED <<size, err, returned, buf, interrupted>>

\* read returns n bytes, which go to read_buf + total_read.
Read(n) ==
  /\ Looping("r")
  /\ n \in 1..(size["r"] - total["r"]) /\ n <= Len(pipe)
  /\ buf' = [i \in 1..MaxSize |->
               IF i \in (total["r"] + 1)..(total["r"] + n) THEN pipe[i - total["r"]]
               ELSE buf[i]]
  /\ pipe' = SubSeq(pipe, n + 1, Len(pipe))
  /\ total' = [total EXCEPT !["r"] = Counted("r", n)]
  /\ UNCHANGED <<size, err, returned, interrupted>>

\* The call fails with x and returns.
Fail(e, x) ==
  /\ err' = [err EXCEPT ![e] = x]
  /\ returned' = returned \cup {e}
  /\ UNCHANGED <<size, total, pipe, buf, interrupted>>

\* Mutant: read of 0 bytes is no reason to stop.
ReadEndLoops == Looping("r") /\ pipe = <<>> /\ "w" \in returned /\ UNCHANGED vars

\* The writer is gone and the pipe empty: read returns 0.
ReadEnd ==
  /\ Looping("r") /\ pipe = <<>> /\ "w" \in returned
  /\ IF err["r"] = "INTER" THEN UNCHANGED vars ELSE Fail("r", "FIO_FILE_END")

\* The reader is gone: EPIPE.
WritePipe == Looping("w") /\ "r" \in returned /\ Fail("w", "PIPE")

\* jfs_read or jfs_write fails.
IOError(e) == Looping(e) /\ \E x \in {"AGAIN", "SYS"} : Fail(e, x)

\* EINTR: the loop goes on.
Interrupt(e) ==
  /\ Looping(e)
  /\ err' = [err EXCEPT ![e] = "INTER"]
  /\ interrupted' = interrupted \cup {e}
  /\ UNCHANGED <<size, total, returned, pipe, buf>>

Finished == returned = End /\ UNCHANGED vars

Writer == Return("w") \/ WritePipe \/ \E n \in 1..MaxSize : Write(n)

Reader == Return("r") \/ ReadEnd \/ \E n \in 1..MaxSize : Read(n)

Next == Writer \/ Reader \/ Finished \/ \E e \in End : IOError(e) \/ Interrupt(e)

Fairness == WF_vars(Writer) /\ WF_vars(Reader)

Spec == Init /\ [][Next]_vars /\ Fairness

-----------------------------------------------------------------------------
(* Properties. *)

TypeOK ==
  /\ size \in [End -> 0..MaxSize] /\ total \in [End -> 0..MaxSize]
  /\ err \in [End -> {"OK", "INTER", "AGAIN", "SYS", "PIPE", "FIO_FILE_END"}]
  /\ returned \subseteq End /\ interrupted \subseteq End
  /\ pipe \in Seq(1..MaxSize) /\ Len(pipe) <= PipeCap
  /\ buf \in [1..MaxSize -> 0..MaxSize]
  /\ \A e \in End : total[e] <= size[e]

\* However jfs_fio_write and jfs_fio_read split the transfer, and also when one
\* of them fails half way: what total_read says was read is the first bytes
\* the writer sent, what is in the pipe follows on, and together they are what
\* total_written says, as long as no call is interrupted.
BytesInOrder ==
  interrupted = {} =>
    /\ total["w"] = total["r"] + Len(pipe)
    /\ \A i \in 1..total["r"] : buf[i] = i
    /\ \A i \in 1..Len(pipe) : pipe[i] = total["r"] + i

\* A call that returns JFS_OK transferred all its bytes.  It was never
\* interrupted: a call that was can only end with another error.
OkIsWhole ==
  \A e \in returned : err[e] = "OK" => total[e] = size[e] /\ e \notin interrupted

\* Both calls return, with success or an error, unless one is interrupted:
\* neither waits forever for the other.
CallsReturn == <>(returned = End \/ interrupted # {})

=============================================================================
