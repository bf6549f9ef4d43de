---------------------------- MODULE FileIOProofs ----------------------------
(***************************************************************************)
(* FileIO for every MaxSize and PipeCap.  IInv is inductive: that bytes    *)
(* stay in order needs InterSticks, without which a transfer could go      *)
(* uncounted in a call that was never interrupted.                         *)
(***************************************************************************)
EXTENDS FileIO, SequenceTheorems, TLAPS

\* The provers of a leaf that names none, in this order.
USE SMTT(20), Z3T(20), ZenonT(20)

\* What *err tells of interruptions: JFS_ERR_INTER is there only after one, and
\* no call that had one sees JFS_OK again.
InterSticks ==
  \A e \in End : /\ err[e] = "INTER" => e \in interrupted
                 /\ e \in interrupted => err[e] # "OK"

IInv == TypeOK /\ InterSticks /\ BytesInOrder /\ OkIsWhole

\* Every initial state of the two calls satisfies the invariant.
LEMMA InitIInv == Init => IInv
BY IOAssumption DEF Init, IInv, TypeOK, InterSticks, BytesInOrder, OkIsWhole, End

\* What is known of a transfer of n bytes by a loop that goes on.
LEMMA CountedType ==
  ASSUME TypeOK, NEW e \in End, NEW n \in 1..(size[e] - total[e])
  PROVE  /\ Counted(e, n) \in 0..MaxSize /\ Counted(e, n) <= size[e]
         /\ err[e] # "INTER" => Counted(e, n) = total[e] + n
BY IOAssumption DEF TypeOK, Counted

\* The n bytes behind byte t.
LEMMA RunOfBytes ==
  ASSUME NEW t \in Nat, NEW n \in Nat, NEW m \in Nat, t + n <= m
  PROVE  /\ [i \in 1..n |-> t + i] \in Seq(1..m)
         /\ Len([i \in 1..n |-> t + i]) = n
<1>1. [i \in 1..n |-> t + i] \in [1..n -> 1..m]
  OBVIOUS
<1> QED
  BY <1>1

\* What is behind the bytes of p in a pipe that takes the bytes c.
LEMMA ByteBehind ==
  ASSUME NEW S, NEW p \in Seq(S), NEW c \in Seq(S),
         NEW i \in (Len(p) + 1)..(Len(p) + Len(c))
  PROVE  (p \o c)[i] = c[i - Len(p)]
<1>1. i \in 1..(Len(p) + Len(c)) /\ ~(i <= Len(p))
  OBVIOUS
<1>2. (p \o c)[i] = IF i <= Len(p) THEN p[i] ELSE c[i - Len(p)]
  BY <1>1, ConcatProperties
<1> QED
  BY <1>1, <1>2

\* A pipe p that gives its first n bytes.
LEMMA PipeShrinks ==
  ASSUME NEW m \in Nat, NEW p \in Seq(1..m), NEW n \in 1..Len(p),
         NEW q, q = SubSeq(p, n + 1, Len(p))
  PROVE  /\ q \in Seq(1..m) /\ Len(q) = Len(p) - n
         /\ \A i \in 1..(Len(p) - n) : q[i] = p[i + n]
<1>1. \A i \in (n + 1)..Len(p) : p[i] \in 1..m
  OBVIOUS
<1>2. /\ q \in Seq(1..m)
      /\ Len(q) = IF n + 1 <= Len(p) THEN Len(p) - (n + 1) + 1 ELSE 0
      /\ \A i \in 1..(Len(p) - (n + 1) + 1) : q[i] = p[n + 1 + i - 1]
  BY <1>1, SubSeqProperties
<1>3. Len(p) \in Nat /\ n \in Nat /\ n <= Len(p)
  OBVIOUS
<1>4. Len(q) = Len(p) - n
  <2>1. CASE n + 1 <= Len(p)
    BY <2>1, <1>2, <1>3
  <2>2. CASE n = Len(p)
    BY <2>2, <1>2, <1>3
  <2> QED
    BY <2>1, <2>2, <1>3
<1>5. \A i \in 1..(Len(p) - n) : q[i] = p[i + n]
  <2> TAKE i \in 1..(Len(p) - n)
  <2>1. i \in 1..(Len(p) - (n + 1) + 1) /\ n + 1 + i - 1 = i + n
    BY <1>3
  <2> QED
    BY <1>2, <2>1
<1> QED
  BY <1>2, <1>4, <1>5

\* jfs_write takes some bytes: the pipe goes on where total_written was.
LEMMA WriteIInv ==
  ASSUME IInv, NEW n \in 1..MaxSize, Write(n)
  PROVE  IInv'
<1> USE IOAssumption DEF End
<1>1. /\ n \in 1..(size["w"] - total["w"]) /\ n <= PipeCap - Len(pipe)
      /\ pipe' = pipe \o Chunk(n)
      /\ total' = [total EXCEPT !["w"] = Counted("w", n)]
      /\ UNCHANGED <<size, err, returned, buf, interrupted>>
      /\ "w" \notin returned
  BY DEF Write, Looping
<1>2. TypeOK
  BY DEF IInv
<1>3. /\ Counted("w", n) \in 0..MaxSize /\ Counted("w", n) <= size["w"]
      /\ err["w"] # "INTER" => Counted("w", n) = total["w"] + n
  BY <1>1, <1>2, CountedType
<1>4. /\ total["w"] \in Nat /\ total["r"] \in Nat /\ n \in Nat
      /\ Len(pipe) \in Nat /\ total["w"] + n <= MaxSize
  BY <1>1, <1>2 DEF TypeOK
<1>5. /\ pipe' \in Seq(1..MaxSize) /\ Len(pipe') = Len(pipe) + n
      /\ \A i \in 1..Len(pipe) : pipe'[i] = pipe[i]
      /\ \A i \in (Len(pipe) + 1)..(Len(pipe) + n) :
           pipe'[i] = total["w"] + (i - Len(pipe))
  <2> DEFINE c == Chunk(n)
  <2>1. MaxSize \in Nat /\ pipe \in Seq(1..MaxSize) /\ pipe' = pipe \o c
    BY <1>1, <1>2 DEF TypeOK
  <2>2. c \in Seq(1..MaxSize) /\ Len(c) = n
    BY <1>4, <2>1, RunOfBytes, Zenon DEF Chunk
  <2>3. \A i \in 1..n : c[i] = total["w"] + i
    BY DEF Chunk
  <2> HIDE DEF c
  <2>4. pipe' \in Seq(1..MaxSize) /\ Len(pipe') = Len(pipe) + n
    <3>1. pipe \o c \in Seq(1..MaxSize) /\ Len(pipe \o c) = Len(pipe) + Len(c)
      BY <2>1, <2>2, ConcatProperties, Zenon
    <3> QED
      BY <3>1, <2>1, <2>2
  <2>5. \A i \in 1..Len(pipe) : pipe'[i] = pipe[i]
    BY <2>1, <2>2
  <2>6. \A i \in (Len(pipe) + 1)..(Len(pipe) + n) : pipe'[i] = c[i - Len(pipe)]
    <3> TAKE i \in (Len(pipe) + 1)..(Len(pipe) + n)
    <3>1. i \in (Len(pipe) + 1)..(Len(pipe) + Len(c))
      BY <2>2
    <3>2. (pipe \o c)[i] = c[i - Len(pipe)]
      BY <3>1, <2>1, <2>2, ByteBehind
    <3> QED
      BY <3>2, <2>1, Zenon
  <2>7. \A i \in (Len(pipe) + 1)..(Len(pipe) + n) : i - Len(pipe) \in 1..n
    BY <1>4
  <2> QED
    BY <2>3, <2>4, <2>5, <2>6, <2>7
<1>6. TypeOK'
  <2>1. total' \in [End -> 0..MaxSize] /\ \A e \in End : total'[e] <= size[e]
    BY <1>1, <1>2, <1>3 DEF TypeOK
  <2>2. Len(pipe') <= PipeCap
    BY <1>1, <1>4, <1>5
  <2> QED
    BY <1>1, <1>2, <1>5, <2>1, <2>2, Zenon DEF TypeOK
<1>7. InterSticks'
  BY <1>1 DEF IInv, InterSticks
<1>8. BytesInOrder'
  <2> SUFFICES ASSUME interrupted = {}
               PROVE  /\ total'["w"] = total'["r"] + Len(pipe')
                      /\ \A i \in 1..total'["r"] : buf'[i] = i
                      /\ \A i \in 1..Len(pipe') : pipe'[i] = total'["r"] + i
    BY <1>1 DEF BytesInOrder
  <2>1. /\ total["w"] = total["r"] + Len(pipe)
        /\ \A i \in 1..total["r"] : buf[i] = i
        /\ \A i \in 1..Len(pipe) : pipe[i] = total["r"] + i
    BY DEF IInv, BytesInOrder
  <2>2. total'["w"] = total["w"] + n /\ total'["r"] = total["r"]
    BY <1>1, <1>2, <1>3 DEF IInv, InterSticks, TypeOK
  <2>3. \A i \in 1..Len(pipe') : pipe'[i] = total["r"] + i
    <3> TAKE i \in 1..Len(pipe')
    <3>1. CASE i <= Len(pipe)
      BY <3>1, <1>4, <1>5, <2>1
    <3>2. CASE i > Len(pipe)
      <4>1. i \in (Len(pipe) + 1)..(Len(pipe) + n)
        BY <3>2, <1>4, <1>5
      <4> QED
        BY <4>1, <1>4, <1>5, <2>1
    <3> QED
      BY <3>1, <3>2, <1>4, <1>5
  <2>4. total'["w"] = total'["r"] + Len(pipe')
    BY <1>4, <1>5, <2>1, <2>2
  <2> QED
    BY <1>1, <2>1, <2>2, <2>3, <2>4
<1>9. OkIsWhole'
  BY <1>1, <1>2, SMTT(20) DEF IInv, OkIsWhole, TypeOK
<1> QED
  BY <1>6, <1>7, <1>8, <1>9 DEF IInv

\* jfs_read returns some bytes: the buffer goes on where total_read was.
LEMMA ReadIInv ==
  ASSUME IInv, NEW n \in 1..MaxSize, Read(n)
  PROVE  IInv'
<1> USE IOAssumption DEF End
<1>1. /\ n \in 1..(size["r"] - total["r"]) /\ n <= Len(pipe)
      /\ buf' = [i \in 1..MaxSize |->
                   IF i \in (total["r"] + 1)..(total["r"] + n)
                   THEN pipe[i - total["r"]] ELSE buf[i]]
      /\ pipe' = SubSeq(pipe, n + 1, Len(pipe))
      /\ total' = [total EXCEPT !["r"] = Counted("r", n)]
      /\ UNCHANGED <<size, err, returned, interrupted>>
      /\ "r" \notin returned
  BY DEF Read, Looping
<1>2. TypeOK
  BY DEF IInv
<1>3. /\ Counted("r", n) \in 0..MaxSize /\ Counted("r", n) <= size["r"]
      /\ err["r"] # "INTER" => Counted("r", n) = total["r"] + n
  BY <1>1, <1>2, CountedType
<1>4. /\ total["w"] \in Nat /\ total["r"] \in Nat /\ n \in Nat
      /\ Len(pipe) \in Nat /\ total["r"] + n <= MaxSize
  <2>1. total["w"] \in Nat /\ total["r"] \in Nat /\ size["r"] \in 0..MaxSize
    BY <1>2 DEF TypeOK
  <2>2. Len(pipe) \in Nat
    BY <1>2 DEF TypeOK
  <2> QED
    BY <1>1, <2>1, <2>2
<1>5. /\ pipe' \in Seq(1..MaxSize) /\ Len(pipe') = Len(pipe) - n
      /\ \A i \in 1..(Len(pipe) - n) : pipe'[i] = pipe[i + n]
  <2>1. /\ pipe \in Seq(1..MaxSize) /\ n \in 1..Len(pipe)
        /\ pipe' = SubSeq(pipe, n + 1, Len(pipe))
    BY <1>1, <1>2 DEF TypeOK
  <2> QED
    BY <2>1, PipeShrinks
<1>6. TypeOK'
  <2>1. total' \in [End -> 0..MaxSize] /\ \A e \in End : total'[e] <= size[e]
    BY <1>1, <1>2, <1>3 DEF TypeOK
  <2>2. Len(pipe') <= PipeCap
    BY <1>1, <1>2, <1>4, <1>5 DEF TypeOK
  <2>3. buf' \in [1..MaxSize -> 0..MaxSize]
    <3>1. /\ \A j \in 1..Len(pipe) : pipe[j] \in 1..MaxSize
          /\ \A i \in 1..MaxSize : buf[i] \in 0..MaxSize
      <4>1. pipe \in Seq(1..MaxSize) /\ buf \in [1..MaxSize -> 0..MaxSize]
        BY <1>2 DEF TypeOK
      <4> QED
        BY <4>1
    <3>2. \A i \in (total["r"] + 1)..(total["r"] + n) : i - total["r"] \in 1..Len(pipe)
      BY <1>1, <1>4
    <3> QED
      BY <1>1, <3>1, <3>2
  <2> QED
    BY <1>1, <1>2, <1>5, <2>1, <2>2, <2>3, Zenon DEF TypeOK
<1>7. InterSticks'
  BY <1>1 DEF IInv, InterSticks
<1>8. BytesInOrder'
  <2> SUFFICES ASSUME interrupted = {}
               PROVE  /\ total'["w"] = total'["r"] + Len(pipe')
                      /\ \A i \in 1..total'["r"] : buf'[i] = i
                      /\ \A i \in 1..Len(pipe') : pipe'[i] = total'["r"] + i
    BY <1>1 DEF BytesInOrder
  <2>1. /\ total["w"] = total["r"] + Len(pipe)
        /\ \A i \in 1..total["r"] : buf[i] = i
        /\ \A i \in 1..Len(pipe) : pipe[i] = total["r"] + i
    BY DEF IInv, BytesInOrder
  <2>2. total'["r"] = total["r"] + n /\ total'["w"] = total["w"]
    BY <1>1, <1>2, <1>3 DEF IInv, InterSticks, TypeOK
  <2>3. \A i \in 1..Len(pipe') : pipe'[i] = total'["r"] + i
    BY <1>1, <1>4, <1>5, <2>1, <2>2
  <2>4. \A i \in 1..total'["r"] : buf'[i] = i
    <3> TAKE i \in 1..total'["r"]
    <3>1. i \in 1..MaxSize
      BY <1>4, <2>2
    <3>2. CASE i <= total["r"]
      BY <3>1, <3>2, <1>1, <1>4, <2>1
    <3>3. CASE i > total["r"]
      <4>1. i \in (total["r"] + 1)..(total["r"] + n) /\ i - total["r"] \in 1..Len(pipe)
        BY <3>3, <1>1, <1>4, <2>2
      <4>2. buf'[i] = pipe[i - total["r"]]
        BY <3>1, <4>1, <1>1
      <4> QED
        BY <4>1, <4>2, <1>4, <2>1
    <3> QED
      BY <3>1, <3>2, <3>3, <1>4
  <2>5. total'["w"] = total'["r"] + Len(pipe')
    BY <1>4, <1>5, <2>1, <2>2
  <2> QED
    BY <2>3, <2>4, <2>5
<1>9. OkIsWhole'
  BY <1>1, <1>2, SMTT(20) DEF IInv, OkIsWhole, TypeOK
<1> QED
  BY <1>6, <1>7, <1>8, <1>9 DEF IInv

\* An error other than an interruption: *err says so and nothing is counted.
LEMMA FailIInv ==
  ASSUME IInv, NEW e \in End, NEW x \in {"AGAIN", "SYS", "PIPE", "FIO_FILE_END"},
         Fail(e, x)
  PROVE  IInv'
<1>1. TypeOK' /\ InterSticks' /\ BytesInOrder'
  BY DEF IInv, Fail, TypeOK, InterSticks, BytesInOrder, End
<1>2. OkIsWhole'
  BY DEF IInv, Fail, TypeOK, OkIsWhole, End
<1> QED
  BY <1>1, <1>2 DEF IInv

\* Every step of the two calls preserves the invariant.
LEMMA NextIInv == IInv /\ [Next]_vars => IInv'
<1> SUFFICES ASSUME IInv, [Next]_vars PROVE IInv'
  OBVIOUS
<1>1. CASE UNCHANGED vars
  BY <1>1 DEF vars, IInv, TypeOK, InterSticks, BytesInOrder, OkIsWhole
<1>2. ASSUME NEW e \in End, Return(e) PROVE IInv'
  BY <1>2 DEF Return, LoopEnds, IInv, TypeOK, InterSticks, BytesInOrder, OkIsWhole
<1>3. ASSUME NEW n \in 1..MaxSize, Write(n) PROVE IInv'
  BY <1>3, WriteIInv
<1>4. ASSUME NEW n \in 1..MaxSize, Read(n) PROVE IInv'
  BY <1>4, ReadIInv
<1>5. CASE ReadEnd
  BY <1>5, <1>1, FailIInv DEF ReadEnd, End
<1>6. CASE WritePipe
  BY <1>6, FailIInv DEF WritePipe, End
<1>7. ASSUME NEW e \in End, IOError(e) PROVE IInv'
  BY <1>7, FailIInv DEF IOError
<1>8. ASSUME NEW e \in End, Interrupt(e) PROVE IInv'
  BY <1>8 DEF Interrupt, Looping, IInv, TypeOK, InterSticks, BytesInOrder, OkIsWhole
<1> QED
  BY <1>1, <1>2, <1>3, <1>4, <1>5, <1>6, <1>7, <1>8
     DEF Next, Writer, Reader, Finished, End

\* For every size of the transfer and of the pipe: the bytes arrive in order
\* and are counted exactly, while no call is interrupted
\* (jfs_fio_write, jfs_fio_read).
THEOREM BytesStayInOrder == Spec => []BytesInOrder
<1>1. IInv => BytesInOrder
  BY DEF IInv
<1> QED
  BY InitIInv, NextIInv, <1>1, PTL DEF Spec

\* For every size of the transfer and of the pipe: a call that returns JFS_OK
\* transferred all of its bytes and was not interrupted.
THEOREM OkReturnsWhole == Spec => []OkIsWhole
<1>1. IInv => OkIsWhole
  BY DEF IInv
<1> QED
  BY InitIInv, NextIInv, <1>1, PTL DEF Spec

\* For every size of the transfer and of the pipe: no call counts more bytes
\* than it was asked for, no more are under way than the pipe holds, and *err
\* is one of the errors jfs_fio_write and jfs_fio_read report.
THEOREM TypesHold == Spec => []TypeOK
<1>1. IInv => TypeOK
  BY DEF IInv
<1> QED
  BY InitIInv, NextIInv, <1>1, PTL DEF Spec

=============================================================================
