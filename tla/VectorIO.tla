------------------------------- MODULE VectorIO -------------------------------
(***************************************************************************)
(* The read and write loops of fm/unix_io.c around a byte stream (a file   *)
(* or a socket): unix_write_func and unix_writev_func on one side,         *)
(* unix_read_func, unix_timeout_read_func and unix_readv_func on the       *)
(* other.  One step is one system call with the bookkeeping that follows   *)
(* it; the system call moves as many bytes as it likes, or fails.          *)
(*                                                                         *)
(* A byte is its position in what the writing program hands over, call     *)
(* after call, and the reading program's calls fill positions 1, 2, ... of *)
(* its memory; so every byte is where it belongs exactly when position p   *)
(* holds byte p.  A block of an I/O vector is [base, len]: it covers       *)
(* positions base + 1 to base + len.  A retry after EWOULDBLOCK, EAGAIN or *)
(* EINTR changes nothing and is a stuttering step, except in writev, where *)
(* EINTR is an error like any other.                                       *)
(***************************************************************************)
EXTENDS Integers, Sequences, FiniteSets

CONSTANTS Shapes,       \* the lengths of the blocks a call may be given
          MaxBytes      \* bound: bytes written, and positions read into; the code
                        \* counts in int, so below 2^31

ASSUME ShapesAssumption == \A s \in Shapes : s \in Seq(Nat) /\ s # << >>
ASSUME BytesAssumption == MaxBytes \in Nat /\ MaxBytes <= 2147483647

VARIABLES w,        \* the writer's call
          r,        \* the reader's call
          stream,   \* bytes accepted and not yet taken
          accepted, \* how many bytes have been accepted
          memory,   \* the reader's memory: position |-> byte
          closed    \* the writing end has been closed

vars == <<w, r, stream, accepted, memory, closed>>

-----------------------------------------------------------------------------
(* Blocks.                                                                 *)

\* The lengths summed up: of the first i blocks, and of all.
Sums(lens) ==
    LET sum[i \in 0 .. Len(lens)] == IF i = 0 THEN 0 ELSE sum[i - 1] + lens[i] IN sum
Total(lens) == Sums(lens)[Len(lens)]

\* Blocks of the given lengths, one after the other from a position.
Blocks(lens, from) ==
    [i \in 1 .. Len(lens) |-> [base |-> from + Sums(lens)[i - 1], len |-> lens[i]]]

Lengths(iov) == [i \in 1 .. Len(iov) |-> iov[i].len]
Left(iov) == Total(Lengths(iov))

\* The block that holds the n-th byte.
Holding(lens, n) ==
    CHOOSE i \in 0 .. Len(lens) : /\ Sums(lens)[i] >= n
                                  /\ \A j \in 0 .. i - 1 : Sums(lens)[j] < n

\* The positions the blocks cover, in order.
Positions(iov) ==
    LET at(i, n) == iov[i].base + n - Sums(Lengths(iov))[i - 1]
    IN  [n \in 1 .. Left(iov) |-> at(Holding(Lengths(iov), n), n)]

\* The blocks that remain once n bytes of the front have been moved: whole
\* blocks go, and the base and length of a block moved in part are adjusted.
\* The bookkeeping of writev stops at the block that covers the last byte; that
\* of readv drops empty blocks only while bytes remain to be accounted for.
Advance(iov, n) ==
    LET k == Holding(Lengths(iov), n)
        over == Sums(Lengths(iov))[k] - n
        rest == SubSeq(iov, k + 1, Len(iov))
    IN  IF over = 0 THEN rest
        ELSE <<[base |-> iov[k].base + iov[k].len - over, len |-> over]>> \o rest

-----------------------------------------------------------------------------
(* Calls.  iov is what is left of the vector, lens its lengths as given,   *)
(* from the position it starts at, ret the result once op is "done".       *)

Idle == [op |-> "idle", lens |-> << >>, from |-> 0, iov |-> << >>, tries |-> 0, ret |-> 0]

Start(op, lens, from, tries) ==
    [op |-> op, lens |-> lens, from |-> from, iov |-> Blocks(lens, from),
     tries |-> tries, ret |-> 0]

Return(c, v) == [c EXCEPT !.op = "done", !.ret = v, !.tries = 0]

Init ==
    /\ w = Idle /\ r = Idle
    /\ stream = << >> /\ accepted = 0
    /\ memory = << >>
    /\ closed = FALSE

\* What a call that is complete returns: a length, or a number of blocks.
Whole(c, vector) == IF vector THEN Len(c.lens) ELSE Total(c.lens)

-----------------------------------------------------------------------------
(* The writer.                                                             *)

\* A program goes on only after a call that was complete.
WriterReady == w.op = "idle" \/ (w.op = "done" /\ w.ret = Whole(w, Len(w.lens) > 1))

BeginWrite(op, lens) ==
    /\ ~closed /\ WriterReady
    /\ op = "write" <=> Len(lens) = 1
    /\ accepted + Total(lens) <= MaxBytes
    /\ w' = LET c == Start(op, lens, accepted, 0)
            IN  IF Total(lens) = 0 THEN Return(c, Whole(c, op = "writev")) ELSE c
    /\ UNCHANGED <<r, stream, accepted, memory, closed>>

\* One write or writev that moves n bytes.
MoveOut(n) ==
    /\ w.op \in {"write", "writev"}
    /\ n <= Left(w.iov)
    /\ stream' = stream \o SubSeq(Positions(w.iov), 1, n)
    /\ accepted' = accepted + n
    /\ w' = LET c == [w EXCEPT !.iov = Advance(@, n)]
            IN  IF n = Left(w.iov) THEN Return(c, Whole(w, w.op = "writev")) ELSE c
    /\ UNCHANGED <<r, memory, closed>>

\* A serious error: write says how many bytes it moved, writev how many whole
\* blocks.
\* The mutant counts a block moved in part.
WriteFails_CountsPart(op) ==
    /\ w.op = op
    /\ w' = Return(w, IF op = "write" THEN Total(w.lens) - Left(w.iov)
                      ELSE Len(w.lens) - Len(w.iov) + 1)
    /\ UNCHANGED <<r, stream, accepted, memory, closed>>
WriteFails(op) ==
    /\ w.op = op
    /\ w' = Return(w, IF op = "write" THEN Total(w.lens) - Left(w.iov)
                      ELSE Len(w.lens) - Len(w.iov))
    /\ UNCHANGED <<r, stream, accepted, memory, closed>>

Close ==
    /\ ~closed /\ w.op \in {"idle", "done"}
    /\ closed' = TRUE
    /\ UNCHANGED <<w, r, stream, accepted, memory>>

-----------------------------------------------------------------------------
(* The reader.                                                             *)

ReaderReady == r.op = "idle" \/ (r.op = "done" /\ r.ret = Whole(r, Len(r.lens) > 1))

BeginRead(op, lens) ==
    /\ ReaderReady
    /\ op = "readv" <=> Len(lens) > 1
    /\ op # "readv" => lens[1] > 0
    /\ r.from + Total(r.lens) + Total(lens) <= MaxBytes
    /\ r' = Start(op, lens, r.from + Total(r.lens), IF op = "timeout_read" THEN 2 ELSE 0)
    /\ UNCHANGED <<w, stream, accepted, memory, closed>>

\* timeout_read waits a second and tries once more; a second try that leaves it
\* short is its last.
\* The mutant reports success.
Tried_Keeps(c) ==
    IF c.op = "timeout_read" /\ c.tries = 1 THEN Return(c, Total(c.lens))
    ELSE IF c.op = "timeout_read" THEN [c EXCEPT !.tries = 1] ELSE c
Tried(c) ==
    IF c.op = "timeout_read" /\ c.tries = 1 THEN Return(c, -1)
    ELSE IF c.op = "timeout_read" THEN [c EXCEPT !.tries = 1] ELSE c

\* One read or readv that moves n bytes.
\* The mutant fills the first blocks again.
MoveIn_AtStart(n) ==
    /\ r.op \in {"read", "timeout_read", "readv"}
    /\ n <= Len(stream) /\ n <= Left(r.iov)
    /\ LET at == Positions(Blocks(r.lens, r.from))
       IN  memory' = [p \in DOMAIN memory \union {at[k] : k \in 1 .. n} |->
                        IF \E k \in 1 .. n : at[k] = p
                        THEN stream[CHOOSE k \in 1 .. n : at[k] = p] ELSE memory[p]]
    /\ stream' = SubSeq(stream, n + 1, Len(stream))
    /\ r' = LET c == [r EXCEPT !.iov = Advance(@, n)]
            IN  IF c.iov = << >> THEN Return(c, Whole(r, r.op = "readv")) ELSE Tried(c)
    /\ UNCHANGED <<w, accepted, closed>>
MoveIn(n) ==
    /\ r.op \in {"read", "timeout_read", "readv"}
    /\ n <= Len(stream) /\ n <= Left(r.iov)
    /\ LET at == Positions(r.iov)
       IN  memory' = [p \in DOMAIN memory \union {at[k] : k \in 1 .. n} |->
                        IF \E k \in 1 .. n : at[k] = p
                        THEN stream[CHOOSE k \in 1 .. n : at[k] = p] ELSE memory[p]]
    /\ stream' = SubSeq(stream, n + 1, Len(stream))
    /\ r' = LET c == [r EXCEPT !.iov = Advance(@, n)]
            IN  IF c.iov = << >> THEN Return(c, Whole(r, r.op = "readv")) ELSE Tried(c)
    /\ UNCHANGED <<w, accepted, closed>>

Got(c) == Total(c.lens) - Left(c.iov)

\* The call returns nothing: the stream has ended, or only empty blocks are left
\* of a vector.  read gives what it has, readv gives that up.
\* The mutant reads again at the end of the stream.
EndOfFile_Retried ==
    /\ r.op \in {"readv"}
    /\ Left(r.iov) = 0 \/ (stream = << >> /\ closed)
    /\ r' = Return(r, IF r.op = "readv" THEN 0 ELSE Got(r))
    /\ UNCHANGED <<w, stream, accepted, memory, closed>>
EndOfFile ==
    /\ r.op \in {"read", "timeout_read", "readv"}
    /\ Left(r.iov) = 0 \/ (stream = << >> /\ closed)
    /\ r' = Return(r, IF r.op = "readv" THEN 0 ELSE Got(r))
    /\ UNCHANGED <<w, stream, accepted, memory, closed>>

\* A serious error: -1 from the first system call and from readv, else what has
\* been read, which is 0 if the earlier calls only said to try again.
Failure(c) ==
    IF c.op = "readv" THEN {-1}
    ELSE IF Got(c) > 0 \/ c.tries = 1 THEN {Got(c)}
    ELSE IF c.op = "read" THEN {-1, 0} ELSE {-1}

ReadFails ==
    /\ r.op \in {"read", "timeout_read", "readv"}
    /\ \E v \in Failure(r) : r' = Return(r, v)
    /\ UNCHANGED <<w, stream, accepted, memory, closed>>

\* timeout_read finds nothing to read.
NothingYet ==
    /\ r.op = "timeout_read"
    /\ stream = << >> /\ ~closed
    /\ r' = Tried(r)
    /\ UNCHANGED <<w, stream, accepted, memory, closed>>

-----------------------------------------------------------------------------

Writer == \E n \in 1 .. MaxBytes : MoveOut(n)
Reader == (\E n \in 1 .. MaxBytes : MoveIn(n)) \/ EndOfFile \/ NothingYet

Next ==
    \/ \E op \in {"write", "writev"}, lens \in Shapes : BeginWrite(op, lens)
    \/ Writer
    \/ \E op \in {"write", "writev"} : WriteFails(op)
    \/ Close
    \/ \E op \in {"read", "timeout_read", "readv"}, lens \in Shapes : BeginRead(op, lens)
    \/ Reader
    \/ ReadFails

\* The system keeps moving bytes for a call that waits for it.
Fairness == WF_vars(Writer) /\ WF_vars(Reader)

Spec == Init /\ [][Next]_vars /\ Fairness

-----------------------------------------------------------------------------
(* Properties.                                                             *)

\* A call's remaining blocks stay within the blocks it was given.
TypeOK ==
    /\ \A c \in {w, r} :
        /\ c.op \in {"idle", "done", "write", "writev", "read", "timeout_read", "readv"}
        /\ \A i \in DOMAIN c.iov :
            /\ c.iov[i].len \in 0 .. MaxBytes
            /\ c.iov[i].base \in c.from .. c.from + Total(c.lens) - c.iov[i].len
        /\ c.tries \in 0 .. 2 /\ c.ret \in -1 .. MaxBytes
    /\ stream \in Seq(1 .. MaxBytes) /\ accepted \in 0 .. MaxBytes
    /\ closed \in BOOLEAN

\* However the system cuts the calls of both sides into pieces, no byte is sent
\* twice, lost or out of order, and each one read lands at its place (the base
\* and length adjustments of writev, readv and read).
BytesInPlace ==
    /\ stream = [i \in 1 .. Len(stream) |-> accepted - Len(stream) + i]
    /\ \A p \in DOMAIN memory : memory[p] = p
    /\ Cardinality(DOMAIN memory) = accepted - Len(stream)

\* A write that reports success has handed over every byte; one that reports k
\* whole blocks has handed over those and not the whole vector (write: exactly k
\* bytes), so a caller that compares the result with what it asked for knows.
WriteResultTrue ==
    w.op = "done" =>
        LET moved == accepted - w.from
        IN  IF Len(w.lens) = 1 THEN w.ret = moved
            ELSE /\ Sums(w.lens)[w.ret] <= moved
                 /\ w.ret < Len(w.lens) => moved < Total(w.lens)

\* A read that reports n bytes (readv: all its blocks) has filled exactly the
\* first n positions it was given (unix_read_func, unix_timeout_read_func,
\* unix_readv_func).
ReadResultTrue ==
    r.op = "done" /\ r.ret > 0 =>
        LET n == IF Len(r.lens) = 1 THEN r.ret ELSE Total(r.lens)
        IN  /\ Got(r) = n
            /\ r.from + 1 .. r.from + n \subseteq DOMAIN memory
            /\ Cardinality(DOMAIN memory) = r.from + n

\* A call returns: a write whatever its vector, a read once the other end is
\* closed, however little each system call moves (the retry loops).
CallsReturn ==
    /\ w.op \in {"write", "writev"} ~> w.op = "done"
    /\ closed /\ r.op \in {"read", "timeout_read", "readv"} ~> r.op = "done"
=============================================================================
