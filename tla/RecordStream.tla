---------------------------- MODULE RecordStream ----------------------------
(***************************************************************************)
(* What an FFS file promises the programs that use it: an append-only      *)
(* stream of comments, formats and data records, and a cursor that a       *)
(* reader moves forward by reading and anywhere by seeking.  Index blocks, *)
(* file positions, the reader's look-ahead and the formats it has loaded   *)
(* are not part of the promise: FFSFile implements it with them.           *)
(***************************************************************************)
EXTENDS Integers, Sequences, FiniteSets

VARIABLES stream,  \* the records written, each [type, fmt, id, attr]
          cursor,  \* how many of them the reader has passed
          want,    \* formats whose data the reader receives, others are skipped
          shown,   \* record types FFSnext_record_type reports
          sound,   \* every writer so far closed the file and no write failed
          kept,    \* records the promise covers after a failed write, or -1
          out      \* what the last call returned

sVars == <<stream, cursor, want, shown, sound, kept, out>>

IsData(i) == stream[i].type = "data"
Wanted(i) == IsData(i) /\ stream[i].fmt \in want

(* The records a call with the given goal may pass without reporting them. *)
Passes(goal, i) ==
    CASE goal = "data"    -> ~Wanted(i)
      [] goal = "comment" -> stream[i].type # "comment"
      [] goal = "format"  -> stream[i].type # "format"
      [] goal = "shown"   -> \/ stream[i].type \notin shown
                             \/ IsData(i) /\ ~Wanted(i)
      [] goal = "index"   -> TRUE

(* cursor' is reached from cursor over records the goal lets pass.         *)
Moves(goal, to) ==
    to >= cursor /\ \A i \in (cursor + 1)..to : Passes(goal, i)

Init == /\ stream = <<>> /\ cursor = 0 /\ want = {} /\ shown = {}
        /\ sound = TRUE /\ kept = -1 /\ out.op = "none"

(* What is covered shrinks once, and then stays.  A failed write of a      *)
(* record costs none of those in the file; that of an index block, which   *)
(* no call reports, costs those behind the place of the block.             *)
Fails == /\ kept < 0 /\ kept' \in 0..Len(stream') /\ ~sound'
         /\ out'.op = "failed" => kept' = Len(stream')
MayFail == UNCHANGED kept \/ Fails

(* Records are only ever added, and a data record only after its format.   *)
Put == /\ out'.op \in {"wrote", "failed"} /\ MayFail
       /\ out'.op = "wrote" => Len(stream') > Len(stream)
       /\ SubSeq(stream', 1, Len(stream)) = stream
       /\ \A i \in 1..Len(stream') : stream'[i].type = "data" =>
             \E j \in 1..(i - 1) : /\ stream'[j].type = "format"
                                   /\ stream'[j].fmt = stream'[i].fmt
       /\ sound' \in {sound, FALSE} /\ UNCHANGED <<cursor, want, shown>>

(* The ways in which a call ends the process or does not come back.        *)
Lost == {"corrupt", "hang", "crash", "astray"}

(* A session begins or ends, or a writer dies.  A call that is lost ends   *)
(* the session; that may only happen on a file some writer did not close   *)
(* or to which a write failed, and after a failed write only may it crash  *)
(* or go astray.                                                           *)
Session == /\ out'.op \in {"none", "failed"} \cup Lost
           /\ out'.op \in Lost => ~sound
           /\ out'.op \in {"crash", "astray"} => kept >= 0
           /\ MayFail /\ cursor' = 0 /\ sound' \in {sound, FALSE}
           /\ \/ UNCHANGED stream
              \/ ~sound' /\ SubSeq(stream', 1, Len(stream)) = stream

SetVisible == shown' # shown /\ UNCHANGED <<stream, cursor, want, sound, kept, out>>

Reader == UNCHANGED <<stream, want, shown, sound, kept>>

(* A read delivers the first record it may not pass and stops behind it.   *)
Deliver(goal) ==
    /\ out'.op = goal
    /\ cursor' <= Len(stream) /\ Moves(goal, cursor' - 1)
    /\ cursor' > cursor /\ ~Passes(goal, cursor')
    /\ out'.item = <<stream[cursor']>>

(* A peek reports that record and stops before it; where an unsound file   *)
(* ends it may report one that is cut short.                               *)
Peek == /\ out'.op = "peek" /\ Moves("data", cursor')
        /\ \/ ~sound /\ cursor' = Len(stream)
           \/ /\ cursor' < Len(stream) /\ Wanted(cursor' + 1)
              /\ out'.item = <<stream[cursor' + 1]>>

(* FFSnext_record_type names what a read would find; where an unsound file *)
(* ends it may name a record that is cut short.                            *)
NextType ==
    /\ out'.op = "next" /\ Moves("shown", cursor')
    /\ \/ out'.type = "end" /\ cursor' = Len(stream)
       \/ ~sound /\ cursor' = Len(stream)
       \/ out'.type = "index" /\ "index" \in shown
       \/ cursor' < Len(stream) /\ ~Passes("shown", cursor' + 1)
                                /\ out'.type = stream[cursor' + 1].type

(* A read that finds nothing has looked at everything that was left.       *)
Nothing(goal) ==
    /\ out'.op = "nothing" /\ out'.type = goal
    /\ Moves(goal, cursor')
    /\ goal \in {"data", "comment"} => cursor' = Len(stream)

(* After a successful seek to n the next data record is the n'th, counted  *)
(* from 0; an unsuccessful one may leave the cursor anywhere.              *)
Seek == \/ /\ out'.op = "seek"
           /\ cursor' < Len(stream) /\ IsData(cursor' + 1)
           /\ Cardinality({i \in 1..cursor' : IsData(i)}) = out'.n
        \/ out'.op = "noseek" /\ cursor' \in 0..Len(stream)

IndexRead == out'.op = "index" /\ Moves("index", cursor')

(* FFSattrs_from_last_read moves nothing.                                  *)
Attributes == out'.op = "attrs" /\ UNCHANGED cursor

(* Behind the records covered after a failed write a call may report       *)
(* anything.                                                               *)
Uncovered == kept \in 0..(Len(stream) - 1) /\ cursor' >= kept

Next == \/ Put \/ Session \/ SetVisible
        \/ /\ \/ \E goal \in {"data", "comment", "format"} : Deliver(goal)
              \/ Peek \/ NextType \/ Seek \/ IndexRead \/ Attributes
              \/ \E goal \in {"data", "comment", "format", "index"} : Nothing(goal)
              \/ Uncovered
           /\ Reader

Spec == Init /\ [][Next]_sVars
=============================================================================
