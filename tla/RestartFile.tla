---------------------------- MODULE RestartFile ----------------------------
(***************************************************************************)
(* The checkpoint of the format server (fm/progs/server.c):                *)
(* dump_formats_to_file and read_formats_from_file, run at startup with    *)
(* -restart or for the format_cmd commands checkpoint and restart.  Both   *)
(* commands work on the list without fs->lock, while other handler threads *)
(* register formats, and the server may crash at any point.  The operator  *)
(* is assumed to give one of the two commands at a time.                   *)
(*                                                                         *)
(* The list is a heap of nodes linked by next, since the two sides hold    *)
(* pointers into it.  The file is a sequence of units of two bytes: an ID, *)
(* the length of the representation, the rest of the representation.  A    *)
(* format stands for its ID.                                               *)
(***************************************************************************)
EXTENDS Naturals, Sequences

CONSTANTS
    Reps,          \* formats
    Size,          \* their length in units, the length field included
    LittleEndian,  \* the byte order of the server
    ByteBase,      \* 256: a length is hi * ByteBase + lo
    Reload,        \* whether the restart command is used on a running server
    MaxNodes,      \* bound on the nodes ever allocated by a process
    MaxCrashes

ASSUME FileAssumption ==
    /\ Reps # {} /\ Size \in [Reps -> Nat \ {0}]
    /\ ByteBase \in Nat \ {0} /\ MaxNodes \in Nat /\ MaxCrashes \in Nat
    /\ LittleEndian \in BOOLEAN /\ Reload \in BOOLEAN

VARIABLES
    up,              \* "down", "starting" or "serving"
    heap, head,      \* the nodes, and fs->lists[0] (0 for NULL)
    file,            \* the restart file
    held, saved,     \* history: what the list held when the last dump began, and
                     \* the same once that dump is complete ({} until then)
    dumping, dnode, doff,    \* dump_formats_to_file: the node being written
    rpc, rpos, last, rid,    \* read_formats_from_file
    crashes

nodes   == <<heap, head>>
dumper  == <<dumping, dnode, doff>>
reader  == <<rpc, rpos, last, rid>>
history == <<held, saved>>
vars    == <<up, nodes, file, history, dumper, reader, crashes>>

Node == [rep: Reps, intact: BOOLEAN, next: Nat]

Unit(kind, r) == [kind |-> kind, of |-> r]

\* id_len and the ID; then the representation, which starts with its length.
Image(r) ==
    <<Unit("id", r), Unit("len", r)>> \o [k \in 1..(Size[r] - 1) |-> Unit("data", r)]

\* The nodes that following next from node n visits, none from NULL: those in
\* every set that has n and the next of each of its nodes.
Closed(S) == \A m \in S : heap[m].next # 0 => heap[m].next \in S

From(n) ==
    {m \in DOMAIN heap :
        \A S \in SUBSET DOMAIN heap : (n # 0 => n \in S) /\ Closed(S) => m \in S}

Listed == {heap[n].rep : n \in From(head)}

Tail_of == CHOOSE n \in From(head) : heap[n].next = 0

Init ==
    /\ up = "down" /\ heap = <<>> /\ head = 0
    /\ file = <<>> /\ held = {} /\ saved = {}
    /\ dumping = FALSE /\ dnode = 0 /\ doff = 0
    /\ rpc = "none" /\ rpos = 1 /\ last = 0 /\ rid = CHOOSE r \in Reps : TRUE
    /\ crashes = 0

-----------------------------------------------------------------------------
\* A new node behind node after, or at the head of the list if after is NULL.
LinkNode(after, r, intact) ==
    /\ Len(heap) < MaxNodes
    /\ LET n == Len(heap) + 1
           linked == IF after = 0 THEN heap ELSE [heap EXCEPT ![after].next = n] IN
          /\ heap' = Append(linked, [rep |-> r, intact |-> intact, next |-> 0])
          /\ head' = IF after = 0 THEN n ELSE head

\* find_format for a registration, under the lock.
Register(r) ==
    /\ up = "serving" /\ r \notin Listed
    /\ LinkNode(IF head = 0 THEN 0 ELSE Tail_of, r, TRUE)
    /\ UNCHANGED <<up, file, history, dumper, reader, crashes>>

(***************************************************************************)
(* dump_formats_to_file.  No lock is held.                                 *)
(***************************************************************************)
DumpOpen ==
    /\ up = "serving" /\ ~ dumping /\ rpc = "none"
    /\ dumping' = TRUE /\ dnode' = head /\ doff' = 0
    /\ file' = <<>> /\ held' = Listed /\ saved' = {}
    /\ UNCHANGED <<up, nodes, reader, crashes>>

\* One unit of the image of the current node reaches the file.
DumpWrite ==
    /\ dumping /\ dnode # 0
    /\ LET image == Image(heap[dnode].rep) IN
          /\ file' = Append(file, image[doff + 1])
          /\ \/ doff + 1 < Len(image) /\ doff' = doff + 1 /\ UNCHANGED dnode
             \/ doff + 1 = Len(image) /\ doff' = 0 /\ dnode' = heap[dnode].next
    /\ UNCHANGED <<up, nodes, history, dumping, reader, crashes>>

\* A write fails: the dump is given up, what was written stays.
DumpFails ==
    /\ dumping /\ dnode # 0
    /\ dumping' = FALSE
    /\ UNCHANGED <<up, nodes, file, history, dnode, doff, reader, crashes>>

DumpClose ==
    /\ dumping /\ dnode = 0
    /\ dumping' = FALSE
    /\ saved' = held
    /\ UNCHANGED <<up, nodes, file, held, dnode, doff, reader, crashes>>

(***************************************************************************)
(* read_formats_from_file.                                                 *)
(***************************************************************************)
\* rep_len is read into a native UINT2, although the file holds it in network
\* order.
rep_len(n) ==
    IF LittleEndian THEN (n % ByteBase) * ByteBase + (n \div ByteBase) ELSE n

\* A record starts at position p, and as much as its length says follows.
Fits_NoCheck(p) == p + 1 <= Len(file)

Fits(p) == /\ p + 1 <= Len(file)
           /\ p + rep_len(Size[file[p].of]) <= Len(file)

ReadOpen ==
    /\ rpc = "none" /\ ~ dumping
    /\ \/ up = "starting"
       \/ up = "serving" /\ Reload
    /\ rpc' = "read" /\ rpos' = 1 /\ last' = 0
    /\ UNCHANGED <<up, nodes, file, history, dumper, rid, crashes>>

\* The next record, looked up by fetch_format: a known format is skipped.
ReadRecord ==
    /\ rpc = "read" /\ Fits(rpos)
    /\ LET r == file[rpos].of IN
       \/ r \in Listed /\ rpos' = rpos + 1 + rep_len(Size[r]) /\ UNCHANGED <<rpc, rid>>
       \/ r \notin Listed /\ rpc' = "link" /\ rid' = r /\ UNCHANGED rpos
    /\ UNCHANGED <<up, nodes, file, history, dumper, last, crashes>>

\* What was read as the representation is the one that was written.
Intact(p) ==
    LET end == p + rep_len(Size[file[p].of]) IN
    end <= Len(file) /\ SubSeq(file, p, end) = Image(file[p].of)

\* Mutant: last is not advanced.
LinkRecord_LastStays ==
    /\ rpc = "link"
    /\ LinkNode(last, rid, Intact(rpos))
    /\ rpos' = rpos + 1 + rep_len(Size[rid])
    /\ rpc' = "read"
    /\ UNCHANGED <<up, file, history, dumper, rid, last, crashes>>

\* last is the last node this call made, not the end of the list.
LinkRecord ==
    /\ rpc = "link"
    /\ LinkNode(last, rid, Intact(rpos))
    /\ last' = Len(heap) + 1
    /\ rpos' = rpos + 1 + rep_len(Size[rid])
    /\ rpc' = "read"
    /\ UNCHANGED <<up, file, history, dumper, rid, crashes>>

\* A short read ends the loop, at the end of the file or inside a record.
ReadEnd ==
    /\ rpc = "read" /\ ~ Fits(rpos)
    /\ rpc' = "none"
    /\ up' = "serving"
    /\ UNCHANGED <<nodes, file, history, dumper, rpos, last, rid, crashes>>

-----------------------------------------------------------------------------
\* format_server [-restart].
Start ==
    /\ up = "down"
    /\ up' \in {"starting", "serving"}
    /\ UNCHANGED <<nodes, file, history, dumper, reader, crashes>>

Crash ==
    /\ up # "down" /\ crashes < MaxCrashes
    /\ crashes' = crashes + 1
    /\ up' = "down" /\ heap' = <<>> /\ head' = 0
    /\ dumping' = FALSE /\ dnode' = 0 /\ doff' = 0
    /\ rpc' = "none" /\ last' = 0
    /\ UNCHANGED <<file, history, rpos, rid>>

Next ==
    \/ Start \/ Crash
    \/ DumpOpen \/ DumpWrite \/ DumpFails \/ DumpClose
    \/ ReadOpen \/ ReadRecord \/ LinkRecord \/ ReadEnd
    \/ \E r \in Reps : Register(r)

Spec == Init /\ [][Next]_vars

-----------------------------------------------------------------------------
(***************************************************************************)
(* Properties                                                              *)
(***************************************************************************)
\* Types; the links of the list lead to allocated nodes.
TypeOK ==
    /\ up \in {"down", "starting", "serving"}
    /\ heap \in Seq(Node) /\ Len(heap) <= MaxNodes /\ head \in 0..Len(heap)
    /\ \A n \in DOMAIN heap : heap[n].next \in 0..Len(heap)
    /\ file \in Seq([kind: {"id", "len", "data"}, of: Reps])
    /\ held \subseteq Reps /\ saved \subseteq Reps
    /\ dumping \in BOOLEAN /\ dnode \in 0..Len(heap) /\ doff \in Nat
    /\ rpc \in {"none", "read", "link"} /\ rpos \in Nat \ {0}
    /\ last \in 0..Len(heap) /\ rid \in Reps
    /\ crashes \in 0..MaxCrashes

\* Whatever crash or concurrent registration cut a dump short or ran into it,
\* reading it back never makes a format out of parts of others.
EntriesIntact == \A n \in DOMAIN heap : heap[n].intact

\* "[-restart] causes the format server to reload itself with format
\* information stored in a checkpoint/restart file": when a starting server
\* has read the file, it knows every format the list held when the last dump
\* began, if that dump was completed, whatever was registered meanwhile.
SavedRestored ==
    [][up = "starting" /\ up' = "serving" => saved \subseteq Listed]_vars

\* "The format information there will be added to any formats that are
\* currently known": no format is forgotten while the server runs.
KnownStaysKnown ==
    [][up = "serving" /\ up' = "serving" => Listed \subseteq Listed']_vars
=============================================================================
