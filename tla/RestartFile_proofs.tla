------------------------ MODULE RestartFile_proofs ------------------------
(***************************************************************************)
(* The restart file, for every set of formats and any number of crashes    *)
(* and concurrent registrations: what is read back is what was written,    *)
(* and a completed dump restores what the list held when it began.         *)
(*                                                                         *)
(* Both need that a length read from the file is the length written, which *)
(* is so where native and network byte order agree: the theorems are about *)
(* big-endian servers.                                                     *)
(***************************************************************************)
EXTENDS RestartFile, SequenceTheorems, WellFoundedInduction, TLAPS

LengthsSurvive == \A r \in Reps : rep_len(Size[r]) = Size[r]

-----------------------------------------------------------------------------
(***************************************************************************)
(* The inductive invariant.                                                *)
(***************************************************************************)
UnitType == [kind: {"id", "len", "data"}, of: Reps]

\* A record starts at position p of the file.
Starts(p) == file[p].kind = "id"

\* What starts at p is the image of a format as far as the file goes, and the
\* next record starts right behind it.
RecordAt(p) ==
    /\ \A k \in 0..Size[file[p].of] : p + k <= Len(file) => file[p + k] = Image(file[p].of)[k + 1]
    /\ p + Size[file[p].of] + 1 <= Len(file) => Starts(p + Size[file[p].of] + 1)

Unfinished(p) == Starts(p) /\ p + Size[file[p].of] > Len(file)

\* The file is a sequence of records, of which the last may be cut short.
FileOK ==
    /\ Len(file) > 0 => Starts(1)
    /\ \A p \in 1..Len(file) : Starts(p) => RecordAt(p)

\* While a dump is under way only the record it is writing is unfinished.
DumpOK ==
    dumping =>
        /\ rpc = "none" /\ saved = {}
        /\ dnode = 0 => doff = 0
        /\ dnode # 0 /\ doff > 0 =>
              /\ doff <= Size[heap[dnode].rep] /\ doff <= Len(file)
              /\ file[Len(file) - doff + 1] = Unit("id", heap[dnode].rep)
        /\ \A p \in 1..Len(file) : Unfinished(p) => doff > 0 /\ p = Len(file) - doff + 1

\* A dump that was completed has no unfinished record.
SavedOK ==
    saved # {} =>
        /\ \A p \in 1..Len(file) : ~Unfinished(p)
        /\ \A r \in saved : \E i \in 1..Len(file) : file[i].of = r

\* A read stands where a record starts, or at the end.
ReadOK ==
    /\ rpc # "none" => rpos > Len(file) \/ Starts(rpos)
    /\ rpc = "link" => Fits(rpos) /\ rid = file[rpos].of

\* A server that is starting has only the list its read has made, in one piece,
\* and the read goes on at its end.
Straight ==
    /\ head = IF Len(heap) = 0 THEN 0 ELSE 1
    /\ \A n \in 1..Len(heap) : heap[n].next = IF n = Len(heap) THEN 0 ELSE n + 1

StartOK ==
    /\ up = "down" => heap = << >> /\ head = 0 /\ rpc = "none" /\ ~dumping
    /\ up = "starting" =>
          /\ ~dumping /\ Straight
          /\ IF rpc = "none" THEN heap = << >> ELSE last = Len(heap)
          /\ rpc # "none" =>
                \A i \in 1..Len(file) : i < rpos => \E n \in 1..Len(heap) : heap[n].rep = file[i].of

FileInv ==
    /\ TypeOK /\ FileOK /\ DumpOK /\ SavedOK /\ ReadOK /\ StartOK /\ EntriesIntact

\* A node points to a later one: the list has an end.
Forward == \A n \in 1..Len(heap) : heap[n].next = 0 \/ heap[n].next > n

\* What the list held when the dump under way began is in the file or still ahead
\* of it, behind the node being written.
HeldOK ==
    dumping =>
        \A r \in held :
            \/ \E i \in 1..Len(file) : file[i].of = r
            \/ \E n \in From(dnode) : heap[n].rep = r

RestartInv == FileInv /\ Forward /\ HeldOK

-----------------------------------------------------------------------------
(***************************************************************************)
(* Images and the file.                                                    *)
(***************************************************************************)
LEMMA SizeType == \A r \in Reps : Size[r] \in Nat /\ Size[r] >= 1
  BY FileAssumption

LEMMA ImageFacts ==
  ASSUME NEW r \in Reps
  PROVE  /\ Image(r) \in Seq(UnitType) /\ Len(Image(r)) = Size[r] + 1
         /\ Image(r)[1] = Unit("id", r)
         /\ \A k \in 1..Size[r] : Image(r)[k + 1].kind # "id"
         /\ \A k \in 0..Size[r] : Image(r)[k + 1] \in UnitType /\ Image(r)[k + 1].of = r
<1> DEFINE front == <<Unit("id", r), Unit("len", r)>>
           rest == [k \in 1..(Size[r] - 1) |-> Unit("data", r)]
<1>1. Size[r] \in Nat /\ Size[r] >= 1
  BY SizeType
<1>2. Unit("id", r) \in UnitType /\ Unit("len", r) \in UnitType /\ Unit("data", r) \in UnitType
  BY DEF Unit, UnitType
<1>3. front \in Seq(UnitType) /\ Len(front) = 2
      /\ front[1] = Unit("id", r) /\ front[2] = Unit("len", r)
  BY <1>2
<1>4. /\ Size[r] - 1 \in Nat /\ rest \in [1..(Size[r] - 1) -> UnitType]
      /\ \A k \in 1..(Size[r] - 1) : rest[k] = Unit("data", r)
  BY <1>1, <1>2
<1>5. Image(r) = front \o rest
  BY DEF Image
<1> HIDE DEF front, rest
<1>12. rest \in Seq(UnitType)
  BY <1>4, SeqDef
<1>13. Len(rest) = Size[r] - 1
  BY <1>4, <1>12, LenProperties
<1>6. Image(r) \in Seq(UnitType) /\ Len(Image(r)) = Size[r] + 1
  BY <1>1, <1>3, <1>12, <1>13, <1>5, ConcatProperties
<1>7. \A k \in 1..Size[r] + 1 :
         Image(r)[k] = IF k = 1 THEN Unit("id", r) ELSE IF k = 2 THEN Unit("len", r)
                       ELSE Unit("data", r)
  <2> SUFFICES ASSUME NEW k \in 1..Size[r] + 1
               PROVE  Image(r)[k] = IF k = 1 THEN Unit("id", r) ELSE IF k = 2 THEN Unit("len", r)
                                    ELSE Unit("data", r)
    OBVIOUS
  <2>1. Image(r)[k] = IF k <= 2 THEN front[k] ELSE rest[k - 2]
    <3>1. \A i \in 1..Len(front) + Len(rest) :
             (front \o rest)[i] = IF i <= Len(front) THEN front[i] ELSE rest[i - Len(front)]
      BY <1>3, <1>12, ConcatProperties
    <3>2. Len(front) + Len(rest) = Size[r] + 1
      BY <1>1, <1>3, <1>13
    <3> QED BY <1>3, <1>5, <3>1, <3>2
  <2>2. CASE k = 1
    BY <1>3, <2>1, <2>2
  <2>3. CASE k = 2
    BY <1>3, <2>1, <2>3
  <2>4. CASE k > 2
    <3>1. k - 2 \in 1..(Size[r] - 1)
      BY <1>1, <2>4
    <3> QED BY <1>4, <2>1, <2>4, <3>1
  <2> QED BY <1>1, <2>2, <2>3, <2>4
<1>8. /\ Unit("id", r).of = r /\ Unit("len", r).of = r /\ Unit("data", r).of = r
      /\ Unit("len", r).kind # "id" /\ Unit("data", r).kind # "id"
  BY DEF Unit
<1>9. Image(r)[1] = Unit("id", r)
  BY <1>1, <1>7
<1>10. ASSUME NEW k \in 1..Size[r] PROVE Image(r)[k + 1].kind # "id"
  <2>1. k + 1 \in 1..Size[r] + 1 /\ k + 1 # 1
    BY <1>1
  <2> QED BY <1>7, <1>8, <2>1
<1>11. ASSUME NEW k \in 0..Size[r] PROVE Image(r)[k + 1] \in UnitType /\ Image(r)[k + 1].of = r
  <2>1. k + 1 \in 1..Size[r] + 1
    BY <1>1
  <2> QED BY <1>2, <1>7, <1>8, <2>1
<1> QED BY <1>6, <1>9, <1>10, <1>11

LEMMA FileUnits ==
  ASSUME TypeOK
  PROVE  \A p \in 1..Len(file) : file[p] \in UnitType /\ file[p].of \in Reps
<1>1. file \in Seq(UnitType)
  BY DEF TypeOK, UnitType
<1>2. \A p \in 1..Len(file) : file[p] \in UnitType
  BY <1>1, ElementOfSeq
<1> QED BY <1>2 DEF UnitType

\* Where a record starts, the record of no other start reaches.
LEMMA StartsApart ==
  ASSUME TypeOK, FileOK, NEW p \in 1..Len(file), NEW q \in 1..Len(file), Starts(p), Starts(q),
         p < q
  PROVE  p + Size[file[p].of] < q
<1>1. file[p].of \in Reps /\ Size[file[p].of] \in Nat
  BY FileUnits, SizeType
<1> SUFFICES ASSUME q <= p + Size[file[p].of] PROVE FALSE
  BY <1>1
<1>2. q - p \in 1..Size[file[p].of] /\ p + (q - p) = q
  BY <1>1
<1>3. file[q] = Image(file[p].of)[(q - p) + 1]
  BY <1>1, <1>2 DEF FileOK, RecordAt
<1> QED BY <1>1, <1>2, <1>3, ImageFacts DEF Starts

-----------------------------------------------------------------------------
(***************************************************************************)
(* The list.                                                               *)
(***************************************************************************)
\* A new node leaves what the others hold alone; whatever node the new one is
\* linked behind, that one points to it afterwards.
LEMMA LinkNodeFacts ==
  ASSUME heap \in Seq(Node), Len(heap) <= MaxNodes, head \in 0..Len(heap),
         \A n \in DOMAIN heap : heap[n].next \in 0..Len(heap),
         NEW after, NEW r \in Reps, NEW ok \in BOOLEAN, LinkNode(after, r, ok)
  PROVE  /\ heap' \in Seq(Node) /\ Len(heap') = Len(heap) + 1 /\ Len(heap') <= MaxNodes
         /\ head' = IF after = 0 THEN Len(heap') ELSE head
         /\ \A n \in 1..Len(heap) :
               /\ heap'[n].rep = heap[n].rep /\ heap'[n].intact = heap[n].intact
               /\ heap'[n].next = IF n = after /\ after # 0 THEN Len(heap') ELSE heap[n].next
         /\ heap'[Len(heap')] = [rep |-> r, intact |-> ok, next |-> 0]
<1> DEFINE new == Len(heap) + 1
           node == [rep |-> r, intact |-> ok, next |-> 0]
           linked == IF after = 0 THEN heap ELSE [heap EXCEPT ![after].next = new]
<1>1. Len(heap) \in Nat /\ DOMAIN heap = 1..Len(heap) /\ heap \in [1..Len(heap) -> Node]
  BY LenProperties
<1>2. new \in Nat
  BY <1>1
<1>3. \A n \in 1..Len(heap) :
         /\ heap[n] \in Node
         /\ [heap[n] EXCEPT !.next = new] \in Node
         /\ [heap[n] EXCEPT !.next = new].rep = heap[n].rep
         /\ [heap[n] EXCEPT !.next = new].intact = heap[n].intact
         /\ [heap[n] EXCEPT !.next = new].next = new
  BY <1>1, <1>2 DEF Node
<1>4. linked \in [1..Len(heap) -> Node]
  BY <1>1, <1>3
<1>5. linked \in Seq(Node)
  BY <1>1, <1>4, SeqDef
<1>6. Len(linked) = Len(heap)
  BY <1>1, <1>4, <1>5, LenProperties
<1>7. \A n \in 1..Len(heap) :
         linked[n] = IF n = after /\ after # 0 THEN [heap[n] EXCEPT !.next = new] ELSE heap[n]
  BY <1>1
<1>8. node \in Node
  BY DEF Node
<1>9. /\ Len(heap) < MaxNodes /\ heap' = Append(linked, node)
      /\ head' = IF after = 0 THEN new ELSE head
  BY DEF LinkNode
<1> HIDE DEF linked, node
<1>10. /\ heap' \in Seq(Node) /\ Len(heap') = new
       /\ \A n \in 1..Len(heap) : heap'[n] = linked[n]
       /\ heap'[new] = node
  BY <1>1, <1>5, <1>6, <1>8, <1>9, AppendProperties
<1>11. new <= MaxNodes
  BY <1>1, <1>9, FileAssumption
<1>12. ASSUME NEW n \in 1..Len(heap)
       PROVE  /\ heap'[n].rep = heap[n].rep /\ heap'[n].intact = heap[n].intact
              /\ heap'[n].next = IF n = after /\ after # 0 THEN new ELSE heap[n].next
  <2> DEFINE relinked == [heap[n] EXCEPT !.next = new]
  <2>1. relinked.rep = heap[n].rep /\ relinked.intact = heap[n].intact /\ relinked.next = new
    BY <1>3
  <2> HIDE DEF relinked
  <2>2. CASE n = after /\ after # 0
    <3>1. heap'[n] = relinked
      BY <1>7, <1>10, <2>2 DEF relinked
    <3> QED BY <2>1, <2>2, <3>1, Zenon
  <2>3. CASE ~ (n = after /\ after # 0)
    <3>1. heap'[n] = heap[n]
      BY <1>7, <1>10, <2>3
    <3> QED BY <2>3, <3>1, Zenon
  <2> QED BY <2>2, <2>3
<1> QED BY <1>9, <1>10, <1>11, <1>12 DEF node

\* The same as a statement of types.
LEMMA LinkNodeTypes ==
  ASSUME heap \in Seq(Node), Len(heap) <= MaxNodes, head \in 0..Len(heap),
         \A n \in DOMAIN heap : heap[n].next \in 0..Len(heap),
         EntriesIntact,
         NEW after, NEW r \in Reps, LinkNode(after, r, TRUE)
  PROVE  /\ heap' \in Seq(Node) /\ Len(heap') <= MaxNodes /\ head' \in 0..Len(heap')
         /\ \A n \in DOMAIN heap' : heap'[n].next \in 0..Len(heap')
         /\ EntriesIntact'
<1>1. Len(heap) \in Nat /\ DOMAIN heap = 1..Len(heap)
  BY LenProperties
<1>2. /\ heap' \in Seq(Node) /\ Len(heap') = Len(heap) + 1 /\ Len(heap') <= MaxNodes
      /\ head' = IF after = 0 THEN Len(heap') ELSE head
      /\ \A n \in 1..Len(heap) :
            /\ heap'[n].rep = heap[n].rep /\ heap'[n].intact = heap[n].intact
            /\ heap'[n].next = IF n = after /\ after # 0 THEN Len(heap') ELSE heap[n].next
      /\ heap'[Len(heap')] = [rep |-> r, intact |-> TRUE, next |-> 0]
  BY LinkNodeFacts
<1>3. DOMAIN heap' = 1..Len(heap')
  BY <1>2, LenProperties
<1>4. head' \in 0..Len(heap')
  BY <1>1, <1>2
<1>5. ASSUME NEW n \in 1..Len(heap')
      PROVE  heap'[n].next \in 0..Len(heap') /\ heap'[n].intact
  <2>1. CASE n = Len(heap')
    BY <1>1, <1>2, <2>1
  <2>2. CASE n \in 1..Len(heap)
    <3>1. heap[n].next \in 0..Len(heap')
      BY <1>1, <1>2, <2>2
    <3>2. Len(heap') \in 0..Len(heap')
      BY <1>1, <1>2
    <3>3. heap[n].intact
      BY <1>1, <2>2 DEF EntriesIntact
    <3> QED BY <1>2, <2>2, <3>1, <3>2, <3>3
  <2> QED BY <1>1, <1>2, <2>1, <2>2
<1> QED BY <1>2, <1>3, <1>4, <1>5 DEF EntriesIntact

LEMMA HasLeast ==
  ASSUME NEW S \in SUBSET Nat, S # {}
  PROVE  \E x \in S : \A y \in S : x <= y
<1>1. PICK x \in S : \A y \in S : ~ (<<y, x>> \in OpToRel(<, Nat))
  BY WFMin, NatLessThanWellFounded
<1>2. \A y \in S : ~ (y < x)
  BY <1>1 DEF OpToRel
<1> QED BY <1>2

\* The list that leads straight on from one node to the next has all nodes.
LEMMA FromStraight ==
  ASSUME heap \in Seq(Node), Straight
  PROVE  From(head) = 1..Len(heap)
<1>1. Len(heap) \in Nat /\ DOMAIN heap = 1..Len(heap)
  BY LenProperties
<1>2. ASSUME NEW S \in SUBSET (1..Len(heap)), head # 0 => head \in S, Closed(S), NEW m \in 1..Len(heap)
      PROVE  m \in S
  <2> DEFINE Missing == (1..Len(heap)) \ S
  <2> SUFFICES ASSUME m \notin S PROVE FALSE
    OBVIOUS
  <2>1. PICK k \in Missing : \A y \in Missing : k <= y
    <3>1. Missing \in SUBSET Nat /\ Missing # {}
      BY <1>1
    <3> HIDE DEF Missing
    <3> QED BY <3>1, HasLeast
  <2>2. k \in 1..Len(heap) /\ k \notin S
    OBVIOUS
  <2>8. \A y \in 1..Len(heap) : y \notin S => k <= y
    BY <2>1
  <2> HIDE DEF Missing
  <2>3. head = 1
    <3>1. Len(heap) # 0
      BY <1>1, <2>2
    <3> QED BY <3>1 DEF Straight
  <2>4. k # 1
    BY <1>2, <2>2, <2>3
  <2>5. k - 1 \in 1..Len(heap) /\ k - 1 # Len(heap) /\ ~ (k <= k - 1)
    BY <1>1, <2>2, <2>4
  <2>6. k - 1 \in S
    BY <2>5, <2>8
  <2>7. heap[k - 1].next = k /\ k # 0
    <3>1. heap[k - 1].next = (k - 1) + 1
      BY <2>5 DEF Straight
    <3>2. (k - 1) + 1 = k /\ k # 0
      BY <1>1, <2>2
    <3> QED BY <3>1, <3>2
  <2> QED BY <1>2, <2>2, <2>6, <2>7 DEF Closed
<1> QED BY <1>1, <1>2 DEF From

\* From, one node further.
LEMMA FromNext ==
  ASSUME heap \in Seq(Node), NEW d \in 1..Len(heap), heap[d].next \in 0..Len(heap), NEW m \in From(d)
  PROVE  m = d \/ m \in From(heap[d].next)
<1>1. Len(heap) \in Nat /\ DOMAIN heap = 1..Len(heap)
  BY LenProperties
<1> SUFFICES ASSUME m # d,
                    NEW S \in SUBSET DOMAIN heap, heap[d].next # 0 => heap[d].next \in S, Closed(S)
             PROVE  m \in S
  BY DEF From
<1>2. S \cup {d} \in SUBSET DOMAIN heap
  BY <1>1
<1>3. Closed(S \cup {d})
  BY DEF Closed
<1>4. m \in S \cup {d}
  BY <1>2, <1>3 DEF From
<1> QED BY <1>4

\* The list has a last node.
LEMMA TailIsLast ==
  ASSUME heap \in Seq(Node), Forward, head \in 1..Len(heap),
         \A n \in DOMAIN heap : heap[n].next \in 0..Len(heap)
  PROVE  Tail_of \in 1..Len(heap) /\ heap[Tail_of].next = 0
<1> DEFINE back == {Len(heap) - n : n \in From(head)}
<1>1. Len(heap) \in Nat /\ DOMAIN heap = 1..Len(heap)
  BY LenProperties
<1>2. head \in From(head) /\ From(head) \subseteq 1..Len(heap)
  BY <1>1 DEF From
<1>3. PICK x \in back : \A y \in back : x <= y
  <2>1. back \in SUBSET Nat /\ back # {}
    BY <1>1, <1>2
  <2> HIDE DEF back
  <2> QED BY <2>1, HasLeast
<1>4. PICK n \in From(head) : x = Len(heap) - n
  BY <1>3
<1>5. ASSUME NEW k \in From(head) PROVE k <= n
  <2>1. Len(heap) - n <= Len(heap) - k
    BY <1>3, <1>4, <1>5
  <2> QED BY <1>1, <1>2, <2>1
<1>6. heap[n].next = 0
  <2> SUFFICES ASSUME heap[n].next # 0 PROVE FALSE
    OBVIOUS
  <2>1. n \in 1..Len(heap) /\ heap[n].next \in 1..Len(heap) /\ heap[n].next > n
    BY <1>1, <1>2 DEF Forward
  <2>2. heap[n].next \in From(head)
    BY <1>1, <2>1 DEF From, Closed
  <2> QED BY <1>5, <2>1, <2>2
<1>7. Tail_of \in From(head) /\ heap[Tail_of].next = 0
  BY <1>6 DEF Tail_of
<1> QED BY <1>2, <1>7

\* A node linked behind the last one leaves what is ahead of any node ahead of it.
LEMMA FromGrows ==
  ASSUME heap \in Seq(Node), heap' \in Seq(Node), Len(heap') = Len(heap) + 1,
         NEW after, after = 0 \/ heap[after].next = 0,
         \A n \in 1..Len(heap) :
            heap'[n].next = IF n = after /\ after # 0 THEN Len(heap') ELSE heap[n].next,
         \A n \in DOMAIN heap : heap[n].next \in 0..Len(heap),
         NEW d \in 0..Len(heap), NEW m \in From(d)
  PROVE  /\ m \in DOMAIN heap'
         /\ \A S \in SUBSET DOMAIN heap' :
              (d # 0 => d \in S) /\ (\A k \in S : heap'[k].next # 0 => heap'[k].next \in S)
              => m \in S
<1>1. Len(heap) \in Nat /\ DOMAIN heap = 1..Len(heap) /\ DOMAIN heap' = 1..Len(heap')
  BY LenProperties
<1>2. m \in 1..Len(heap) /\ m \in DOMAIN heap'
  BY <1>1 DEF From
<1> SUFFICES ASSUME NEW S \in SUBSET DOMAIN heap', d # 0 => d \in S,
                    \A k \in S : heap'[k].next # 0 => heap'[k].next \in S
             PROVE  m \in S
  BY <1>2
<1> DEFINE old == S \cap (1..Len(heap))
<1>3. old \in SUBSET DOMAIN heap /\ (d # 0 => d \in old)
  BY <1>1
<1>4. ASSUME NEW k \in old, heap[k].next # 0 PROVE heap[k].next \in old
  <2>1. k \in S /\ k \in 1..Len(heap) /\ (k # after \/ after = 0)
    BY <1>4
  <2>2. heap'[k].next = heap[k].next
    BY <1>4
  <2>3. heap[k].next \in S
    BY <1>4, <2>2
  <2>4. heap[k].next \in 1..Len(heap)
    BY <1>1, <1>4
  <2> QED BY <2>3, <2>4
<1>5. Closed(old)
  BY <1>4 DEF Closed
<1> QED BY <1>3, <1>5 DEF From

LEMMA ListedStraight ==
  ASSUME heap \in Seq(Node), Straight
  PROVE  Listed = {heap[n].rep : n \in 1..Len(heap)}
  BY FromStraight DEF Listed

-----------------------------------------------------------------------------
(***************************************************************************)
(* The steps.                                                              *)
(***************************************************************************)
LEMMA FileKept ==
  ASSUME FileOK, file' = file
  PROVE  FileOK'
  BY DEF FileOK, RecordAt, Starts

LEMMA InitInv == Init => RestartInv
<1> SUFFICES ASSUME Init PROVE RestartInv
  OBVIOUS
<1>1. (CHOOSE r \in Reps : TRUE) \in Reps
  BY FileAssumption
<1>2. MaxNodes \in Nat /\ MaxCrashes \in Nat
  BY FileAssumption
<1>4. Len(file) = 0 /\ Len(heap) = 0 /\ DOMAIN heap = {}
  BY DEF Init
<1>9. heap \in Seq(Node) /\ file \in Seq([kind: {"id", "len", "data"}, of: Reps])
  BY DEF Init
<1>10. 0 <= MaxNodes /\ 0 \in 0..0 /\ 0 \in 0..MaxCrashes /\ 1 \in Nat \ {0} /\ 0 \in Nat
  BY <1>2
<1>3. TypeOK
  BY <1>1, <1>4, <1>9, <1>10 DEF Init, TypeOK
<1>5. FileOK
  BY <1>4 DEF FileOK
<1>6. DumpOK /\ SavedOK /\ ReadOK
  BY DEF Init, DumpOK, SavedOK, ReadOK
<1>7. StartOK
  BY DEF Init, StartOK
<1>8. EntriesIntact
  BY DEF Init, EntriesIntact
<1>11. Forward /\ HeldOK
  BY <1>4 DEF Init, Forward, HeldOK
<1> QED BY <1>3, <1>5, <1>6, <1>7, <1>8, <1>11 DEF RestartInv, FileInv

LEMMA StartInv ==
  ASSUME FileInv, Start
  PROVE  FileInv'
<1> USE DEF FileInv
<1>1. up = "down" /\ up' \in {"starting", "serving"}
  BY DEF Start
<1>2. UNCHANGED <<heap, head, file, held, saved, dumping, dnode, doff, rpc, rpos, last, rid, crashes>>
  BY DEF Start, nodes, history, dumper, reader
<1>3. TypeOK'
  BY <1>1, <1>2 DEF TypeOK
<1>4. FileOK'
  BY <1>2, FileKept
<1>5. DumpOK' /\ SavedOK' /\ ReadOK'
  BY <1>2 DEF DumpOK, SavedOK, ReadOK, Unfinished, Starts, Fits
<1>6. heap = << >> /\ head = 0 /\ rpc = "none" /\ ~dumping
  BY <1>1 DEF StartOK
<1>7. Straight'
  <2>1. Len(heap') = 0
    BY <1>2, <1>6
  <2> QED BY <1>2, <1>6, <2>1 DEF Straight
<1>8. StartOK'
  BY <1>1, <1>2, <1>6, <1>7 DEF StartOK
<1> QED BY <1>2, <1>3, <1>4, <1>5, <1>8 DEF EntriesIntact

LEMMA CrashInv ==
  ASSUME FileInv, Crash
  PROVE  FileInv'
<1> USE DEF FileInv
<1>1. UNCHANGED <<file, held, saved, rpos, rid>>
  BY DEF Crash, history
<1>2. /\ up' = "down" /\ heap' = << >> /\ head' = 0 /\ dumping' = FALSE /\ dnode' = 0 /\ doff' = 0
      /\ rpc' = "none" /\ last' = 0
  BY DEF Crash
<1>3. crashes' \in 0..MaxCrashes
  BY FileAssumption DEF Crash, TypeOK
<1>4. Len(heap') = 0 /\ DOMAIN heap' = {} /\ heap' \in Seq(Node) /\ 0 \in 0..0 /\ 0 <= MaxNodes
  BY <1>2, FileAssumption
<1>5. TypeOK'
  BY <1>1, <1>2, <1>3, <1>4 DEF TypeOK
<1>6. FileOK'
  BY <1>1, FileKept
<1>7. SavedOK'
  BY <1>1 DEF SavedOK, Unfinished, Starts
<1>8. DumpOK' /\ ReadOK' /\ StartOK' /\ EntriesIntact'
  BY <1>2, <1>4 DEF DumpOK, ReadOK, StartOK, EntriesIntact
<1> QED BY <1>5, <1>6, <1>7, <1>8

LEMMA DumpOpenInv ==
  ASSUME FileInv, DumpOpen
  PROVE  FileInv'
<1> USE DEF FileInv
<1>1. UNCHANGED <<up, heap, head, rpc, rpos, last, rid, crashes>>
  BY DEF DumpOpen, history, nodes, reader
<1>2. /\ up = "serving" /\ rpc = "none" /\ dumping' = TRUE /\ dnode' = head /\ doff' = 0
      /\ file' = << >> /\ held' = Listed /\ saved' = {}
  BY DEF DumpOpen
<1>3. Len(file') = 0 /\ file' \in Seq([kind: {"id", "len", "data"}, of: Reps])
  BY <1>2
<1>9. Listed \subseteq Reps
  <2>1. heap \in [1..Len(heap) -> Node] /\ DOMAIN heap = 1..Len(heap)
    BY LenProperties DEF TypeOK
  <2> QED BY <2>1 DEF Listed, From, Node
<1>4. TypeOK'
  BY <1>1, <1>2, <1>3, <1>9 DEF TypeOK
<1>5. 1..Len(file') = {}
  BY <1>3
<1>6. FileOK'
  BY <1>3, <1>5 DEF FileOK
<1>7. DumpOK' /\ SavedOK'
  BY <1>1, <1>2, <1>5 DEF DumpOK, SavedOK
<1>8. ReadOK' /\ StartOK'
  BY <1>1, <1>2 DEF ReadOK, StartOK
<1> QED BY <1>1, <1>4, <1>6, <1>7, <1>8 DEF EntriesIntact

LEMMA DumpFailsInv ==
  ASSUME FileInv, DumpFails
  PROVE  FileInv'
<1> USE DEF FileInv
<1>1. UNCHANGED <<up, heap, head, file, held, saved, dnode, doff, rpc, rpos, last, rid, crashes>>
  BY DEF DumpFails, history, nodes, reader
<1>2. dumping /\ dumping' = FALSE
  BY DEF DumpFails
<1>3. TypeOK'
  BY <1>1, <1>2 DEF TypeOK
<1>4. FileOK'
  BY <1>1, FileKept
<1>5. DumpOK' /\ SavedOK' /\ ReadOK'
  BY <1>1, <1>2 DEF DumpOK, SavedOK, ReadOK, Unfinished, Starts, Fits
<1>6. StartOK'
  BY <1>1, <1>2 DEF StartOK
<1> QED BY <1>1, <1>3, <1>4, <1>5, <1>6 DEF EntriesIntact

LEMMA DumpCloseInv ==
  ASSUME FileInv, HeldOK, DumpClose
  PROVE  FileInv'
<1> USE DEF FileInv
<1>1. UNCHANGED <<up, heap, head, file, held, dnode, doff, rpc, rpos, last, rid, crashes>>
  BY DEF DumpClose, history, nodes, reader
<1>2. dumping /\ dnode = 0 /\ dumping' = FALSE /\ saved' = held
  BY DEF DumpClose
<1>3. From(0) = {}
  <2> SUFFICES ASSUME NEW n \in From(0) PROVE FALSE
    OBVIOUS
  <2>1. {} \in SUBSET DOMAIN heap /\ Closed({})
    BY DEF Closed
  <2> QED BY <2>1 DEF From
<1>4. saved' \subseteq Reps
  BY <1>2 DEF TypeOK
<1>5. TypeOK'
  BY <1>1, <1>2, <1>4 DEF TypeOK
<1>6. FileOK'
  BY <1>1, FileKept
<1>7. rpc = "none" /\ \A p \in 1..Len(file) : ~Unfinished(p)
  <2>1. doff = 0 /\ ~(doff > 0)
    BY <1>2 DEF DumpOK
  <2> QED BY <1>2, <2>1 DEF DumpOK
<1>8. SavedOK'
  <2>1. \A p \in 1..Len(file') : ~Unfinished(p)'
    BY <1>1, <1>7 DEF Unfinished, Starts
  <2>2. \A r \in saved' : \E i \in 1..Len(file') : file'[i].of = r
    BY <1>1, <1>2, <1>3 DEF HeldOK
  <2> QED BY <2>1, <2>2 DEF SavedOK
<1>9. DumpOK' /\ ReadOK'
  BY <1>1, <1>2, <1>7 DEF DumpOK, ReadOK
<1>10. StartOK'
  BY <1>1, <1>2 DEF StartOK
<1> QED BY <1>1, <1>5, <1>6, <1>8, <1>9, <1>10 DEF EntriesIntact

LEMMA ReadOpenInv ==
  ASSUME FileInv, ReadOpen
  PROVE  FileInv'
<1> USE DEF FileInv
<1>1. UNCHANGED <<up, heap, head, file, held, saved, dumping, dnode, doff, rid, crashes>>
  BY DEF ReadOpen, nodes, history, dumper
<1>2. /\ ~dumping /\ up # "down" /\ rpc = "none"
      /\ rpc' = "read" /\ rpos' = 1 /\ last' = 0
  BY DEF ReadOpen
<1>3. Len(heap) \in Nat /\ Len(file) \in Nat
  BY LenProperties DEF TypeOK
<1>4. 0 \in 0..Len(heap') /\ 1 \in Nat \ {0}
  BY <1>1, <1>3
<1>5. TypeOK'
  BY <1>1, <1>2, <1>4 DEF TypeOK
<1>6. FileOK'
  BY <1>1, FileKept
<1>7. DumpOK' /\ SavedOK'
  BY <1>1, <1>2 DEF DumpOK, SavedOK, Unfinished, Starts
<1>8. ReadOK'
  <2>1. 1 > Len(file) \/ Starts(1)
    BY <1>3 DEF FileOK
  <2> QED BY <1>1, <1>2, <2>1 DEF ReadOK, Starts
<1>9. StartOK'
  <2>1. ASSUME up = "starting" PROVE Straight' /\ last' = Len(heap')
    <3>1. Straight /\ heap = << >>
      BY <1>2, <2>1 DEF StartOK
    <3> QED BY <1>1, <1>2, <3>1 DEF Straight
  <2>2. \A i \in 1..Len(file') : ~(i < rpos')
    BY <1>1, <1>2, <1>3
  <2> QED BY <1>1, <1>2, <2>1, <2>2 DEF StartOK
<1> QED BY <1>1, <1>5, <1>6, <1>7, <1>8, <1>9 DEF EntriesIntact

LEMMA ReadEndInv ==
  ASSUME FileInv, ReadEnd
  PROVE  FileInv'
<1> USE DEF FileInv
<1>1. UNCHANGED <<heap, head, file, held, saved, dumping, dnode, doff, rpos, last, rid, crashes>>
  BY DEF ReadEnd, nodes, history, dumper
<1>2. rpc = "read" /\ rpc' = "none" /\ up' = "serving"
  BY DEF ReadEnd
<1>3. TypeOK'
  BY <1>1, <1>2 DEF TypeOK
<1>4. FileOK'
  BY <1>1, FileKept
<1>5. DumpOK' /\ SavedOK' /\ ReadOK' /\ StartOK'
  BY <1>1, <1>2 DEF DumpOK, SavedOK, ReadOK, StartOK, Unfinished, Starts
<1> QED BY <1>1, <1>3, <1>4, <1>5 DEF EntriesIntact

LEMMA RegisterInv ==
  ASSUME FileInv, NEW r \in Reps, Register(r)
  PROVE  FileInv'
<1> USE DEF FileInv
<1> DEFINE after == IF head = 0 THEN 0 ELSE Tail_of
<1>1. UNCHANGED <<up, file, held, saved, dumping, dnode, doff, rpc, rpos, last, rid, crashes>>
  BY DEF Register, history, dumper, reader
<1>2. up = "serving" /\ LinkNode(after, r, TRUE)
  BY DEF Register
<1> HIDE DEF after
<1>3. /\ heap \in Seq(Node) /\ Len(heap) <= MaxNodes /\ head \in 0..Len(heap)
      /\ \A n \in DOMAIN heap : heap[n].next \in 0..Len(heap)
      /\ EntriesIntact
  BY DEF TypeOK
<1>4. /\ heap' \in Seq(Node) /\ Len(heap') <= MaxNodes /\ head' \in 0..Len(heap')
      /\ \A n \in DOMAIN heap' : heap'[n].next \in 0..Len(heap')
      /\ EntriesIntact'
  BY <1>2, <1>3, LinkNodeTypes
<1>5. Len(heap') = Len(heap) + 1 /\ \A n \in 1..Len(heap) : heap'[n].rep = heap[n].rep
  BY <1>2, <1>3, LinkNodeFacts
<1>6. Len(heap) \in Nat
  BY <1>3, LenProperties
<1>7. dnode' \in 0..Len(heap') /\ last' \in 0..Len(heap')
  <2>1. dnode \in 0..Len(heap) /\ last \in 0..Len(heap)
    BY DEF TypeOK
  <2> QED BY <1>1, <1>5, <1>6, <2>1
<1>8. TypeOK'
  BY <1>1, <1>4, <1>7 DEF TypeOK
<1>9. FileOK'
  BY <1>1, FileKept
<1>10. SavedOK' /\ ReadOK'
  BY <1>1 DEF SavedOK, ReadOK, Unfinished, Starts, Fits
<1>11. dnode # 0 => heap'[dnode].rep = heap[dnode].rep
  <2>1. dnode \in 0..Len(heap)
    BY DEF TypeOK
  <2>2. dnode # 0 => dnode \in 1..Len(heap)
    BY <1>6, <2>1
  <2> QED BY <1>5, <2>2
<1>12. DumpOK'
  BY <1>1, <1>11 DEF DumpOK, Unfinished, Starts
<1>13. StartOK'
  BY <1>1, <1>2 DEF StartOK
<1> QED BY <1>4, <1>8, <1>9, <1>10, <1>12, <1>13

\* The record at p, when all of it is in the file.
LEMMA WholeRecord ==
  ASSUME LengthsSurvive, TypeOK, FileOK, NEW p \in Nat \ {0}, p > Len(file) \/ Starts(p), Fits(p)
  PROVE  LET r == file[p].of IN
         /\ p \in 1..Len(file) /\ r \in Reps /\ Size[r] \in Nat /\ Size[r] >= 1
         /\ rep_len(Size[r]) = Size[r] /\ p + Size[r] <= Len(file)
         /\ \A k \in 0..Size[r] : file[p + k] = Image(r)[k + 1] /\ file[p + k].of = r
         /\ p + Size[r] + 1 > Len(file) \/ Starts(p + Size[r] + 1)
<1> DEFINE r == file[p].of
<1>1. Len(file) \in Nat
  BY LenProperties DEF TypeOK
<1>2. p + 1 <= Len(file) /\ p + rep_len(Size[r]) <= Len(file)
  BY DEF Fits
<1>3. p \in 1..Len(file) /\ Starts(p)
  BY <1>1, <1>2
<1>4. r \in Reps
  BY <1>3, FileUnits
<1>5. Size[r] \in Nat /\ Size[r] >= 1 /\ rep_len(Size[r]) = Size[r]
  BY <1>4, SizeType DEF LengthsSurvive
<1>6. RecordAt(p)
  BY <1>3 DEF FileOK
<1>7. ASSUME NEW k \in 0..Size[r]
      PROVE  file[p + k] = Image(r)[k + 1] /\ file[p + k].of = r
  <2>1. p + k <= Len(file)
    BY <1>1, <1>2, <1>3, <1>5
  <2>2. file[p + k] = Image(r)[k + 1]
    BY <1>6, <2>1 DEF RecordAt
  <2> QED BY <1>4, <2>2, ImageFacts
<1>8. p + Size[r] + 1 > Len(file) \/ Starts(p + Size[r] + 1)
  BY <1>1, <1>3, <1>5, <1>6 DEF RecordAt
<1> QED BY <1>2, <1>3, <1>4, <1>5, <1>7, <1>8

LEMMA ReadRecordInv ==
  ASSUME LengthsSurvive, FileInv, ReadRecord
  PROVE  FileInv'
<1> USE DEF FileInv
<1> DEFINE r == file[rpos].of
<1>1. UNCHANGED <<up, heap, head, file, held, saved, dumping, dnode, doff, last, crashes>>
  BY DEF ReadRecord, nodes, history, dumper
<1>2. rpc = "read" /\ Fits(rpos)
  BY DEF ReadRecord
<1>3. \/ r \in Listed /\ rpos' = rpos + 1 + rep_len(Size[r]) /\ rpc' = rpc /\ rid' = rid
      \/ rpc' = "link" /\ rid' = r /\ rpos' = rpos
  BY DEF ReadRecord
<1>4. rpos \in Nat \ {0} /\ (rpos > Len(file) \/ Starts(rpos)) /\ ~dumping
  BY <1>2 DEF TypeOK, ReadOK, DumpOK
<1>5. /\ rpos \in 1..Len(file) /\ r \in Reps /\ Size[r] \in Nat /\ Size[r] >= 1
      /\ rep_len(Size[r]) = Size[r] /\ rpos + Size[r] <= Len(file)
      /\ \A k \in 0..Size[r] : file[rpos + k].of = r
      /\ rpos + Size[r] + 1 > Len(file) \/ Starts(rpos + Size[r] + 1)
  BY <1>2, <1>4, WholeRecord
<1>6. FileOK' /\ DumpOK' /\ SavedOK' /\ EntriesIntact'
  <2>1. FileOK'
    BY <1>1, FileKept
  <2> QED BY <1>1, <1>4, <2>1 DEF DumpOK, SavedOK, Unfinished, Starts, EntriesIntact
<1>7. CASE rpc' = "link" /\ rid' = r /\ rpos' = rpos
  <2>1. TypeOK'
    BY <1>1, <1>5, <1>7 DEF TypeOK
  <2>2. ReadOK'
    BY <1>1, <1>2, <1>4, <1>7 DEF ReadOK, Starts, Fits
  <2>3. StartOK'
    BY <1>1, <1>2, <1>7 DEF StartOK, Straight
  <2> QED BY <1>6, <2>1, <2>2, <2>3
<1>8. CASE r \in Listed /\ rpos' = rpos + 1 + rep_len(Size[r]) /\ rpc' = rpc /\ rid' = rid
  <2>0. Len(file) \in Nat
    BY LenProperties DEF TypeOK
  <2>1. rpos' = rpos + Size[r] + 1 /\ rpos' \in Nat \ {0}
    <3>1. rpos' = rpos + 1 + Size[r] /\ rpos \in Nat \ {0} /\ Size[r] \in Nat
      BY <1>4, <1>5, <1>8, Zenon
    <3> QED BY <3>1
  <2>2. TypeOK'
    BY <1>1, <1>8, <2>1 DEF TypeOK
  <2>3. ReadOK'
    BY <1>1, <1>2, <1>5, <1>8, <2>1 DEF ReadOK, Starts
  <2>4. StartOK'
    <3>1. up # "down"
      BY <1>2 DEF StartOK
    <3> SUFFICES ASSUME up = "starting" PROVE StartOK'
      BY <1>1, <3>1 DEF StartOK
    <3>2. Straight /\ last = Len(heap)
          /\ \A i \in 1..Len(file) : i < rpos => \E n \in 1..Len(heap) : heap[n].rep = file[i].of
      BY <1>2 DEF StartOK
    <3>3. PICK m \in 1..Len(heap) : heap[m].rep = r
      <4>1. Listed = {heap[n].rep : n \in 1..Len(heap)}
        BY <3>2, ListedStraight DEF TypeOK
      <4> QED BY <1>8, <4>1
    <3>4. ASSUME NEW i \in 1..Len(file), i < rpos'
          PROVE  \E n \in 1..Len(heap) : heap[n].rep = file[i].of
      <4>1. CASE i < rpos
        BY <3>2, <4>1
      <4>2. CASE ~ (i < rpos)
        <5>1. i - rpos \in 0..Size[r] /\ rpos + (i - rpos) = i
          BY <1>4, <1>5, <2>0, <2>1, <3>4, <4>2
        <5>2. file[i].of = r
          BY <1>5, <5>1
        <5> QED BY <3>3, <5>2
      <4> QED BY <4>1, <4>2
    <3> QED BY <1>1, <1>2, <1>4, <1>8, <3>1, <3>2, <3>4 DEF StartOK, Straight
  <2> QED BY <1>6, <2>2, <2>3, <2>4
<1> QED BY <1>3, <1>7, <1>8

LEMMA LinkRecordInv ==
  ASSUME LengthsSurvive, FileInv, LinkRecord
  PROVE  FileInv'
<1> USE DEF FileInv
<1>1. UNCHANGED <<up, file, held, saved, dumping, dnode, doff, rid, crashes>>
  BY DEF LinkRecord, history, dumper
<1>2. /\ rpc = "link" /\ LinkNode(last, rid, Intact(rpos)) /\ last' = Len(heap) + 1
      /\ rpos' = rpos + 1 + rep_len(Size[rid]) /\ rpc' = "read"
  BY DEF LinkRecord
<1>3. /\ rpos \in Nat \ {0} /\ (rpos > Len(file) \/ Starts(rpos)) /\ ~dumping
      /\ Fits(rpos) /\ rid = file[rpos].of
  BY <1>2 DEF TypeOK, ReadOK, DumpOK
<1>4. /\ rpos \in 1..Len(file) /\ rid \in Reps /\ Size[rid] \in Nat /\ Size[rid] >= 1
      /\ rep_len(Size[rid]) = Size[rid] /\ rpos + Size[rid] <= Len(file)
      /\ \A k \in 0..Size[rid] : file[rpos + k] = Image(rid)[k + 1] /\ file[rpos + k].of = rid
      /\ rpos + Size[rid] + 1 > Len(file) \/ Starts(rpos + Size[rid] + 1)
  BY <1>3, WholeRecord
<1>5. Len(file) \in Nat /\ Len(heap) \in Nat
  BY LenProperties DEF TypeOK
\* What was read is what was written.
<1>6. Intact(rpos)
  <2> DEFINE read == SubSeq(file, rpos, rpos + Size[rid])
  <2>1. \A i \in rpos..(rpos + Size[rid]) : file[i] \in UnitType
    <3>1. \A i \in rpos..(rpos + Size[rid]) : i \in 1..Len(file)
      BY <1>4, <1>5
    <3> QED BY <3>1, FileUnits
  <2>2. rpos \in Int /\ rpos + Size[rid] \in Int /\ rpos <= rpos + Size[rid]
        /\ (rpos + Size[rid]) - rpos + 1 = Size[rid] + 1
    BY <1>4, <1>5
  <2>3. /\ read \in Seq(UnitType) /\ Len(read) = Size[rid] + 1
        /\ \A i \in 1..(Size[rid] + 1) : read[i] = file[rpos + i - 1]
    BY <2>1, <2>2, SubSeqProperties
  <2>4. Image(rid) \in Seq(UnitType) /\ Len(Image(rid)) = Size[rid] + 1
    BY <1>4, ImageFacts
  <2> HIDE DEF read
  <2>5. ASSUME NEW i \in 1..Len(read) PROVE read[i] = Image(rid)[i]
    <3>1. i - 1 \in 0..Size[rid] /\ rpos + (i - 1) = rpos + i - 1 /\ (i - 1) + 1 = i
          /\ i \in 1..(Size[rid] + 1)
      BY <1>4, <1>5, <2>3
    <3> QED BY <1>4, <2>3, <3>1
  <2>6. read = Image(rid)
    BY <2>3, <2>4, <2>5, SeqEqual
  <2> QED BY <1>3, <1>4, <2>6 DEF Intact, read
<1>7. LinkNode(last, rid, TRUE)
  <2>1. Intact(rpos) = TRUE
    BY <1>6 DEF Intact
  <2> QED BY <1>2, <2>1, Zenon
<1>8. /\ heap \in Seq(Node) /\ Len(heap) <= MaxNodes /\ head \in 0..Len(heap)
      /\ \A n \in DOMAIN heap : heap[n].next \in 0..Len(heap)
      /\ EntriesIntact
  BY DEF TypeOK
<1>9. /\ heap' \in Seq(Node) /\ Len(heap') <= MaxNodes /\ head' \in 0..Len(heap')
      /\ \A n \in DOMAIN heap' : heap'[n].next \in 0..Len(heap')
      /\ EntriesIntact'
  BY <1>4, <1>7, <1>8, LinkNodeTypes
<1>10. /\ Len(heap') = Len(heap) + 1 
       /\ head' = IF last = 0 THEN Len(heap') ELSE head
       /\ \A n \in 1..Len(heap) :
            /\ heap'[n].rep = heap[n].rep
            /\ heap'[n].next = IF n = last /\ last # 0 THEN Len(heap') ELSE heap[n].next
       /\ heap'[Len(heap')] = [rep |-> rid, intact |-> TRUE, next |-> 0]
  BY <1>4, <1>7, <1>8, LinkNodeFacts
<1>11. rpos' = rpos + Size[rid] + 1 /\ rpos' \in Nat \ {0}
  <2>1. rpos' = rpos + 1 + Size[rid] /\ rpos \in Nat \ {0} /\ Size[rid] \in Nat
    BY <1>2, <1>3, <1>4, Zenon
  <2> QED BY <2>1
<1>12. TypeOK'
  <2>1. dnode' \in 0..Len(heap') /\ last' \in 0..Len(heap')
    <3>1. dnode \in 0..Len(heap)
      BY DEF TypeOK
    <3> QED BY <1>1, <1>2, <1>5, <1>10, <3>1
  <2> QED BY <1>1, <1>2, <1>9, <1>11, <2>1 DEF TypeOK
<1>13. FileOK' /\ DumpOK' /\ SavedOK'
  <2>1. FileOK'
    BY <1>1, FileKept
  <2> QED BY <1>1, <1>3, <2>1 DEF DumpOK, SavedOK, Unfinished, Starts
<1>14. ReadOK'
  BY <1>1, <1>2, <1>4, <1>11 DEF ReadOK, Starts
<1>15. StartOK'
  <2>1. up # "down"
    BY <1>2 DEF StartOK
  <2> SUFFICES ASSUME up = "starting" PROVE StartOK'
    BY <1>1, <2>1 DEF StartOK
  <2>2. Straight /\ last = Len(heap)
        /\ \A i \in 1..Len(file) : i < rpos => \E n \in 1..Len(heap) : heap[n].rep = file[i].of
    BY <1>2 DEF StartOK
  <2>3. head' = 1
    BY <1>5, <1>10, <2>2 DEF Straight
  <2>4. ASSUME NEW n \in 1..Len(heap')
        PROVE  heap'[n].next = IF n = Len(heap') THEN 0 ELSE n + 1
    <3>1. CASE n = Len(heap')
      BY <1>10, <3>1
    <3>2. CASE n \in 1..Len(heap)
      <4>1. heap[n].next = IF n = Len(heap) THEN 0 ELSE n + 1
        BY <2>2, <3>2 DEF Straight
      <4> QED BY <1>5, <1>10, <2>2, <3>2, <4>1
    <3> QED BY <1>5, <1>10, <3>1, <3>2
  <2>5. Straight'
    BY <1>5, <1>10, <2>3, <2>4 DEF Straight
  <2>6. ASSUME NEW i \in 1..Len(file), i < rpos'
        PROVE  \E n \in 1..Len(heap') : heap'[n].rep = file[i].of
    <3>1. CASE i < rpos
      <4>1. PICK n \in 1..Len(heap) : heap[n].rep = file[i].of
        BY <2>2, <3>1
      <4>2. n \in 1..Len(heap')
        BY <1>5, <1>10
      <4> QED BY <1>10, <4>1, <4>2
    <3>2. CASE ~ (i < rpos)
      <4>1. i - rpos \in 0..Size[rid] /\ rpos + (i - rpos) = i
        BY <1>3, <1>4, <1>5, <1>11, <2>6, <3>2
      <4>2. file[i].of = rid
        BY <1>4, <4>1
      <4>3. Len(heap') \in 1..Len(heap') /\ heap'[Len(heap')].rep = rid
        BY <1>5, <1>10
      <4> QED BY <4>2, <4>3
    <3> QED BY <3>1, <3>2
  <2> QED BY <1>1, <1>2, <1>3, <1>10, <2>1, <2>5, <2>6 DEF StartOK
<1> QED BY <1>9, <1>12, <1>13, <1>14, <1>15

\* The hard step: a unit is added to the record that is being written, or starts
\* a new one behind a record that is complete.
LEMMA DumpWriteInv ==
  ASSUME FileInv, DumpWrite
  PROVE  FileInv'
<1> USE DEF FileInv
<1> DEFINE r == heap[dnode].rep
           N == Len(file)
           new == Image(r)[doff + 1]
           s == N - doff + 1
<1>1. UNCHANGED <<up, heap, head, held, saved, dumping, rpc, rpos, last, rid, crashes>>
  BY DEF DumpWrite, history, nodes, reader
<1>2. /\ dumping /\ dnode # 0 /\ file' = Append(file, new)
      /\ \/ doff + 1 < Len(Image(r)) /\ doff' = doff + 1 /\ dnode' = dnode
         \/ doff + 1 = Len(Image(r)) /\ doff' = 0 /\ dnode' = heap[dnode].next
  BY DEF DumpWrite
<1>3. N \in Nat /\ Len(heap) \in Nat /\ heap \in [1..Len(heap) -> Node]
      /\ DOMAIN heap = 1..Len(heap)
  BY LenProperties DEF TypeOK
<1>4. dnode \in 1..Len(heap) /\ doff \in Nat
  <2>1. dnode \in 0..Len(heap) /\ doff \in Nat
    BY DEF TypeOK
  <2> QED BY <1>2, <1>3, <2>1
<1>5. r \in Reps /\ heap[dnode].next \in 0..Len(heap)
  BY <1>3, <1>4 DEF TypeOK, Node
<1>6. Size[r] \in Nat /\ Size[r] >= 1 /\ Len(Image(r)) = Size[r] + 1
  BY <1>5, SizeType, ImageFacts
<1>7. doff > 0 => doff <= Size[r] /\ doff <= N /\ file[s] = Unit("id", r)
  BY <1>2 DEF DumpOK
<1>8. \A p \in 1..N : Unfinished(p) => doff > 0 /\ p = s
  BY <1>2 DEF DumpOK
<1>9. doff \in 0..Size[r]
  BY <1>4, <1>6, <1>7
<1>10. new \in UnitType /\ new.of = r
  BY <1>5, <1>9, ImageFacts
<1>11. new.kind = "id" => doff = 0
  BY <1>5, <1>9, ImageFacts
<1>12. doff = 0 => new = Unit("id", r) /\ new.kind = "id"
  BY <1>5, ImageFacts DEF Unit
<1>13. file \in Seq(UnitType)
  BY DEF TypeOK, UnitType
<1> HIDE DEF new
<1>14. /\ file' \in Seq(UnitType) /\ Len(file') = N + 1
       /\ \A i \in 1..N : file'[i] = file[i]
       /\ file'[N + 1] = new
  BY <1>2, <1>10, <1>13, AppendProperties
<1>15. \A p \in 1..N : file[p].of \in Reps /\ Size[file[p].of] \in Nat
  BY FileUnits, SizeType
\* The start of the record under way.
<1>16. doff > 0 => s \in 1..N /\ Starts(s) /\ file[s].of = r
  <2>1. Unit("id", r).kind = "id" /\ Unit("id", r).of = r
    BY DEF Unit
  <2> QED BY <1>3, <1>4, <1>7, <2>1 DEF Starts
\* If a record ends right before the new unit, none is under way.
<1>17. ASSUME NEW p \in 1..N, Starts(p), p + Size[file[p].of] = N
       PROVE  doff = 0
  <2> SUFFICES ASSUME doff > 0 PROVE FALSE
    BY <1>4
  <2>1. s \in 1..N /\ Starts(s) /\ file[s].of = r /\ doff <= Size[r]
    BY <1>7, <1>16
  <2>2. Size[file[p].of] \in Nat
    BY <1>15
  <2>3. CASE p = s
    <3>1. s + Size[r] = N
      BY <1>17, <2>1, <2>3
    <3> QED BY <1>3, <1>4, <1>6, <2>1, <3>1
  <2>4. CASE p < s
    <3>1. p + Size[file[p].of] < s
      BY <1>17, <2>1, <2>4, StartsApart
    <3> QED BY <1>3, <1>17, <2>1, <3>1
  <2>5. CASE s < p
    <3>1. s + Size[r] < p
      BY <1>17, <2>1, <2>5, StartsApart
    <3> QED BY <1>3, <1>4, <1>6, <2>1, <3>1
  <2> QED BY <1>3, <2>1, <2>3, <2>4, <2>5
<1>18. FileOK'
  <2>1. Starts(1)'
    <3>1. CASE N = 0
      <4>1. doff = 0
        BY <1>4, <1>7, <3>1
      <4>2. file'[1] = new
        BY <1>14, <3>1
      <4> QED BY <1>12, <4>1, <4>2 DEF Starts
    <3>2. CASE N > 0
      <4>1. Starts(1) /\ 1 \in 1..N
        BY <1>3, <3>2 DEF FileOK
      <4> QED BY <1>14, <4>1 DEF Starts
    <3> QED BY <1>3, <3>1, <3>2
  <2>2. ASSUME NEW p \in 1..(N + 1), Starts(p)'
        PROVE  RecordAt(p)'
    <3>1. CASE p = N + 1
      <4>1. doff = 0 /\ file'[p] = Unit("id", r) /\ file'[p].of = r
        BY <1>10, <1>11, <1>12, <1>14, <2>2, <3>1 DEF Starts
      <4>2. ASSUME NEW k \in 0..Size[r], p + k <= N + 1
            PROVE  file'[p + k] = Image(r)[k + 1]
        <5>1. k = 0 /\ p + k = p /\ k + 1 = 1
          BY <1>3, <3>1, <4>2
        <5> QED BY <1>5, <4>1, <5>1, ImageFacts
      <4>3. ~ (p + Size[r] + 1 <= N + 1)
        BY <1>3, <1>6, <3>1
      <4> QED BY <1>14, <4>1, <4>2, <4>3 DEF RecordAt
    <3>2. CASE p \in 1..N
      <4> DEFINE q == file[p].of
      <4>1. file'[p] = file[p] /\ Starts(p) /\ RecordAt(p) /\ q \in Reps /\ Size[q] \in Nat
        BY <1>14, <1>15, <2>2, <3>2 DEF FileOK, Starts
      <4>2. ASSUME NEW k \in 0..Size[q], p + k <= N + 1
            PROVE  file'[p + k] = Image(q)[k + 1]
        <5>1. CASE p + k <= N
          <6>1. p + k \in 1..N
            BY <1>3, <3>2, <4>1, <5>1
          <6> QED BY <1>14, <4>1, <5>1, <6>1 DEF RecordAt
        <5>2. CASE p + k = N + 1
          <6>1. p + Size[q] > N
            BY <1>3, <3>2, <4>1, <5>2
          <6>2. Unfinished(p)
            BY <4>1, <6>1 DEF Unfinished
          <6>3. doff > 0 /\ p = s
            BY <1>8, <3>2, <6>2
          <6>4. q = r
            BY <1>16, <6>3
          <6>5. k = doff
            BY <1>3, <1>4, <4>1, <5>2, <6>3
          <6> QED BY <1>14, <5>2, <6>4, <6>5 DEF new
        <5> QED BY <1>3, <3>2, <4>1, <4>2, <5>1, <5>2
      <4>3. ASSUME p + Size[q] + 1 <= N + 1
            PROVE  Starts(p + Size[q] + 1)'
        <5>1. CASE p + Size[q] + 1 <= N
          <6>1. p + Size[q] + 1 \in 1..N
            BY <1>3, <3>2, <4>1, <5>1
          <6> QED BY <1>14, <4>1, <5>1, <6>1 DEF RecordAt, Starts
        <5>2. CASE p + Size[q] = N
          <6>1. doff = 0
            BY <1>17, <3>2, <4>1, <5>2
          <6>2. p + Size[q] + 1 = N + 1
            BY <5>2
          <6> QED BY <1>12, <1>14, <4>1, <6>1, <6>2 DEF Starts
        <5> QED BY <1>3, <3>2, <4>1, <4>3, <5>1, <5>2
      <4> QED BY <1>14, <4>1, <4>2, <4>3 DEF RecordAt
    <3> QED BY <1>3, <3>1, <3>2
  <2> QED BY <1>14, <2>1, <2>2 DEF FileOK
<1>19. DumpOK'
  <2>1. rpc' = "none" /\ saved' = {} /\ dumping'
    BY <1>1, <1>2 DEF DumpOK
  <2>2. dnode' = 0 => doff' = 0
    BY <1>2
  <2>3. ASSUME doff' > 0
        PROVE  /\ dnode' = dnode /\ doff' = doff + 1
               /\ doff' <= Size[r] /\ doff' <= N + 1
               /\ file'[N + 1 - doff' + 1] = Unit("id", r)
    <3>1. dnode' = dnode /\ doff' = doff + 1 /\ doff + 1 < Size[r] + 1
      BY <1>2, <1>6, <2>3
    <3>2. doff' <= Size[r] /\ N + 1 - doff' + 1 = s
      BY <1>3, <1>4, <1>6, <3>1
    <3>3. CASE doff = 0
      <4>1. s = N + 1 /\ doff' <= N + 1
        BY <1>3, <3>1, <3>3
      <4> QED BY <1>12, <1>14, <3>1, <3>2, <3>3, <4>1
    <3>4. CASE doff > 0
      <4>1. file'[s] = Unit("id", r)
        BY <1>7, <1>14, <1>16, <3>4
      <4>2. doff' <= N + 1
        BY <1>3, <1>4, <1>7, <3>1, <3>4
      <4> QED BY <3>1, <3>2, <4>1, <4>2
    <3> QED BY <1>4, <3>3, <3>4
  <2>4. ASSUME NEW p \in 1..(N + 1), Unfinished(p)'
        PROVE  doff' > 0 /\ p = (N + 1) - doff' + 1
    <3>1. Starts(p)' /\ p + Size[file'[p].of] > N + 1
      BY <1>14, <2>4 DEF Unfinished
    <3>2. CASE p = N + 1
      <4>1. doff = 0
        BY <1>11, <1>14, <3>1, <3>2 DEF Starts
      <4>2. doff' = 1
        BY <1>2, <1>6, <4>1
      <4> QED BY <1>3, <3>2, <4>2
    <3>3. CASE p \in 1..N
      <4>1. file'[p] = file[p] /\ Starts(p) /\ Size[file[p].of] \in Nat
        BY <1>14, <1>15, <3>1, <3>3 DEF Starts
      <4>2. p + Size[file[p].of] > N
        BY <1>3, <3>1, <3>3, <4>1
      <4>3. doff > 0 /\ p = s
        BY <1>8, <3>3, <4>1, <4>2 DEF Unfinished
      <4>4. s + Size[r] > N + 1
        BY <1>16, <3>1, <4>1, <4>3
      <4>5. doff + 1 < Size[r] + 1
        BY <1>3, <1>4, <1>6, <4>4
      <4>6. doff' = doff + 1
        BY <1>2, <1>4, <1>6, <4>5
      <4> QED BY <1>3, <1>4, <4>3, <4>6
    <3> QED BY <1>3, <3>2, <3>3
  <2>5. ASSUME doff' > 0
        PROVE  /\ doff' <= Size[heap'[dnode'].rep] /\ doff' <= Len(file')
               /\ file'[Len(file') - doff' + 1] = Unit("id", heap'[dnode'].rep)
    <3>1. heap'[dnode'].rep = r /\ Len(file') = N + 1
      BY <1>1, <1>14, <2>3, <2>5
    <3>2. doff' <= Size[r] /\ doff' <= N + 1 /\ file'[N + 1 - doff' + 1] = Unit("id", r)
      BY <2>3, <2>5
    <3>3. doff' <= Size[heap'[dnode'].rep]
      BY <3>1, <3>2
    <3>4. doff' <= Len(file')
      BY <3>1, <3>2
    <3>5. file'[Len(file') - doff' + 1] = file'[N + 1 - doff' + 1]
      <4>1. doff' \in Nat
        BY <1>4, <2>3, <2>5
      <4>2. Len(file') - doff' + 1 = N + 1 - doff' + 1
        BY <1>3, <3>1, <4>1
      <4> QED BY <4>2
    <3>6. Unit("id", heap'[dnode'].rep) = Unit("id", r)
      BY <3>1
    <3> QED BY <3>2, <3>3, <3>4, <3>5, <3>6
  <2>6. \A p \in 1..Len(file') : Unfinished(p)' => doff' > 0 /\ p = Len(file') - doff' + 1
    BY <1>14, <2>4
  <2> QED BY <2>1, <2>2, <2>5, <2>6, Zenon DEF DumpOK
<1>20. TypeOK'
  <2>1. doff' \in Nat
    BY <1>2, <1>4
  <2>2. dnode' \in 0..Len(heap)
    BY <1>2, <1>3, <1>4, <1>5
  <2>3. file' \in Seq([kind: {"id", "len", "data"}, of: Reps])
    BY <1>14 DEF UnitType
  <2> QED BY <1>1, <2>1, <2>2, <2>3 DEF TypeOK
<1>21. SavedOK' /\ ReadOK'
  BY <1>1, <1>2 DEF DumpOK, SavedOK, ReadOK
<1>22. StartOK'
  BY <1>1, <1>2 DEF StartOK
<1> QED BY <1>1, <1>18, <1>19, <1>20, <1>21, <1>22 DEF EntriesIntact

-----------------------------------------------------------------------------
(***************************************************************************)
(* The theorems.                                                           *)
(***************************************************************************)
\* Where the dump's walk through the list stands: only DumpWrite moves it on, and
\* only a registration changes the list under it, at its end.
LEMMA HeldInv ==
  ASSUME RestartInv, [Next]_vars
  PROVE  Forward' /\ HeldOK'
<1> USE DEF RestartInv, FileInv
<1>1. /\ heap \in Seq(Node) /\ Len(heap) \in Nat /\ Len(heap) <= MaxNodes
      /\ DOMAIN heap = 1..Len(heap) /\ head \in 0..Len(heap) /\ dnode \in 0..Len(heap)
      /\ \A n \in DOMAIN heap : heap[n].next \in 0..Len(heap)
  BY LenProperties DEF TypeOK
<1>2. ASSUME heap' = heap, UNCHANGED <<file, held, dnode>>, dumping' => dumping
      PROVE  Forward' /\ HeldOK'
  BY <1>2 DEF Forward, HeldOK, From, Closed
<1>3. CASE Start \/ DumpFails \/ DumpClose \/ ReadOpen \/ ReadRecord \/ ReadEnd \/ UNCHANGED vars
  BY <1>2, <1>3 DEF Start, DumpFails, DumpClose, ReadOpen, ReadRecord, ReadEnd,
                    vars, nodes, history, dumper
<1>4. CASE Crash
  <2>1. heap' = << >> /\ ~dumping'
    BY <1>4 DEF Crash
  <2> QED BY <2>1 DEF Forward, HeldOK
<1>5. CASE DumpOpen
  <2>1. heap' = heap /\ dnode' = head /\ held' = Listed
    BY <1>5 DEF DumpOpen, nodes
  <2> QED BY <2>1 DEF Forward, HeldOK, Listed, From, Closed
<1>6. CASE DumpWrite
  <2> DEFINE rep == heap[dnode].rep
             new == Image(rep)[doff + 1]
  <2>1. /\ heap' = heap /\ held' = held /\ dumping /\ dnode # 0 /\ file' = Append(file, new)
        /\ \/ dnode' = dnode
           \/ dnode' = heap[dnode].next
    BY <1>6 DEF DumpWrite, nodes, history
  <2>2. dnode \in 1..Len(heap)
    BY <1>1, <2>1
  <2>3. rep \in Reps
    <3>1. heap[dnode] \in Node
      BY <1>1, <2>2, LenProperties
    <3> QED BY <3>1 DEF Node
  <2>4. new \in UnitType /\ new.of = rep
    <3>1. doff \in 0..Size[rep]
      <4>1. doff \in Nat /\ Size[rep] \in Nat /\ (doff > 0 => doff <= Size[rep])
        BY <2>1, <2>3, SizeType DEF TypeOK, DumpOK
      <4> QED BY <4>1
    <3> QED BY <2>3, <3>1, ImageFacts
  <2> HIDE DEF new
  <2>5. /\ Len(file) \in Nat /\ Len(file') = Len(file) + 1 /\ file'[Len(file) + 1].of = rep
        /\ \A i \in 1..Len(file) : file'[i] = file[i]
    <3>1. file \in Seq(UnitType)
      BY DEF TypeOK, UnitType
    <3> QED BY <2>1, <2>4, <3>1, AppendProperties, LenProperties
  <2>6. ASSUME NEW r \in held
        PROVE  \/ \E i \in 1..Len(file') : file'[i].of = r
               \/ \E n \in From(dnode)' : heap'[n].rep = r
    <3>1. ASSUME NEW i \in 1..Len(file), file[i].of = r
          PROVE  \E j \in 1..Len(file') : file'[j].of = r
      <4>1. i \in 1..Len(file') /\ file'[i].of = r
        BY <2>5, <3>1
      <4> QED BY <4>1
    <3>2. ASSUME NEW n \in From(dnode), heap[n].rep = r
          PROVE  \/ \E j \in 1..Len(file') : file'[j].of = r
                 \/ \E k \in From(dnode)' : heap'[k].rep = r
      <4>1. CASE dnode' = dnode
        <5>1. n \in From(dnode)'
          BY <2>1, <3>2, <4>1 DEF From, Closed
        <5> QED BY <2>1, <3>2, <5>1
      <4>2. CASE dnode' = heap[dnode].next /\ n = dnode
        <5>1. Len(file) + 1 \in 1..Len(file') /\ file'[Len(file) + 1].of = r
          BY <2>5, <3>2, <4>2
        <5> QED BY <5>1
      <4>3. CASE dnode' = heap[dnode].next /\ n # dnode
        <5>1. n \in From(heap[dnode].next)
          BY <1>1, <2>2, <3>2, <4>3, FromNext
        <5>2. n \in From(dnode)'
          BY <2>1, <4>3, <5>1 DEF From, Closed
        <5> QED BY <2>1, <3>2, <5>2
      <4> QED BY <2>1, <4>1, <4>2, <4>3
    <3> QED BY <2>1, <3>1, <3>2 DEF HeldOK
  <2> QED BY <2>1, <2>6 DEF Forward, HeldOK
<1>7. ASSUME NEW r \in Reps, Register(r) PROVE Forward' /\ HeldOK'
  <2> DEFINE after == IF head = 0 THEN 0 ELSE Tail_of
  <2>1. UNCHANGED <<file, held, dumping, dnode>> /\ LinkNode(after, r, TRUE)
    BY <1>7 DEF Register, history, dumper
  <2>2. after = 0 \/ (after \in 1..Len(heap) /\ heap[after].next = 0)
    BY <1>1, TailIsLast
  <2> HIDE DEF after
  <2>3. /\ heap' \in Seq(Node) /\ Len(heap') = Len(heap) + 1
        /\ \A n \in 1..Len(heap) :
              /\ heap'[n].rep = heap[n].rep
              /\ heap'[n].next = IF n = after /\ after # 0 THEN Len(heap') ELSE heap[n].next
        /\ heap'[Len(heap')].next = 0
    <3>1. TRUE \in BOOLEAN
      OBVIOUS
    <3>2. /\ heap' \in Seq(Node) /\ Len(heap') = Len(heap) + 1
          /\ \A n \in 1..Len(heap) :
                /\ heap'[n].rep = heap[n].rep
                /\ heap'[n].next = IF n = after /\ after # 0 THEN Len(heap') ELSE heap[n].next
          /\ heap'[Len(heap')] = [rep |-> r, intact |-> TRUE, next |-> 0]
      BY <1>1, <2>1, <3>1, LinkNodeFacts
    <3> QED BY <3>2
  <2>4. Forward'
    BY <1>1, <2>3 DEF Forward
  <2>5. ASSUME NEW n \in From(dnode) PROVE n \in From(dnode)' /\ heap'[n].rep = heap[n].rep
    <3>1. n \in 1..Len(heap)
      BY <1>1 DEF From
    <3>2. /\ n \in DOMAIN heap'
          /\ \A S \in SUBSET DOMAIN heap' :
               (dnode # 0 => dnode \in S) /\ (\A k \in S : heap'[k].next # 0 => heap'[k].next \in S)
               => n \in S
      BY <1>1, <2>2, <2>3, FromGrows
    <3> QED BY <2>1, <2>3, <3>1, <3>2 DEF From, Closed
  <2> QED BY <2>1, <2>4, <2>5 DEF HeldOK
<1>8. CASE LinkRecord
  <2>1. ~dumping' /\ LinkNode(last, rid, Intact(rpos))
    BY <1>8 DEF LinkRecord, dumper, DumpOK
  <2>2. /\ Len(heap') = Len(heap) + 1 /\ heap' \in Seq(Node)
        /\ \A n \in 1..Len(heap) :
              heap'[n].next = IF n = last /\ last # 0 THEN Len(heap') ELSE heap[n].next
        /\ heap'[Len(heap')].next = 0
    <3>1. Intact(rpos) \in BOOLEAN
      BY DEF Intact
    <3>2. rid \in Reps
      BY DEF TypeOK
    <3> DEFINE ok == Intact(rpos)
    <3>3. ok \in BOOLEAN /\ LinkNode(last, rid, ok)
      BY <2>1, <3>1
    <3> HIDE DEF ok
    <3>4. /\ Len(heap') = Len(heap) + 1 /\ heap' \in Seq(Node)
          /\ \A n \in 1..Len(heap) :
                heap'[n].next = IF n = last /\ last # 0 THEN Len(heap') ELSE heap[n].next
          /\ heap'[Len(heap')] = [rep |-> rid, intact |-> ok, next |-> 0]
      BY <1>1, <3>2, <3>3, LinkNodeFacts
    <3> QED BY <3>4
  <2> QED BY <1>1, <2>1, <2>2 DEF Forward, HeldOK
<1> QED BY <1>3, <1>4, <1>5, <1>6, <1>7, <1>8 DEF Next

LEMMA NextInv ==
  ASSUME LengthsSurvive, RestartInv, [Next]_vars
  PROVE  RestartInv'
<1> SUFFICES FileInv'
  BY HeldInv DEF RestartInv
<1>13. FileInv /\ HeldOK
  BY DEF RestartInv
<1>1. CASE UNCHANGED vars
  <2>1. UNCHANGED <<up, heap, head, file, held, saved, dumping, dnode, doff, rpc, rpos, last, rid, crashes>>
    BY <1>1 DEF vars, nodes, history, dumper, reader
  <2>2. TypeOK' /\ EntriesIntact'
    BY <1>13, <2>1 DEF FileInv, TypeOK, EntriesIntact
  <2>3. FileOK' /\ SavedOK' /\ ReadOK'
    BY <1>13, <2>1 DEF FileInv, FileOK, RecordAt, Starts, SavedOK, Unfinished, ReadOK, Fits
  <2>4. DumpOK'
    BY <1>13, <2>1 DEF FileInv, DumpOK, Starts, Unfinished
  <2>5. StartOK'
    BY <1>13, <2>1 DEF FileInv, StartOK, Straight
  <2> QED BY <2>2, <2>3, <2>4, <2>5 DEF FileInv
<1>2. CASE Start
  BY <1>2, <1>13, StartInv
<1>3. CASE Crash
  BY <1>3, <1>13, CrashInv
<1>4. CASE DumpOpen
  BY <1>4, <1>13, DumpOpenInv
<1>5. CASE DumpWrite
  BY <1>5, <1>13, DumpWriteInv
<1>6. CASE DumpFails
  BY <1>6, <1>13, DumpFailsInv
<1>7. CASE DumpClose
  BY <1>7, <1>13, DumpCloseInv
<1>8. CASE ReadOpen
  BY <1>8, <1>13, ReadOpenInv
<1>9. CASE ReadRecord
  BY <1>9, <1>13, ReadRecordInv
<1>10. CASE LinkRecord
  BY <1>10, <1>13, LinkRecordInv
<1>11. CASE ReadEnd
  BY <1>11, <1>13, ReadEndInv
<1>12. ASSUME NEW r \in Reps, Register(r) PROVE FileInv'
  BY <1>12, <1>13, RegisterInv
<1> QED BY <1>1, <1>2, <1>3, <1>4, <1>5, <1>6, <1>7, <1>8, <1>9, <1>10, <1>11, <1>12 DEF Next

\* When the read of a starting server ends and a dump was completed, the read
\* has reached the end of the file.
LEMMA ReadToTheEnd ==
  ASSUME LengthsSurvive, RestartInv, rpc = "read", ~Fits(rpos), saved # {}
  PROVE  rpos > Len(file)
<1> SUFFICES ASSUME ~ (rpos > Len(file)) PROVE FALSE
  OBVIOUS
<1>1. rpos \in Nat \ {0} /\ Len(file) \in Nat
  BY LenProperties DEF RestartInv, FileInv, TypeOK
<1>2. Starts(rpos) /\ rpos \in 1..Len(file)
  BY <1>1 DEF RestartInv, FileInv, ReadOK
<1>3. file[rpos].of \in Reps
  BY <1>2, FileUnits DEF RestartInv, FileInv
<1>4. /\ Size[file[rpos].of] \in Nat /\ Size[file[rpos].of] >= 1
      /\ rep_len(Size[file[rpos].of]) = Size[file[rpos].of]
  BY <1>3, SizeType DEF LengthsSurvive
<1>5. ~Unfinished(rpos)
  BY <1>2 DEF RestartInv, FileInv, SavedOK
<1>6. rpos + Size[file[rpos].of] <= Len(file)
  BY <1>1, <1>2, <1>4, <1>5 DEF Unfinished
<1>7. rpos + 1 <= Len(file)
  BY <1>1, <1>4, <1>6
<1>8. rpos + rep_len(Size[file[rpos].of]) <= Len(file)
  BY <1>4, <1>6, Zenon
<1> QED BY <1>7, <1>8 DEF Fits

\* A step by which a starting server starts to serve restores what was saved.
LEMMA RestoreStep ==
  ASSUME LengthsSurvive, RestartInv, [Next]_vars
  PROVE  up = "starting" /\ up' = "serving" => saved \subseteq Listed
<1> SUFFICES ASSUME up = "starting", up' = "serving", NEW f \in saved PROVE f \in Listed
  OBVIOUS
<1>1. ReadEnd
  BY DEF Next, vars, Start, Crash, DumpOpen, DumpWrite, DumpFails, DumpClose, ReadOpen,
         ReadRecord, LinkRecord, Register
<1>2. rpc = "read" /\ ~Fits(rpos)
  BY <1>1 DEF ReadEnd
<1>3. rpos > Len(file)
  BY <1>2, ReadToTheEnd
<1>4. PICK i \in 1..Len(file) : file[i].of = f
  BY DEF RestartInv, FileInv, SavedOK
<1>5. i < rpos
  <2>1. rpos \in Nat /\ Len(file) \in Nat
    BY LenProperties DEF RestartInv, FileInv, TypeOK
  <2> QED BY <1>3, <2>1
<1>6. PICK n \in 1..Len(heap) : heap[n].rep = f
  BY <1>2, <1>4, <1>5 DEF RestartInv, FileInv, StartOK
<1>7. Listed = {heap[m].rep : m \in 1..Len(heap)}
  BY ListedStraight DEF RestartInv, FileInv, StartOK, TypeOK
<1> QED BY <1>6, <1>7

LEMMA BigEndianLengths == ~LittleEndian => LengthsSurvive
  BY DEF LengthsSurvive, rep_len

\* EntriesIntact always holds on a big-endian server: whatever crash, failed
\* write or registration a dump met, read_formats_from_file never makes a
\* format out of parts of others.
THEOREM EntriesStayIntact == ~LittleEndian => (Spec => []EntriesIntact)
<1> SUFFICES ASSUME ~LittleEndian PROVE Spec => []EntriesIntact
  OBVIOUS
<1>1. Init => RestartInv
  BY InitInv
<1>2. RestartInv /\ [Next]_vars => RestartInv'
  BY NextInv, BigEndianLengths
<1>3. RestartInv => EntriesIntact
  BY DEF RestartInv, FileInv
<1> QED BY <1>1, <1>2, <1>3, PTL DEF Spec

\* SavedRestored holds on a big-endian server: one started with -restart serves
\* only when it knows every format the list held when the last completed dump
\* began, whatever was registered while dump_formats_to_file went through it.
THEOREM SavedIsRestored == ~LittleEndian => (Spec => SavedRestored)
<1> SUFFICES ASSUME ~LittleEndian PROVE Spec => SavedRestored
  OBVIOUS
<1>1. Init => RestartInv
  BY InitInv
<1>2. RestartInv /\ [Next]_vars => RestartInv'
  BY NextInv, BigEndianLengths
<1>3. RestartInv /\ [Next]_vars => (up = "starting" /\ up' = "serving" => saved \subseteq Listed)
  BY RestoreStep, BigEndianLengths
<1> QED BY <1>1, <1>2, <1>3, PTL DEF Spec, SavedRestored
=============================================================================
