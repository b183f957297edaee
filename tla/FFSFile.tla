------------------------------- MODULE FFSFile -------------------------------
(***************************************************************************)
(* Record files (ffs/ffs_file.c): writing records, formats, comments and   *)
(* index blocks, appending to an existing file, and reading it back by any *)
(* mix of the reading calls, with writes that fail and writers that die at *)
(* any point.                                                              *)
(*                                                                         *)
(* A file is a sequence of cells: one cell for a record, one for an index  *)
(* block (256 bytes in the code, reserved by seeking over it and filled    *)
(* in later: a Hole until then).  A file position is a number of cells;    *)
(* inside index blocks offsets stay in bytes.  Operators that model a C    *)
(* function bear its name; g is the struct _FFSFile it works on and d the  *)
(* contents of the file.                                                   *)
(***************************************************************************)
EXTENDS Integers, Sequences, FiniteSets, SequencesExt

CONSTANTS Formats,     \* record formats the programs use
          AppContext,  \* the writers' own context: formats by format_index
          BlockSize,   \* INDEX_BLOCK_SIZE
          AttrLen,     \* encoded length of an attribute list
          WithAttrs,   \* formats whose records are written with attributes
          Targets,     \* readers: sets of formats with a target, {} reads raw
          Uses,        \* what the programs do, see UsesKnown
          MaxCells, MaxData, MaxBlocks  \* bounds

IdLen == 12            \* length of a server ID

(* "append"  appending to a file that was written with an index            *)
(* "plain"   appending to a file that was written without one              *)
(* "mixed"   write_FFSfile on a file whose formats another context numbers *)
(* "damaged" appending to a file a writer did not close                    *)
UsesKnown == {"append", "plain", "mixed", "damaged"}

ASSUME FileAssumption ==
    /\ AppContext \in [1..Cardinality(Formats) -> Formats]
    /\ ToSet(AppContext) = Formats
    /\ BlockSize > 16 + 8 + 12 + IdLen + 4 + AttrLen
    /\ AttrLen % 4 = 0
    /\ Uses \subseteq UsesKnown /\ WithAttrs \subseteq Formats
    /\ Targets \subseteq SUBSET Formats

VARIABLES disk,   \* the file after its magic number
          header, \* "absent", "empty" or "magic"
          mode,   \* what the process holds: "closed", "write" or "read"
          f,      \* its struct _FFSFile
          direct, \* the write session uses write_FFSfile, not the encoded form
          clean,  \* every writer so far closed the file
          spoilt, \* the first position a failed write left in disorder, or -1
          out     \* what the last call returned

vars == <<disk, header, mode, f, direct, clean, spoilt, out>>

RecordTypes == {"comment", "format", "data"}
Comment     == [type |-> "comment", fmt |-> "", id |-> 0, attr |-> 0]
FormatRecord(fmt) == [type |-> "format", fmt |-> fmt, id |-> 0, attr |-> 0]
DataRecord(fmt, id, attr) ==
    [type |-> "data", fmt |-> fmt, id |-> id, attr |-> attr]
Hole == [type |-> "hole"]
Torn(cell) == [type |-> "torn", of |-> cell.type, fmt |-> cell.fmt]  \* cut short

(* What ends a reading call: the end of the file, or one of the ways in    *)
(* which it does not come back.  A reader that takes a record that is cut  *)
(* short together with what was written behind it, or an index item        *)
(* without its record, goes astray: it is not followed any further.        *)
Gone == {"corrupt", "crash", "astray", "hang"}
Stop == Gone \cup {"end"}

NoBlock == [base |-> -1, start |-> 0, end |-> 0, off |-> 0, items |-> <<>>]

Returned(op) == [op |-> op, type |-> "", item |-> <<>>, n |-> 0, attr |-> 0]

NewFile == [org |-> "Simple", pos |-> 0, fpos |-> 0, ahead |-> FALSE,
            next |-> "end", count |-> 0, cur |-> NoBlock, readIndex |-> FALSE,
            index |-> <<>>, blockNo |-> 0, info |-> {}, fmc |-> <<>>,
            raw |-> FALSE, targets |-> {}, visible |-> RecordTypes,
            sought |-> FALSE, last |-> 0]

Repeat(Step(_), x, n) ==
    LET after[i \in 0..n] == IF i = 0 THEN x ELSE Step(after[i - 1]) IN after[n]
IndexIn(seq, x) == CHOOSE i \in DOMAIN seq : seq[i] = x
Pad4(n)   == ((n + 3) \div 4) * 4
Trunc4(n) == (n \div 4) * 4

(* A write at position p, over a hole when p lies behind the end.          *)
WriteAt(d, p, cell) ==
    [i \in 1..(IF p < Len(d) THEN Len(d) ELSE p + 1) |->
        IF i = p + 1 THEN cell ELSE IF i <= Len(d) THEN d[i] ELSE Hole]

(* load_external_format_FMcontext on the file's own context.               *)
Load(g, fmt) == IF fmt \in ToSet(g.fmc) THEN g
                ELSE [g EXCEPT !.fmc = Append(@, fmt)]
LoadWritten(g, fmt) ==
    LET h == Load(g, fmt) IN [h EXCEPT !.info = @ \cup {IndexIn(h.fmc, fmt)}]

-----------------------------------------------------------------------------
(* Index blocks, write side.  A state s is [d, g, fails]: the file, the    *)
(* struct, and whether the next write of an index block fails.             *)

init_write_index_block(g) ==
    IF g.readIndex THEN [g EXCEPT !.readIndex = FALSE]
    ELSE LET start == IF g.cur = NoBlock THEN 0 ELSE g.cur.end IN
         [g EXCEPT !.pos = g.pos + 1, !.fpos = g.pos + 1,
                   !.cur = [base |-> g.pos, start |-> start, end |-> start,
                            off |-> 16, items |-> <<>>]]

(* Mutant: the file is not positioned at its end again.                    *)
dump_index_block_NoSeek(s) ==
    LET g == s.g
        block == [type |-> "index", link |-> g.pos, start |-> g.cur.start,
                  last |-> g.count - 1, items |-> g.cur.items, end |-> g.cur.off]
    IN  [s EXCEPT !.d = IF s.fails THEN s.d ELSE WriteAt(s.d, g.cur.base, block),
                  !.g = init_write_index_block([g EXCEPT !.cur.end = g.count - 1,
                                                         !.pos = g.cur.base + 1])]

(* A failed write is reported on stdout and passed over: the place of the  *)
(* block keeps what it held.                                               *)
dump_index_block(s) ==
    LET g == s.g
        block == [type |-> "index", link |-> g.pos, start |-> g.cur.start,
                  last |-> g.count - 1, items |-> g.cur.items, end |-> g.cur.off]
    IN  [s EXCEPT !.d = IF s.fails THEN s.d ELSE WriteAt(s.d, g.cur.base, block),
                  !.g = init_write_index_block([g EXCEPT !.cur.end = g.count - 1])]

(* Mutant: the new block keeps the start init_write_index_block gave it.   *)
prepare_index_item_NoStart(s, len) ==
    LET s1 == IF s.g.cur = NoBlock
              THEN [s EXCEPT !.g = init_write_index_block(s.g)] ELSE s
    IN  IF s1.g.cur.off + len >= BlockSize - 8 THEN dump_index_block(s1) ELSE s1

prepare_index_item(s, len) ==
    LET s1 == IF s.g.cur = NoBlock
              THEN [s EXCEPT !.g = init_write_index_block(s.g)] ELSE s
        s2 == dump_index_block(s1)
    IN  IF s1.g.cur.off + len >= BlockSize - 8
        THEN [s2 EXCEPT !.g.cur.start = s2.g.count]
        ELSE s1

AddItem(s, type, fmt, attr, total, step) ==
    IF s.g.org # "Indexed" THEN s
    ELSE LET add(p) == [p EXCEPT
                !.g.cur.items = Append(@,
                    [off |-> p.g.cur.off, type |-> type, fpos |-> p.g.fpos,
                     fmt |-> fmt, attr |-> attr, total |-> total]),
                !.g.cur.off = @ + 12 + step]
         IN  add(prepare_index_item(s, 12 + total))

output_format_index(s, fmt) == AddItem(s, "format", fmt, 0, IdLen, IdLen)

output_data_index(s, fmt, attr) ==
    LET total == (IF attr = 0 THEN 0 ELSE AttrLen) + IdLen + 4
    IN  AddItem(s, "data", fmt, attr, total, Pad4(total))

PutRecord(s, cell) ==
    [s EXCEPT !.d = WriteAt(s.d, s.g.pos, cell),
              !.g = [s.g EXCEPT !.pos = @ + 1, !.fpos = s.g.pos + 1]]

(* A write that fails after part of the record went out: the descriptor is *)
(* behind the fragment, fpos is not updated.                               *)
PutFragment(s, cell) ==
    [s EXCEPT !.d = WriteAt(s.d, s.g.pos, Torn(cell)), !.g.pos = @ + 1]

-----------------------------------------------------------------------------
(* Reading.                                                                *)

(* parse_index_block walks the block by its own idea of the item lengths;  *)
(* an offset where no item starts would be parsed as garbage.              *)
parse_index_block(block, p) ==
    LET Step(w) ==
          LET at == {i \in DOMAIN block.items : block.items[i].off = w.off}
              it == block.items[CHOOSE i \in at : TRUE]
          IN  IF w.off = block.end \/ at = {} THEN w
              ELSE [elems |-> Append(w.elems, it),
                    off |-> w.off + IF it.type = "format"
                                    THEN Trunc4(it.total + 12 + 3)
                                    ELSE Trunc4((it.total - 4) + 12 + 4)]
        walk == Repeat(Step, [elems |-> <<>>, off |-> 16], Len(block.items))
    IN  [link |-> block.link, start |-> block.start, last |-> block.last,
         fpos |-> p, elems |-> walk.elems, end |-> walk.off]

(* Where the index blocks read so far place the format of a data record.   *)
FormatPlaces(g, fmt) ==
    {e.fpos : e \in {x \in UNION {ToSet(b.elems) : b \in ToSet(g.index)} :
                        x.type = "format" /\ x.fmt = fmt}}

(* The type of a cell as its indicator gives it.                           *)
Kind(cell) == IF cell.type = "torn" THEN cell.of ELSE cell.type

(* FFSread_format at the place an index item gives.                        *)
LoadFrom(d, g, p) ==
    CASE p >= Len(d) -> g
      [] d[p + 1].type = "format" -> LoadWritten(g, d[p + 1].fmt)
      [] d[p + 1].type = "torn" /\ p + 1 = Len(d) -> g
      [] OTHER -> [g EXCEPT !.next = "astray"]

(* next_record_type looks at the record at g.pos unless that was done      *)
(* before (ahead).  A data record of unknown format has its format fetched *)
(* through the index; one without a target is discarded on the spot.       *)
next_record_type(d, g) ==
    LET Look(h) ==
          LET cell == d[h.pos + 1]
              at == FormatPlaces(h, cell.fmt)
              h1 == IF cell.fmt \in ToSet(h.fmc) \/ at = {} THEN h
                    ELSE LoadFrom(d, h, Min(at))
              known == cell.fmt \in ToSet(h1.fmc)
          IN  CASE h.ahead \/ h.next \in Stop -> h
                [] h.pos >= Len(d) -> [h EXCEPT !.next = "end"]
                [] cell.type = "hole" -> [h EXCEPT !.next = "corrupt"]
                [] Kind(cell) # "data" ->
                     [h EXCEPT !.next = Kind(cell), !.ahead = TRUE]
                [] h1.next = "astray" -> h1
                [] ~h1.raw /\ ~(known /\ cell.fmt \in h1.targets) ->
                     IF cell.type = "torn"
                     THEN [h1 EXCEPT !.pos = @ + 1, !.next =
                             IF h.pos + 1 = Len(d) THEN "end" ELSE "astray"]
                     ELSE [h1 EXCEPT !.pos = @ + 1]
                [] h1.raw /\ ~known -> [h1 EXCEPT !.next = "crash"]
                [] OTHER -> [h1 EXCEPT !.next = "data", !.ahead = TRUE,
                                       !.blockNo = @ + 1]
    IN  IF g.ahead THEN g
        ELSE Repeat(Look, [g EXCEPT !.next = "none"], Len(d) + 1)

(* Reading the index block under the look-ahead.                           *)
TakeIndex(d, g) ==
    LET b == parse_index_block(d[g.pos + 1], g.pos)
        h == [g EXCEPT !.pos = @ + 1, !.ahead = FALSE, !.readIndex = TRUE,
                       !.fpos = g.pos, !.index = Append(@, b)]
    IN  IF b.link # Len(d) THEN h
        ELSE [h EXCEPT !.cur = [base |-> g.pos, start |-> 0, end |-> 0,
                                off |-> b.end, items |-> d[g.pos + 1].items],
                       !.count = b.last + 1]

(* Mutant: data that is cut short does not end the file.                   *)
ReadBody_NoEnd(d, g) ==
    LET cell == d[g.pos + 1]
        past == [g EXCEPT !.pos = @ + 1, !.ahead = FALSE]
    IN  CASE g.pos >= Len(d) -> g
          [] cell.type = "torn" /\ g.pos + 1 < Len(d) -> [g EXCEPT !.next = "astray"]
          [] cell.type = "torn" -> [g EXCEPT !.pos = Len(d)]
          [] cell.type = "index"  -> TakeIndex(d, g)
          [] cell.type = "format" -> LoadWritten(past, cell.fmt)
          [] OTHER -> past

(* Reading the rest of the record under the look-ahead.  A record that is  *)
(* cut short by the end of the file leaves the look-ahead in place.        *)
ReadBody(d, g) ==
    LET cell == d[g.pos + 1]
        past == [g EXCEPT !.pos = @ + 1, !.ahead = FALSE]
        cut  == [g EXCEPT !.pos = Len(d), !.next = IF @ = "data" THEN "end" ELSE @]
    IN  CASE g.pos >= Len(d) -> cut
          [] cell.type = "torn" /\ g.pos + 1 < Len(d) -> [g EXCEPT !.next = "astray"]
          [] cell.type = "torn" -> cut
          [] cell.type = "index"  -> TakeIndex(d, g)
          [] cell.type = "format" -> LoadWritten(past, cell.fmt)
          [] OTHER -> past

FFSconsume_next_item(d, g) ==
    LET consume(h) == IF h.next \in Stop THEN h
                      ELSE next_record_type(d, ReadBody(d, h))
    IN  consume(next_record_type(d, g))

(* The loop of the reading calls: consume records until one of a type in T *)
(* is next, or nothing is.  A comment or a format that is cut short is     *)
(* never consumed, and the loop never left.                                *)
SkipTo(d, g, T) ==
    LET h == Repeat(LAMBDA x : IF x.next \in T \cup Stop THEN x
                               ELSE FFSconsume_next_item(d, x),
                    next_record_type(d, g), Len(d) + 1)
    IN  IF h.next \in T \cup Stop THEN h ELSE [h EXCEPT !.next = "hang"]

FFSread_index(d, g) ==
    LET take(h) == IF h.next = "index" THEN TakeIndex(d, h) ELSE h
    IN  take(SkipTo(d, g, {"index"}))

-----------------------------------------------------------------------------
(* Opening for append: every index block and format is read, the last      *)
(* block becomes the one being written.                                    *)

read_all_index_and_formats(d, g) ==
    LET Formats_of(b) == SelectSeq(b.elems, LAMBDA e : e.type = "format")
        Step(w) ==
          LET tail == Last(w.g.index)
              g2 == FoldLeft(LAMBDA h, e : LoadFrom(d, h, e.fpos),
                             w.g, Formats_of(tail))
          IN  IF w.fpos = Len(d) \/ w.g.next \in Gone THEN w
              ELSE [fpos |-> tail.link,
                    g |-> IF tail.link = Len(d) \/ g2.next \in Gone THEN g2
                          ELSE FFSread_index(d, [g2 EXCEPT !.pos = tail.link,
                                                           !.ahead = FALSE])]
        end(w) == CASE w.g.next \in Gone -> w.g
                    [] w.fpos # Len(d) -> [w.g EXCEPT !.next = "hang"]
                    [] OTHER -> [w.g EXCEPT !.org = "Indexed", !.next = "none",
                                            !.pos = Len(d), !.fpos = Len(d)]
        all(h) == IF h.index = <<>> THEN h
                  ELSE end(Repeat(Step, [g |-> h, fpos |-> -1], Len(d) + 1))
    IN  all(FFSread_index(d, g))

convert_last_index_block(d, g) ==
    LET h == init_write_index_block(g)
        b == Last(g.index)
    IN  IF g.index = <<>> THEN h
        ELSE [h EXCEPT !.cur.start = b.start, !.count = b.last + 1,
                       !.pos = Len(d)]

-----------------------------------------------------------------------------
Init == /\ disk = <<>> /\ header = "absent" /\ mode = "closed"
        /\ f = NewFile /\ direct = FALSE /\ clean = TRUE /\ spoilt = -1
        /\ out = Returned("none")

Numbered(g) == \A i \in DOMAIN g.fmc : g.fmc[i] = AppContext[i]

OpenWrite(org) ==
    /\ mode = "closed" /\ header = "absent"
    /\ header' = "magic" /\ mode' = "write" /\ disk' = <<>>
    /\ f' = [NewFile EXCEPT !.org = org]
    /\ direct' \in BOOLEAN
    /\ out' = Returned("none") /\ UNCHANGED <<clean, spoilt>>

(* A file that does not exist is created by the second open of             *)
(* open_FFSfile, write-only: reading its magic number is an error, which   *)
(* the unsigned count does not show as "nothing read", and NULL is         *)
(* returned.  The empty file left behind can be appended to.               *)
AppendAbsent ==
    /\ mode = "closed" /\ header = "absent" /\ "append" \in Uses
    /\ header' = "empty" /\ out' = Returned("failed")
    /\ UNCHANGED <<disk, mode, f, direct, clean, spoilt>>

AppendEmpty(org) ==
    /\ mode = "closed" /\ header = "empty"
    /\ header' = "magic" /\ mode' = "write"
    /\ f' = [NewFile EXCEPT !.org = org]
    /\ direct' \in BOOLEAN
    /\ out' = Returned("none") /\ UNCHANGED <<disk, clean, spoilt>>

HasIndex == \E i \in DOMAIN disk : disk[i].type = "index"

OpenAppend(org) ==
    /\ mode = "closed" /\ header = "magic"
    /\ IF HasIndex THEN "append" \in Uses ELSE "plain" \in Uses
    /\ clean \/ "damaged" \in Uses
    /\ \E g \in {read_all_index_and_formats(disk, [NewFile EXCEPT !.org = org])} :
         IF g.next \in Gone
         THEN /\ out' = Returned(g.next)
              /\ UNCHANGED <<mode, f, direct>>
         ELSE /\ mode' = "write" /\ f' = convert_last_index_block(disk, g)
              /\ direct' \in (IF "mixed" \in Uses \/ Numbered(f')
                              THEN BOOLEAN ELSE {FALSE})
              /\ out' = Returned("none")
    /\ UNCHANGED <<disk, header, clean, spoilt>>

DataIds == {disk[i].id : i \in {j \in DOMAIN disk : disk[j].type = "data"}}

(* The steps of write_FFSfile_attrs and write_encoded_FFSfile: the format  *)
(* with its index item unless info says it is in the file, the data item   *)
(* of the index, the data.                                                 *)
WriteSteps(fmt, id, attr, fails) ==
    LET g0 == IF direct THEN f ELSE Load(f, fmt)
        ix == IndexIn(IF direct THEN AppContext ELSE g0.fmc, fmt)
        s0 == [d |-> disk, g |-> g0, fails |-> fails]
        sf == output_format_index(s0, fmt)
        s1 == IF ix \in g0.info THEN s0
              ELSE LET p == PutRecord(sf, FormatRecord(fmt))
                   IN  [p EXCEPT !.g.info = @ \cup {ix}]
        s2 == output_data_index(s1, fmt, attr)
        s3 == PutRecord(s2, DataRecord(fmt, id, attr))
    IN  [needed |-> ix \notin g0.info, formatItem |-> sf, format |-> s1,
         dataItem |-> s2, data |-> [s3 EXCEPT !.g.count = @ + 1]]

(* Attributes go into the index and nowhere else.                          *)
Attr(fmt, id) == IF fmt \in WithAttrs /\ f.org = "Indexed" THEN id ELSE 0

Becomes(s, ret) == disk' = s.d /\ f' = s.g /\ out' = Returned(ret)

(* One failed write that leaves something behind is followed per behaviour *)
(* (a bound): a fragment, an index item without its record, or a block     *)
(* that was not written.                                                   *)
MayFail == spoilt = -1

(* The write of a cell, begun in state s, fails with part of it in the     *)
(* file or with nothing.                                                   *)
WriteFails(s, cell) ==
    /\ MayFail
    /\ \/ Becomes(PutFragment(s, cell), "failed") /\ spoilt' = s.g.pos
       \/ /\ Becomes(s, "failed")
          /\ spoilt' = IF s.g.cur = f.cur THEN spoilt ELSE s.g.pos

(* The first position where file d lacks what file full holds.             *)
Lacks(d, full) ==
    Min({i \in DOMAIN full : i \notin DOMAIN d \/ d[i] # full[i]}) - 1

write_record(fmt) ==
    LET id == Cardinality(DataIds) + 1
        Steps(fails) == WriteSteps(fmt, id, Attr(fmt, id), fails)
    IN  /\ mode = "write" /\ Len(disk) < MaxCells /\ id <= MaxData
        /\ \E w \in {Steps(FALSE)} :
             \/ Becomes(w.data, "wrote") /\ UNCHANGED spoilt
             \/ w.needed /\ WriteFails(w.formatItem, FormatRecord(fmt))
             \/ WriteFails(w.dataItem, DataRecord(fmt, id, 0))
             \/ \E x \in {Steps(TRUE)} :
                  /\ MayFail /\ x.data.d # w.data.d
                  /\ Becomes(x.data, "wrote")
                  /\ spoilt' = Lacks(x.data.d, w.data.d)
        /\ UNCHANGED <<header, mode, direct, clean>>

write_comment_FFSfile ==
    /\ mode = "write" /\ Len(disk) < MaxCells
    /\ Comment \notin ToSet(disk)
    /\ \E s \in {[d |-> disk, g |-> f, fails |-> FALSE]} :
         \/ Becomes(PutRecord(s, Comment), "wrote") /\ UNCHANGED spoilt
         \/ WriteFails(s, Comment)
    /\ UNCHANGED <<header, mode, direct, clean>>

(* Closing an indexed file to which nothing was written reads a null       *)
(* pointer: the process dies.                                              *)
close_FFSfile ==
    /\ mode \in {"write", "read"}
    /\ mode' = "closed" /\ out' = Returned("none") /\ f' = NewFile
    /\ IF mode = "write" /\ f.org = "Indexed"
       THEN IF f.cur = NoBlock THEN clean' = FALSE /\ UNCHANGED <<disk, spoilt>>
            ELSE /\ \E full \in {dump_index_block([d |-> disk, g |-> f,
                                                  fails |-> FALSE]).d} :
                      \/ disk' = full /\ UNCHANGED spoilt
                      \/ /\ MayFail /\ full # disk
                         /\ UNCHANGED disk /\ spoilt' = Lacks(disk, full)
                 /\ UNCHANGED clean
       ELSE UNCHANGED <<disk, clean, spoilt>>
    /\ direct' = FALSE /\ UNCHANGED header

(* The writer dies between two calls or, if no write of it failed before   *)
(* (the same bound), anywhere inside one.                                  *)
Crash ==
    /\ mode = "write"
    /\ \/ UNCHANGED disk
       \/ \E fmt \in Formats :
            LET id == Cardinality(DataIds) + 1
            IN  /\ Len(disk) < MaxCells /\ MayFail
                /\ \E w \in {WriteSteps(fmt, id, Attr(fmt, id), FALSE)} :
                     \/ disk' = w.formatItem.d
                     \/ disk' = w.format.d
                     \/ disk' = w.dataItem.d
                     \/ disk' = WriteAt(w.dataItem.d, w.dataItem.g.pos,
                                        Torn(DataRecord(fmt, id, 0)))
                     \/ /\ w.needed
                        /\ disk' = WriteAt(w.formatItem.d, w.formatItem.g.pos,
                                           Torn(FormatRecord(fmt)))
       \/ /\ Len(disk) < MaxCells /\ MayFail /\ Comment \notin ToSet(disk)
          /\ disk' = WriteAt(disk, f.pos, Torn(Comment))
    /\ mode' = "closed" /\ clean' = FALSE /\ f' = NewFile /\ direct' = FALSE
    /\ out' = Returned("none") /\ UNCHANGED <<header, spoilt>>

OpenRead(raw, targets) ==
    /\ mode = "closed" /\ header = "magic"
    /\ mode' = "read" /\ f' = [NewFile EXCEPT !.raw = raw, !.targets = targets]
    /\ out' = Returned("none") /\ UNCHANGED <<disk, header, direct, clean, spoilt>>

-----------------------------------------------------------------------------
(* The reading calls.  Finish is the common end: the process is gone when  *)
(* next_record_type met something it cannot read, and never comes back     *)
(* when the loop cannot leave a record that is cut short.                  *)

Reading == mode = "read" /\ Len(f.index) <= MaxBlocks /\ f.blockNo <= MaxCells

(* The record last read (last, which only the properties use) is forgotten *)
(* when a further data record has been passed or looked at.                *)
Forget(g) ==
    IF \E i \in DOMAIN disk :
         /\ i > g.last /\ (i <= g.pos \/ (g.ahead /\ i = g.pos + 1))
         /\ Kind(disk[i]) = "data"
    THEN [g EXCEPT !.last = 0] ELSE g

Finish(g, ret) ==
    /\ IF g.next \in Gone
       THEN out' = Returned(g.next) /\ mode' = "closed" /\ f' = NewFile
       ELSE f' = Forget(ret.g) /\ out' = ret.out /\ UNCHANGED mode
    /\ UNCHANGED <<disk, header, direct, clean, spoilt>>

Nothing(g, type) ==
    [g |-> g, out |-> [Returned("nothing") EXCEPT !.type = type]]

FFSnext_record_type ==
    /\ Reading
    /\ \E g \in {SkipTo(disk, f, f.visible)} :
         Finish(g, [g |-> g, out |-> [Returned("next") EXCEPT !.type = g.next]])

(* FFSnext_type_handle, FFSnext_data_length, FFSfile_next_decode_length    *)
PeekData ==
    /\ Reading
    /\ \E g \in {SkipTo(disk, f, {"data"})} :
         Finish(g, IF g.next = "data"
                   THEN [g |-> g, out |-> [Returned("peek") EXCEPT
                                             !.item = <<disk[g.pos + 1]>>]]
                   ELSE Nothing(g, "data"))

(* The first index block read so far that ends with record number k or a   *)
(* later one, and its data items.  An item outside them is read from       *)
(* outside the array (only where an index block was not written).          *)
BlockOf(g, k) ==
    g.index[CHOOSE i \in DOMAIN g.index :
               /\ k <= g.index[i].last
               /\ \A j \in 1..(i - 1) : k > g.index[j].last]
DataElements(g, k) == SelectSeq(BlockOf(g, k).elems, LAMBDA e : e.type = "data")
ItemNumber(g, k)   == k - BlockOf(g, k).start + 1
Outside == [fpos |-> -1, attr |-> -1]
DataElement(g, k) ==
    IF ItemNumber(g, k) \in DOMAIN DataElements(g, k)
    THEN DataElements(g, k)[ItemNumber(g, k)] ELSE Outside

(* Mutant: the record before.                                              *)
FFSread_data_attr_Before(g, k) ==
    IF k < 1 \/ g.index = <<>> THEN 0
    ELSE IF Last(g.index).last < k THEN 0
    ELSE DataElement(g, k - 1).attr

FFSread_data_attr(g, k) ==
    IF k < 0 \/ g.index = <<>> THEN 0
    ELSE IF Last(g.index).last < k THEN 0
    ELSE DataElement(g, k).attr

(* The record a call has found, read to its end.                           *)
Taken(g, type) == IF g.next = type THEN ReadBody(disk, g) ELSE g
IsWhole(g, type) ==
    g.next = type /\ g.pos < Len(disk) /\ disk[g.pos + 1].type = type

(* FFSread, FFSread_raw, FFSread_raw_header, FFSread_to_buffer and, with   *)
(* the attributes, FFSread_attr.                                           *)
FFSread ==
    /\ Reading
    /\ \E g \in {SkipTo(disk, f, {"data"})} : \E h \in {Taken(g, "data")} :
         Finish(h, IF IsWhole(g, "data")
                   THEN [g |-> [h EXCEPT !.last = g.pos + 1],
                         out |-> [Returned("data") EXCEPT
                            !.item = <<disk[g.pos + 1]>>,
                            !.attr = FFSread_data_attr(h, h.blockNo - 1)]]
                   ELSE Nothing(h, "data"))

(* Looks the attributes up by the number of data records looked at so far, *)
(* a look-ahead at the next one included.  It is called after a read or a  *)
(* look-ahead, a bound: it changes nothing.                                *)
FFSattrs_from_last_read ==
    /\ Reading /\ out.op \in {"data", "next", "peek"}
    /\ out' = [Returned("attrs") EXCEPT !.attr = FFSread_data_attr(f, f.blockNo - 1)]
    /\ UNCHANGED <<disk, header, mode, f, direct, clean, spoilt>>

FFSread_comment ==
    /\ Reading
    /\ \E g \in {SkipTo(disk, f, {"comment"})} : \E h \in {Taken(g, "comment")} :
         Finish(h, IF IsWhole(g, "comment")
                   THEN [g |-> h, out |-> [Returned("comment") EXCEPT
                                             !.item = <<disk[g.pos + 1]>>]]
                   ELSE Nothing(h, "comment"))

(* FFSread_format stops at an index block, which it does not read.         *)
FFSread_format ==
    /\ Reading
    /\ \E g \in {SkipTo(disk, f, {"format", "index"})} :
         \E h \in {Taken(g, "format")} :
           Finish(h, IF IsWhole(g, "format")
                     THEN [g |-> h, out |-> [Returned("format") EXCEPT
                                               !.item = <<disk[g.pos + 1]>>]]
                     ELSE Nothing(h, "format"))

ReadIndex ==
    /\ Reading
    /\ \E g \in {SkipTo(disk, f, {"index"})} :
         Finish(g, IF g.next = "index"
                   THEN [g |-> TakeIndex(disk, g), out |-> Returned("index")]
                   ELSE Nothing(g, "index"))

(* FFSset_fpos as a reader reaches it: only an appender's file_org is      *)
(* Indexed.                                                                *)
FFSset_fpos(g, fpos) == [g EXCEPT !.pos = fpos, !.ahead = FALSE]

FFSseek(k) ==
    LET more(w, g) == [g |-> g, more |-> Len(g.index) > Len(w.g.index)]
        Step(w) ==
          LET tail == Last(w.g.index)
          IN  IF k <= tail.last \/ ~w.more THEN w
              ELSE more(w, FFSread_index(disk, [w.g EXCEPT !.pos = tail.link,
                                                           !.ahead = FALSE]))
        search(g) == IF g.index = <<>> THEN g
                     ELSE Repeat(Step, [g |-> g, more |-> TRUE], Len(disk) + 1).g
        found(g) == g.index # <<>> /\ Last(g.index).last >= k
        goTo(g, item) ==
          IF item = Outside THEN Finish([g EXCEPT !.next = "astray"], g)
          ELSE Finish(g,
                      [g |-> [FFSset_fpos(g, item.fpos) EXCEPT
                                !.blockNo = 0, !.last = 0, !.sought = (k > 0)],
                       out |-> [Returned("seek") EXCEPT !.n = k]])
    IN  /\ Reading
        /\ \E g \in {search(IF f.index = <<>> THEN FFSread_index(disk, f) ELSE f)} :
             IF found(g) THEN goTo(g, DataElement(g, k))
             ELSE Finish(g, [g |-> g, out |-> Returned("noseek")])

(* Programs choose what they want to see before they read.                 *)
FFSset_visible(types) ==
    /\ mode = "read" /\ out.op = "none" /\ types # f.visible
    /\ f' = [f EXCEPT !.visible = types]
    /\ UNCHANGED <<disk, header, mode, direct, clean, spoilt, out>>

Write == \/ \E fmt \in Formats : write_record(fmt)
         \/ write_comment_FFSfile \/ Crash

Open == \/ \E org \in {"Simple", "Indexed"} :
              OpenWrite(org) \/ AppendEmpty(org) \/ OpenAppend(org)
        \/ AppendAbsent

ReadCalls == \/ FFSnext_record_type \/ PeekData \/ FFSread \/ FFSread_comment
             \/ FFSread_format \/ ReadIndex \/ FFSattrs_from_last_read
             \/ \E k \in 0..(MaxData - 1) : FFSseek(k)

Read == \/ \E targets \in Targets : OpenRead(targets = {}, targets)
        \/ ReadCalls
        \/ FFSset_visible({"data", "index"})

Next == Open \/ Write \/ Read \/ close_FFSfile

Spec == Init /\ [][Next]_vars

-----------------------------------------------------------------------------
CellTypes == RecordTypes \cup {"hole", "torn", "index"}

(* The type invariant: the cells of the file, the modes, and a struct      *)
(* _FFSFile whose positions lie in the file or one reserved block past it. *)
TypeOK ==
    /\ \A i \in DOMAIN disk : disk[i].type \in CellTypes
    /\ header \in {"absent", "empty", "magic"}
    /\ mode \in {"closed", "write", "read"}
    /\ f.org \in {"Simple", "Indexed"}
    /\ f.pos \in 0..(Len(disk) + 1) /\ f.fpos \in 0..(Len(disk) + 1)
    /\ f.ahead \in BOOLEAN /\ f.count \in 0..MaxData
    /\ f.fmc \in Seq(Formats) /\ f.info \subseteq 1..Cardinality(Formats)
    /\ f.blockNo \in Nat /\ f.last \in 0..Len(disk)
    /\ direct \in BOOLEAN /\ clean \in BOOLEAN /\ spoilt \in -1..Len(disk)

(* The abstract promise, with the records of the file as the stream and    *)
(* those before the position as the ones passed.                           *)
IsRecord(cell) == cell.type \in RecordTypes
RecordsBefore(p) == Cardinality({i \in DOMAIN disk : i <= p /\ IsRecord(disk[i])})

Stream == INSTANCE RecordStream WITH
    stream <- SelectSeq(disk, IsRecord),
    cursor <- IF mode = "read" THEN RecordsBefore(f.pos) ELSE 0,
    want   <- IF mode # "read" THEN {} ELSE IF f.raw THEN Formats ELSE f.targets,
    shown  <- IF mode = "read" THEN f.visible ELSE {},
    sound  <- clean /\ spoilt < 0,
    kept   <- IF spoilt < 0 THEN -1 ELSE RecordsBefore(spoilt)

(* Files keep the promise of RecordStream: no write, index update, append, *)
(* failed write or crash loses or changes a record already in the file; a  *)
(* data record never comes without its format; whatever mix of reading     *)
(* calls and seeks a program makes, each call reports exactly the next     *)
(* record it should; and only on a file that was not closed, or to which a *)
(* write failed, does a reading call end the process or not come back.     *)
(* Records written after a failed write that left a fragment or an index   *)
(* item behind, or after the place of an index block whose write failed,   *)
(* are not covered: there the code promises nothing.                       *)
KeepsRecords == Stream!Spec

(* The index of a file that was closed covers every record, if no write    *)
(* failed: each block links to the next one or to the end of the file, its *)
(* data items are the records number start to last, in order, at their     *)
(* positions, and its format items are at the position of that format      *)
(* (dump_index_block, prepare_index_item and convert_last_index_block      *)
(* across block changes and appends).                                      *)
Blocks == {p \in 0..(Len(disk) - 1) : disk[p + 1].type = "index"}
DataItems(b) == SelectSeq(b.items, LAMBDA e : e.type = "data")
IndexExact ==
    clean /\ spoilt < 0 /\ mode # "write" /\ HasIndex =>
      /\ \A p \in Blocks :
           LET b == disk[p + 1]
               items == DataItems(b)
           IN  /\ b.link \in Blocks \cup {Len(disk)} /\ b.link > p
               /\ \A q \in Blocks : q > p => b.link <= q
               /\ Len(items) = b.last - b.start + 1
               /\ \A j \in DOMAIN items :
                    /\ disk[items[j].fpos + 1].type = "data"
                    /\ disk[items[j].fpos + 1].id = b.start + j
               /\ \A e \in ToSet(b.items) : e.type = "format" =>
                    disk[e.fpos + 1] = FormatRecord(e.fmt)
      /\ \A k \in DataIds : \E p \in Blocks :
           disk[p + 1].start < k /\ k <= disk[p + 1].last + 1

(* FFSread_attr, and FFSattrs_from_last_read as long as no call has passed *)
(* or looked at a further data record, give the attributes the record read *)
(* was written with: the count of data records looked at (data_block_no)   *)
(* stays in step with the index blocks read.  For a reader that takes      *)
(* every data record, reads from the start or after a seek to record 0,    *)
(* and is not behind a failed write: the count does not include records    *)
(* without a target, FFSseek sets it to 0 whatever it sought, and a failed *)
(* write leaves an index item too many.                                    *)
TakesAll == f.raw \/ f.targets = Formats
AttrsInStep ==
    out.op \in {"data", "attrs"} /\ f.last > 0 /\ TakesAll
    /\ ~f.sought /\ (spoilt < 0 \/ f.last <= spoilt)
    => out.attr = disk[f.last].attr

(* A file every writer closed can be read to its end: reading never meets  *)
(* bytes that are no record, which end the process (CORRUPT FFSFILE).      *)
ClosedIsReadable == clean => out.op \notin {"corrupt", "crash"}

(* As AttrsInStep, whatever records the reader seeks to.                   *)
AttrsOfRecordRead == out.op = "data" /\ TakesAll => out.attr = out.item[1].attr

(* A reading call or an opening for append loops for ever only on a file   *)
(* that ends inside a comment or a format, whose short read FFSread_comment *)
(* and FFSread_format report but leave under the look-ahead, or to which a *)
(* write failed; never because data, an index block or its place is cut    *)
(* off, wherever the writer died.                                          *)
EndsInCommentOrFormat ==
    disk # <<>> /\ Last(disk).type = "torn" /\ Last(disk).of # "data"
CallsReturn == out.op = "hang" => EndsInCommentOrFormat \/ spoilt >= 0
=============================================================================
