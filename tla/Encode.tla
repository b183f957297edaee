-------------------------------- MODULE Encode --------------------------------
(***************************************************************************)
(* Encoding of a record and of everything it points to (ffs/ffs.c):        *)
(* FFSencode, which copies all the data into the buffer, FFSencode_vector, *)
(* which leaves flat data where it is and lists it in an iovec, and        *)
(* FFSencode_no_leaf_copy, which leaves room for flat data.                *)
(*                                                                         *)
(* Memory is a function from addresses to blocks; a block is [len, at]: at *)
(* gives the value at each offset a field or an element starts at (an      *)
(* integer, an address, 0 for NULL), and a string is a block whose len is  *)
(* strlen + 1.  The temporary buffer is kept the same way, as a function   *)
(* from offsets to values.  The recursion of handle_subfield is a stack of *)
(* the calls still to be made, and a step makes one of them.               *)
(*                                                                         *)
(* The buffer grows (create_FFSBuffer); customised marshalling (dropped    *)
(* fields, subsampled arrays) is left out.                                 *)
(***************************************************************************)
EXTENDS FormatDefs, TLC

CONSTANTS StructLists,     \* the structure lists that are registered, a sequence
          Heaps(_),        \* Heaps(l): the memories a record of list l may have
          IdLength         \* length of a format ID

ASSUME IdLengthAssumption == IdLength \in Nat

VARIABLES formats, \* the registered format of the record, then its subformats
          mem,     \* the program's memory; the record is at address Root
          mode,    \* "copy", "vector" or "noleaf": which routine was called
          pc,      \* "start", "fields", "done", "sent" once it has been passed on
          s,       \* estate and the FFSBuffer: tmp, in_use, iovec, output_len,
                   \*   addr_list
          calls    \* the calls of handle_subfield still to be made

vars == <<formats, mem, mode, pc, s, calls>>

Root == 1
TMP == 0         \* iov_base = NULL: the data is at iov_offset of the buffer
ZEROES == -1     \* iov_base = zeroes: padding

\* The format with a name.
FormatOf(fs, n) == fs[CHOOSE i \in 1 .. Len(fs) : fs[i].name = n]

F(n) == FormatOf(formats, n)

Top == formats[1]

Pad(align, len) == (-len) % align

-----------------------------------------------------------------------------
(* The output: the temporary buffer and the vector of its pieces.          *)

HeaderSize(f) == LET h == IdLength + IF f.variant THEN 8 ELSE 0 IN h + Pad(8, h)

setup_header(f) ==
    [tmp |-> << >>, in_use |-> HeaderSize(f), output_len |-> HeaderSize(f),
     iovec |-> <<[base |-> TMP, off |-> 0, len |-> HeaderSize(f)]>>,
     addr_list |-> << >>]

\* Room for length bytes in the buffer, aligned in the message: [s, off, loc],
\* the offset in the message and the place in the buffer.  Padding after a piece
\* of the buffer is counted to that piece, else it is a piece of zeroes.
allocate_tmp_space(e, length, align) ==
    LET pad == Pad(align, e.output_len)
        last == Len(e.iovec)
        joins == e.iovec[last].base = TMP
    IN  [s |-> [e EXCEPT !.in_use = @ + length + pad,
                         !.output_len = @ + length + pad,
                         !.iovec = IF pad = 0 THEN @
                                   ELSE IF joins THEN [@ EXCEPT ![last].len = @ + pad]
                                   ELSE Append(@, [base |-> ZEROES, off |-> 0, len |-> pad])],
         off |-> e.output_len + pad,
         loc |-> e.in_use + IF joins THEN pad ELSE 0]

reserve_space_for_data_in_tmp(e, length, align) ==
    LET r == allocate_tmp_space(e, length, align)
    IN  IF length = 0 THEN r
        ELSE [r EXCEPT !.s.iovec = Append(@, [base |-> TMP, off |-> r.loc, len |-> length])]

\* memcpy of the first length bytes of a block to a place in the buffer.
Copied(tmp, loc, block, length) ==
    [o \in {loc + d : d \in {b \in DOMAIN block.at : b < length}} |-> block.at[o - loc]]
        @@ tmp

copy_data_to_tmp(e, block, length, align) ==
    LET r == reserve_space_for_data_in_tmp(e, length, align)
    IN  [r EXCEPT !.s.tmp = Copied(@, r.loc, block, length)]

\* A mutant: the padding is counted and has no piece in the vector.
add_data_iovec_NoPad(e, addr, length, align) ==
    LET pad == Pad(align, e.output_len)
    IN  [s |-> [e EXCEPT !.iovec = Append(@, [base |-> addr, off |-> 0, len |-> length]),
                         !.output_len = @ + pad + length],
         off |-> e.output_len + pad, loc |-> 0]

\* Data left where it is.
add_data_iovec(e, addr, length, align) ==
    LET pad == Pad(align, e.output_len)
        padded == IF pad = 0 THEN e.iovec
                  ELSE Append(e.iovec, [base |-> ZEROES, off |-> 0, len |-> pad])
    IN  [s |-> [e EXCEPT !.iovec = Append(padded, [base |-> addr, off |-> 0, len |-> length]),
                         !.output_len = @ + pad + length],
         off |-> e.output_len + pad, loc |-> 0]

\* quick_put_ulong into the buffer.
Put(e, loc, v) == [e EXCEPT !.tmp = (loc :> v) @@ @]

add_to_addr_list(e, addr, off) == [e EXCEPT !.addr_list = Append(@, <<addr, off>>)]

\* The last entry for the address, or -1.
search_addr_list(e, addr) ==
    LET hits == {i \in 1 .. Len(e.addr_list) : e.addr_list[i][1] = addr}
    IN  IF hits = {} THEN -1 ELSE e.addr_list[Max(hits)][2]

-----------------------------------------------------------------------------
(* The fields.  A call is [f, fld, desc, at, parent]: the part desc of the *)
(* type of field fld of format f, at offset at of the buffer, in the       *)
(* record at offset parent.                                                *)

field_is_flat(fld, desc) ==
    LET k == ElementDesc(desc)[1]
    IN  k = "simple" \/ (k = "sub" /\ ~F(fld.sub).variant)

\* The calls handle_subfields makes for a record at offset at.
handle_subfields(f, at) ==
    LET deep == IF f.variant
                THEN SelectSeq(f.fields, LAMBDA fld : ~field_is_flat(fld, fld.desc))
                ELSE << >>
    IN  [i \in 1 .. Len(deep) |->
            [f |-> f.name, fld |-> deep[i], desc |-> deep[i].desc,
             at |-> at + deep[i].offset, parent |-> at]]

\* The bound of the field's array: static, or the control field of the record.
Elements(c) ==
    IF c.fld.static # 0 THEN c.fld.static
    ELSE LET fs == F(c.f).fields
             ctl == CHOOSE i \in 1 .. Len(fs) : fs[i].name = c.fld.control
         IN  s.tmp[c.parent + fs[ctl].offset]

ItemSize(fs, fld, k) ==
    CASE k \in {"pointer", "string"} -> PointerSize
      [] k = "sub" -> FormatOf(fs, fld.sub).record_length
      [] k = "simple" -> fld.size

determine_size(c, desc) ==
    IF desc[1] = "array" THEN Elements(c) * ItemSize(formats, c.fld, desc[2])
    ELSE ItemSize(formats, c.fld, desc[1])

-----------------------------------------------------------------------------
(* The steps.                                                              *)

EncodeInit ==
    /\ \E l \in 1 .. Len(StructLists) :
          formats = Formats(StructLists[l]) /\ mem \in Heaps(l)
    /\ mode \in {"copy", "vector", "noleaf"}
    /\ mode = "noleaf" =>      \* what the routine is for: pointers to flat data only
          \A f \in Range(formats) : \A fld \in Range(f.fields) :
             Contains(fld.desc, "pointer") => field_is_flat(fld, Tail(fld.desc))
    /\ pc = "start"
    /\ s = setup_header(Top)
    /\ calls = << >>

\* The header is in place; the record is copied (a vector leaves a flat one where
\* it is) and, if its format is recursive, entered in the address list; the
\* fields that hold addresses come after it, aligned.
EncodeBase ==
    /\ pc = "start"
    /\ LET base == IF Top.variant \/ mode # "vector"
                   THEN copy_data_to_tmp(s, mem[Root], Top.record_length, 1)
                   ELSE add_data_iovec(s, Root, Top.record_length, 1)
           listed == IF Top.recursive THEN add_to_addr_list(base.s, Root, base.off)
                     ELSE base.s
           aligned == allocate_tmp_space(listed, 0, 8).s
       IN  IF Top.variant
           THEN /\ s' = aligned
                /\ calls' = handle_subfields(Top, base.off)
                /\ pc' = "fields"
           ELSE /\ s' = base.s
                /\ pc' = "done"
                /\ UNCHANGED calls
    /\ UNCHANGED <<formats, mem, mode>>

\* The next call, of the given kind.
Call(c, k) ==
    /\ pc = "fields"
    /\ calls # << >>
    /\ c = Head(calls)
    /\ c.desc[1] = k
    /\ UNCHANGED <<formats, mem, mode, pc>>

\* A call that makes no other calls.
Return(e) == s' = e /\ calls' = Tail(calls)

\* A mutant: the list of addresses is not looked at.
Seen_Never(c) == FALSE

\* Whether the block a pointer call points to has been encoded before.
Seen(c) == F(c.f).recursive /\ search_addr_list(s, s.tmp[c.at]) # -1

\* A pointer that needs no new block: NULL, one whose block has been encoded
\* before, or one to an empty array, which becomes NULL.
PointerDone ==
    LET c == Head(calls)  p == s.tmp[c.at]
    IN  /\ Call(c, "pointer")
        /\ \/ p = 0 /\ Return(s)
           \/ p # 0 /\ Seen(c) /\ Return(Put(s, c.at, search_addr_list(s, p)))
           \/ /\ p # 0 /\ ~Seen(c) /\ determine_size(c, Tail(c.desc)) = 0
              /\ Return(Put(s, c.at, 0))

\* Mutants: offsets are counted from the start of the message; blocks are not
\* aligned.
AddBlock_Absolute(c, flat) ==
    LET p == s.tmp[c.at]
        r == copy_data_to_tmp(s, mem[p], determine_size(c, Tail(c.desc)), 8)
        e == Put(r.s, c.at, r.off)
    IN  [s |-> IF F(c.f).recursive THEN add_to_addr_list(e, p, r.off) ELSE e, loc |-> r.loc]

AddBlock_Unaligned(c, flat) ==
    LET p == s.tmp[c.at]
        r == copy_data_to_tmp(s, mem[p], determine_size(c, Tail(c.desc)), 1)
        rel == r.off - HeaderSize(Top)
        e == Put(r.s, c.at, rel)
    IN  [s |-> IF F(c.f).recursive THEN add_to_addr_list(e, p, rel) ELSE e, loc |-> r.loc]

\* The state after the block of a pointer has been added to the message, and the
\* block's place in the buffer.
AddBlock(c, flat) ==
    LET p == s.tmp[c.at]
        size == determine_size(c, Tail(c.desc))
        r == IF mode = "vector" /\ flat THEN add_data_iovec(s, p, size, 8)
             ELSE IF mode = "noleaf" THEN reserve_space_for_data_in_tmp(s, size, 8)
             ELSE copy_data_to_tmp(s, mem[p], size, 8)
        rel == r.off - HeaderSize(Top)
        e == Put(r.s, c.at, rel)
    IN  [s |-> IF F(c.f).recursive THEN add_to_addr_list(e, p, rel) ELSE e,
         loc |-> r.loc]

\* A pointer to a block that is new: the block is added, the pointer becomes its
\* offset after the header, and what the block points to comes next.
PointerNew ==
    LET c == Head(calls)
        flat == field_is_flat(c.fld, Tail(c.desc))
        r == AddBlock(c, flat)
    IN  /\ Call(c, "pointer")
        /\ s.tmp[c.at] # 0 /\ ~Seen(c) /\ determine_size(c, Tail(c.desc)) # 0
        /\ s' = r.s
        /\ calls' = IF flat THEN Tail(calls)
                    ELSE <<[c EXCEPT !.desc = Tail(@), !.at = r.loc]>> \o Tail(calls)

StringField ==
    LET c == Head(calls)  p == s.tmp[c.at]
        r == IF mode = "vector" THEN add_data_iovec(s, p, mem[p].len, 1)
             ELSE copy_data_to_tmp(s, mem[p], mem[p].len, 1)
    IN  /\ Call(c, "string")
        /\ IF p = 0 THEN Return(s)
           ELSE Return(Put(r.s, c.at, r.off - HeaderSize(Top)))

ArrayField ==
    LET c == Head(calls)  size == ItemSize(formats, c.fld, c.desc[2])
    IN  /\ Call(c, "array")
        /\ calls' = (IF field_is_flat(c.fld, c.desc) THEN << >>
                     ELSE [i \in 1 .. Elements(c) |->
                              [c EXCEPT !.desc = Tail(@), !.at = @ + (i - 1) * size]])
                    \o Tail(calls)
        /\ UNCHANGED s

SubformatField ==
    LET c == Head(calls)
    IN  /\ Call(c, "sub")
        /\ calls' = handle_subfields(F(c.fld.sub), c.at) \o Tail(calls)
        /\ UNCHANGED s

\* All the data is in the message; its length is put in the header.
EncodeEnd ==
    /\ pc = "fields" /\ calls = << >>
    /\ s' = Put(s, IdLength, s.output_len - HeaderSize(Top))
    /\ pc' = "done"
    /\ UNCHANGED <<formats, mem, mode, calls>>

EncodeNext == \/ EncodeBase \/ PointerDone \/ PointerNew \/ StringField
              \/ ArrayField \/ SubformatField \/ EncodeEnd

-----------------------------------------------------------------------------
(* What the message must say.  A slot of a record is a value in it that is *)
(* neither a record nor an array: [path, at, desc, fld, f, base], path the *)
(* names and indices that lead to it, at its offset, and base the offset   *)
(* of the record of format f that it is a field of.                        *)

RECURSIVE Slots(_, _, _, _, _, _, _), RecordSlots(_, _, _, _)
Slots(fs, f, fld, desc, at, base, path) ==
    CASE desc[1] = "array" ->
            UNION {Slots(fs, f, fld, Tail(desc), at + i * ItemSize(fs, fld, desc[2]),
                         base, Append(path, i)) : i \in 0 .. fld.static - 1}
      [] desc[1] = "sub" -> RecordSlots(fs, fld.sub, at, path)
      [] OTHER -> {[path |-> path, at |-> at, desc |-> desc, fld |-> fld,
                    f |-> f, base |-> base]}
RecordSlots(fs, f, at, path) ==
    UNION {Slots(fs, f, g, g.desc, at + g.offset, at, Append(path, g.name)) :
                g \in Range(FormatOf(fs, f).fields)}

\* Where each piece of the vector starts in the message.
Start(i) == FoldLeft(LAMBDA k, v : k + v.len, 0, SubSeq(s.iovec, 1, i - 1))

\* The bytes of the vector put together: what a reader of the message finds, by
\* offset after the header.
Message ==
    LET piece(i) ==
            LET v == s.iovec[i]
                to == Start(i) - HeaderSize(Top) - v.off
                src == IF v.base = TMP THEN s.tmp
                       ELSE IF v.base = ZEROES THEN << >> ELSE mem[v.base].at
            IN  [o \in {x + to : x \in {y \in DOMAIN src : v.off <= y /\ y < v.off + v.len}} |->
                    src[o - to]]
    IN  FoldLeft(LAMBDA m, i : piece(i) @@ m, << >>, [i \in 1 .. Len(s.iovec) |-> i])

(***************************************************************************)
(* The structure memory holds is followed in step in a view: a function    *)
(* from places, <<"base", offset>> in the record and <<"var", offset>> in  *)
(* what it points to, to values; an address in a view is an offset in      *)
(* "var".  fs are the formats the view is laid out by.  A block is [a, to, *)
(* len, rec, slots]: its address in memory, its place in the view and the  *)
(* slots of the view; rec: a pointer of a recursive format leads to it.    *)
(***************************************************************************)
RootBlock(fs) ==
    [a |-> Root, to |-> <<"base", 0>>, len |-> fs[1].record_length, rec |-> FALSE,
     slots |-> RecordSlots(fs, fs[1].name, 0, << >>),
     own |-> RecordSlots(formats, Top.name, 0, << >>)]

\* The slot of memory that a slot of the view stands for, and the two values.
Own(b, sl) == CHOOSE o \in b.own : o.path = sl.path

Held(b, sl) == mem[b.a].at[Own(b, sl).at]

Place(b, sl) == <<b.to[1], b.to[2] + sl.at>>

\* The number of elements a pointer slot leads to.
Bound(b, sl) ==
    LET own == Own(b, sl)
        ctl == CHOOSE g \in Range(F(own.f).fields) : g.name = own.fld.control
    IN  IF ~Contains(sl.desc, "array") THEN 1
        ELSE IF sl.fld.static # 0 THEN sl.fld.static
        ELSE mem[b.a].at[own.base + ctl.offset]

\* The pointers that lead to a block.
Followed(b) ==
    {sl \in b.slots : sl.desc[1] = "pointer" /\ Held(b, sl) # 0 /\ Bound(b, sl) # 0}

Target(b, sl, view, fs) ==
    LET d == ElementDesc(Tail(sl.desc))
        n == Bound(b, sl)
        slots(gs, f, fld) ==
            UNION {Slots(gs, f, fld, d, i * ItemSize(gs, fld, d[1]), 0, <<i>>) : i \in 0 .. n - 1}
    IN  [a |-> Held(b, sl), to |-> <<"var", view[Place(b, sl)]>>,
         len |-> n * ItemSize(fs, sl.fld, d[1]), rec |-> F(sl.f).recursive,
         slots |-> slots(fs, sl.f, sl.fld), own |-> slots(formats, sl.f, Own(b, sl).fld)]

\* All the blocks that can be reached, each with every place it is found at.
Reached(view, fs) ==
    LET next(B) ==
            B \union {Target(t[1], t[2], view, fs) :
                          t \in {u \in UNION {{b} \X Followed(b) : b \in B} :
                                     Place(u[1], u[2]) \in DOMAIN view}}
        R[k \in 0 .. 2 * Cardinality(DOMAIN mem)] ==
            IF k = 0 THEN {RootBlock(fs)} ELSE next(R[k - 1])
    IN  R[2 * Cardinality(DOMAIN mem)]

\* A block says in the view what it says in memory.
Agrees(b, view) ==
    \A sl \in b.slots :
        /\ Place(b, sl) \in DOMAIN view
        /\ LET v == view[Place(b, sl)]
           IN  CASE sl.desc[1] = "simple" -> v = Held(b, sl)
                 [] sl.desc[1] = "string" ->
                       IF Held(b, sl) = 0 THEN v = 0
                       ELSE /\ <<"var", v>> \in DOMAIN view
                            /\ view[<<"var", v>>] = mem[Held(b, sl)].at[0]
                 [] OTHER -> v = 0 <=> sl \notin Followed(b)

\* The message as a view: the record and what it points to are at their offsets.
Sent == LET m == Message
        IN  [p \in {"base", "var"} \X DOMAIN m |-> m[p[2]]]

\* Memory holds a pointer, in a format known to be recursive, to the record itself.
PointsToRoot(B) == \E b \in B : b.rec /\ b.a = Root

Apart(b, c) == b.to[2] + b.len <= c.to[2] \/ c.to[2] + c.len <= b.to[2]

\* At every step the pieces of the vector add up to the length of the message, no
\* piece reaches past the buffer, and where everything is copied each piece is at
\* its own offset in the buffer, which is then the message.
PiecesFit ==
    /\ Start(Len(s.iovec) + 1) = s.output_len
    /\ \A i \in 1 .. Len(s.iovec) :
          /\ s.iovec[i].base = TMP => s.iovec[i].off + s.iovec[i].len <= s.in_use
          /\ mode # "vector" => s.iovec[i].base = TMP /\ s.iovec[i].off = Start(i)

\* A finished message says what memory says: following the same pointers from the
\* record leads to the same values, wherever the format and its data lead, shared
\* and cyclic structures included; data that FFSencode_no_leaf_copy left out is up
\* to the caller.  A record that is pointed back to is excluded, see RootKept.
SameData ==
    pc = "done" =>
        LET B == Reached(Sent, formats)
        IN  PointsToRoot(B) \/ \A b \in B : (mode = "noleaf" /\ b.a # Root) \/ Agrees(b, Sent)

\* In a finished message a block that pointers of recursive formats share is there
\* once, different blocks do not overlap, every block is inside the message and
\* starts at a multiple of 8.
BlocksApart ==
    pc = "done" =>
        LET B == Reached(Sent, formats)
        IN  PointsToRoot(B) \/
            \A b, c \in B :
                /\ b.a = c.a /\ b.rec /\ c.rec => b.to = c.to
                /\ b.to[2] # c.to[2] => Apart(b, c)
                /\ b.to[2] % 8 = 0
                /\ HeaderSize(Top) + b.to[2] + b.len <= s.output_len

\* No block is entered twice in the list of addresses: a block of a recursive
\* format is encoded once, so that encoding cyclic data comes to an end.
OnceEach ==
    \A i, j \in 1 .. Len(s.addr_list) : i # j => s.addr_list[i][1] # s.addr_list[j][1]

\* "pointers which originally targeted the same block will still point to the same
\* block" (doc/manual_body.tex:391): a pointer back to the record itself too.
RootKept ==
    pc = "done" =>
        \A b \in Reached(Sent, formats) : b.rec /\ b.a = Root => b.to[2] = 0

=============================================================================
