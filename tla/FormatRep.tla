------------------------------ MODULE FormatRep ------------------------------
(***************************************************************************)
(* The wire representation of a registered format (fm/fm_formats.c):       *)
(* build_server_format_rep lays out the format and its subformats in the   *)
(* byte order of the registering machine, expand_format_from_rep reads     *)
(* them back on any machine, and add_format_to_iofile works out again what *)
(* is not in the representation.                                           *)
(*                                                                         *)
(* A representation is what its bytes say: integers with the byte order    *)
(* they were written in, and texts, option entries and blocks at their     *)
(* byte offsets.  Lengths are held in two 16-bit halves.  A read in the    *)
(* wrong byte order, or at an offset where nothing starts, gives Garbage.  *)
(* Version 2 only, the one that is written.                                *)
(***************************************************************************)
EXTENDS FormatDefs, TLC

CONSTANTS TextLen(_),   \* strlen of a name
          TypeLen(_),   \* strlen of a field's type
          OptInfo(_)    \* the options of the format with a name, a sequence of
                        \* [info_type, info_len, block]

Half == 65536
Low(n) == n % Half
High(n) == (n \div Half) % Half
Garbage == -1

FormatHeader == 8
SubHeader == 28
FieldEntry == 16
InfoEntry == 12

Round4(n) == ((n + 3) \div 4) * 4

-----------------------------------------------------------------------------
(* What a registration adds to a format before it is laid out.             *)

\* The alignment of a field: of an address, of the subformat, or by its size.
type_alignment(fld, al) ==
    LET k == ElementDesc(fld.desc)[1]
    IN  CASE k \in {"pointer", "string"} -> PointerSize
          [] k = "sub" -> al[fld.sub]
          [] OTHER -> IF fld.size = 1 THEN 1 ELSE IF fld.size < 4 THEN 2
                      ELSE IF fld.size < 8 THEN 4 ELSE 8

\* From the last subformat, which uses none of those before it, to the first.
set_alignment(fs) ==
    FoldRight(LAMBDA f, al :
                [al EXCEPT ![f.name] = Max({0} \union {type_alignment(f.fields[i], al) :
                                                            i \in 1 .. Len(f.fields)})],
              fs, [n \in Names(fs) |-> 0])

Completed(fs, al) ==
    [i \in 1 .. Len(fs) |->
        [name |-> fs[i].name, fields |-> fs[i].fields,
         record_length |-> fs[i].record_length, variant |-> fs[i].variant,
         recursive |-> fs[i].recursive, alignment |-> al[fs[i].name],
         opt_info |-> OptInfo(fs[i].name)]]

Registered(structs) ==
    LET complete(fs) == Completed(fs, set_alignment(fs))
    IN  complete(Formats(structs))

-----------------------------------------------------------------------------
(* Building.                                                               *)

Int4(v, order) == [v |-> v, order |-> order]

\* Where each of a sequence of lengths starts, and behind the last.
Starts(lens, from) ==
    [k \in 1 .. Len(lens) + 1 |-> FoldLeft(LAMBDA a, b : a + b, from, SubSeq(lens, 1, k - 1))]

TypeText(fld) == [desc |-> fld.desc, static |-> fld.static, control |-> fld.control, sub |-> fld.sub]

\* The bytes of one format: header, field entries, texts, option entries, blocks.
add_server_subformat_rep(f, order) ==
    LET n == Len(f.fields)
        texts == <<[v |-> f.name, len |-> TextLen(f.name)]>> \o
                 FlattenSeq([i \in 1 .. n |->
                    <<[v |-> f.fields[i].name, len |-> TextLen(f.fields[i].name)],
                      [v |-> TypeText(f.fields[i]), len |-> TypeLen(f.fields[i])]>>])
        text == Starts([k \in 1 .. Len(texts) |-> texts[k].len + 1], SubHeader + n * FieldEntry)
        info == Round4(text[Len(texts) + 1])
        opts == f.opt_info
        block == Starts([k \in 1 .. Len(opts) |-> Round4(opts[k].info_len)],
                        info + (Len(opts) + 1) * InfoEntry)
        size == block[Len(opts) + 1]
        at(place, seq, v(_)) ==
            [o \in {place[k] : k \in 1 .. Len(seq)} |->
                v(CHOOSE k \in 1 .. Len(seq) : place[k] = o)]
    IN  [subformat_rep_length |-> Low(size), top_length |-> High(size),
         record_byte_order |-> order, alignment |-> f.alignment,
         name_offset |-> Int4(text[1], order), field_count |-> Int4(n, order),
         record_length |-> Int4(f.record_length, order),
         opt_info_offset |-> Int4(Low(info), order), top_info |-> Int4(High(info), order),
         fields |-> [i \in 1 .. n |->
                        [field_size |-> Int4(f.fields[i].size, order),
                         field_offset |-> Int4(f.fields[i].offset, order),
                         field_name_offset |-> Int4(text[2 * i], order),
                         field_type_offset |-> Int4(text[2 * i + 1], order)]],
         text |-> at(text, texts, LAMBDA k : texts[k].v),
         info |-> [o \in {info + k * InfoEntry : k \in 0 .. Len(opts)} |->
                     LET k == (o - info) \div InfoEntry + 1
                     IN  IF k > Len(opts) THEN [info_type |-> Int4(0, order)]
                         ELSE [info_type |-> Int4(opts[k].info_type, order),
                               info_len |-> Int4(opts[k].info_len, order),
                               info_offset |-> Int4(block[k], order)]],
         block |-> at(block, opts, LAMBDA k : opts[k].block)]

\* The two halves of a length.
LengthOf(low, high) == low + Half * high

\* The formats one behind the other.
Joined(subs, order) ==
    LET place == Starts([i \in 1 .. Len(subs) |->
                            LengthOf(subs[i].subformat_rep_length, subs[i].top_length)],
                        FormatHeader)
        size == place[Len(subs) + 1]
    IN  [format_rep_length |-> Low(size), top_length |-> High(size),
         record_byte_order |-> order, subformat_count |-> Len(subs) - 1,
         subs |-> [o \in {place[i] : i \in 1 .. Len(subs)} |->
                      subs[CHOOSE i \in 1 .. Len(subs) : place[i] = o]]]

build_server_format_rep(fs, order) ==
    Joined([i \in 1 .. Len(fs) |-> add_server_subformat_rep(fs[i], order)], order)

rep_length(rep) == LengthOf(rep.format_rep_length, rep.top_length)

-----------------------------------------------------------------------------
(* Expanding, on a machine of byte order mine.                             *)

NoType == [desc |-> <<"garbage">>, static |-> 0, control |-> "", sub |-> ""]

\* Where the option entries start; the mutant reads one of the two halves.
InfoOffset_LowHalf(low, high) == low
InfoOffset(low, high) == LengthOf(low, high)

expand_subformat_from_rep_1(sr, mine) ==
    LET byte_reversal == sr.record_byte_order # mine
        int(x) == IF (x.order # mine) = byte_reversal THEN x.v ELSE Garbage
        from(place, x, else) == IF int(x) \in DOMAIN place THEN place[int(x)] ELSE else
        first == InfoOffset(int(sr.opt_info_offset), int(sr.top_info))
        entry(k) == first + k * InfoEntry
        count == Min({k \in 0 .. Cardinality(DOMAIN sr.info) :
                        entry(k) \notin DOMAIN sr.info \/ sr.info[entry(k)].info_type.v = 0})
    IN  [name |-> from(sr.text, sr.name_offset, "garbage"),
         record_length |-> int(sr.record_length), alignment |-> sr.alignment,
         fields |-> [i \in 1 .. int(sr.field_count) |->
                        LET w == sr.fields[i]
                        IN  [name |-> from(sr.text, w.field_name_offset, "garbage"),
                             size |-> int(w.field_size), offset |-> int(w.field_offset)]
                            @@ from(sr.text, w.field_type_offset, NoType)],
         opt_info |-> [k \in 1 .. count |->
                        LET e == sr.info[entry(k - 1)]
                        IN  [info_type |-> int(e.info_type), info_len |-> int(e.info_len),
                             block |-> from(sr.block, e.info_offset, "garbage")]]]

\* The formats, found one behind the other by their lengths; << >> when a length
\* leads to no format.
expand_format_from_rep(rep, mine) ==
    LET place[i \in 1 .. rep.subformat_count + 1] ==
            IF i = 1 THEN FormatHeader
            ELSE IF place[i - 1] \notin DOMAIN rep.subs THEN Garbage
            ELSE LET sr == rep.subs[place[i - 1]]
                 IN  place[i - 1] + LengthOf(sr.subformat_rep_length, sr.top_length)
    IN  IF \E i \in DOMAIN place : place[i] \notin DOMAIN rep.subs THEN << >>
        ELSE [i \in DOMAIN place |-> expand_subformat_from_rep_1(rep.subs[place[i]], mine)]

\* The formats that the fields of an expanded format are looked up in: the
\* subformats and the format itself.  A subformat does not find the super format.
Findable(fs, i) == {fs[i].name} \union {fs[j].name : j \in 2 .. Len(fs)}

field_subformats(fs) ==
    [i \in 1 .. Len(fs) |->
        [fs[i] EXCEPT !.fields =
            [k \in DOMAIN @ |-> IF Base(@[k].desc) = "sub" /\ @[k].sub \notin Findable(fs, i)
                                THEN NoType @@ @[k] ELSE @[k]]]]

\* generate_var_list gives up at a field of no known type ("Format rejected.") and
\* nobody looks at what it returns: of that field and those behind it the format
\* says whatever was in memory.
var_list(fields) ==
    [k \in DOMAIN fields |-> IF \E j \in 1 .. k : fields[j].desc = NoType.desc
                             THEN NoType @@ fields[k] ELSE fields[k]]

\* The flags of an expanded format are worked out from the first format on, those
\* of a registered one from the last (Flags): what a format learns of the ones it
\* uses is less.
fill_derived_format_values(fs) ==
    FoldLeft(LAMBDA flags, f : generate_var_list(flags, f),
             [n \in Names(fs) |-> [recursive |-> FALSE, variant |-> FALSE]], fs)

\* The variant flags are bubbled up, to the top format last; the subformats are
\* put in order.
add_format_to_iofile(expanded) ==
    LET fs == field_subformats(expanded)
        flags == fill_derived_format_values(fs)
        variant == Bubble(fs, flags)
        order == topo_order_subformats(fs)
    IN  [i \in 1 .. Len(order) |->
            LET f == Struct(fs, order[i])
            IN  [name |-> f.name, fields |-> var_list(f.fields), record_length |-> f.record_length,
                 variant |-> variant[f.name], recursive |-> flags[f.name].recursive,
                 alignment |-> f.alignment, opt_info |-> f.opt_info]]
=============================================================================
