-------------------------------- MODULE Decode --------------------------------
(***************************************************************************)
(* Decoding of an encoded record into the receiver's own layout (ffs/ffs.c *)
(* FFSdecode and its two variants, ffs/ffs_conv.c): the plan of the        *)
(* conversion, and its interpretation field by field; that is what runs    *)
(* where no code is generated for a conversion.  The message comes from    *)
(* module Encode; the receiver may have the other byte order, and fewer or *)
(* rearranged fields.                                                      *)
(*                                                                         *)
(* Fields keep their sizes, and a format below the top one its length, so  *)
(* that what the record points to is always converted in place; transposed *)
(* arrays, floating point formats and default values are left out.         *)
(*                                                                         *)
(* Data being decoded is a function from places to [v, as]: the value, and *)
(* whether the bytes there are as "sent" or in the receiver's "native"     *)
(* form; swapping the bytes of a native value makes it "sent" again.       *)
(***************************************************************************)
EXTENDS Encode

CONSTANT Targets(_)    \* Targets(n): the structure lists a receiver of format n may have

VARIABLES swap,        \* byte_reversal: the sender's byte order is the other one
          target,      \* the receiver's formats
          dpc,         \* "wait", "arrived", "fields", "done" or "wild"
          data,        \* the message, the record and what it points to
          dcalls,      \* the calls of new_convert_field still to be made
          cur_offset   \* how far into the message the conversion has come

dvars == <<swap, target, dpc, data, dcalls, cur_offset>>

T(n) == FormatOf(target, n)

FieldNamed(f, n) == f.fields[CHOOSE i \in 1 .. Len(f.fields) : f.fields[i].name = n]

-----------------------------------------------------------------------------
(* The plan: none, direct (in place), or buffer (the source is elsewhere). *)

\* The type of the conversion of a record and the target's fields it goes through,
\* by offset.  It starts over as "buffer" when the record shrinks or a field has
\* moved; otherwise plain values of the same byte order need nothing.
create_conversion(f, t, type) ==
    LET moved == \E g \in Range(t.fields) : FieldNamed(f, g.name).offset # g.offset
        planned == IF f.record_length > t.record_length \/ moved THEN "buffer" ELSE type
        fields == SelectSeq(t.fields, LAMBDA g : \/ planned = "buffer" \/ swap
                                                 \/ Base(g.desc) # "simple"
                                                 \/ Contains(g.desc, "pointer"))
    IN  [type |-> IF planned = "none" /\ fields # << >> THEN "direct" ELSE planned,
         fields |-> fields]

\* The conversion of a whole record: one of the other byte order is never left alone.
TopConversion == create_conversion(Top, target[1], IF swap THEN "direct" ELSE "none")

\* The calls for a record of format n, in a conversion of the given type; the
\* bounds of its arrays are read before anything is converted.
internal_convert_record(d, n, type, from, to) ==
    LET f == F(n)
        conv == create_conversion(f, T(n), type)
        bound(g) == IF Contains(g.desc, "array") /\ g.static = 0
                    THEN d[<<from[1], from[2] + FieldNamed(f, g.control).offset>>].v
                    ELSE g.static
    IN  IF conv.type = "none" THEN << >>
        ELSE [i \in 1 .. Len(conv.fields) |->
                LET g == conv.fields[i]
                IN  [type |-> conv.type, fld |-> g, desc |-> g.desc, bound |-> bound(g),
                     from |-> <<from[1], from[2] + FieldNamed(f, g.name).offset>>,
                     to |-> <<to[1], to[2] + g.offset>>]]

-----------------------------------------------------------------------------
(* The steps.                                                              *)

DecodeInit ==
    /\ swap = FALSE
    /\ target = << >>
    /\ dpc = "wait"
    /\ data = << >>
    /\ dcalls = << >>
    /\ cur_offset = 0

\* The message reaches a receiver that has registered its own layout.
Receive ==
    /\ pc = "done" /\ mode # "noleaf"
    /\ \E t \in Targets(Top.name) : target' = Formats(t)
    /\ swap' \in BOOLEAN
    /\ dpc' = "arrived" /\ pc' = "sent"
    /\ UNCHANGED <<data, dcalls, cur_offset, formats, mem, mode, s, calls>>

\* Where the receiver's record is built.
Dest == IF TopConversion.type = "buffer" THEN "dest" ELSE "base"

\* The record and the rest are put where they are converted from, and the
\* conversion starts.
FFSinternal_decode ==
    /\ dpc = "arrived"
    /\ LET m == Message
           base == {o \in DOMAIN m : o < Top.record_length}
           d == [p \in ({"base"} \X base) \union ({"var"} \X (DOMAIN m \ base)) |->
                    [v |-> m[p[2]], as |-> "sent"]]
       IN  /\ data' = d
           /\ dcalls' = internal_convert_record(d, Top.name, TopConversion.type,
                                                 <<"base", 0>>, <<Dest, 0>>)
    /\ dpc' = "fields"
    /\ UNCHANGED <<swap, target, cur_offset, vars>>

\* The next call, of one of the given kinds.
Convert(c, kinds) ==
    /\ dpc = "fields"
    /\ dcalls # << >>
    /\ c = Head(dcalls)
    /\ c.desc[1] \in kinds
    /\ UNCHANGED <<swap, target, vars>>

\* An offset where an address is to be: what is read is an offset of the message
\* only if it has not been converted, and is not past the data.
IsOffset(p) == p \in DOMAIN data /\ data[p].as = "sent"

SetAddress(c) == data' = (c.to :> [v |-> data[c.from].v, as |-> "native"]) @@ data

\* A string: its address is set.
ConvertString ==
    LET c == Head(dcalls)
    IN  /\ Convert(c, {"string"})
        /\ IsOffset(c.from)
        /\ SetAddress(c)
        /\ dcalls' = Tail(dcalls)
        /\ UNCHANGED <<dpc, cur_offset>>

\* A mutant: a block met again where the conversion has just been is converted again.
ConvertPointer_Again ==
    LET c == Head(dcalls)  offset == data[c.from].v
    IN  /\ Convert(c, {"pointer"})
        /\ IsOffset(c.from)
        /\ SetAddress(c)
        /\ IF offset = 0 \/ offset < cur_offset
           THEN dcalls' = Tail(dcalls) /\ UNCHANGED cur_offset
           ELSE /\ cur_offset' = offset
                /\ dcalls' = <<[c EXCEPT !.desc = Tail(@), !.from = <<"var", offset>>,
                                         !.to = <<"var", offset>>]>> \o Tail(dcalls)
        /\ UNCHANGED dpc

\* A pointer: the address is set, and what it points to is converted unless it
\* lies before the place the conversion has reached.
ConvertPointer ==
    LET c == Head(dcalls)  offset == data[c.from].v
    IN  /\ Convert(c, {"pointer"})
        /\ IsOffset(c.from)
        /\ SetAddress(c)
        /\ IF offset = 0 \/ offset <= cur_offset
           THEN dcalls' = Tail(dcalls) /\ UNCHANGED cur_offset
           ELSE /\ cur_offset' = offset
                /\ dcalls' = <<[c EXCEPT !.desc = Tail(@), !.from = <<"var", offset>>,
                                         !.to = <<"var", offset>>]>> \o Tail(dcalls)
        /\ UNCHANGED dpc

\* What is taken for an offset is an address, or outside the message: anything may
\* happen then.
ConvertWild ==
    LET c == Head(dcalls)
    IN  /\ Convert(c, {"string", "pointer", "simple"})
        /\ IF c.desc[1] = "simple" THEN c.from \notin DOMAIN data ELSE ~IsOffset(c.from)
        /\ dpc' = "wild"
        /\ dcalls' = << >>
        /\ UNCHANGED <<data, cur_offset>>

\* A value: copied, its bytes swapped if the sender has them the other way.
ConvertSimple ==
    LET c == Head(dcalls)  x == data[c.from]
    IN  /\ Convert(c, {"simple"})
        /\ c.from \in DOMAIN data
        /\ data' = (c.to :> IF ~swap THEN x
                            ELSE [x EXCEPT !.as = IF @ = "sent" THEN "native" ELSE "sent"]) @@ data
        /\ dcalls' = Tail(dcalls)
        /\ UNCHANGED <<dpc, cur_offset>>

\* The elements of an array are a field size apart, except pointers in an array
\* that is itself pointed to.
ConvertArray ==
    LET c == Head(dcalls)
        pointers == c.fld.desc[1] = "pointer" /\ c.desc[2] = "pointer"
        step == IF pointers THEN PointerSize ELSE c.fld.size
    IN  /\ Convert(c, {"array"})
        /\ dcalls' = [i \in 1 .. c.bound |->
                        [c EXCEPT !.desc = Tail(@), !.from[2] = @ + (i - 1) * step,
                                  !.to[2] = @ + (i - 1) * step]] \o Tail(dcalls)
        /\ UNCHANGED <<dpc, data, cur_offset>>

ConvertSubformat ==
    LET c == Head(dcalls)
    IN  /\ Convert(c, {"sub"})
        /\ dcalls' = internal_convert_record(data, c.fld.sub, c.type, c.from, c.to) \o Tail(dcalls)
        /\ UNCHANGED <<dpc, data, cur_offset>>

DecodeEnd ==
    /\ dpc = "fields" /\ dcalls = << >>
    /\ dpc' = "done"
    /\ UNCHANGED <<swap, target, data, dcalls, cur_offset, vars>>

DecodeNext ==
    \/ Receive \/ FFSinternal_decode \/ ConvertString \/ ConvertPointer \/ ConvertWild
    \/ ConvertSimple \/ ConvertArray \/ ConvertSubformat \/ DecodeEnd

Init == EncodeInit /\ DecodeInit

Next == (EncodeNext /\ UNCHANGED dvars) \/ DecodeNext

Spec == Init /\ [][Next]_<<vars, dvars>>

-----------------------------------------------------------------------------
\* The type invariant: every call to be made has its data in the temporary
\* buffer, and calls are left only while a record is worked on.
TypeOK ==
    /\ mode \in {"copy", "vector", "noleaf"}
    /\ pc \in {"start", "fields", "done", "sent"}
    /\ s.in_use \in Nat /\ s.output_len \in Nat
    /\ \A o \in DOMAIN s.tmp : 0 <= o /\ o < s.in_use
    /\ \A i \in 1 .. Len(calls) : calls[i].at \in DOMAIN s.tmp
    /\ dpc \in {"wait", "arrived", "fields", "done", "wild"}
    /\ cur_offset \in Nat
    /\ \A p \in DOMAIN data : data[p].as \in {"sent", "native"}
    /\ pc = "fields" \/ calls = << >>
    /\ dpc = "fields" \/ dcalls = << >>

\* The decoded record and what it points to, as a view: the cell behind a place,
\* and the values.
Cell(p) == data[IF p[1] = "base" THEN <<Dest, p[2]>> ELSE p]

Decoded ==
    [p \in {<<"base", q[2]>> : q \in {r \in DOMAIN data : r[1] = Dest}}
              \union {q \in DOMAIN data : q[1] = "var"} |-> Cell(p).v]

\* Every value of a block is in the receiver's form: addresses set, bytes swapped
\* once if they have to be.
Converted(b) ==
    \A sl \in b.slots :
        Cell(Place(b, sl)).as = IF sl.desc[1] = "simple" /\ ~swap THEN "sent" ELSE "native"

DecodedWell ==
    /\ dpc # "wild"
    /\ dpc = "done" => \A b \in Reached(Decoded, target) : Agrees(b, Decoded) /\ Converted(b)

\* The fields of the target whose data is followed.
Deep(t) == {g \in Range(t.fields) : ~field_is_flat(g, g.desc)}

\* The target has the fields that hold addresses in the sender's order.
SameOrder ==
    \A t \in Range(target) : \A g, h \in Deep(t) :
        g.offset < h.offset =>
            FieldNamed(F(t.name), g.name).offset < FieldNamed(F(t.name), h.name).offset

\* Every record that is converted in place, all but the top one, has its fields
\* where the sender has them.
SubsAlike ==
    \A t \in Range(target) : \A g \in Range(t.fields) :
        \/ t.name = Top.name /\ ~Top.recursive
        \/ FieldNamed(F(t.name), g.name).offset = g.offset

\* An in-line array of pointers to what has the size of a pointer, or none.
StridesFit ==
    \A t \in Range(target) : \A g \in Range(t.fields) :
        g.desc[1] = "array" /\ g.desc[2] = "pointer" => g.size = PointerSize

\* A record that has been decoded says what the sender's memory says, in every
\* field the receiver has, through every pointer, and every value has been
\* converted exactly once, however often it is pointed to.  What the interpreter
\* does not manage is excluded: a record pointed back to (RootKept), the orders of
\* DecodedInAnyOrder, and StridesFit.
DecodedRight ==
    dpc \in {"done", "wild"} =>
        \/ PointsToRoot(Reached(Sent, formats))
        \/ ~SameOrder \/ ~SubsAlike \/ ~StridesFit
        \/ DecodedWell

\* "FFS will also ignore (or correct for) differences in field order"
\* (doc/manual_body.tex:195).
DecodedInAnyOrder ==
    dpc \in {"done", "wild"} =>
        PointsToRoot(Reached(Sent, formats)) \/ ~StridesFit \/ DecodedWell

=============================================================================
