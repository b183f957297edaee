------------------------------ MODULE FormatDefs ------------------------------
(***************************************************************************)
(* What register_data_format (fm/fm_formats.c) computes from the structure *)
(* list a program gives it: the fields sorted by offset, the length of the *)
(* record, which formats hold addresses (variant), which are known to be   *)
(* recursive, and the order the subformats are kept in.                    *)
(*                                                                         *)
(* A structure list is a sequence of [name, size, fields]; the first is    *)
(* the format being registered, the others its possible subformats.  A     *)
(* field is [name, offset, size, desc, static, control, sub]: desc is the  *)
(* parsed type, a sequence of "pointer", "array", "string", "sub" and      *)
(* "simple" from the outermost constructor in; static is the bound of its  *)
(* array or 0, control then names the integer field that holds the bound;  *)
(* sub names the format of a "sub".  A type has at most one array.         *)
(***************************************************************************)
EXTENDS Integers, Sequences, FiniteSets, SequencesExt, FiniteSetsExt, Folds

CONSTANT PointerSize    \* native_pointer_size of the registering context

ASSUME PointerSizeAssumption == PointerSize \in {4, 8}

-----------------------------------------------------------------------------
(* Types and sizes.                                                        *)

\* The innermost constructor of a type: what an array or a pointer is of.
Base(d) == d[Len(d)]

\* The type below the leading array, if there is one.
ElementDesc(d) == IF d[1] = "array" THEN Tail(d) ELSE d

\* The bytes a field takes in its record: a pointer, or all the elements of an
\* in-line array.
RealSize(fld) ==
    IF Contains(fld.desc, "pointer") THEN PointerSize
    ELSE IF fld.desc[1] = "array" THEN fld.size * fld.static
    ELSE fld.size

\* Strings are pointers whatever size the program gave; the record grows to
\* cover its fields; the fields are sorted by offset.
validate_and_copy_field_list(sd) ==
    [name |-> sd.name,
     record_length |-> Max({sd.size} \union
                           {sd.fields[i].offset + RealSize(sd.fields[i]) :
                                i \in 1 .. Len(sd.fields)}),
     fields |-> SortSeq([i \in 1 .. Len(sd.fields) |->
                            IF Base(sd.fields[i].desc) = "string"
                               /\ ~Contains(sd.fields[i].desc, "pointer")
                            THEN [sd.fields[i] EXCEPT !.size = PointerSize]
                            ELSE sd.fields[i]],
                        LAMBDA f, g : f.offset < g.offset)]

Names(list) == {list[i].name : i \in 1 .. Len(list)}

Struct(list, n) == list[CHOOSE i \in 1 .. Len(list) : list[i].name = n]

Subs(sd) == {f.sub : f \in {g \in Range(sd.fields) : Base(g.desc) = "sub"}}

-----------------------------------------------------------------------------
(* The flags.  generate_var_list runs over the list from its end and sees  *)
(* of the formats before it only what has been set already, so `recursive' *)
(* depends on the order the program listed the formats in.                 *)

HoldsAddress(sd) ==
    \E f \in Range(sd.fields) :
        Contains(f.desc, "pointer") \/ Base(f.desc) = "string"

generate_var_list(flags, sd) ==
    LET self == sd.name \in Subs(sd)
    IN  [n \in DOMAIN flags |->
            IF n # sd.name THEN flags[n]
            ELSE [recursive |-> self \/ \E s \in Subs(sd) : flags[s].recursive,
                  variant |-> self \/ HoldsAddress(sd)
                                   \/ \E s \in Subs(sd) : flags[s].variant]]

Flags(list) ==
    FoldRight(LAMBDA sd, flags : generate_var_list(flags, sd), list,
              [n \in Names(list) |-> [recursive |-> FALSE, variant |-> FALSE]])

-----------------------------------------------------------------------------
(* The order of the subformats: a depth-first walk from the super format,  *)
(* the subformats of each format by name, emitted after what they use; the *)
(* list is kept in the reverse of that order.  A task <<n, FALSE>> visits  *)
(* n, <<n, TRUE>> emits it.                                                *)

CONSTANT NameOrder    \* the format names in strcmp order

Rank(n) == CHOOSE i \in 1 .. Len(NameOrder) : NameOrder[i] = n

\* The subformats of a format's fields, one per field, sorted by name.
SortedSubs(sd) ==
    LET subs == SelectSeq(sd.fields, LAMBDA f : Base(f.desc) = "sub")
    IN  SortSeq([i \in 1 .. Len(subs) |-> subs[i].sub],
                LAMBDA a, b : Rank(a) < Rank(b))

add_format(list, w) ==
    IF w.tasks = << >> THEN w
    ELSE LET t == Head(w.tasks)  n == t[1]  rest == Tail(w.tasks)
         IN  IF t[2] THEN [w EXCEPT !.tasks = rest, !.sorted = Append(@, n)]
             ELSE IF n \in w.visited THEN [w EXCEPT !.tasks = rest]
             ELSE LET subs == SortedSubs(Struct(list, n))
                  IN  [w EXCEPT !.visited = @ \union {n},
                                !.tasks = [i \in 1 .. Len(subs) |-> <<subs[i], FALSE>>]
                                          \o <<<<n, TRUE>>>> \o rest]

\* Every task is run: each format is visited and emitted once, and each field
\* with a subformat costs one task more.
Walk(list) ==
    LET steps == 2 * Len(list) + FoldLeft(LAMBDA k, sd : k + Len(sd.fields), 0, list)
        run[k \in 0 .. steps] ==
            IF k = 0 THEN [tasks |-> <<<<list[1].name, FALSE>>>>,
                           visited |-> {}, sorted |-> << >>]
            ELSE add_format(list, run[k - 1])
    IN  run[steps].sorted

\* A mutant: the formats stay as the program listed them.
topo_order_subformats_AsListed(list) == [i \in 1 .. Len(list) |-> list[i].name]

\* The super format first, then the subformats it uses; the others are dropped.
topo_order_subformats(list) == Reverse(Walk(list))

-----------------------------------------------------------------------------
(* Registration.                                                           *)

\* The variant flags are bubbled up once per format, enough for every format
\* that can reach one that holds addresses.
Bubble(list, flags) ==
    LET pass(v) == [n \in DOMAIN v |-> v[n] \/ \E s \in Subs(Struct(list, n)) : v[s]]
        v[k \in 0 .. Len(list)] ==
            IF k = 0 THEN [n \in DOMAIN flags |-> flags[n].variant] ELSE pass(v[k - 1])
    IN  v[Len(list)]

\* Where the check for overlaps takes a field to end: an in-line array counts as
\* one element, and one of pointers as one of what they point to.
FieldEnd(fld) ==
    fld.offset + IF fld.desc[1] = "pointer" THEN PointerSize ELSE fld.size

\* A field that names no format of the list.
Unknown(list) == \E i \in 1 .. Len(list) : ~(Subs(list[i]) \subseteq Names(list))

\* A field smaller than the record it holds, one that starts before the field
\* before it ends, or a last one that ends behind the record.
BadField(list, sd) ==
    \E i \in 1 .. Len(sd.fields) :
        LET fld == sd.fields[i]
        IN  \/ Base(fld.desc) = "sub" /\ fld.size < Struct(list, fld.sub).record_length
            \/ i > 1 /\ fld.offset < FieldEnd(sd.fields[i - 1])
            \/ i = Len(sd.fields) /\ sd.record_length < FieldEnd(fld)

\* The registered formats, super format first, or << >> when the list is refused.
Formats(structs) ==
    LET list == [i \in 1 .. Len(structs) |-> validate_and_copy_field_list(structs[i])]
    IN  IF Unknown(list) THEN << >>
        ELSE LET flags == Flags(list)
                 order == topo_order_subformats(list)
                 variant == Bubble(list, flags)
                 kept == [i \in 1 .. Len(order) |-> Struct(list, order[i])]
             IN  IF \E i \in 1 .. Len(kept) : BadField(list, kept[i]) THEN << >>
                 ELSE [i \in 1 .. Len(kept) |->
                          [name |-> kept[i].name, fields |-> kept[i].fields,
                           record_length |-> kept[i].record_length,
                           variant |-> variant[kept[i].name],
                           recursive |-> flags[kept[i].name].recursive]]

=============================================================================
