------------------------------ MODULE FMContext ------------------------------
(***************************************************************************)
(* Format contexts that issue their own format IDs (fm/fm_formats.c,       *)
(* create_local_FMcontext): programs register their structure lists, and   *)
(* take over each other's formats by ID and representation, as FFS files   *)
(* and the users of self-served formats do.  A context holds the formats   *)
(* it has registered and those it has loaded in one list, and a            *)
(* registration may be answered with either.                               *)
(***************************************************************************)
EXTENDS FormatRep

CONSTANTS Contexts,     \* the contexts, each of one process
          Order,        \* the byte order of the machine each is on
          StructLists,  \* the structure lists programs register, a sequence
          Hash(_),      \* the two words of hashlittle2 over a representation
          MaxFormats    \* bound: formats in a context

Orders == {"big", "little"}

ASSUME ContextAssumption ==
    /\ Order \in [Contexts -> Orders]
    /\ MaxFormats \in Nat

VARIABLES format_list,  \* context |-> its formats, in index order
          returned      \* context |-> list |-> index register_data_format gave, or 0

vars == <<format_list, returned>>

Lists == 1 .. Len(StructLists)

\* What the program's list comes to, in each byte order; computed once.
Given == [l \in Lists |-> Registered(StructLists[l])]
RepOf == LET rep(fs, o) == IF fs = << >> THEN << >> ELSE build_server_format_rep(fs, o)
         IN  [l \in Lists |-> [o \in Orders |-> rep(Given[l], o)]]
Reps == {RepOf[l][o] : l \in Lists, o \in Orders}

\* The hash tells the representations apart.
ASSUME HashAssumption ==
    \A r1, r2 \in Reps : Hash(r1) = Hash(r2) => r1 = r2

-----------------------------------------------------------------------------
\* The ID of a representation: its length in words, 16 bits and 8 above them, and
\* the hash.
generate_format3_server_ID(rep) ==
    [rep_len |-> Low(rep_length(rep) \div 4),
     top_byte_rep_len |-> (rep_length(rep) \div (4 * Half)) % 256,
     hash |-> Hash(rep)]

\* A mutant: representations of the same length are taken to be the same.
search_compatible_formats_LengthOnly(fl, name, rep) ==
    LET hits == {i \in 1 .. Len(fl) : /\ fl[i].formats[1].name = name
                                      /\ fl[i].rep.format_rep_length = rep_length(rep)}
    IN  IF hits = {} THEN 0 ELSE Min(hits)

\* The first format of the context with this name and representation, 0 if there
\* is none.  Of the representation in the list only the low half of the length
\* is looked at.
search_compatible_formats(fl, name, rep) ==
    LET hits == {i \in 1 .. Len(fl) : /\ fl[i].formats[1].name = name
                                      /\ fl[i].rep.format_rep_length = rep_length(rep)
                                      /\ fl[i].rep = rep}
    IN  IF hits = {} THEN 0 ELSE Min(hits)

\* The last format of the context with this ID, 0 if there is none.
get_local_format_IOcontext(fl, id) ==
    LET hits == {i \in 1 .. Len(fl) : fl[i].id.rep_len = id.rep_len /\ fl[i].id = id}
    IN  IF hits = {} THEN 0 ELSE Max(hits)

-----------------------------------------------------------------------------
Init == /\ format_list = [c \in Contexts |-> << >>]
        /\ returned = [c \in Contexts |-> [l \in Lists |-> 0]]

\* A registration that finds the format in the context; a program registers a list
\* again only when it would get another format.
RegisterHit(c, l) ==
    /\ Given[l] # << >>
    /\ \E hit \in {search_compatible_formats(format_list[c], Given[l][1].name, RepOf[l][Order[c]])} :
        /\ hit # 0 /\ returned[c][l] # hit
        /\ returned' = [returned EXCEPT ![c][l] = hit]
        /\ format_list' = [format_list EXCEPT ![c][hit].ref_count = @ + 1]

\* One that does not: the context gives the format its ID and keeps it.
RegisterNew(c, l) ==
    /\ Len(format_list[c]) < MaxFormats
    /\ \E fs \in {Given[l]}, rep \in {RepOf[l][Order[c]]} :
        /\ fs # << >>
        /\ search_compatible_formats(format_list[c], fs[1].name, rep) = 0
        /\ format_list' = [format_list EXCEPT ![c] = Append(@,
                [formats |-> fs, byte_order |-> Order[c], rep |-> rep,
                 id |-> generate_format3_server_ID(rep), ref_count |-> 1])]
    /\ returned' = [returned EXCEPT ![c][l] = Len(format_list[c]) + 1]

\* What a machine of byte order mine makes of a representation.
Expanded(rep, mine) ==
    LET fs == expand_format_from_rep(rep, mine)
    IN  IF fs = << >> THEN << >> ELSE add_format_to_iofile(fs)

\* Context c is given the ID and the representation of a format of context d.
load_external_format_FMcontext(c, d, i) ==
    LET e == format_list[d][i]
    IN  /\ get_local_format_IOcontext(format_list[c], e.id) = 0
        /\ Len(format_list[c]) < MaxFormats
        /\ format_list' = [format_list EXCEPT ![c] = Append(@,
                [formats |-> Expanded(e.rep, Order[c]),
                 byte_order |-> e.rep.record_byte_order, rep |-> e.rep,
                 id |-> e.id, ref_count |-> 1])]
        /\ UNCHANGED returned

Next == \/ \E c \in Contexts, l \in Lists : RegisterHit(c, l) \/ RegisterNew(c, l)
        \/ \E c, d \in Contexts : \E i \in 1 .. Len(format_list[d]) :
                load_external_format_FMcontext(c, d, i)

Spec == Init /\ [][Next]_vars

-----------------------------------------------------------------------------
\* What a format says of the data: everything but the recursive flags.
Layout(fs) == [i \in 1 .. Len(fs) |->
                [name |-> fs[i].name, fields |-> fs[i].fields, alignment |-> fs[i].alignment,
                 record_length |-> fs[i].record_length, variant |-> fs[i].variant,
                 opt_info |-> fs[i].opt_info]]

\* The structures of a list that its first one leads to, and what they hold: the
\* description a program means, whatever order it lists it in.
Reach(sl) ==
    LET step(ns) == ns \union UNION {Subs(Struct(sl, n)) : n \in ns}
        ns[k \in 0 .. Len(sl)] == IF k = 0 THEN {sl[1].name} ELSE step(ns[k - 1])
    IN  ns[Len(sl)]
Meaning(sl) ==
    <<sl[1].name, {[name |-> n, size |-> Struct(sl, n).size,
                      fields |-> Range(Struct(sl, n).fields)] : n \in Reach(sl)}>>
Meant == [l \in Lists |-> Meaning(StructLists[l])]

\* Two facts about what the layout code computes for the lists in use: a
\* representation, read on any machine, gives the layout it was made from, and it
\* depends only on what the program means.  The first fails for a list in which a
\* subformat names the super format (field_subformats).
RoundTrip ==
    \A l \in Lists : Given[l] # << >> =>
        \A o, mine \in Orders : Layout(Expanded(RepOf[l][o], mine)) = Layout(Given[l])
RepFollowsMeaning ==
    \A l, m \in Lists : Meant[l] = Meant[m] => \A o \in Orders : RepOf[l][o] = RepOf[m][o]

\* An ID means one thing everywhere: whatever a context finds under an ID that any
\* context has issued, registered by itself or loaded from another machine, has the
\* layout and the byte order of the format the ID was issued for.
OneMeaning ==
    \A c, d \in Contexts : \A i \in 1 .. Len(format_list[d]) :
        LET e == format_list[d][i]
            k == get_local_format_IOcontext(format_list[c], e.id)
        IN  k # 0 => /\ Layout(format_list[c][k].formats) = Layout(e.formats)
                     /\ format_list[c][k].byte_order = e.byte_order

\* Programs on like machines that mean the same get the same ID, in whatever order
\* they list structures and fields, with whatever structures they do not use, and
\* whatever was registered or loaded before.
IDsAgree ==
    \A c, d \in Contexts : \A l, m \in Lists :
        /\ returned[c][l] # 0 /\ returned[d][m] # 0 /\ Order[c] = Order[d]
        /\ Meant[l] = Meant[m]
        => format_list[c][returned[c][l]].id = format_list[d][returned[d][m]].id

\* What register_data_format returns has the layout of the list it was given, also
\* when it is a format that was loaded from elsewhere.
RegisteredAsGiven ==
    \A c \in Contexts, l \in Lists : returned[c][l] # 0 =>
        LET e == format_list[c][returned[c][l]]
        IN  Layout(e.formats) = Layout(Given[l]) /\ e.byte_order = Order[c]

\* A context has each format once (search_compatible_formats "looks in contexts to
\* see if a format ... has already been registered").
EachOnce ==
    \A c \in Contexts : \A i, k \in 1 .. Len(format_list[c]) :
        format_list[c][i].id = format_list[c][k].id => i = k

\* A format that was loaded is encoded from as one that was registered.
FlagsAlike ==
    \A c \in Contexts, l \in Lists : returned[c][l] # 0 =>
        format_list[c][returned[c][l]].formats = Given[l]
=============================================================================
