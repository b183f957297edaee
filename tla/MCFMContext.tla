----------------------------- MODULE MCFMContext -----------------------------
(* Three contexts on two kinds of machine; lists that mean the same, lists *)
(* of the same name and length that do not, and one with a name so long    *)
(* that the lengths need more than 16 bits.                                *)
EXTENDS FMContext

CONSTANTS a, b, c
MCOrder == [x \in {a, b, c} |-> IF x = c THEN "big" ELSE "little"]
MCSymmetry == Permutations({a, b})

Num(n, o) == [name |-> n, offset |-> o, size |-> 4, desc |-> <<"simple">>,
              static |-> 0, control |-> "", sub |-> ""]
String(n, o) == [Num(n, o) EXCEPT !.desc = <<"string">>, !.size = 8]
Ref(n, o, f, sz) == [Num(n, o) EXCEPT !.desc = <<"pointer", "sub">>, !.sub = f, !.size = sz]

NodeS == [name |-> "Node", size |-> 16, fields |-> <<Num("num", 0), Ref("next", 8, "Node", 16)>>]
ItemS == [name |-> "Item", size |-> 16, fields |-> <<String("label", 0), Num("num", 8)>>]
TopS  == [name |-> "Top", size |-> 24,
          fields |-> <<Num("n", 0), Ref("item", 8, "Item", 16), Ref("node", 16, "Node", 16)>>]
\* The same with its fields in another order, and one with two fields exchanged.
TopR  == [TopS EXCEPT !.fields = <<Ref("node", 16, "Node", 16), Num("n", 0), Ref("item", 8, "Item", 16)>>]
TopX  == [TopS EXCEPT !.fields = <<Num("n", 0), Ref("item", 16, "Item", 16), Ref("node", 8, "Node", 16)>>]
LongS == [name |-> "Long", size |-> 16, fields |-> <<Num("far", 0), Ref("item", 8, "Item", 16)>>]

MCStructLists == <<<<TopS, ItemS, NodeS>>,
                   <<TopR, LongS, NodeS, ItemS>>,
                   <<TopX, NodeS, ItemS>>,
                   <<LongS, ItemS>>>>
MCNameOrder == <<"Item", "Long", "Node", "Owner", "Part", "Top">>

MCHash(rep) == CHOOSE p \in Lists \X Orders :
                    /\ RepOf[p[1]][p[2]] = rep
                    /\ \A k \in 1 .. p[1] - 1 : RepOf[k][p[2]] # rep

MCTextLen(n) == IF n = "far" THEN 70000 ELSE 4
MCTypeLen(fld) == 3 + 4 * Len(fld.desc)
MCOptInfo(n) == IF n \in {"Top", "Long"}
                THEN <<[info_type |-> 1, info_len |-> 13, block |-> "compat"],
                       [info_type |-> 2, info_len |-> 8, block |-> "xml"]>>
                ELSE << >>

\* What the theorems assume of the lists in use (RoundTrip) holds of these, but not
\* of a list where a subformat refers back to the super format, which a context
\* that loads the format does not find.
OwnerS == [name |-> "Owner", size |-> 8, fields |-> <<Ref("part", 0, "Part", 16)>>]
PartS == [name |-> "Part", size |-> 16, fields |-> <<Num("num", 0), Ref("owner", 8, "Owner", 8)>>]
ASSUME BackReferenceLost ==
    LET fs == Registered(<<OwnerS, PartS>>)
        read(o, mine) == Expanded(build_server_format_rep(fs, o), mine)
    IN  Len(fs) = 2 /\ \A o, mine \in Orders : Len(read(o, mine)) = 2 /\ Layout(read(o, mine)) # Layout(fs)
=============================================================================
