------------------------------- MODULE MCDecode -------------------------------
(* Formats with flat fields, strings, arrays, records in records, shared   *)
(* and cyclic pointers, the memories their records may have, and the       *)
(* layouts of the receivers.                                               *)
EXTENDS Decode

Num(n, o) == [name |-> n, offset |-> o, size |-> 4, desc |-> <<"simple">>,
              static |-> 0, control |-> "", sub |-> ""]
String(n, o) == [Num(n, o) EXCEPT !.desc = <<"string">>, !.size = 8]
Ref(n, o, f, sz) == [Num(n, o) EXCEPT !.desc = <<"pointer", "sub">>, !.sub = f, !.size = sz]
In(n, o, f, sz) == [Num(n, o) EXCEPT !.desc = <<"sub">>, !.sub = f, !.size = sz]
Ints(n, o, c) == [Num(n, o) EXCEPT !.desc = <<"pointer", "array", "simple">>, !.control = c]
Recs(n, o, f, sz, c) == [Ref(n, o, f, sz) EXCEPT !.desc = <<"pointer", "array", "sub">>,
                                                 !.control = c]
Refs(n, o, f, sz, k) == [Ref(n, o, f, sz) EXCEPT !.desc = <<"array", "pointer", "sub">>,
                                                 !.static = k]

NodeS == [name |-> "Node", size |-> 24,
          fields |-> <<Ref("link2", 16, "Node", 24), Num("num", 0), Ref("link1", 8, "Node", 24)>>]
ItemS == [name |-> "Item", size |-> 16, fields |-> <<String("label", 0), Num("num", 8)>>]
RecS == [name |-> "Rec", size |-> 36,
         fields |-> <<Num("count", 0), Ints("vals", 8, "count"), Recs("items", 16, "Item", 16, "count"),
                      String("name", 24), Num("last", 32)>>]
FlatS == [name |-> "Flat", size |-> 12, fields |-> <<Num("a", 0), Num("b", 8)>>]
PairS == [name |-> "Pair", size |-> 48,
          fields |-> <<In("item", 0, "Item", 16), Refs("two", 16, "Node", 24, 2), Num("n", 40)>>]
VecS == [name |-> "Vec", size |-> 24,
         fields |-> <<Num("n", 0), Ints("vals", 8, "n"), Ints("more", 16, "n")>>]

ManyS == [name |-> "Many", size |-> 16,
          fields |-> <<Num("n", 0),
                       [Ref("nodes", 8, "Node", 24) EXCEPT !.control = "n",
                            !.desc = <<"pointer", "array", "pointer", "sub">>]>>]

MCNameOrder == <<"Flat", "Item", "Many", "Node", "Pair", "Rec", "Vec">>
MCStructLists == <<<<NodeS>>, <<RecS, ItemS>>, <<FlatS, ItemS>>, <<PairS, ItemS, NodeS>>, <<VecS>>,
                   <<ManyS, NodeS>>>>

Block(n, f) == [len |-> n, at |-> f]
Str(n) == Block(n, 0 :> (100 + n))
NodeB(k, a, b) == Block(24, 0 :> (20 + k) @@ 8 :> a @@ 16 :> b)

\* Graphs of three nodes: the second is met before the third, and a node nothing
\* points to has no links.
NodeGraphs ==
    {g \in [1 .. 3 -> (0 .. 3) \X (0 .. 3)] :
        /\ g[1][1] # 3
        /\ \A a \in 2 .. 3 : (\A b \in 1 .. 3 : a \notin {g[b][1], g[b][2]}) => g[a] = <<0, 0>>}

NodeHeaps == {[a \in 1 .. 3 |-> NodeB(a, g[a][1], g[a][2])] : g \in NodeGraphs}

RecHeaps ==
    {[a \in 1 .. 5 |->
        CASE a = 1 -> Block(36, 0 :> n @@ 8 :> v @@ 16 :> i @@ 24 :> t @@ 32 :> 7)
          [] a = 2 -> Block(12, 0 :> 31 @@ 4 :> 32 @@ 8 :> 33)
          [] a = 3 -> Block(48, 0 :> l1 @@ 8 :> 41 @@ 16 :> l2 @@ 24 :> 42 @@ 32 :> 4 @@ 40 :> 43)
          [] a = 4 -> Str(3)
          [] a = 5 -> Str(8)] :
        n \in 0 .. 3, v \in {0, 2}, i \in {0, 3}, t \in {0, 4, 5}, l1 \in {0, 4}, l2 \in {4, 5}}

PairHeaps ==
    {[a \in 1 .. 4 |->
        CASE a = 1 -> Block(48, 0 :> l @@ 8 :> 51 @@ 16 :> p @@ 24 :> q @@ 40 :> 9)
          [] a = 4 -> Str(5)
          [] OTHER -> NodeB(a, g[a - 1][1], g[a - 1][2])] :
        l \in {0, 4}, p \in {0, 2, 3}, q \in {0, 2, 3},
        g \in (({0, 2, 3} \X {0, 3}) \X ({0, 2} \X {0, 2}))}

ManyHeaps ==
    {[a \in 1 .. 4 |->
        CASE a = 1 -> Block(16, 0 :> n @@ 8 :> 2)
          [] a = 2 -> Block(24, 0 :> p @@ 8 :> q @@ 16 :> 4)
          [] OTHER -> NodeB(a, g[a - 2][1], g[a - 2][2])] :
        n \in 0 .. 3, p \in {0, 3}, q \in {0, 3, 4},
        g \in (({0, 3, 4} \X {0, 4}) \X ({0, 3} \X {0, 3}))}

MCHeaps(l) ==
    CASE l = 1 -> NodeHeaps
      [] l = 2 -> RecHeaps
      [] l = 3 -> {1 :> Block(12, 0 :> 61 @@ 8 :> 62)}
      [] l = 4 -> PairHeaps
      [] l = 5 -> {1 :> Block(24, 0 :> n @@ 8 :> v @@ 16 :> w)
                     @@ 2 :> Block(12, 0 :> 31 @@ 4 :> 32 @@ 8 :> 33) :
                         n \in 0 .. 3, v \in {0, 2}, w \in {0, 2}}
      [] l = 6 -> ManyHeaps

\* The receivers' layouts: the sender's, and others that lack or move fields.
RecFewer == [RecS EXCEPT !.size = 32, !.fields =
                <<Num("count", 0), Recs("items", 16, "Item", 16, "count"), String("name", 24)>>]
RecMoved == [RecS EXCEPT !.fields =
                <<Num("last", 0), Ints("vals", 8, "count"), Recs("items", 16, "Item", 16, "count"),
                  String("name", 24), Num("count", 32)>>]
RecCrossed == [RecS EXCEPT !.fields =
                <<Num("count", 0), Recs("items", 8, "Item", 16, "count"), Ints("vals", 16, "count"),
                  String("name", 24), Num("last", 32)>>]

MCTargets(n) ==
    CASE n = "Node" -> {<<NodeS>>}
      [] n = "Rec" -> {<<RecS, ItemS>>, <<RecFewer, ItemS>>, <<RecMoved, ItemS>>, <<RecCrossed, ItemS>>}
      [] n = "Flat" -> {<<FlatS>>, <<[FlatS EXCEPT !.fields = <<Num("b", 0), Num("a", 8)>>]>>}
      [] n = "Pair" -> {<<PairS, ItemS, NodeS>>}
      [] n = "Vec" -> {<<VecS>>}
      [] n = "Many" -> {<<ManyS, NodeS>>}
=============================================================================
