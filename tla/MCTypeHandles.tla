---------------------------- MODULE MCTypeHandles ----------------------------
(* Five formats: four of one name that have substructures in common, and  *)
(* one of another name that can become one of them.                        *)
EXTENDS TypeHandles

Number == [kind |-> "integer", count |-> 1, text |-> "integer"]
List == [kind |-> "integer", count |-> Var, text |-> "integer[n]"]
Rec(s) == [kind |-> "unknown", count |-> 1, text |-> s]

\* A format of name A: s and t are records, the other fields numbers.
A(fields, prior) == [name |-> "A", prior |-> prior,
                     fields |-> [n \in fields |-> IF n = "s" THEN Rec("S")
                                                  ELSE IF n = "t" THEN Rec("T") ELSE Number],
                     subs |-> [S |-> [x |-> Number], T |-> [x |-> Number]]]

\* a5 has all the fields of a1, all but one of a6's and says how to go back to a2;
\* b1 has another name and a way back to a2.
MCBody == [
    a1 |-> A({"s", "t"}, << >>),
    a2 |-> A({"s", "t", "y"}, << >>),
    a5 |-> A({"s", "t", "u", "v", "w"}, <<"a2">>),
    a6 |-> A({"s", "t", "u", "v", "w", "z"}, << >>),
    b1 |-> [name |-> "B", prior |-> <<"a2">>, subs |-> << >>,
            fields |-> [n |-> Number, l |-> List]]]

\* a2 is both: the program's own format, or one it loaded first.
MCOwn == {"a1", "a2", "a6"}
MCIncoming == {"a2", "a5", "b1"}
=============================================================================
