-------------------------- MODULE FMContext_proofs --------------------------
(***************************************************************************)
(* Format contexts, for any number of contexts and machines and for the    *)
(* structure lists whose representations can be read back.  What the       *)
(* layout code computes (building and expanding a representation) enters   *)
(* as two facts about the lists, RoundTrip and RepFollowsMeaning, which    *)
(* TLC evaluates on the lists of the model; RoundTrip is false as soon as  *)
(* one of the lists has a subformat that names the super format.           *)
(* Everything that registrations and loads do to the contexts, in any      *)
(* order, is proved.                                                       *)
(***************************************************************************)
EXTENDS FMContext, SequenceTheorems, WellFoundedInduction, TLAPS

-----------------------------------------------------------------------------
(***************************************************************************)
(* The inductive invariant.                                                *)
(***************************************************************************)
\* What a context may hold: a format as registered or as expanded.
Entry == [formats : {Given[l] : l \in Lists} \union {Expanded(rep, mine) : rep \in Reps, mine \in Orders},
          byte_order : Orders, rep : Reps,
          id : {generate_format3_server_ID(rep) : rep \in Reps}, ref_count : Nat]

\* An entry is the format of some list, laid out on some machine, and its ID is
\* the one of its representation.
EntryOK(e) ==
    \E l \in Lists, o \in Orders :
        /\ Given[l] # << >> /\ e.rep = RepOf[l][o] /\ e.byte_order = o
        /\ e.id = generate_format3_server_ID(e.rep)
        /\ RoundTrip => Layout(e.formats) = Layout(Given[l])

\* What a registration returned is the entry with the list's representation.
ReturnOK(c, l) ==
    returned[c][l] # 0 =>
        /\ returned[c][l] \in 1 .. Len(format_list[c])
        /\ format_list[c][returned[c][l]].rep = RepOf[l][Order[c]]
        /\ Given[l] # << >>

ContextInv ==
    /\ format_list \in [Contexts -> Seq(Entry)]
    /\ returned \in [Contexts -> [Lists -> Nat]]
    /\ \A c \in Contexts : \A i \in 1 .. Len(format_list[c]) : EntryOK(format_list[c][i])
    /\ \A c \in Contexts, l \in Lists : ReturnOK(c, l)

-----------------------------------------------------------------------------
(***************************************************************************)
(* Representations.                                                        *)
(***************************************************************************)
\* A representation says the byte order it was made in.
LEMMA RepOrder ==
  ASSUME NEW l \in Lists, NEW o \in Orders, Given[l] # << >>
  PROVE  RepOf[l][o].record_byte_order = o
<1>1. RepOf[l][o] = build_server_format_rep(Given[l], o)
  BY DEF RepOf, Orders
<1>2. \A subs : Joined(subs, o).record_byte_order = o
  <2> SUFFICES ASSUME NEW subs PROVE Joined(subs, o).record_byte_order = o
    OBVIOUS
  <2> QED BY Zenon DEF Joined
<1> QED BY <1>1, <1>2 DEF build_server_format_rep

\* Where the round trip works, a representation fixes the layout, and the ID fixes
\* the representation.
LEMMA RepFixesLayout ==
  ASSUME RoundTrip, NEW l \in Lists, NEW m \in Lists, NEW o \in Orders, NEW p \in Orders,
         Given[l] # << >>, Given[m] # << >>, RepOf[l][o] = RepOf[m][p]
  PROVE  o = p /\ Layout(Given[l]) = Layout(Given[m])
<1>1. o = p
  BY RepOrder
<1>2. /\ Layout(Expanded(RepOf[l][o], o)) = Layout(Given[l])
      /\ Layout(Expanded(RepOf[m][p], o)) = Layout(Given[m])
  BY DEF RoundTrip
<1> QED BY <1>1, <1>2, Zenon

LEMMA IdFixesRep ==
  ASSUME NEW r1 \in Reps, NEW r2 \in Reps,
         generate_format3_server_ID(r1) = generate_format3_server_ID(r2)
  PROVE  r1 = r2
<1>1. generate_format3_server_ID(r1).hash = Hash(r1) /\ generate_format3_server_ID(r2).hash = Hash(r2)
  BY DEF generate_format3_server_ID
<1>2. Hash(r1) = Hash(r2)
  BY <1>1, Zenon
<1> QED BY <1>2, HashAssumption

-----------------------------------------------------------------------------
(***************************************************************************)
(* The searches.                                                           *)
(***************************************************************************)
LEMMA HasLeast ==
  ASSUME NEW S \in SUBSET Nat, S # {}
  PROVE  \E x \in S : \A y \in S : x <= y
<1>1. PICK x \in S : \A y \in S : ~ (<<y, x>> \in OpToRel(<, Nat))
  BY WFMin, NatLessThanWellFounded
<1>2. \A y \in S : ~ (y < x)
  BY <1>1 DEF OpToRel
<1> QED BY <1>2

LEMMA HasGreatest ==
  ASSUME NEW n \in Nat, NEW S \in SUBSET (1 .. n), S # {}
  PROVE  \E x \in S : \A y \in S : x >= y
<1> DEFINE D == {n - x : x \in S}
<1>1. D \in SUBSET Nat /\ D # {}
  <2>1. \A x \in S : n - x \in Nat
    OBVIOUS
  <2> QED BY <2>1
<1>2. PICK d \in D : \A e \in D : d <= e
  BY <1>1, HasLeast
<1>3. PICK x \in S : d = n - x
  OBVIOUS
<1>4. ASSUME NEW y \in S PROVE x >= y
  <2>1. n - y \in D
    OBVIOUS
  <2> QED BY <1>2, <1>3, <2>1
<1> QED BY <1>3, <1>4

LEMMA SearchHit ==
  ASSUME NEW fl, Len(fl) \in Nat, NEW name, NEW rep,
         search_compatible_formats(fl, name, rep) # 0
  PROVE  /\ search_compatible_formats(fl, name, rep) \in 1 .. Len(fl)
         /\ fl[search_compatible_formats(fl, name, rep)].rep = rep
<1> DEFINE hits == {i \in 1 .. Len(fl) : /\ fl[i].formats[1].name = name
                                         /\ fl[i].rep.format_rep_length = rep_length(rep)
                                         /\ fl[i].rep = rep}
<1>1. search_compatible_formats(fl, name, rep) = IF hits = {} THEN 0 ELSE Min(hits)
  BY DEF search_compatible_formats
<1>2. hits # {} /\ hits \in SUBSET Nat
  BY <1>1
<1>3. \A i \in hits : i \in 1 .. Len(fl) /\ fl[i].rep = rep
  OBVIOUS
<1> HIDE DEF hits
<1>4. \E x \in hits : \A y \in hits : x <= y
  BY <1>2, HasLeast
<1>5. Min(hits) \in hits
  BY <1>4 DEF Min
<1> QED BY <1>1, <1>2, <1>3, <1>5

LEMMA LocalHit ==
  ASSUME NEW fl, Len(fl) \in Nat, NEW id, get_local_format_IOcontext(fl, id) # 0
  PROVE  /\ get_local_format_IOcontext(fl, id) \in 1 .. Len(fl)
         /\ fl[get_local_format_IOcontext(fl, id)].id = id
<1> DEFINE hits == {i \in 1 .. Len(fl) : fl[i].id.rep_len = id.rep_len /\ fl[i].id = id}
<1>1. get_local_format_IOcontext(fl, id) = IF hits = {} THEN 0 ELSE Max(hits)
  BY DEF get_local_format_IOcontext
<1>2. hits # {} /\ hits \in SUBSET (1 .. Len(fl))
  BY <1>1
<1>3. \A i \in hits : i \in 1 .. Len(fl) /\ fl[i].id = id
  OBVIOUS
<1> HIDE DEF hits
<1>4. \E x \in hits : \A y \in hits : x >= y
  BY <1>2, HasGreatest
<1>5. Max(hits) \in hits
  BY <1>4 DEF Max
<1> QED BY <1>1, <1>2, <1>3, <1>5

-----------------------------------------------------------------------------
(***************************************************************************)
(* The steps.                                                              *)
(***************************************************************************)
LEMMA InitContext == Init => ContextInv
<1> SUFFICES ASSUME Init PROVE ContextInv
  OBVIOUS
<1>1. format_list \in [Contexts -> Seq(Entry)] /\ returned \in [Contexts -> [Lists -> Nat]]
  BY DEF Init
<1>2. \A c \in Contexts : Len(format_list[c]) = 0
  BY DEF Init
<1>3. \A c \in Contexts, l \in Lists : returned[c][l] = 0
  BY DEF Init
<1> QED BY <1>1, <1>2, <1>3 DEF ContextInv, ReturnOK

LEMMA EntryKept ==
  ASSUME NEW x \in Entry
  PROVE  LET more == [x EXCEPT !.ref_count = @ + 1]
         IN  /\ more \in Entry /\ more.rep = x.rep /\ more.id = x.id
             /\ more.byte_order = x.byte_order /\ more.formats = x.formats
<1> DEFINE F == {Given[l] : l \in Lists} \union {Expanded(rep, mine) : rep \in Reps, mine \in Orders}
           I == {generate_format3_server_ID(rep) : rep \in Reps}
<1>1. Entry = [formats : F, byte_order : Orders, rep : Reps, id : I, ref_count : Nat]
  BY DEF Entry
<1> HIDE DEF F, I
<1> QED BY <1>1

LEMMA EntryAlike ==
  ASSUME NEW x, NEW y, EntryOK(x), y.rep = x.rep, y.id = x.id, y.byte_order = x.byte_order,
         y.formats = x.formats
  PROVE  EntryOK(y)
<1>1. PICK l \in Lists, o \in Orders :
         /\ Given[l] # << >> /\ x.rep = RepOf[l][o] /\ x.byte_order = o
         /\ x.id = generate_format3_server_ID(x.rep)
         /\ RoundTrip => Layout(x.formats) = Layout(Given[l])
  BY DEF EntryOK
<1>2. /\ Given[l] # << >> /\ y.rep = RepOf[l][o] /\ y.byte_order = o
      /\ y.id = generate_format3_server_ID(y.rep)
      /\ RoundTrip => Layout(y.formats) = Layout(Given[l])
  BY <1>1, Zenon
<1> QED BY <1>2 DEF EntryOK

\* A format that is found gets one more user and stays what it is.
LEMMA RegisterHitInv ==
  ASSUME ContextInv, NEW c \in Contexts, NEW l \in Lists, RegisterHit(c, l)
  PROVE  ContextInv'
<1> USE DEF ContextInv
<1> DEFINE hit == search_compatible_formats(format_list[c], Given[l][1].name, RepOf[l][Order[c]])
           fl == format_list[c]
<1>1. /\ Given[l] # << >> /\ hit # 0
      /\ returned' = [returned EXCEPT ![c][l] = hit]
      /\ format_list' = [format_list EXCEPT ![c][hit].ref_count = @ + 1]
  BY DEF RegisterHit
<1>2. fl \in Seq(Entry) /\ Len(fl) \in Nat /\ fl \in [1 .. Len(fl) -> Entry]
  BY LenProperties
<1>3. hit \in 1 .. Len(fl) /\ fl[hit].rep = RepOf[l][Order[c]]
  BY <1>1, <1>2, SearchHit
<1> HIDE DEF hit
<1> DEFINE more == [fl[hit] EXCEPT !.ref_count = @ + 1]
           fl2 == [fl EXCEPT ![hit] = more]
<1>4. format_list' = [format_list EXCEPT ![c] = fl2]
  BY <1>1
<1>5. /\ more \in Entry /\ more.rep = fl[hit].rep /\ more.id = fl[hit].id
      /\ more.byte_order = fl[hit].byte_order /\ more.formats = fl[hit].formats
  <2>1. fl[hit] \in Entry
    BY <1>2, <1>3
  <2> HIDE DEF fl
  <2> QED BY <2>1, EntryKept
<1> HIDE DEF more
<1>6. fl2 \in [1 .. Len(fl) -> Entry]
  BY <1>2, <1>3, <1>5
<1>7. fl2 \in Seq(Entry)
  BY <1>2, <1>6, SeqDef
<1>8. Len(fl2) = Len(fl)
  BY <1>2, <1>6, <1>7, LenProperties
<1>9. \A i \in 1 .. Len(fl) :
         /\ fl2[i].rep = fl[i].rep /\ fl2[i].id = fl[i].id
         /\ fl2[i].byte_order = fl[i].byte_order /\ fl2[i].formats = fl[i].formats
  BY <1>2, <1>5
<1> HIDE DEF fl2
<1>10. /\ format_list' \in [Contexts -> Seq(Entry)]
       /\ \A d \in Contexts : format_list'[d] = IF d = c THEN fl2 ELSE format_list[d]
  BY <1>4, <1>7
<1>11. /\ returned' \in [Contexts -> [Lists -> Nat]]
       /\ \A d \in Contexts, m \in Lists :
             returned'[d][m] = IF d = c /\ m = l THEN hit ELSE returned[d][m]
  BY <1>1, <1>2, <1>3
<1>12. ASSUME NEW d \in Contexts, NEW i \in 1 .. Len(format_list'[d])
       PROVE  EntryOK(format_list'[d][i])
  <2>1. CASE d # c
    BY <1>10, <1>12, <2>1
  <2>2. CASE d = c
    <3>1. i \in 1 .. Len(fl) /\ EntryOK(fl[i]) /\ format_list'[d][i] = fl2[i]
      BY <1>8, <1>10, <1>12, <2>2
    <3> QED BY <1>9, <3>1, EntryAlike
  <2> QED BY <2>1, <2>2
<1>13. ASSUME NEW d \in Contexts, NEW m \in Lists
       PROVE  ReturnOK(d, m)'
  <2>1. CASE d # c
    BY <1>10, <1>11, <2>1 DEF ReturnOK
  <2>2. CASE d = c /\ m # l
    <3>1. /\ returned'[d][m] = returned[d][m] /\ ReturnOK(d, m)
          /\ format_list'[d] = fl2 /\ format_list[d] = fl
      BY <1>10, <1>11, <2>2
    <3> HIDE DEF fl
    <3>2. ASSUME returned[d][m] # 0
          PROVE  /\ returned[d][m] \in 1 .. Len(fl2) /\ Given[m] # << >>
                 /\ fl2[returned[d][m]].rep = RepOf[m][Order[d]]
      <4>1. /\ returned[d][m] \in 1 .. Len(fl) /\ Given[m] # << >>
            /\ fl[returned[d][m]].rep = RepOf[m][Order[d]]
        BY <3>1, <3>2 DEF ReturnOK
      <4> QED BY <1>8, <1>9, <4>1
    <3> QED BY <3>1, <3>2 DEF ReturnOK
  <2>3. CASE d = c /\ m = l
    BY <1>1, <1>3, <1>8, <1>9, <1>10, <1>11, <2>3 DEF ReturnOK
  <2> QED BY <2>1, <2>2, <2>3
<1> QED BY <1>10, <1>11, <1>12, <1>13

\* A format at the end of a context leaves the others where they are.
LEMMA AddedInv ==
  ASSUME ContextInv, NEW c \in Contexts, NEW e \in Entry, EntryOK(e),
         format_list' = [format_list EXCEPT ![c] = Append(@, e)]
  PROVE  /\ format_list' \in [Contexts -> Seq(Entry)]
         /\ \A d \in Contexts : \A i \in 1 .. Len(format_list'[d]) : EntryOK(format_list'[d][i])
         /\ \A d \in Contexts : /\ Len(format_list[d]) \in Nat
                                /\ Len(format_list'[d]) >= Len(format_list[d])
                                /\ Len(format_list'[d]) \in Nat
         /\ \A d \in Contexts : \A i \in 1 .. Len(format_list[d]) :
               format_list'[d][i] = format_list[d][i]
         /\ Len(format_list'[c]) = Len(format_list[c]) + 1
         /\ format_list'[c][Len(format_list[c]) + 1] = e
<1> USE DEF ContextInv
<1> DEFINE fl == format_list[c]
           fl2 == Append(fl, e)
<1>1. fl \in Seq(Entry) /\ Len(fl) \in Nat
  BY LenProperties
<1>2. /\ fl2 \in Seq(Entry) /\ Len(fl2) = Len(fl) + 1
      /\ \A i \in 1 .. Len(fl) : fl2[i] = fl[i]
      /\ fl2[Len(fl) + 1] = e
  BY <1>1, AppendProperties
<1> HIDE DEF fl2
<1>3. /\ format_list' \in [Contexts -> Seq(Entry)]
      /\ \A d \in Contexts : format_list'[d] = IF d = c THEN fl2 ELSE format_list[d]
  BY <1>2 DEF fl2
<1>4. ASSUME NEW d \in Contexts, NEW i \in 1 .. Len(format_list'[d])
      PROVE  EntryOK(format_list'[d][i])
  <2>1. CASE d # c
    BY <1>3, <1>4, <2>1
  <2>2. CASE d = c
    <3>1. i \in 1 .. Len(fl) \/ i = Len(fl) + 1
      BY <1>1, <1>2, <1>3, <2>2
    <3>2. (fl2[i] = fl[i] /\ i \in 1 .. Len(fl)) \/ fl2[i] = e
      BY <1>2, <3>1
    <3>3. EntryOK(fl2[i])
      BY <3>2
    <3> QED BY <1>3, <2>2, <3>3
  <2> QED BY <2>1, <2>2
<1>5. ASSUME NEW d \in Contexts
      PROVE  /\ Len(format_list[d]) \in Nat /\ Len(format_list'[d]) \in Nat
             /\ Len(format_list'[d]) >= Len(format_list[d])
             /\ \A i \in 1 .. Len(format_list[d]) : format_list'[d][i] = format_list[d][i]
  <2>1. Len(format_list[d]) \in Nat
    BY LenProperties
  <2> QED BY <1>1, <1>2, <1>3, <2>1
<1> QED BY <1>2, <1>3, <1>4, <1>5

LEMMA RegisterNewInv ==
  ASSUME ContextInv, NEW c \in Contexts, NEW l \in Lists, RegisterNew(c, l)
  PROVE  ContextInv'
<1> USE DEF ContextInv
<1> DEFINE rep == RepOf[l][Order[c]]
           e == [formats |-> Given[l], byte_order |-> Order[c], rep |-> rep,
                 id |-> generate_format3_server_ID(rep), ref_count |-> 1]
<1>1. /\ Given[l] # << >>
      /\ format_list' = [format_list EXCEPT ![c] = Append(@, e)]
      /\ returned' = [returned EXCEPT ![c][l] = Len(format_list[c]) + 1]
  BY DEF RegisterNew
<1>2. Order[c] \in Orders /\ rep \in Reps
  BY ContextAssumption DEF Reps
<1>3. e \in Entry
  BY <1>2 DEF Entry
<1>4. /\ e.rep = rep /\ e.formats = Given[l] /\ e.byte_order = Order[c]
      /\ e.id = generate_format3_server_ID(rep)
  OBVIOUS
<1> HIDE DEF e
<1>5. EntryOK(e)
  BY <1>1, <1>2, <1>4 DEF EntryOK
<1>6. /\ format_list' \in [Contexts -> Seq(Entry)]
      /\ \A d \in Contexts : \A i \in 1 .. Len(format_list'[d]) : EntryOK(format_list'[d][i])
      /\ \A d \in Contexts : /\ Len(format_list[d]) \in Nat
                             /\ Len(format_list'[d]) >= Len(format_list[d])
                             /\ Len(format_list'[d]) \in Nat
      /\ \A d \in Contexts : \A i \in 1 .. Len(format_list[d]) :
            format_list'[d][i] = format_list[d][i]
      /\ Len(format_list'[c]) = Len(format_list[c]) + 1
      /\ format_list'[c][Len(format_list[c]) + 1] = e
  BY <1>1, <1>3, <1>5, AddedInv
<1>7. /\ returned' \in [Contexts -> [Lists -> Nat]]
      /\ \A d \in Contexts, m \in Lists :
            returned'[d][m] = IF d = c /\ m = l THEN Len(format_list[c]) + 1 ELSE returned[d][m]
  BY <1>1, <1>6
<1>8. ASSUME NEW d \in Contexts, NEW m \in Lists
      PROVE  ReturnOK(d, m)'
  <2>1. CASE d = c /\ m = l
    BY <1>1, <1>4, <1>6, <1>7, <2>1 DEF ReturnOK
  <2>2. CASE ~ (d = c /\ m = l)
    <3>1. returned'[d][m] = returned[d][m] /\ ReturnOK(d, m)
      BY <1>7, <2>2
    <3>2. ASSUME returned[d][m] # 0
          PROVE  /\ returned[d][m] \in 1 .. Len(format_list[d])
                 /\ returned[d][m] \in 1 .. Len(format_list'[d])
                 /\ format_list'[d][returned[d][m]] = format_list[d][returned[d][m]]
      <4>1. returned[d][m] \in 1 .. Len(format_list[d])
        BY <3>1, <3>2 DEF ReturnOK
      <4> QED BY <1>6, <4>1
    <3> QED BY <3>1, <3>2 DEF ReturnOK
  <2> QED BY <2>1, <2>2
<1> QED BY <1>6, <1>7, <1>8

LEMMA LoadInv ==
  ASSUME ContextInv, NEW c \in Contexts, NEW d \in Contexts,
         NEW i \in 1 .. Len(format_list[d]), load_external_format_FMcontext(c, d, i)
  PROVE  ContextInv'
<1> USE DEF ContextInv
<1> DEFINE from == format_list[d][i]
           e == [formats |-> Expanded(from.rep, Order[c]),
                 byte_order |-> from.rep.record_byte_order, rep |-> from.rep,
                 id |-> from.id, ref_count |-> 1]
<1>1. format_list' = [format_list EXCEPT ![c] = Append(@, e)] /\ returned' = returned
  BY DEF load_external_format_FMcontext
<1>2. from \in Entry /\ EntryOK(from) /\ Order[c] \in Orders
  BY ContextAssumption, ElementOfSeq
<1> HIDE DEF from
<1>3. from.rep \in Reps /\ from.id \in {generate_format3_server_ID(rep) : rep \in Reps}
  BY <1>2 DEF Entry
<1>4. PICK l \in Lists, o \in Orders :
         /\ Given[l] # << >> /\ from.rep = RepOf[l][o] /\ from.byte_order = o
         /\ from.id = generate_format3_server_ID(from.rep)
         /\ RoundTrip => Layout(from.formats) = Layout(Given[l])
  BY <1>2 DEF EntryOK
<1>5. from.rep.record_byte_order = o
  BY <1>4, RepOrder
<1>6. RoundTrip => Layout(Expanded(from.rep, Order[c])) = Layout(Given[l])
  BY <1>2, <1>4 DEF RoundTrip
<1>7. e \in Entry
  <2>1. Expanded(from.rep, Order[c]) \in {Expanded(rep, mine) : rep \in Reps, mine \in Orders}
    BY <1>2, <1>3
  <2> QED BY <1>3, <1>5, <2>1 DEF Entry
<1>8. /\ e.rep = from.rep /\ e.formats = Expanded(from.rep, Order[c]) /\ e.id = from.id
      /\ e.byte_order = from.rep.record_byte_order
  OBVIOUS
<1> HIDE DEF e
<1>9. EntryOK(e)
  BY <1>4, <1>5, <1>6, <1>8 DEF EntryOK
<1>10. /\ format_list' \in [Contexts -> Seq(Entry)]
       /\ \A k \in Contexts : \A j \in 1 .. Len(format_list'[k]) : EntryOK(format_list'[k][j])
       /\ \A k \in Contexts : /\ Len(format_list[k]) \in Nat
                              /\ Len(format_list'[k]) >= Len(format_list[k])
                              /\ Len(format_list'[k]) \in Nat
       /\ \A k \in Contexts : \A j \in 1 .. Len(format_list[k]) :
             format_list'[k][j] = format_list[k][j]
  BY <1>1, <1>7, <1>9, AddedInv
<1>11. ASSUME NEW k \in Contexts, NEW m \in Lists
       PROVE  ReturnOK(k, m)'
  <2>1. ASSUME returned[k][m] # 0
        PROVE  /\ returned[k][m] \in 1 .. Len(format_list[k])
               /\ returned[k][m] \in 1 .. Len(format_list'[k])
               /\ format_list'[k][returned[k][m]] = format_list[k][returned[k][m]]
    <3>1. returned[k][m] \in 1 .. Len(format_list[k])
      BY <2>1 DEF ReturnOK
    <3> QED BY <1>10, <3>1
  <2> QED BY <1>1, <2>1 DEF ReturnOK
<1> QED BY <1>1, <1>10, <1>11

LEMMA NextContext ==
  ASSUME ContextInv, [Next]_vars
  PROVE  ContextInv'
<1>1. CASE UNCHANGED vars
  BY <1>1 DEF ContextInv, ReturnOK, vars
<1>2. ASSUME NEW c \in Contexts, NEW l \in Lists, RegisterHit(c, l) PROVE ContextInv'
  BY <1>2, RegisterHitInv
<1>3. ASSUME NEW c \in Contexts, NEW l \in Lists, RegisterNew(c, l) PROVE ContextInv'
  BY <1>3, RegisterNewInv
<1>4. ASSUME NEW c \in Contexts, NEW d \in Contexts, NEW i \in 1 .. Len(format_list[d]),
             load_external_format_FMcontext(c, d, i)
      PROVE  ContextInv'
  BY <1>4, LoadInv
<1> QED BY <1>1, <1>2, <1>3, <1>4 DEF Next

-----------------------------------------------------------------------------
(***************************************************************************)
(* The theorems.                                                           *)
(***************************************************************************)
LEMMA EntryFacts ==
  ASSUME ContextInv, NEW c \in Contexts, NEW i \in 1 .. Len(format_list[c])
  PROVE  /\ format_list[c][i].rep \in Reps
         /\ \E l \in Lists, o \in Orders :
               /\ Given[l] # << >> /\ format_list[c][i].rep = RepOf[l][o]
               /\ format_list[c][i].byte_order = o
               /\ format_list[c][i].id = generate_format3_server_ID(format_list[c][i].rep)
               /\ RoundTrip => Layout(format_list[c][i].formats) = Layout(Given[l])
<1> DEFINE e == format_list[c][i]
<1>1. EntryOK(e)
  BY DEF ContextInv
<1> HIDE DEF e
<1>2. PICK l \in Lists, o \in Orders :
         /\ Given[l] # << >> /\ e.rep = RepOf[l][o] /\ e.byte_order = o
         /\ e.id = generate_format3_server_ID(e.rep)
         /\ RoundTrip => Layout(e.formats) = Layout(Given[l])
  BY <1>1 DEF EntryOK
<1>3. e.rep \in Reps
  BY <1>2 DEF Reps
<1> QED BY <1>2, <1>3 DEF e

\* Two entries with one ID have one layout and one byte order.
LEMMA SameIdSameFormat ==
  ASSUME RoundTrip, ContextInv, NEW c \in Contexts, NEW d \in Contexts,
         NEW i \in 1 .. Len(format_list[c]), NEW k \in 1 .. Len(format_list[d]),
         format_list[c][i].id = format_list[d][k].id
  PROVE  /\ Layout(format_list[c][i].formats) = Layout(format_list[d][k].formats)
         /\ format_list[c][i].byte_order = format_list[d][k].byte_order
<1> DEFINE e == format_list[c][i]
           g == format_list[d][k]
<1>1. e.rep \in Reps /\ g.rep \in Reps /\ e.id = g.id
  BY EntryFacts
<1>2. PICK l \in Lists, o \in Orders :
         /\ Given[l] # << >> /\ e.rep = RepOf[l][o] /\ e.byte_order = o
         /\ e.id = generate_format3_server_ID(e.rep)
         /\ RoundTrip => Layout(e.formats) = Layout(Given[l])
  BY EntryFacts
<1>3. PICK m \in Lists, p \in Orders :
         /\ Given[m] # << >> /\ g.rep = RepOf[m][p] /\ g.byte_order = p
         /\ g.id = generate_format3_server_ID(g.rep)
         /\ RoundTrip => Layout(g.formats) = Layout(Given[m])
  BY EntryFacts
<1> HIDE DEF e, g
<1>4. e.rep = g.rep
  BY <1>1, <1>2, <1>3, IdFixesRep
<1>5. o = p /\ Layout(Given[l]) = Layout(Given[m])
  <2>1. RepOf[l][o] = RepOf[m][p] /\ Given[l] # << >> /\ Given[m] # << >>
    BY <1>2, <1>3, <1>4
  <2> QED BY <2>1, RepFixesLayout
<1>6. Layout(e.formats) = Layout(g.formats) /\ e.byte_order = g.byte_order
  BY <1>2, <1>3, <1>5
<1> QED BY <1>6 DEF e, g

LEMMA InvOneMeaning ==
  ASSUME RoundTrip, ContextInv
  PROVE  OneMeaning
<1> SUFFICES ASSUME NEW c \in Contexts, NEW d \in Contexts, NEW i \in 1 .. Len(format_list[d]),
                    get_local_format_IOcontext(format_list[c], format_list[d][i].id) # 0
             PROVE  LET k == get_local_format_IOcontext(format_list[c], format_list[d][i].id)
                    IN  /\ Layout(format_list[c][k].formats) = Layout(format_list[d][i].formats)
                        /\ format_list[c][k].byte_order = format_list[d][i].byte_order
  BY Zenon DEF OneMeaning
<1> DEFINE k == get_local_format_IOcontext(format_list[c], format_list[d][i].id)
<1>1. Len(format_list[c]) \in Nat
  BY LenProperties DEF ContextInv
<1>2. k \in 1 .. Len(format_list[c]) /\ format_list[c][k].id = format_list[d][i].id
  BY <1>1, LocalHit
<1> HIDE DEF k
<1> QED BY <1>2, SameIdSameFormat DEF k

LEMMA InvRegisteredAsGiven ==
  ASSUME RoundTrip, ContextInv
  PROVE  RegisteredAsGiven
<1> SUFFICES ASSUME NEW c \in Contexts, NEW l \in Lists, returned[c][l] # 0
             PROVE  /\ Layout(format_list[c][returned[c][l]].formats) = Layout(Given[l])
                    /\ format_list[c][returned[c][l]].byte_order = Order[c]
  BY Zenon DEF RegisteredAsGiven
<1> DEFINE k == returned[c][l]
           e == format_list[c][k]
<1>1. k \in 1 .. Len(format_list[c]) /\ e.rep = RepOf[l][Order[c]] /\ Given[l] # << >>
  BY DEF ContextInv, ReturnOK
<1>2. PICK m \in Lists, p \in Orders :
         /\ Given[m] # << >> /\ e.rep = RepOf[m][p] /\ e.byte_order = p
         /\ e.id = generate_format3_server_ID(e.rep)
         /\ RoundTrip => Layout(e.formats) = Layout(Given[m])
  BY <1>1, EntryFacts
<1>3. Order[c] \in Orders
  BY ContextAssumption
<1> HIDE DEF e
<1>4. Order[c] = p /\ Layout(Given[l]) = Layout(Given[m])
  <2>1. RepOf[l][Order[c]] = RepOf[m][p] /\ Given[l] # << >> /\ Given[m] # << >>
    BY <1>1, <1>2
  <2> QED BY <1>3, <2>1, RepFixesLayout
<1>5. Layout(e.formats) = Layout(Given[l]) /\ e.byte_order = Order[c]
  BY <1>2, <1>4
<1> QED BY <1>5 DEF e

LEMMA InvIDsAgree ==
  ASSUME RepFollowsMeaning, ContextInv
  PROVE  IDsAgree
<1> SUFFICES ASSUME NEW c \in Contexts, NEW d \in Contexts, NEW l \in Lists, NEW m \in Lists,
                    returned[c][l] # 0, returned[d][m] # 0, Order[c] = Order[d],
                    Meant[l] = Meant[m]
             PROVE  format_list[c][returned[c][l]].id = format_list[d][returned[d][m]].id
  BY DEF IDsAgree
<1> DEFINE e == format_list[c][returned[c][l]]
           g == format_list[d][returned[d][m]]
<1>1. /\ returned[c][l] \in 1 .. Len(format_list[c]) /\ e.rep = RepOf[l][Order[c]]
      /\ returned[d][m] \in 1 .. Len(format_list[d]) /\ g.rep = RepOf[m][Order[d]]
  BY DEF ContextInv, ReturnOK
<1>2. e.id = generate_format3_server_ID(e.rep) /\ g.id = generate_format3_server_ID(g.rep)
  BY <1>1, EntryFacts
<1>3. Order[c] \in Orders
  BY ContextAssumption
<1>4. RepOf[l][Order[c]] = RepOf[m][Order[c]]
  BY <1>3 DEF RepFollowsMeaning
<1> HIDE DEF e, g
<1>5. e.rep = g.rep
  BY <1>1, <1>4
<1>6. e.id = g.id
  BY <1>2, <1>5
<1> QED BY <1>6 DEF e, g

\* OneMeaning always holds when the representation of every list in use, read on
\* any machine, gives its layout (so none has a subformat that names the super
\* format): whatever contexts register and load, in whatever order and on whatever
\* machines, get_local_format_IOcontext finds under an ID a format of the layout
\* and byte order the ID was issued for.
THEOREM IDsMeanOneThing == RoundTrip => (Spec => []OneMeaning)
<1> SUFFICES ASSUME RoundTrip PROVE Spec => []OneMeaning
  OBVIOUS
<1>1. Init => ContextInv
  BY InitContext
<1>2. ContextInv /\ [Next]_vars => ContextInv'
  BY NextContext
<1>3. ContextInv => OneMeaning
  BY InvOneMeaning
<1> QED BY <1>1, <1>2, <1>3, PTL DEF Spec

\* RegisteredAsGiven always holds under the same condition on the lists in use:
\* register_data_format never answers with a format of another layout or byte
\* order, also when search_compatible_formats hits one that was loaded.
THEOREM RegistrationKeepsLayout == RoundTrip => (Spec => []RegisteredAsGiven)
<1> SUFFICES ASSUME RoundTrip PROVE Spec => []RegisteredAsGiven
  OBVIOUS
<1>1. Init => ContextInv
  BY InitContext
<1>2. ContextInv /\ [Next]_vars => ContextInv'
  BY NextContext
<1>3. ContextInv => RegisteredAsGiven
  BY InvRegisteredAsGiven
<1> QED BY <1>1, <1>2, <1>3, PTL DEF Spec

\* IDsAgree always holds where lists that mean the same have one representation:
\* what was registered or loaded before a registration never changes the ID it
\* gets (register_data_format, generate_format3_server_ID).
THEOREM LikeProgramsAgree == RepFollowsMeaning => (Spec => []IDsAgree)
<1> SUFFICES ASSUME RepFollowsMeaning PROVE Spec => []IDsAgree
  OBVIOUS
<1>1. Init => ContextInv
  BY InitContext
<1>2. ContextInv /\ [Next]_vars => ContextInv'
  BY NextContext
<1>3. ContextInv => IDsAgree
  BY InvIDsAgree
<1> QED BY <1>1, <1>2, <1>3, PTL DEF Spec
=============================================================================
