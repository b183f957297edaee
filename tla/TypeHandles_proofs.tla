------------------------- MODULE TypeHandles_proofs -------------------------
(***************************************************************************)
(* Type handles, for every set of formats and every order of setting       *)
(* targets, asking, decoding and installing conversions.                   *)
(***************************************************************************)
EXTENDS TypeHandles, SequenceTheorems, FiniteSetTheorems, WellFoundedInduction, TLAPS

-----------------------------------------------------------------------------
(***************************************************************************)
(* The inductive invariant.  DecodesAsReported is not inductive: a handle  *)
(* that reports its own format and has no conversion satisfies it, until   *)
(* the program installs a conversion.  What holds is that the conversion   *)
(* is there whenever it can be made.                                       *)
(***************************************************************************)
IsHandle(h) ==
    h = [status |-> h.status, conversion |-> h.conversion,
         conversion_target |-> h.conversion_target, is_fixed_target |-> h.is_fixed_target]

Converts(h, f) ==
    /\ h.status = "conversion_set" /\ h.conversion_target # None
    /\ create_conversion(f, h.conversion_target)
    => h.conversion = h.conversion_target

HandlesOK(hs) == \A f \in DOMAIN hs : IsHandle(hs[f]) /\ Converts(hs[f], f)

HandleInv == HandlesOK(handle)

-----------------------------------------------------------------------------
(***************************************************************************)
(* What the operations do to one handle.                                   *)
(***************************************************************************)
LEMMA StatusSet ==
  ASSUME NEW h, IsHandle(h), NEW s
  PROVE  LET k == [h EXCEPT !.status = s]
         IN  /\ IsHandle(k) /\ k.status = s /\ k.conversion = h.conversion
             /\ k.conversion_target = h.conversion_target
             /\ k.is_fixed_target = h.is_fixed_target
<1> DEFINE a == h.conversion
           b == h.conversion_target
           c == h.is_fixed_target
           k == [h EXCEPT !.status = s]
<1>1. h = [status |-> h.status, conversion |-> a, conversion_target |-> b, is_fixed_target |-> c]
  BY DEF IsHandle
<1> HIDE DEF a, b, c
<1>2. k = [status |-> s, conversion |-> a, conversion_target |-> b, is_fixed_target |-> c]
  BY <1>1
<1> HIDE DEF k
<1>3. k.status = s /\ k.conversion = a /\ k.conversion_target = b /\ k.is_fixed_target = c
  BY <1>2
<1>4. IsHandle(k)
  BY <1>2, <1>3 DEF IsHandle
<1> QED BY <1>3, <1>4 DEF a, b, c, k

LEMMA FixedSet ==
  ASSUME NEW h, IsHandle(h), NEW x
  PROVE  LET k == [h EXCEPT !.is_fixed_target = x]
         IN  /\ IsHandle(k) /\ k.status = h.status /\ k.conversion = h.conversion
             /\ k.conversion_target = h.conversion_target
<1> DEFINE s == h.status
           a == h.conversion
           b == h.conversion_target
           k == [h EXCEPT !.is_fixed_target = x]
<1>1. h = [status |-> s, conversion |-> a, conversion_target |-> b,
           is_fixed_target |-> h.is_fixed_target]
  BY DEF IsHandle
<1> HIDE DEF s, a, b
<1>2. k = [status |-> s, conversion |-> a, conversion_target |-> b, is_fixed_target |-> x]
  BY <1>1
<1> HIDE DEF k
<1>3. k.status = s /\ k.conversion = a /\ k.conversion_target = b /\ k.is_fixed_target = x
  BY <1>2
<1>4. IsHandle(k)
  BY <1>2, <1>3 DEF IsHandle
<1> QED BY <1>3, <1>4 DEF s, a, b, k

LEMMA ConversionSet ==
  ASSUME NEW h, IsHandle(h), NEW t
  PROVE  LET k == [h EXCEPT !.conversion = t]
         IN  /\ IsHandle(k) /\ k.status = h.status /\ k.conversion = t
             /\ k.conversion_target = h.conversion_target
             /\ k.is_fixed_target = h.is_fixed_target
<1> DEFINE s == h.status
           b == h.conversion_target
           c == h.is_fixed_target
           k == [h EXCEPT !.conversion = t]
<1>1. h = [status |-> s, conversion |-> h.conversion, conversion_target |-> b, is_fixed_target |-> c]
  BY DEF IsHandle
<1> HIDE DEF s, b, c
<1>2. k = [status |-> s, conversion |-> t, conversion_target |-> b, is_fixed_target |-> c]
  BY <1>1
<1> HIDE DEF k
<1>3. k.status = s /\ k.conversion = t /\ k.conversion_target = b /\ k.is_fixed_target = c
  BY <1>2
<1>4. IsHandle(k)
  BY <1>2, <1>3 DEF IsHandle
<1> QED BY <1>3, <1>4 DEF s, b, c, k

LEMMA ChoiceSet ==
  ASSUME NEW h, IsHandle(h), NEW t
  PROVE  LET k == [h EXCEPT !.status = "conversion_set", !.conversion_target = t]
         IN  /\ IsHandle(k) /\ k.status = "conversion_set" /\ k.conversion = h.conversion
             /\ k.conversion_target = t /\ k.is_fixed_target = h.is_fixed_target
<1> DEFINE s == h.status
           a == h.conversion
           b == h.conversion_target
           c == h.is_fixed_target
           g == [h EXCEPT !.status = "conversion_set"]
           k == [h EXCEPT !.status = "conversion_set", !.conversion_target = t]
<1>1. h = [status |-> s, conversion |-> a, conversion_target |-> b, is_fixed_target |-> c]
  BY DEF IsHandle
<1>2. k = [g EXCEPT !.conversion_target = t]
  OBVIOUS
<1> HIDE DEF s, a, b, c, k
<1>3. g = [status |-> "conversion_set", conversion |-> a, conversion_target |-> b,
           is_fixed_target |-> c]
  BY <1>1
<1> HIDE DEF g
<1>4. k = [status |-> "conversion_set", conversion |-> a, conversion_target |-> t,
           is_fixed_target |-> c]
  BY <1>2, <1>3
<1>5. k.status = "conversion_set" /\ k.conversion = a /\ k.conversion_target = t
      /\ k.is_fixed_target = c
  BY <1>4
<1>6. IsHandle(k)
  BY <1>4, <1>5 DEF IsHandle
<1> QED BY <1>5, <1>6 DEF a, c, k

LEMMA SetConversionFacts ==
  ASSUME NEW h, IsHandle(h), NEW f, NEW t
  PROVE  LET k == SetConversion(h, f, t)
         IN  /\ IsHandle(k) /\ k.status = h.status /\ k.conversion_target = h.conversion_target
             /\ k.is_fixed_target = h.is_fixed_target
             /\ k.conversion = IF create_conversion(f, t) THEN t ELSE h.conversion
<1>1. CASE create_conversion(f, t)
  <2>1. SetConversion(h, f, t) = [h EXCEPT !.conversion = t]
    BY <1>1 DEF SetConversion
  <2> QED BY <1>1, <2>1, ConversionSet
<1>2. CASE ~create_conversion(f, t)
  <2>1. SetConversion(h, f, t) = h
    BY <1>2 DEF SetConversion
  <2> QED BY <1>2, <2>1
<1> QED BY <1>1, <1>2

\* FFS_determine_conversion makes the conversion to the target it chooses.
LEMMA DeterminedConverts ==
  ASSUME NEW kn, NEW hs, NEW f, IsHandle(hs[f])
  PROVE  LET k == Determined(kn, hs, f) IN IsHandle(k) /\ Converts(k, f)
<1> DEFINE list == Targets(kn, hs)
           n == FMformat_compat_cmp(f, list)
           k == Determined(kn, hs, f)
           t == list[n]
           g == SetConversion(hs[f], f, t)
<1>1. k = IF n = 0 THEN [hs[f] EXCEPT !.status = "none_available"]
          ELSE [g EXCEPT !.status = "conversion_set", !.conversion_target = t]
  BY DEF Determined
<1> HIDE DEF k, n, list
<1>2. CASE n = 0
  <2>1. k = [hs[f] EXCEPT !.status = "none_available"]
    BY <1>1, <1>2
  <2>2. IsHandle(k) /\ k.status = "none_available"
    BY <2>1, StatusSet
  <2> QED BY <2>2 DEF Converts, k
<1>3. CASE n # 0
  <2>1. k = [g EXCEPT !.status = "conversion_set", !.conversion_target = t]
    BY <1>1, <1>3
  <2>2. IsHandle(g) /\ g.conversion = IF create_conversion(f, t) THEN t ELSE hs[f].conversion
    BY SetConversionFacts
  <2> HIDE DEF t, g
  <2>3. IsHandle(k) /\ k.conversion = g.conversion /\ k.conversion_target = t
    BY <2>1, <2>2, ChoiceSet
  <2> QED BY <2>2, <2>3 DEF Converts, k
<1> QED BY <1>2, <1>3

-----------------------------------------------------------------------------
(***************************************************************************)
(* What they do to all of them.                                            *)
(***************************************************************************)
LEMMA HandleMade ==
  ASSUME NEW hs, HandlesOK(hs), NEW f
  PROVE  /\ HandlesOK(FFSTypeHandle_by_index(hs, f))
         /\ f \in DOMAIN FFSTypeHandle_by_index(hs, f)
<1> DEFINE hs1 == FFSTypeHandle_by_index(hs, f)
<1>1. /\ DOMAIN hs1 = DOMAIN hs \union {f}
      /\ \A g \in DOMAIN hs1 : hs1[g] = IF g \in DOMAIN hs THEN hs[g] ELSE NewHandle
  BY DEF FFSTypeHandle_by_index
<1>2. IsHandle(NewHandle) /\ NewHandle.status = "not_checked"
  BY DEF IsHandle, NewHandle
<1>3. \A g : Converts(NewHandle, g)
  BY <1>2 DEF Converts
<1> HIDE DEF hs1
<1>4. HandlesOK(hs1)
  BY <1>1, <1>2, <1>3 DEF HandlesOK
<1> QED BY <1>1, <1>4 DEF hs1

LEMMA HandleReplaced ==
  ASSUME NEW hs, HandlesOK(hs), NEW f \in DOMAIN hs, NEW k, IsHandle(k), Converts(k, f)
  PROVE  HandlesOK([hs EXCEPT ![f] = k])
<1> DEFINE hs2 == [hs EXCEPT ![f] = k]
<1>1. DOMAIN hs2 = DOMAIN hs /\ \A g \in DOMAIN hs : hs2[g] = IF g = f THEN k ELSE hs[g]
  OBVIOUS
<1> HIDE DEF hs2
<1>2. HandlesOK(hs2)
  BY <1>1 DEF HandlesOK
<1> QED BY <1>2 DEF hs2

LEMMA HandlesReset ==
  ASSUME NEW hs, HandlesOK(hs), NEW name
  PROVE  HandlesOK(reset_prior_conversions(hs, name))
<1> DEFINE hs2 == reset_prior_conversions(hs, name)
           cleared(f) == [hs[f] EXCEPT !.status = "not_checked"]
<1>1. DOMAIN hs2 = DOMAIN hs
      /\ \A f \in DOMAIN hs : hs2[f] = IF Body[f].name = name THEN cleared(f) ELSE hs[f]
  BY DEF reset_prior_conversions
<1>2. ASSUME NEW f \in DOMAIN hs PROVE IsHandle(cleared(f)) /\ Converts(cleared(f), f)
  <2>1. IsHandle(cleared(f)) /\ cleared(f).status = "not_checked"
    BY StatusSet DEF HandlesOK
  <2> HIDE DEF cleared
  <2> QED BY <2>1 DEF Converts
<1> HIDE DEF hs2, cleared
<1>3. HandlesOK(hs2)
  BY <1>1, <1>2 DEF HandlesOK
<1> QED BY <1>3 DEF hs2

-----------------------------------------------------------------------------
(***************************************************************************)
(* The steps and the theorem.                                              *)
(***************************************************************************)
LEMMA SetTargetInv ==
  ASSUME HandleInv, NEW f, FFSset_fixed_target(f)
  PROVE  HandleInv'
<1> DEFINE hs == FFSTypeHandle_by_index(handle, f)
           k == [hs[f] EXCEPT !.is_fixed_target = TRUE]
           hs2 == [hs EXCEPT ![f] = k]
<1>1. HandlesOK(hs) /\ f \in DOMAIN hs
  BY HandleMade DEF HandleInv
<1>2. handle' = reset_prior_conversions(hs2, Body[f].name)
  BY DEF FFSset_fixed_target
<1> HIDE DEF hs
<1>3. IsHandle(hs[f]) /\ Converts(hs[f], f)
  BY <1>1 DEF HandlesOK
<1>4. /\ IsHandle(k) /\ k.status = hs[f].status /\ k.conversion = hs[f].conversion
      /\ k.conversion_target = hs[f].conversion_target
  BY <1>3, FixedSet
<1> HIDE DEF k
<1>5. Converts(k, f)
  BY <1>3, <1>4, Zenon DEF Converts
<1>6. HandlesOK(hs2)
  BY <1>1, <1>4, <1>5, HandleReplaced
<1> HIDE DEF hs2
<1>7. HandlesOK(handle')
  BY <1>2, <1>6, HandlesReset
<1> QED BY <1>7 DEF HandleInv

LEMMA FromEncodeInv ==
  ASSUME HandleInv, NEW f, NEW choose, FromEncode(f, choose)
  PROVE  HandleInv'
<1> DEFINE hs1 == FFSTypeHandle_by_index(handle, f)
<1>1. HandlesOK(hs1) /\ f \in DOMAIN hs1
  BY HandleMade DEF HandleInv
<1>2. \/ handle' = hs1
      \/ \E kn : handle' = [hs1 EXCEPT ![f] = Determined(kn, hs1, f)]
  BY Zenon DEF FromEncode
<1> HIDE DEF hs1
<1>3. ASSUME NEW kn, handle' = [hs1 EXCEPT ![f] = Determined(kn, hs1, f)]
      PROVE  HandlesOK(handle')
  <2>1. IsHandle(hs1[f])
    BY <1>1 DEF HandlesOK
  <2>2. IsHandle(Determined(kn, hs1, f)) /\ Converts(Determined(kn, hs1, f), f)
    BY <2>1, DeterminedConverts
  <2> QED BY <1>1, <1>3, <2>2, HandleReplaced
<1>4. HandlesOK(handle')
  BY <1>1, <1>2, <1>3
<1> QED BY <1>4 DEF HandleInv

\* A handle without a conversion has no choice that could be converted to, so
\* the program's own conversion takes nothing away.
LEMMA EstablishInv ==
  ASSUME HandleInv, NEW f, NEW t, establish_conversion(f, t)
  PROVE  HandleInv'
<1> DEFINE h == handle[f]
           k == SetConversion(h, f, t)
<1>1. f \in DOMAIN handle /\ h.conversion = None /\ handle' = [handle EXCEPT ![f] = k]
  BY DEF establish_conversion
<1>2. IsHandle(h) /\ Converts(h, f)
  BY <1>1 DEF HandleInv, HandlesOK
<1>3. IsHandle(k) /\ k.status = h.status /\ k.conversion_target = h.conversion_target
  BY <1>2, SetConversionFacts
<1> HIDE DEF h, k
<1>4. ~ (/\ h.status = "conversion_set" /\ h.conversion_target # None
         /\ create_conversion(f, h.conversion_target))
  BY <1>1, <1>2 DEF Converts
<1>5. Converts(k, f)
  BY <1>3, <1>4, Zenon DEF Converts
<1>6. HandlesOK([handle EXCEPT ![f] = k])
  BY <1>1, <1>3, <1>5, HandleReplaced DEF HandleInv
<1> QED BY <1>1, <1>6 DEF HandleInv

LEMMA NextHandles ==
  ASSUME HandleInv, [Next]_vars
  PROVE  HandleInv'
<1>1. CASE UNCHANGED vars
  BY <1>1 DEF vars, HandleInv
<1>2. ASSUME NEW f \in Own, FFSset_fixed_target(f) PROVE HandleInv'
  BY <1>2, SetTargetInv
<1>3. ASSUME NEW f \in Incoming, FFS_target_from_encode(f) PROVE HandleInv'
  BY <1>3, FromEncodeInv DEF FFS_target_from_encode
<1>4. ASSUME NEW f \in Incoming, FFSdecode(f) PROVE HandleInv'
  BY <1>4, FromEncodeInv DEF FFSdecode
<1>5. ASSUME NEW f \in Format, NEW t \in ToSet(known), establish_conversion(f, t) PROVE HandleInv'
  BY <1>5, EstablishInv
<1>6. CASE free_FFSContext
  <2>1. DOMAIN handle' = {}
    BY <1>6 DEF free_FFSContext
  <2> QED BY <2>1 DEF HandleInv, HandlesOK
<1> QED BY <1>1, <1>2, <1>3, <1>4, <1>5, <1>6 DEF Next

\* DecodesAsReported always holds: whatever targets, decodes and conversions of
\* its own a program has used before, a record it decodes after asking
\* FFS_target_from_encode comes in the layout of the target it was told, if that
\* can be filled from the record.
THEOREM DecodeFollowsReport == Spec => []DecodesAsReported
<1>1. Init => HandleInv
  <2> SUFFICES ASSUME Init PROVE HandleInv
    OBVIOUS
  <2>1. DOMAIN handle = {}
    BY DEF Init
  <2> QED BY <2>1 DEF HandleInv, HandlesOK
<1>2. HandleInv /\ [Next]_vars => HandleInv'
  BY NextHandles
<1>3. HandleInv => DecodesAsReported
  <2> SUFFICES ASSUME HandleInv, NEW f \in DOMAIN handle,
                      Reported(handle[f]) # None, create_conversion(f, Reported(handle[f]))
               PROVE  DecodedTo(handle[f], f) = Reported(handle[f])
    BY DEF DecodesAsReported
  <2> DEFINE h == handle[f]
  <2>1. Converts(h, f)
    BY DEF HandleInv, HandlesOK
  <2> HIDE DEF h
  <2>2. h.status = "conversion_set" /\ Reported(h) = h.conversion_target
    BY DEF Reported, h
  <2>3. h.conversion = h.conversion_target /\ h.conversion # None
    BY <2>1, <2>2 DEF Converts, h
  <2> QED BY <2>2, <2>3 DEF DecodedTo, h
<1> QED BY <1>1, <1>2, <1>3, PTL DEF Spec

-----------------------------------------------------------------------------
(***************************************************************************)
(* Recursive definitions.                                                  *)
(***************************************************************************)
LEMMA HasLeast ==
  ASSUME NEW S \in SUBSET Nat, S # {}
  PROVE  \E x \in S : \A y \in S : x <= y
<1>1. PICK x \in S : \A y \in S : ~ (<<y, x>> \in OpToRel(<, Nat))
  BY WFMin, NatLessThanWellFounded
<1>2. \A y \in S : ~ (y < x)
  BY <1>1 DEF OpToRel
<1> QED BY <1>2

\* What holds first and is kept holds throughout.
LEMMA Upwards ==
  ASSUME NEW n \in Nat, NEW S, 0 \in S,
         \A i \in 1 .. n : i - 1 \in S => i \in S
  PROVE  \A i \in 0 .. n : i \in S
<1> DEFINE Bad == {i \in 0 .. n : i \notin S}
<1> SUFFICES ASSUME Bad # {} PROVE FALSE
  OBVIOUS
<1>1. Bad \in SUBSET Nat
  OBVIOUS
<1>2. PICK i \in Bad : \A j \in Bad : i <= j
  BY <1>1, HasLeast
<1>3. i \in 0 .. n /\ i \notin S /\ i # 0
  OBVIOUS
<1>4. i \in 1 .. n /\ i - 1 \in 0 .. n /\ ~ (i <= i - 1)
  BY <1>3
<1>5. i - 1 \in S
  BY <1>2, <1>4
<1> QED BY <1>3, <1>4, <1>5

\* n steps F[1] .. F[n] that stay in T, and the values g they lead through from x.
Steps(F, n, T) == F \in [1 .. n -> [T -> T]]
Leads(g, F, n, T, x) ==
    g \in [0 .. n -> T] /\ g[0] = x /\ \A i \in 1 .. n : g[i] = F[i][g[i - 1]]

LEMMA Iterates ==
  ASSUME NEW n \in Nat, NEW T, NEW x \in T, NEW F, Steps(F, n, T)
  PROVE  \E g : Leads(g, F, n, T, x)
<1> USE DEF Steps
<1> DEFINE Upto(k, g) == g[0] = x /\ \A i \in 1 .. k : g[i] = F[i][g[i - 1]]
           S == {k \in 0 .. n : \E g \in [0 .. k -> T] : Upto(k, g)}
<1>1. 0 \in S
  <2> DEFINE g == [i \in 0 .. 0 |-> x]
  <2>1. g \in [0 .. 0 -> T] /\ Upto(0, g)
    OBVIOUS
  <2>2. 0 \in 0 .. n
    OBVIOUS
  <2> HIDE DEF g, Upto
  <2> QED BY <2>1, <2>2
<1>2. ASSUME NEW k \in 1 .. n, k - 1 \in S
      PROVE  k \in S
  <2>1. PICK g \in [0 .. (k - 1) -> T] : Upto(k - 1, g)
    BY <1>2
  <2> DEFINE y == F[k][g[k - 1]]
             h == [i \in 0 .. k |-> IF i = k THEN y ELSE g[i]]
  <2>2. k - 1 \in 0 .. (k - 1) /\ k \in Nat
    OBVIOUS
  <2>3. y \in T
    <3>1. g[k - 1] \in T
      BY <2>2
    <3>2. F[k] \in [T -> T]
      OBVIOUS
    <3> QED BY <3>1, <3>2
  <2> HIDE DEF y
  <2>4. h \in [0 .. k -> T]
    BY <2>3
  <2>5. /\ \A i \in 0 .. k : h[i] = IF i = k THEN y ELSE g[i]
    OBVIOUS
  <2> HIDE DEF h
  <2>6. h[0] = x
    BY <2>1, <2>5
  <2>7. ASSUME NEW i \in 1 .. k PROVE h[i] = F[i][h[i - 1]]
    <3>1. h[i - 1] = g[i - 1]
      BY <2>5
    <3>2. CASE i = k
      BY <2>5, <3>1, <3>2 DEF y
    <3>3. CASE i # k
      <4>1. i \in 1 .. (k - 1) /\ h[i] = g[i]
        BY <2>5, <3>3
      <4> QED BY <2>1, <3>1, <4>1
    <3> QED BY <3>2, <3>3
  <2>8. Upto(k, h)
    BY <2>6, <2>7
  <2>9. k \in 0 .. n
    OBVIOUS
  <2> HIDE DEF Upto
  <2> QED BY <2>4, <2>8, <2>9
<1> HIDE DEF S
<1>3. \A i \in 0 .. n : i \in S
  BY <1>1, <1>2, Upwards
<1>4. n \in S
  BY <1>3
<1> QED BY <1>4 DEF S, Leads
-----------------------------------------------------------------------------
(***************************************************************************)
(* Comparing a format with a list of targets.                              *)
(***************************************************************************)
LEMMA MissingFinite ==
  ASSUME NEW f \in Format, NEW g \in Format
  PROVE  MissingFrom(f, g) \in Nat
<1> DEFINE Top == Missing(Body[f].fields, Body[g].fields)
           In(s) == {s} \X Missing(Body[f].subs[s], Body[g].subs[s])
           Subs == {In(s) : s \in CommonSubs(f, g)}
<1>1. /\ IsFiniteSet(DOMAIN Body[f].fields) /\ IsFiniteSet(DOMAIN Body[f].subs)
      /\ \A s \in DOMAIN Body[f].subs : IsFiniteSet(DOMAIN Body[f].subs[s])
  BY BodyAssumption
<1>2. IsFiniteSet(Top)
  <2>1. Top \subseteq DOMAIN Body[f].fields
    BY DEF Missing
  <2> QED BY <1>1, <2>1, FS_Subset
<1>3. ASSUME NEW s \in CommonSubs(f, g) PROVE IsFiniteSet(In(s))
  <2> DEFINE M == Missing(Body[f].subs[s], Body[g].subs[s])
  <2>1. M \subseteq DOMAIN Body[f].subs[s]
    BY DEF Missing
  <2>2. IsFiniteSet(DOMAIN Body[f].subs[s])
    BY <1>1 DEF CommonSubs
  <2> HIDE DEF M
  <2>3. IsFiniteSet(M)
    BY <2>1, <2>2, FS_Subset
  <2>4. IsFiniteSet({s} \X M)
    BY <2>3, FS_Singleton, FS_Product
  <2> QED BY <2>4 DEF M
<1>4. IsFiniteSet(Subs)
  <2>1. CommonSubs(f, g) \subseteq DOMAIN Body[f].subs
    BY DEF CommonSubs
  <2>2. IsFiniteSet(CommonSubs(f, g))
    BY <1>1, <2>1, FS_Subset
  <2> HIDE DEF In
  <2> DEFINE F == [s \in CommonSubs(f, g) |-> In(s)]
  <2>3. F \in Surjection(CommonSubs(f, g), Subs)
    BY DEF Surjection
  <2> HIDE DEF F, Subs
  <2> QED BY <2>2, <2>3, FS_Surjection
<1>5. IsFiniteSet(UNION Subs)
  <2>1. \A S \in Subs : IsFiniteSet(S)
    BY <1>3
  <2> HIDE DEF Subs
  <2> QED BY <1>4, <2>1, FS_UNION
<1>6. MissingFrom(f, g) = Cardinality(Top) + Cardinality(UNION Subs)
  BY DEF MissingFrom
<1> HIDE DEF Top, Subs
<1>7. Cardinality(Top) \in Nat /\ Cardinality(UNION Subs) \in Nat
  BY <1>2, <1>5, FS_CardinalityType
<1> QED BY <1>6, <1>7

\* The numbers of differences.
LEMMA DiffType ==
  ASSUME NEW f \in Format, NEW g \in Format
  PROVE  Diff(f, g) = FMformat_cmp_diff(f, g) /\ Diff(f, g) \in [diff1 : Nat, diff2 : Nat]
<1> DEFINE d == FMformat_cmp_diff(f, g)
           e == CHOOSE e \in Differences : e[1] = f /\ e[2] = g
<1>1. <<f, g, d>> \in Differences
  BY DEF Differences
<1>2. e \in Differences /\ e[1] = f /\ e[2] = g
  <2>1. <<f, g, d>>[1] = f /\ <<f, g, d>>[2] = g
    OBVIOUS
  <2> HIDE DEF d
  <2> QED BY <1>1, <2>1
<1> HIDE DEF e
<1>3. PICK a \in Format, b \in Format : e = <<a, b, FMformat_cmp_diff(a, b)>>
  BY <1>2 DEF Differences
<1>4. e[3] = d
  BY <1>2, <1>3
<1>5. Diff(f, g) = d
  BY <1>4 DEF Diff, e
<1>6. d \in [diff1 : Nat, diff2 : Nat]
  BY MissingFinite DEF FMformat_cmp_diff
<1> QED BY <1>5, <1>6

Result(n) == [diff1 : Nat, diff2 : Nat, nearest : 0 .. n]

LEMMA ComparedType ==
  ASSUME NEW f \in Format, NEW t \in Format, NEW n \in Nat, NEW i \in 1 .. n,
         NEW b \in Result(n)
  PROVE  Compared(f, t, i, b, Diff(f, t)) \in Result(n)
<1> DEFINE d == Diff(f, t)
           r == [diff1 |-> d.diff1, diff2 |-> d.diff2, nearest |-> i]
<1>1. d.diff1 \in Nat /\ d.diff2 \in Nat
  BY DiffType
<1>2. Compared(f, t, i, b, d) \in {b, r}
  BY DEF Compared
<1> HIDE DEF d
<1>3. i \in 0 .. n
  OBVIOUS
<1>4. r \in Result(n)
  BY <1>1, <1>3 DEF Result
<1> HIDE DEF r
<1> QED BY <1>2, <1>4 DEF d

\* The loop of IOformat_list_cmp.
LEMMA ScanDefined ==
  ASSUME NEW f \in Format, NEW list \in Seq(Format), NEW best,
         best.diff1 \in Nat, best.diff2 \in Nat
  PROVE  LET s == Scan(f, list, best)
         IN  /\ s[0] = [diff1 |-> best.diff1, diff2 |-> best.diff2, nearest |-> 0]
             /\ \A i \in 1 .. Len(list) :
                   s[i] = Compared(f, list[i], i, s[i - 1], Diff(f, list[i]))
<1> DEFINE n == Len(list)
           x == [diff1 |-> best.diff1, diff2 |-> best.diff2, nearest |-> 0]
           T == Result(n)
           Step(i, b) == Compared(f, list[i], i, b, Diff(f, list[i]))
           Eq(g) == g = [i \in 0 .. n |-> IF i = 0 THEN x ELSE Step(i, g[i - 1])]
           F == [i \in 1 .. n |-> [b \in T |-> Step(i, b)]]
           s == Scan(f, list, best)
<1>1. n \in Nat /\ \A i \in 1 .. n : list[i] \in Format
  BY LenProperties, ElementOfSeq
<1>2. x \in T
  BY <1>1 DEF Result
<1>3. \A i \in 1 .. n : \A b \in T : Step(i, b) \in T
  BY <1>1, ComparedType
<1>4. s = CHOOSE g : Eq(g)
  BY DEF Scan
<1> HIDE DEF n, x, T, Step, s
<1>5. F \in [1 .. n -> [T -> T]]
  BY <1>3
<1>6. \A i \in 1 .. n : \A b \in T : F[i][b] = Step(i, b)
  OBVIOUS
<1> HIDE DEF F
<1>7. PICK g : g \in [0 .. n -> T] /\ g[0] = x /\ \A i \in 1 .. n : g[i] = F[i][g[i - 1]]
  <2>1. n \in Nat /\ Steps(F, n, T)
    BY <1>1, <1>5 DEF Steps
  <2>2. \E g : Leads(g, F, n, T, x)
    BY <1>2, <2>1, Iterates
  <2> QED BY <2>2 DEF Leads
<1>8. \A i \in 1 .. n : g[i] = Step(i, g[i - 1])
  <2> TAKE i \in 1 .. n
  <2>1. i - 1 \in 0 .. n
    BY <1>1
  <2>2. g[i - 1] \in T
    BY <1>7, <2>1
  <2> QED BY <1>6, <1>7, <2>2
<1>9. Eq(g)
  <2>1. \A i \in 0 .. n : g[i] = IF i = 0 THEN x ELSE Step(i, g[i - 1])
    <3> TAKE i \in 0 .. n
    <3>1. CASE i = 0
      BY <1>7, <3>1
    <3>2. CASE i # 0
      <4>1. i \in 1 .. n
        BY <1>1, <3>2
      <4> QED BY <1>8, <3>2, <4>1
    <3> QED BY <3>1, <3>2
  <2>2. g = [i \in 0 .. n |-> g[i]]
    BY <1>7
  <2> QED BY <2>1, <2>2
<1>10. Eq(s)
  BY <1>4, <1>9
<1>11. s[0] = x
  <2>1. 0 \in 0 .. n
    BY <1>1
  <2> QED BY <1>10, <2>1
<1>12. \A i \in 1 .. n : s[i] = Step(i, s[i - 1])
  <2> TAKE i \in 1 .. n
  <2>1. i \in 0 .. n /\ i # 0
    BY <1>1
  <2> QED BY <1>10, <2>1
<1> QED BY <1>11, <1>12 DEF n, x, Step, s

LEMMA ScanType ==
  ASSUME NEW f \in Format, NEW list \in Seq(Format), NEW best,
         best.diff1 \in Nat, best.diff2 \in Nat
  PROVE  \A i \in 0 .. Len(list) : Scan(f, list, best)[i] \in Result(Len(list))
<1> DEFINE s == Scan(f, list, best)
           n == Len(list)
           S == {i \in 0 .. n : s[i] \in Result(n)}
<1>1. n \in Nat /\ \A i \in 1 .. n : list[i] \in Format
  BY LenProperties, ElementOfSeq
<1>2. /\ s[0] = [diff1 |-> best.diff1, diff2 |-> best.diff2, nearest |-> 0]
      /\ \A i \in 1 .. n : s[i] = Compared(f, list[i], i, s[i - 1], Diff(f, list[i]))
  BY ScanDefined
<1> HIDE DEF s, n
<1>3. 0 \in S
  BY <1>1, <1>2 DEF Result
<1>4. ASSUME NEW i \in 1 .. n, i - 1 \in S PROVE i \in S
  <2>1. s[i - 1] \in Result(n)
    BY <1>4
  <2>2. s[i] \in Result(n)
    BY <1>1, <1>2, <2>1, ComparedType
  <2> QED BY <1>1, <2>2
<1> HIDE DEF S
<1>5. \A i \in 0 .. n : i \in S
  BY <1>1, <1>3, <1>4, Upwards
<1> QED BY <1>5 DEF S, s, n

\* What IOformat_list_cmp returns.
LEMMA ListCmpType ==
  ASSUME NEW f \in Format, NEW list \in Seq(Format), NEW best,
         best.diff1 \in Nat, best.diff2 \in Nat
  PROVE  IOformat_list_cmp(f, list, best) \in Result(Len(list))
<1>1. Len(list) \in Nat
  BY LenProperties
<1>2. Len(list) \in 0 .. Len(list)
  BY <1>1
<1> QED BY <1>2, ScanType DEF IOformat_list_cmp

\* The loop that collects the fixed targets.
LEMMA TargetsDefined ==
  ASSUME NEW kn \in Seq(Format), NEW hs
  PROVE  LET s == TargetsUpTo(kn, hs)
         IN  /\ s[0] = << >>
             /\ \A i \in 1 .. Len(kn) :
                   s[i] = IF Fixed(hs, kn[i]) THEN Append(s[i - 1], kn[i]) ELSE s[i - 1]
             /\ \A i \in 0 .. Len(kn) : s[i] \in Seq(Format)
<1> DEFINE n == Len(kn)
           x == << >>
           T == Seq(Format)
           Step(i, b) == IF Fixed(hs, kn[i]) THEN Append(b, kn[i]) ELSE b
           Eq(g) == g = [i \in 0 .. n |-> IF i = 0 THEN x ELSE Step(i, g[i - 1])]
           F == [i \in 1 .. n |-> [b \in T |-> Step(i, b)]]
           s == TargetsUpTo(kn, hs)
<1>1. n \in Nat /\ \A i \in 1 .. n : kn[i] \in Format
  BY LenProperties, ElementOfSeq
<1>2. x \in T
  OBVIOUS
<1>3. \A i \in 1 .. n : \A b \in T : Step(i, b) \in T
  BY <1>1
<1>4. s = CHOOSE g : Eq(g)
  BY DEF TargetsUpTo
<1> HIDE DEF n, x, T, Step, s
<1>5. F \in [1 .. n -> [T -> T]]
  BY <1>3
<1>6. \A i \in 1 .. n : \A b \in T : F[i][b] = Step(i, b)
  OBVIOUS
<1> HIDE DEF F
<1>7. PICK g : g \in [0 .. n -> T] /\ g[0] = x /\ \A i \in 1 .. n : g[i] = F[i][g[i - 1]]
  <2>1. n \in Nat /\ Steps(F, n, T)
    BY <1>1, <1>5 DEF Steps
  <2>2. \E g : Leads(g, F, n, T, x)
    BY <1>2, <2>1, Iterates
  <2> QED BY <2>2 DEF Leads
<1>8. \A i \in 1 .. n : g[i] = Step(i, g[i - 1])
  <2> TAKE i \in 1 .. n
  <2>1. i - 1 \in 0 .. n
    BY <1>1
  <2>2. g[i - 1] \in T
    BY <1>7, <2>1
  <2> QED BY <1>6, <1>7, <2>2
<1>9. Eq(g)
  <2>1. \A i \in 0 .. n : g[i] = IF i = 0 THEN x ELSE Step(i, g[i - 1])
    <3> TAKE i \in 0 .. n
    <3>1. CASE i = 0
      BY <1>7, <3>1
    <3>2. CASE i # 0
      <4>1. i \in 1 .. n
        BY <1>1, <3>2
      <4> QED BY <1>8, <3>2, <4>1
    <3> QED BY <3>1, <3>2
  <2>2. g = [i \in 0 .. n |-> g[i]]
    BY <1>7
  <2> QED BY <2>1, <2>2
<1>10. Eq(s)
  BY <1>4, <1>9
<1>11. s[0] = x
  <2>1. 0 \in 0 .. n
    BY <1>1
  <2> QED BY <1>10, <2>1
<1>12. \A i \in 1 .. n : s[i] = Step(i, s[i - 1])
  <2> TAKE i \in 1 .. n
  <2>1. i \in 0 .. n /\ i # 0
    BY <1>1
  <2> QED BY <1>10, <2>1
<1> DEFINE S == {i \in 0 .. n : s[i] \in T}
<1>13. 0 \in S
  BY <1>1, <1>2, <1>11
<1>14. ASSUME NEW i \in 1 .. n, i - 1 \in S PROVE i \in S
  BY <1>1, <1>3, <1>12, <1>14
<1> HIDE DEF S
<1>15. \A i \in 0 .. n : i \in S
  BY <1>1, <1>13, <1>14, Upwards
<1>16. \A i \in 0 .. n : s[i] \in T
  BY <1>15 DEF S
<1> QED BY <1>11, <1>12, <1>16 DEF n, x, Step, T, s

\* The loop over the older formats.
LEMMA OlderDefined ==
  ASSUME NEW f \in Format, NEW list \in Seq(Format), NEW own \in Result(Len(list))
  PROVE  LET s == OlderTried(f, list, own)
             fs == Body[f].prior
         IN  /\ s[0] = own
             /\ \A k \in 1 .. Len(fs) :
                   s[k] = TryOlder(s[k - 1], IOformat_list_cmp(fs[k], list, s[k - 1]))
             /\ \A k \in 0 .. Len(fs) : s[k] \in Result(Len(list))
<1> DEFINE fs == Body[f].prior
           n == Len(fs)
           x == own
           T == Result(Len(list))
           Step(i, b) == TryOlder(b, IOformat_list_cmp(fs[i], list, b))
           Eq(g) == g = [i \in 0 .. n |-> IF i = 0 THEN x ELSE Step(i, g[i - 1])]
           F == [i \in 1 .. n |-> [b \in T |-> Step(i, b)]]
           s == OlderTried(f, list, own)
<1>0. fs \in Seq(Format)
  BY BodyAssumption
<1>1. n \in Nat /\ \A i \in 1 .. n : fs[i] \in Format
  <2> HIDE DEF fs
  <2> QED BY <1>0, LenProperties, ElementOfSeq
<1>2. x \in T
  OBVIOUS
<1>3. \A i \in 1 .. n : \A b \in T : Step(i, b) \in T
  <2> HIDE DEF n, fs
  <2> TAKE i \in 1 .. n
  <2> TAKE b \in T
  <2>1. b.diff1 \in Nat /\ b.diff2 \in Nat
    BY DEF Result
  <2>2. fs[i] \in Format
    BY <1>1
  <2>3. IOformat_list_cmp(fs[i], list, b) \in T
    BY <2>1, <2>2, ListCmpType
  <2> QED BY <2>3 DEF TryOlder
<1>4. s = CHOOSE g : Eq(g)
  BY DEF OlderTried
<1> HIDE DEF n, x, T, Step, s
<1>5. F \in [1 .. n -> [T -> T]]
  BY <1>3
<1>6. \A i \in 1 .. n : \A b \in T : F[i][b] = Step(i, b)
  OBVIOUS
<1> HIDE DEF F
<1>7. PICK g : g \in [0 .. n -> T] /\ g[0] = x /\ \A i \in 1 .. n : g[i] = F[i][g[i - 1]]
  <2>1. n \in Nat /\ Steps(F, n, T)
    BY <1>1, <1>5 DEF Steps
  <2>2. \E g : Leads(g, F, n, T, x)
    BY <1>2, <2>1, Iterates
  <2> QED BY <2>2 DEF Leads
<1>8. \A i \in 1 .. n : g[i] = Step(i, g[i - 1])
  <2> TAKE i \in 1 .. n
  <2>1. i - 1 \in 0 .. n
    BY <1>1
  <2>2. g[i - 1] \in T
    BY <1>7, <2>1
  <2> QED BY <1>6, <1>7, <2>2
<1>9. Eq(g)
  <2>1. \A i \in 0 .. n : g[i] = IF i = 0 THEN x ELSE Step(i, g[i - 1])
    <3> TAKE i \in 0 .. n
    <3>1. CASE i = 0
      BY <1>7, <3>1
    <3>2. CASE i # 0
      <4>1. i \in 1 .. n
        BY <1>1, <3>2
      <4> QED BY <1>8, <3>2, <4>1
    <3> QED BY <3>1, <3>2
  <2>2. g = [i \in 0 .. n |-> g[i]]
    BY <1>7
  <2> QED BY <2>1, <2>2
<1>10. Eq(s)
  BY <1>4, <1>9
<1>11. s[0] = x
  <2>1. 0 \in 0 .. n
    BY <1>1
  <2> QED BY <1>10, <2>1
<1>12. \A i \in 1 .. n : s[i] = Step(i, s[i - 1])
  <2> TAKE i \in 1 .. n
  <2>1. i \in 0 .. n /\ i # 0
    BY <1>1
  <2> QED BY <1>10, <2>1
<1> DEFINE S == {i \in 0 .. n : s[i] \in T}
<1>13. 0 \in S
  BY <1>1, <1>2, <1>11
<1>14. ASSUME NEW i \in 1 .. n, i - 1 \in S PROVE i \in S
  BY <1>1, <1>3, <1>12, <1>14
<1> HIDE DEF S
<1>15. \A i \in 0 .. n : i \in S
  BY <1>1, <1>13, <1>14, Upwards
<1>16. \A i \in 0 .. n : s[i] \in T
  BY <1>15 DEF S
<1> QED BY <1>11, <1>12, <1>16 DEF n, x, Step, T, s

-----------------------------------------------------------------------------
(***************************************************************************)
(* The choice does not depend on targets of another name.  A result is     *)
(* taken with the target itself in place of its index, as indices move     *)
(* when targets are added.                                                 *)
(***************************************************************************)
Named(r, list) == [diff1 |-> r.diff1, diff2 |-> r.diff2,
                   target |-> IF r.nearest = 0 THEN None ELSE list[r.nearest]]

NamedCompared(f, t, b, d) ==
    IF (b.target # None /\ b.diff1 = 0 /\ b.diff2 = 0) \/ Body[f].name # Body[t].name THEN b
    ELSE IF (d.diff1 = 0 /\ d.diff2 = 0) \/ Closer(d, b)
    THEN [diff1 |-> d.diff1, diff2 |-> d.diff2, target |-> t]
    ELSE b

Nearest(f, list, best) == Named(IOformat_list_cmp(f, list, best), list)

LEMMA ScanAppend ==
  ASSUME NEW f \in Format, NEW list \in Seq(Format), NEW x \in Format, NEW best,
         best.diff1 \in Nat, best.diff2 \in Nat
  PROVE  IOformat_list_cmp(f, Append(list, x), best)
            = Compared(f, x, Len(list) + 1, IOformat_list_cmp(f, list, best), Diff(f, x))
<1> DEFINE n == Len(list)
           list2 == Append(list, x)
           s == Scan(f, list, best)
           s2 == Scan(f, list2, best)
           S == {i \in 0 .. n : s2[i] = s[i]}
<1>1. /\ n \in Nat /\ list2 \in Seq(Format) /\ Len(list2) = n + 1 /\ list2[n + 1] = x
      /\ \A i \in 1 .. n : list2[i] = list[i]
  BY LenProperties, AppendProperties
<1>2. /\ s[0] = [diff1 |-> best.diff1, diff2 |-> best.diff2, nearest |-> 0]
      /\ \A i \in 1 .. n : s[i] = Compared(f, list[i], i, s[i - 1], Diff(f, list[i]))
  BY ScanDefined
<1> HIDE DEF list2
<1>3. /\ s2[0] = [diff1 |-> best.diff1, diff2 |-> best.diff2, nearest |-> 0]
      /\ \A i \in 1 .. Len(list2) :
            s2[i] = Compared(f, list2[i], i, s2[i - 1], Diff(f, list2[i]))
  BY <1>1, ScanDefined
<1>4. IOformat_list_cmp(f, list2, best) = s2[n + 1] /\ IOformat_list_cmp(f, list, best) = s[n]
  BY <1>1 DEF IOformat_list_cmp
<1> HIDE DEF n, s, s2
<1>5. 0 \in S
  BY <1>1, <1>2, <1>3
<1>6. ASSUME NEW i \in 1 .. n, i - 1 \in S PROVE i \in S
  <2>1. i \in 1 .. Len(list2) /\ i \in 0 .. n /\ s2[i - 1] = s[i - 1] /\ list2[i] = list[i]
    BY <1>1, <1>6
  <2>2. s2[i] = s[i]
    BY <1>2, <1>3, <2>1, Zenon
  <2> QED BY <2>1, <2>2
<1> HIDE DEF S
<1>7. \A i \in 0 .. n : i \in S
  BY <1>1, <1>5, <1>6, Upwards
<1>8. s2[n] = s[n]
  <2>1. n \in S
    BY <1>1, <1>7
  <2> QED BY <2>1 DEF S
<1>9. n + 1 \in 1 .. Len(list2) /\ (n + 1) - 1 = n
  BY <1>1
<1>10. s2[n + 1] = Compared(f, x, n + 1, s2[n], Diff(f, x))
  BY <1>1, <1>3, <1>9, Zenon
<1> QED BY <1>4, <1>8, <1>10 DEF list2, n

LEMMA NamedAppend ==
  ASSUME NEW f \in Format, NEW list \in Seq(Format), NEW x \in Format,
         NEW r \in Result(Len(list)), NEW d
  PROVE  Named(Compared(f, x, Len(list) + 1, r, d), Append(list, x))
            = NamedCompared(f, x, Named(r, list), d)
<1> DEFINE n == Len(list)
           list2 == Append(list, x)
           new == [diff1 |-> d.diff1, diff2 |-> d.diff2, nearest |-> n + 1]
           b == Named(r, list)
<1>1. /\ n \in Nat /\ list2[n + 1] = x /\ \A i \in 1 .. n : list2[i] = list[i]
      /\ \A i \in 1 .. n : list[i] \in Format
  BY LenProperties, AppendProperties, ElementOfSeq
<1>2. r.nearest \in 0 .. n /\ n + 1 # 0
  BY <1>1 DEF Result
<1>3. None \notin Format
  BY BodyAssumption
<1> HIDE DEF n, list2
<1>4. /\ b.diff1 = r.diff1 /\ b.diff2 = r.diff2
      /\ b.target = IF r.nearest = 0 THEN None ELSE list[r.nearest]
  BY DEF Named
<1>5. r.nearest # 0 => r.nearest \in 1 .. n
  BY <1>1, <1>2
<1>6. b.target # None <=> r.nearest # 0
  BY <1>1, <1>3, <1>4, <1>5
<1>7. Named(r, list2) = b
  <2>1. r.nearest # 0 => list2[r.nearest] = list[r.nearest]
    BY <1>1, <1>5
  <2> QED BY <2>1 DEF Named
<1>8. new.nearest = n + 1 /\ new.diff1 = d.diff1 /\ new.diff2 = d.diff2
  OBVIOUS
<1>9. Named(new, list2) = [diff1 |-> d.diff1, diff2 |-> d.diff2, target |-> x]
  <2> HIDE DEF new
  <2> QED BY <1>1, <1>2, <1>8, Zenon DEF Named
<1>10. (NoDifference(r) <=> (b.target # None /\ b.diff1 = 0 /\ b.diff2 = 0))
       /\ (Closer(d, r) <=> Closer(d, b))
  BY <1>4, <1>6 DEF NoDifference, Closer
<1> HIDE DEF b
<1>11. Compared(f, x, n + 1, r, d) =
         IF (b.target # None /\ b.diff1 = 0 /\ b.diff2 = 0) \/ Body[f].name # Body[x].name THEN r
         ELSE IF (d.diff1 = 0 /\ d.diff2 = 0) \/ Closer(d, b) THEN new ELSE r
  BY <1>10, Zenon DEF Compared
<1> HIDE DEF new
<1>12. Named(Compared(f, x, n + 1, r, d), list2) = NamedCompared(f, x, b, d)
  BY <1>7, <1>9, <1>11 DEF NamedCompared
<1> QED BY <1>12 DEF n, list2, b

\* One more format of the context: it counts if it is a fixed target.
LEMMA NearestAlong ==
  ASSUME NEW f \in Format, NEW kn \in Seq(Format), NEW hs, NEW best,
         best.diff1 \in Nat, best.diff2 \in Nat
  PROVE  LET N(i) == Nearest(f, TargetsUpTo(kn, hs)[i], best)
         IN  /\ N(0) = [diff1 |-> best.diff1, diff2 |-> best.diff2, target |-> None]
             /\ \A i \in 1 .. Len(kn) :
                   N(i) = IF Fixed(hs, kn[i]) THEN NamedCompared(f, kn[i], N(i - 1), Diff(f, kn[i]))
                          ELSE N(i - 1)
<1> DEFINE U == TargetsUpTo(kn, hs)
           N(i) == Nearest(f, U[i], best)
<1>1. /\ U[0] = << >>
      /\ \A i \in 1 .. Len(kn) :
            U[i] = IF Fixed(hs, kn[i]) THEN Append(U[i - 1], kn[i]) ELSE U[i - 1]
      /\ \A i \in 0 .. Len(kn) : U[i] \in Seq(Format)
  BY TargetsDefined
<1> HIDE DEF U
<1>2. N(0) = [diff1 |-> best.diff1, diff2 |-> best.diff2, target |-> None]
  <2>1. << >> \in Seq(Format) /\ Len(<< >>) = 0
    OBVIOUS
  <2>2. Scan(f, << >>, best)[0] = [diff1 |-> best.diff1, diff2 |-> best.diff2, nearest |-> 0]
    BY <2>1, ScanDefined
  <2>3. IOformat_list_cmp(f, << >>, best) = Scan(f, << >>, best)[0]
    BY <2>1 DEF IOformat_list_cmp
  <2> QED BY <1>1, <2>2, <2>3 DEF Nearest, Named
<1>3. ASSUME NEW i \in 1 .. Len(kn), Fixed(hs, kn[i])
      PROVE  N(i) = NamedCompared(f, kn[i], N(i - 1), Diff(f, kn[i]))
  <2> DEFINE L == U[i - 1]
             x == kn[i]
             r == IOformat_list_cmp(f, L, best)
  <2>1. Len(kn) \in Nat /\ kn[i] \in Format
    BY LenProperties, ElementOfSeq
  <2>2. i - 1 \in 0 .. Len(kn)
    BY <2>1
  <2>3. L \in Seq(Format) /\ U[i] = Append(L, x)
    BY <1>1, <1>3, <2>2
  <2>4. x \in Format
    BY <2>1
  <2>5. N(i) = Named(IOformat_list_cmp(f, Append(L, x), best), Append(L, x)) /\ N(i - 1) = Named(r, L)
    BY <2>3 DEF Nearest
  <2> HIDE DEF L, x, N
  <2>6. r \in Result(Len(L))
    BY <2>3, ListCmpType
  <2>7. IOformat_list_cmp(f, Append(L, x), best) = Compared(f, x, Len(L) + 1, r, Diff(f, x))
    BY <2>3, <2>4, ScanAppend
  <2> HIDE DEF r
  <2>8. N(i) = NamedCompared(f, x, Named(r, L), Diff(f, x))
    BY <2>3, <2>4, <2>5, <2>6, <2>7, NamedAppend
  <2> QED BY <2>5, <2>8 DEF x
<1>4. ASSUME NEW i \in 1 .. Len(kn), ~Fixed(hs, kn[i])
      PROVE  N(i) = N(i - 1)
  BY <1>1, <1>4
<1> QED BY <1>2, <1>3, <1>4 DEF U

\* kn2 with the targets of hs2 has the same targets of a name as kn with those of hs.
SameTargets(kn, hs, kn2, hs2, name) ==
    /\ kn \in Seq(Format) /\ kn2 \in Seq(Format) /\ Len(kn) <= Len(kn2)
    /\ \A i \in 1 .. Len(kn) :
          /\ kn2[i] = kn[i]
          /\ Body[kn[i]].name = name => (Fixed(hs2, kn[i]) <=> Fixed(hs, kn[i]))
    /\ \A i \in 1 .. Len(kn2) :
          i > Len(kn) /\ Body[kn2[i]].name = name => ~Fixed(hs2, kn2[i])

LEMMA NearestSame ==
  ASSUME NEW f \in Format, NEW kn, NEW hs, NEW kn2, NEW hs2,
         SameTargets(kn, hs, kn2, hs2, Body[f].name),
         NEW best, best.diff1 \in Nat, best.diff2 \in Nat
  PROVE  Nearest(f, Targets(kn2, hs2), best) = Nearest(f, Targets(kn, hs), best)
<1> DEFINE n == Len(kn)
           m == Len(kn2)
           N(i) == Nearest(f, TargetsUpTo(kn, hs)[i], best)
           M(i) == Nearest(f, TargetsUpTo(kn2, hs2)[i], best)
           C(t, b) == NamedCompared(f, t, b, Diff(f, t))
           S == {i \in 0 .. m : M(i) = IF i <= n THEN N(i) ELSE N(n)}
<1>1. kn \in Seq(Format) /\ kn2 \in Seq(Format)
  BY DEF SameTargets
<1>2. n \in Nat /\ m \in Nat /\ n <= m
  BY <1>1, LenProperties DEF SameTargets
<1>3. /\ \A i \in 1 .. n :
            /\ kn2[i] = kn[i]
            /\ Body[kn[i]].name = Body[f].name => (Fixed(hs2, kn[i]) <=> Fixed(hs, kn[i]))
      /\ \A i \in 1 .. m : i > n /\ Body[kn2[i]].name = Body[f].name => ~Fixed(hs2, kn2[i])
  BY DEF SameTargets
<1>4. /\ N(0) = [diff1 |-> best.diff1, diff2 |-> best.diff2, target |-> None]
      /\ \A i \in 1 .. n : N(i) = IF Fixed(hs, kn[i]) THEN C(kn[i], N(i - 1)) ELSE N(i - 1)
  BY <1>1, NearestAlong
<1>5. /\ M(0) = [diff1 |-> best.diff1, diff2 |-> best.diff2, target |-> None]
      /\ \A i \in 1 .. m : M(i) = IF Fixed(hs2, kn2[i]) THEN C(kn2[i], M(i - 1)) ELSE M(i - 1)
  BY <1>1, NearestAlong
<1>6. \A t, b : Body[t].name # Body[f].name => C(t, b) = b
  BY DEF NamedCompared
<1>7. Nearest(f, Targets(kn2, hs2), best) = M(m) /\ Nearest(f, Targets(kn, hs), best) = N(n)
  BY DEF Targets
<1> HIDE DEF n, m, N, M, C
<1>8. 0 \in S
  BY <1>2, <1>4, <1>5
<1>9. ASSUME NEW i \in 1 .. m, i - 1 \in S PROVE i \in S
  <2>1. M(i - 1) = IF i - 1 <= n THEN N(i - 1) ELSE N(n)
    BY <1>9
  <2>2. i \in 0 .. m
    BY <1>2
  <2>3. CASE i <= n
    <3>1. i \in 1 .. n /\ i - 1 <= n
      BY <1>2, <2>3
    <3>2. M(i - 1) = N(i - 1) /\ kn2[i] = kn[i]
      BY <1>3, <2>1, <3>1
    <3>3. M(i) = N(i)
      <4>1. CASE Body[kn[i]].name = Body[f].name
        BY <1>3, <1>4, <1>5, <3>1, <3>2, <4>1
      <4>2. CASE Body[kn[i]].name # Body[f].name
        BY <1>4, <1>5, <1>6, <3>1, <3>2, <4>2
      <4> QED BY <4>1, <4>2
    <3> QED BY <2>2, <2>3, <3>3
  <2>4. CASE ~ (i <= n)
    <3>1. i > n
      BY <1>2, <2>4
    <3>2. M(i - 1) = N(n)
      <4>1. CASE i - 1 <= n
        <5>1. i - 1 = n
          BY <1>2, <3>1, <4>1
        <5> QED BY <2>1, <4>1, <5>1
      <4>2. CASE ~ (i - 1 <= n)
        BY <2>1, <4>2
      <4> QED BY <4>1, <4>2
    <3>3. M(i) = M(i - 1)
      BY <1>3, <1>5, <1>6, <3>1
    <3>4. M(i) = N(n)
      BY <3>2, <3>3
    <3> QED BY <2>2, <2>4, <3>4
  <2> QED BY <2>3, <2>4
<1> HIDE DEF S
<1>10. \A i \in 0 .. m : i \in S
  BY <1>2, <1>8, <1>9, Upwards
<1>11. m \in S
  BY <1>2, <1>10
<1>12. M(m) = N(n)
  <2>1. M(m) = IF m <= n THEN N(m) ELSE N(n)
    BY <1>11 DEF S
  <2>2. m <= n => m = n
    BY <1>2
  <2> QED BY <2>1, <2>2
<1> QED BY <1>7, <1>12

LEMMA NamedFacts ==
  ASSUME NEW L \in Seq(Format), NEW r \in Result(Len(L))
  PROVE  LET b == Named(r, L)
         IN  /\ b.diff1 = r.diff1 /\ b.diff2 = r.diff2 /\ r.diff1 \in Nat /\ r.diff2 \in Nat
             /\ b.target = None <=> r.nearest = 0
             /\ r.nearest # 0 => r.nearest \in 1 .. Len(L) /\ b.target = L[r.nearest]
<1> DEFINE n == Len(L)
           b == Named(r, L)
<1>1. n \in Nat /\ \A i \in 1 .. n : L[i] \in Format
  BY LenProperties, ElementOfSeq
<1>2. r.nearest \in 0 .. n /\ r.diff1 \in Nat /\ r.diff2 \in Nat
  BY DEF Result
<1>3. None \notin Format
  BY BodyAssumption
<1>4. /\ b.diff1 = r.diff1 /\ b.diff2 = r.diff2
      /\ b.target = IF r.nearest = 0 THEN None ELSE L[r.nearest]
  BY DEF Named
<1> HIDE DEF n, b
<1>5. r.nearest # 0 => r.nearest \in 1 .. n
  BY <1>1, <1>2
<1>6. b.target = None <=> r.nearest = 0
  BY <1>1, <1>3, <1>4, <1>5
<1> QED BY <1>2, <1>4, <1>5, <1>6 DEF n, b

\* TryOlder on named results.
LEMMA NamedTry ==
  ASSUME NEW L \in Seq(Format), NEW b \in Result(Len(L)), NEW r \in Result(Len(L))
  PROVE  LET nb == Named(b, L)
             nr == Named(r, L)
         IN  Named(TryOlder(b, r), L)
                = IF (nb.diff1 = 0 /\ nb.diff2 = 0) \/ nr.target = None THEN nb ELSE nr
<1>1. Named(b, L).diff1 = b.diff1 /\ Named(b, L).diff2 = b.diff2
  BY NamedFacts
<1>2. Named(r, L).target = None <=> r.nearest = 0
  BY NamedFacts
<1>3. CASE (b.diff1 = 0 /\ b.diff2 = 0) \/ r.nearest = 0
  <2>1. TryOlder(b, r) = b
    BY <1>3 DEF TryOlder
  <2> QED BY <1>1, <1>2, <1>3, <2>1, Zenon
<1>4. CASE ~ ((b.diff1 = 0 /\ b.diff2 = 0) \/ r.nearest = 0)
  <2>1. TryOlder(b, r) = r
    BY <1>4 DEF TryOlder
  <2> QED BY <1>1, <1>2, <1>4, <2>1, Zenon
<1> QED BY <1>3, <1>4

LEMMA TargetsType ==
  ASSUME NEW kn \in Seq(Format), NEW hs
  PROVE  Targets(kn, hs) \in Seq(Format)
<1>1. Len(kn) \in 0 .. Len(kn)
  <2>1. Len(kn) \in Nat
    BY LenProperties
  <2> QED BY <2>1
<1> QED BY <1>1, TargetsDefined DEF Targets

\* IOformat_list_cmp takes only the differences of the best so far.
LEMMA CmpByDiffs ==
  ASSUME NEW g, NEW L, NEW b, NEW b2, b2.diff1 = b.diff1, b2.diff2 = b.diff2
  PROVE  IOformat_list_cmp(g, L, b2) = IOformat_list_cmp(g, L, b)
BY Zenon DEF IOformat_list_cmp, Scan

LEMMA OlderSame ==
  ASSUME NEW f \in Format, SameNames(f), NEW kn, NEW hs, NEW kn2, NEW hs2,
         SameTargets(kn, hs, kn2, hs2, Body[f].name),
         NEW own \in Result(Len(Targets(kn, hs))), NEW own2 \in Result(Len(Targets(kn2, hs2))),
         Named(own2, Targets(kn2, hs2)) = Named(own, Targets(kn, hs))
  PROVE  \A k \in 0 .. Len(Body[f].prior) :
            Named(OlderTried(f, Targets(kn2, hs2), own2)[k], Targets(kn2, hs2))
                = Named(OlderTried(f, Targets(kn, hs), own)[k], Targets(kn, hs))
<1> DEFINE L == Targets(kn, hs)
           L2 == Targets(kn2, hs2)
           fs == Body[f].prior
           n == Len(fs)
           s == OlderTried(f, L, own)
           s2 == OlderTried(f, L2, own2)
           S == {k \in 0 .. n : Named(s2[k], L2) = Named(s[k], L)}
<1>1. kn \in Seq(Format) /\ kn2 \in Seq(Format)
  BY DEF SameTargets
<1>2. L \in Seq(Format) /\ L2 \in Seq(Format)
  BY <1>1, TargetsType
<1>3. \A g \in Format : \A best : Body[g].name = Body[f].name /\ best.diff1 \in Nat /\ best.diff2 \in Nat
         => Nearest(g, L2, best) = Nearest(g, L, best)
  <2> SUFFICES ASSUME NEW g \in Format, NEW best, Body[g].name = Body[f].name,
                      best.diff1 \in Nat, best.diff2 \in Nat
               PROVE  Nearest(g, L2, best) = Nearest(g, L, best)
    BY Zenon
  <2>1. SameTargets(kn, hs, kn2, hs2, Body[g].name)
    OBVIOUS
  <2> QED BY <2>1, NearestSame
<1>4. Named(own2, L2) = Named(own, L)
  OBVIOUS
<1> HIDE DEF L, L2
<1>5. /\ s[0] = own
      /\ \A k \in 1 .. n : s[k] = TryOlder(s[k - 1], IOformat_list_cmp(fs[k], L, s[k - 1]))
      /\ \A k \in 0 .. n : s[k] \in Result(Len(L))
  BY <1>2, OlderDefined DEF L
<1>6. /\ s2[0] = own2
      /\ \A k \in 1 .. n : s2[k] = TryOlder(s2[k - 1], IOformat_list_cmp(fs[k], L2, s2[k - 1]))
      /\ \A k \in 0 .. n : s2[k] \in Result(Len(L2))
  BY <1>2, OlderDefined DEF L2
<1>7. n \in Nat /\ \A k \in 1 .. n : fs[k] \in Format /\ Body[fs[k]].name = Body[f].name
  <2>1. fs \in Seq(Format)
    BY BodyAssumption
  <2>2. \A k \in DOMAIN fs : Body[fs[k]].name = Body[f].name
    BY DEF SameNames
  <2> HIDE DEF fs
  <2>3. DOMAIN fs = 1 .. Len(fs) /\ Len(fs) \in Nat
    BY <2>1, LenProperties
  <2> QED BY <2>1, <2>2, <2>3, ElementOfSeq
<1> HIDE DEF s, s2, n, fs
<1>8. 0 \in S
  BY <1>4, <1>5, <1>6, <1>7
<1>9. ASSUME NEW k \in 1 .. n, k - 1 \in S PROVE k \in S
  <2> DEFINE b == s[k - 1]
             b2 == s2[k - 1]
             g == fs[k]
             r == IOformat_list_cmp(g, L, b)
             r2 == IOformat_list_cmp(g, L2, b2)
  <2>1. k - 1 \in 0 .. n /\ k \in 0 .. n
    BY <1>7
  <2>2. b \in Result(Len(L)) /\ b2 \in Result(Len(L2)) /\ Named(b2, L2) = Named(b, L)
    BY <1>5, <1>6, <1>9, <2>1
  <2>3. g \in Format /\ Body[g].name = Body[f].name
    BY <1>7
  <2>4. s[k] = TryOlder(b, r) /\ s2[k] = TryOlder(b2, r2)
    BY <1>5, <1>6
  <2> HIDE DEF b, b2, g
  <2>5. b2.diff1 = b.diff1 /\ b2.diff2 = b.diff2 /\ b.diff1 \in Nat /\ b.diff2 \in Nat
    <3>1. Named(b, L).diff1 = b.diff1 /\ Named(b, L).diff2 = b.diff2
          /\ b.diff1 \in Nat /\ b.diff2 \in Nat
      BY <1>2, <2>2, NamedFacts
    <3>2. Named(b2, L2).diff1 = b2.diff1 /\ Named(b2, L2).diff2 = b2.diff2
      BY <1>2, <2>2, NamedFacts
    <3> QED BY <2>2, <3>1, <3>2
  <2>6. r2 = IOformat_list_cmp(g, L2, b)
    BY <2>5, CmpByDiffs
  <2>7. r \in Result(Len(L)) /\ r2 \in Result(Len(L2))
    BY <1>2, <2>3, <2>5, <2>6, ListCmpType
  <2>8. Named(r2, L2) = Named(r, L)
    <3>1. Nearest(g, L2, b) = Nearest(g, L, b)
      BY <1>3, <2>3, <2>5
    <3> QED BY <2>6, <3>1 DEF Nearest
  <2> HIDE DEF r, r2
  <2>9. Named(TryOlder(b, r), L) = IF (Named(b, L).diff1 = 0 /\ Named(b, L).diff2 = 0)
                                       \/ Named(r, L).target = None
                                   THEN Named(b, L) ELSE Named(r, L)
    BY <1>2, <2>2, <2>7, NamedTry
  <2>10. Named(TryOlder(b2, r2), L2) = IF (Named(b2, L2).diff1 = 0 /\ Named(b2, L2).diff2 = 0)
                                          \/ Named(r2, L2).target = None
                                      THEN Named(b2, L2) ELSE Named(r2, L2)
    BY <1>2, <2>2, <2>7, NamedTry
  <2>11. Named(s2[k], L2) = Named(s[k], L)
    BY <2>2, <2>4, <2>8, <2>9, <2>10, Zenon
  <2> QED BY <2>1, <2>11
<1> HIDE DEF S
<1>10. \A k \in 0 .. n : k \in S
  BY <1>7, <1>8, <1>9, Upwards
<1>11. \A k \in 0 .. n : Named(s2[k], L2) = Named(s[k], L)
  BY <1>10 DEF S
<1> QED BY <1>11 DEF L, L2, s, s2, n, fs

\* The target FFS_determine_conversion takes, if any.
Choice(f, list) ==
    IF FMformat_compat_cmp(f, list) = 0 THEN None ELSE list[FMformat_compat_cmp(f, list)]

Worst == [diff1 |-> MAX_DIFF, diff2 |-> MAX_DIFF, nearest |-> 0]
OwnResult(f, list) == IOformat_list_cmp(f, list, Worst)
LastResult(f, list) == OlderTried(f, list, OwnResult(f, list))[Len(Body[f].prior)]

NamedChoice(f, own, last) ==
    IF own.target # None /\ own.diff1 = 0 /\ own.diff2 = 0 THEN own.target
    ELSE IF Body[f].prior # << >> /\ last.target # None /\ 5 * last.diff2 < count_total_IOfield(last.target)
    THEN last.target ELSE None

LEMMA ResultTypes ==
  ASSUME NEW f \in Format, NEW L \in Seq(Format)
  PROVE  OwnResult(f, L) \in Result(Len(L)) /\ LastResult(f, L) \in Result(Len(L))
<1>1. Worst.diff1 \in Nat /\ Worst.diff2 \in Nat
  BY DEF Worst, MAX_DIFF
<1>2. OwnResult(f, L) \in Result(Len(L))
  BY <1>1, ListCmpType DEF OwnResult
<1>3. Len(Body[f].prior) \in 0 .. Len(Body[f].prior)
  <2>1. Body[f].prior \in Seq(Format)
    BY BodyAssumption
  <2>2. Len(Body[f].prior) \in Nat
    BY <2>1, LenProperties
  <2> QED BY <2>2
<1>4. LastResult(f, L) \in Result(Len(L))
  BY <1>2, <1>3, OlderDefined DEF LastResult
<1> QED BY <1>2, <1>4

LEMMA ChoiceNamed ==
  ASSUME NEW f \in Format, NEW L \in Seq(Format)
  PROVE  /\ FMformat_compat_cmp(f, L) \in 0 .. Len(L)
         /\ Choice(f, L) = NamedChoice(f, Named(OwnResult(f, L), L), Named(LastResult(f, L), L))
<1> DEFINE own == OwnResult(f, L)
           last == LastResult(f, L)
           a == Named(own, L)
           z == Named(last, L)
           c == FMformat_compat_cmp(f, L)
<1>1. own \in Result(Len(L)) /\ last \in Result(Len(L))
  BY ResultTypes
<1>2. c = IF NoDifference(own) THEN own.nearest
          ELSE IF Body[f].prior = << >> THEN 0
          ELSE IF last.nearest # 0 /\ check_compat_thresh(last, L[last.nearest])
          THEN last.nearest ELSE 0
  BY Zenon DEF FMformat_compat_cmp, OwnResult, LastResult, Worst
<1>3. Choice(f, L) = IF c = 0 THEN None ELSE L[c]
  BY DEF Choice
<1> HIDE DEF own, last, c
<1>4. /\ a.diff1 = own.diff1 /\ a.diff2 = own.diff2
      /\ a.target = None <=> own.nearest = 0
      /\ own.nearest # 0 => own.nearest \in 1 .. Len(L) /\ a.target = L[own.nearest]
  BY <1>1, NamedFacts
<1>5. /\ z.diff1 = last.diff1 /\ z.diff2 = last.diff2
      /\ z.target = None <=> last.nearest = 0
      /\ last.nearest # 0 => last.nearest \in 1 .. Len(L) /\ z.target = L[last.nearest]
  BY <1>1, NamedFacts
<1> HIDE DEF a, z
<1>6. Len(L) \in Nat
  BY LenProperties
<1>7. CASE NoDifference(own)
  <2>1. c = own.nearest /\ own.nearest # 0 /\ own.diff1 = 0 /\ own.diff2 = 0
    BY <1>2, <1>7 DEF NoDifference
  <2>2. c \in 0 .. Len(L)
    BY <1>4, <1>6, <2>1
  <2>3. Choice(f, L) = NamedChoice(f, a, z)
    BY <1>3, <1>4, <2>1, Zenon DEF NamedChoice
  <2> QED BY <2>2, <2>3 DEF a, z, c, own, last
<1>8. CASE ~NoDifference(own)
  <2>1. ~ (a.target # None /\ a.diff1 = 0 /\ a.diff2 = 0)
    BY <1>4, <1>8, Zenon DEF NoDifference
  <2>2. CASE Body[f].prior # << >> /\ last.nearest # 0 /\ check_compat_thresh(last, L[last.nearest])
    <3>1. c = last.nearest /\ z.target = L[c] /\ z.target # None
      BY <1>2, <1>5, <1>8, <2>2, Zenon
    <3>2. 5 * z.diff2 < count_total_IOfield(z.target)
      BY <1>5, <2>2, <3>1, Zenon DEF check_compat_thresh
    <3>3. Choice(f, L) = z.target
      BY <1>3, <1>5, <2>2, <3>1, Zenon
    <3>4. NamedChoice(f, a, z) = z.target
      BY <2>1, <2>2, <3>1, <3>2, Zenon DEF NamedChoice
    <3>5. c \in 0 .. Len(L)
      BY <1>5, <1>6, <2>2, <3>1
    <3> QED BY <3>3, <3>4, <3>5 DEF a, z, c, own, last
  <2>3. CASE ~ (Body[f].prior # << >> /\ last.nearest # 0 /\ check_compat_thresh(last, L[last.nearest]))
    <3>1. c = 0
      BY <1>2, <1>8, <2>3, Zenon
    <3>2. ~ (Body[f].prior # << >> /\ z.target # None /\ 5 * z.diff2 < count_total_IOfield(z.target))
      BY <1>5, <2>3, Zenon DEF check_compat_thresh
    <3>3. NamedChoice(f, a, z) = None
      BY <2>1, <3>2, Zenon DEF NamedChoice
    <3>4. c \in 0 .. Len(L)
      BY <1>6, <3>1
    <3> QED BY <1>3, <3>1, <3>3, <3>4 DEF a, z, c, own, last
  <2> QED BY <2>2, <2>3
<1> QED BY <1>7, <1>8

\* Formats of another name, and formats that are no targets, do not change it.
LEMMA ChoiceSame ==
  ASSUME NEW f \in Format, SameNames(f), NEW kn, NEW hs, NEW kn2, NEW hs2,
         SameTargets(kn, hs, kn2, hs2, Body[f].name)
  PROVE  Choice(f, Targets(kn2, hs2)) = Choice(f, Targets(kn, hs))
<1> DEFINE L == Targets(kn, hs)
           L2 == Targets(kn2, hs2)
<1>1. kn \in Seq(Format) /\ kn2 \in Seq(Format)
  BY DEF SameTargets
<1>2. L \in Seq(Format) /\ L2 \in Seq(Format)
  BY <1>1, TargetsType
<1>3. Worst.diff1 \in Nat /\ Worst.diff2 \in Nat
  BY DEF Worst, MAX_DIFF
<1>4. Named(OwnResult(f, L2), L2) = Named(OwnResult(f, L), L)
  BY <1>3, NearestSame DEF Nearest, OwnResult
<1>5. OwnResult(f, L) \in Result(Len(L)) /\ OwnResult(f, L2) \in Result(Len(L2))
  BY <1>2, ResultTypes
<1>6. Len(Body[f].prior) \in 0 .. Len(Body[f].prior)
  <2>1. Body[f].prior \in Seq(Format)
    BY BodyAssumption
  <2>2. Len(Body[f].prior) \in Nat
    BY <2>1, LenProperties
  <2> QED BY <2>2
<1>7. Named(LastResult(f, L2), L2) = Named(LastResult(f, L), L)
  BY <1>4, <1>5, <1>6, OlderSame DEF LastResult
<1> HIDE DEF L, L2
<1>8. /\ Choice(f, L) = NamedChoice(f, Named(OwnResult(f, L), L), Named(LastResult(f, L), L))
      /\ Choice(f, L2) = NamedChoice(f, Named(OwnResult(f, L2), L2), Named(LastResult(f, L2), L2))
  BY <1>2, ChoiceNamed
<1>9. Choice(f, L2) = Choice(f, L)
  BY <1>4, <1>7, <1>8, Zenon
<1> QED BY <1>9 DEF L, L2

-----------------------------------------------------------------------------
(***************************************************************************)
(* The formats of a context only grow, by formats that were not there.     *)
(***************************************************************************)
Grows(kn, kn2) ==
    /\ kn \in Seq(Format) /\ kn2 \in Seq(Format) /\ Len(kn) <= Len(kn2)
    /\ \A i \in 1 .. Len(kn) : kn2[i] = kn[i]
    /\ \A i \in 1 .. Len(kn2) : i > Len(kn) => kn2[i] \notin ToSet(kn)

LEMMA ToSetIs ==
  ASSUME NEW s \in Seq(Format)
  PROVE  ToSet(s) = {s[i] : i \in 1 .. Len(s)} /\ Len(s) \in Nat /\ ToSet(s) \subseteq Format
<1>1. DOMAIN s = 1 .. Len(s) /\ Len(s) \in Nat /\ \A i \in 1 .. Len(s) : s[i] \in Format
  BY LenProperties, ElementOfSeq
<1> QED BY <1>1 DEF ToSet

LEMMA GrowsContains ==
  ASSUME NEW kn, NEW kn2, Grows(kn, kn2)
  PROVE  ToSet(kn) \subseteq ToSet(kn2)
<1>1. kn \in Seq(Format) /\ kn2 \in Seq(Format) /\ Len(kn) <= Len(kn2)
  BY DEF Grows
<1>2. /\ ToSet(kn) = {kn[i] : i \in 1 .. Len(kn)} /\ Len(kn) \in Nat
      /\ ToSet(kn2) = {kn2[i] : i \in 1 .. Len(kn2)} /\ Len(kn2) \in Nat
  BY <1>1, ToSetIs
<1>3. \A i \in 1 .. Len(kn) : i \in 1 .. Len(kn2) /\ kn2[i] = kn[i]
  BY <1>1, <1>2 DEF Grows
<1> QED BY <1>2, <1>3

LEMMA GrowsTrans ==
  ASSUME NEW kn, NEW kn2, NEW kn3, Grows(kn, kn2), Grows(kn2, kn3)
  PROVE  Grows(kn, kn3)
<1>1. /\ kn \in Seq(Format) /\ kn2 \in Seq(Format) /\ kn3 \in Seq(Format)
      /\ Len(kn) <= Len(kn2) /\ Len(kn2) <= Len(kn3)
  BY DEF Grows
<1>2. Len(kn) \in Nat /\ Len(kn2) \in Nat /\ Len(kn3) \in Nat
  BY <1>1, LenProperties
<1>3. Len(kn) <= Len(kn3) /\ \A i \in 1 .. Len(kn) : i \in 1 .. Len(kn2)
  BY <1>1, <1>2
<1>4. \A i \in 1 .. Len(kn) : kn3[i] = kn[i]
  BY <1>3 DEF Grows
<1>5. ASSUME NEW i \in 1 .. Len(kn3), i > Len(kn) PROVE kn3[i] \notin ToSet(kn)
  <2>1. CASE i <= Len(kn2)
    <3>1. i \in 1 .. Len(kn2)
      BY <1>2, <2>1
    <3> QED BY <1>5, <3>1 DEF Grows
  <2>2. CASE i > Len(kn2)
    <3>1. kn3[i] \notin ToSet(kn2)
      BY <2>2 DEF Grows
    <3> QED BY <3>1, GrowsContains
  <2> QED BY <1>2, <2>1, <2>2
<1> QED BY <1>1, <1>3, <1>4, <1>5 DEF Grows

LEMMA GrowsSelf ==
  ASSUME NEW kn \in Seq(Format)
  PROVE  Grows(kn, kn)
<1>1. Len(kn) \in Nat
  BY LenProperties
<1> QED BY <1>1 DEF Grows

LEMMA KnowGrows ==
  ASSUME NEW kn \in Seq(Format), NEW f \in Format
  PROVE  /\ Grows(kn, Know(kn, f)) /\ f \in ToSet(Know(kn, f))
         /\ \A i \in 1 .. Len(Know(kn, f)) : i > Len(kn) => Know(kn, f)[i] = f
<1> DEFINE kn2 == Know(kn, f)
           n == Len(kn)
<1>1. ToSet(kn) = {kn[i] : i \in 1 .. n} /\ n \in Nat
  BY ToSetIs
<1>2. Contains(kn, f) <=> f \in ToSet(kn)
  <2>1. Contains(kn, f) <=> \E i \in 1 .. n : kn[i] = f
    BY DEF Contains
  <2> QED BY <1>1, <2>1
<1>3. CASE Contains(kn, f)
  <2>1. kn2 = kn
    BY <1>3 DEF Know
  <2>2. \A i \in 1 .. n : ~ (i > n)
    BY <1>1
  <2> QED BY <1>2, <1>3, <2>1, <2>2, GrowsSelf
<1>4. CASE ~Contains(kn, f)
  <2>1. kn2 = Append(kn, f)
    BY <1>4 DEF Know
  <2>2. /\ kn2 \in Seq(Format) /\ Len(kn2) = n + 1 /\ kn2[n + 1] = f
        /\ \A i \in 1 .. n : kn2[i] = kn[i]
    BY <2>1, AppendProperties
  <2> HIDE DEF kn2, n
  <2>3. \A i \in 1 .. Len(kn2) : i > n => kn2[i] = f
    BY <1>1, <2>2
  <2>4. Grows(kn, kn2)
    BY <1>1, <1>2, <1>4, <2>2, <2>3 DEF Grows, n
  <2>5. f \in ToSet(kn2)
    <3>1. n + 1 \in 1 .. Len(kn2)
      BY <1>1, <2>2
    <3>2. ToSet(kn2) = {kn2[i] : i \in 1 .. Len(kn2)}
      BY <2>2, ToSetIs
    <3> QED BY <2>2, <3>1, <3>2
  <2> QED BY <2>3, <2>4, <2>5 DEF kn2, n
<1> QED BY <1>3, <1>4

\* The loop that fetches the older formats.
LEMMA LoadingDefined ==
  ASSUME NEW kn \in Seq(Format), NEW fs \in Seq(Format)
  PROVE  LET s == Loading(kn, fs)
         IN  /\ s[0] = kn
             /\ \A i \in 1 .. Len(fs) : s[i] = Know(s[i - 1], fs[i])
             /\ \A i \in 0 .. Len(fs) : s[i] \in Seq(Format)
<1> DEFINE n == Len(fs)
           x == kn
           T == Seq(Format)
           Step(i, b) == Know(b, fs[i])
           Eq(g) == g = [i \in 0 .. n |-> IF i = 0 THEN x ELSE Step(i, g[i - 1])]
           F == [i \in 1 .. n |-> [b \in T |-> Step(i, b)]]
           s == Loading(kn, fs)
<1>1. n \in Nat /\ \A i \in 1 .. n : fs[i] \in Format
  BY LenProperties, ElementOfSeq
<1>2. x \in T
  OBVIOUS
<1>3. \A i \in 1 .. n : \A b \in T : Step(i, b) \in T
  BY <1>1, KnowGrows DEF Grows
<1>4. s = CHOOSE g : Eq(g)
  BY DEF Loading
<1> HIDE DEF n, x, T, Step, s
<1>5. F \in [1 .. n -> [T -> T]]
  BY <1>3
<1>6. \A i \in 1 .. n : \A b \in T : F[i][b] = Step(i, b)
  OBVIOUS
<1> HIDE DEF F
<1>7. PICK g : g \in [0 .. n -> T] /\ g[0] = x /\ \A i \in 1 .. n : g[i] = F[i][g[i - 1]]
  <2>1. n \in Nat /\ Steps(F, n, T)
    BY <1>1, <1>5 DEF Steps
  <2>2. \E g : Leads(g, F, n, T, x)
    BY <1>2, <2>1, Iterates
  <2> QED BY <2>2 DEF Leads
<1>8. \A i \in 1 .. n : g[i] = Step(i, g[i - 1])
  <2> TAKE i \in 1 .. n
  <2>1. i - 1 \in 0 .. n
    BY <1>1
  <2>2. g[i - 1] \in T
    BY <1>7, <2>1
  <2> QED BY <1>6, <1>7, <2>2
<1>9. Eq(g)
  <2>1. \A i \in 0 .. n : g[i] = IF i = 0 THEN x ELSE Step(i, g[i - 1])
    <3> TAKE i \in 0 .. n
    <3>1. CASE i = 0
      BY <1>7, <3>1
    <3>2. CASE i # 0
      <4>1. i \in 1 .. n
        BY <1>1, <3>2
      <4> QED BY <1>8, <3>2, <4>1
    <3> QED BY <3>1, <3>2
  <2>2. g = [i \in 0 .. n |-> g[i]]
    BY <1>7
  <2> QED BY <2>1, <2>2
<1>10. Eq(s)
  BY <1>4, <1>9
<1>11. s[0] = x
  <2>1. 0 \in 0 .. n
    BY <1>1
  <2> QED BY <1>10, <2>1
<1>12. \A i \in 1 .. n : s[i] = Step(i, s[i - 1])
  <2> TAKE i \in 1 .. n
  <2>1. i \in 0 .. n /\ i # 0
    BY <1>1
  <2> QED BY <1>10, <2>1
<1> DEFINE S == {i \in 0 .. n : s[i] \in T}
<1>13. 0 \in S
  BY <1>1, <1>2, <1>11
<1>14. ASSUME NEW i \in 1 .. n, i - 1 \in S PROVE i \in S
  BY <1>1, <1>3, <1>12, <1>14
<1> HIDE DEF S
<1>15. \A i \in 0 .. n : i \in S
  BY <1>1, <1>13, <1>14, Upwards
<1>16. \A i \in 0 .. n : s[i] \in T
  BY <1>15 DEF S
<1> QED BY <1>11, <1>12, <1>16 DEF n, x, Step, T, s


LEMMA LoadGrows ==
  ASSUME NEW kn \in Seq(Format), NEW fs \in Seq(Format)
  PROVE  Grows(kn, LoadAll(kn, fs))
<1> DEFINE n == Len(fs)
           s == Loading(kn, fs)
           S == {i \in 0 .. n : Grows(kn, s[i])}
<1>1. n \in Nat /\ \A i \in 1 .. n : fs[i] \in Format
  BY LenProperties, ElementOfSeq
<1>2. /\ s[0] = kn
      /\ \A i \in 1 .. n : s[i] = Know(s[i - 1], fs[i])
      /\ \A i \in 0 .. n : s[i] \in Seq(Format)
  BY LoadingDefined
<1>3. LoadAll(kn, fs) = s[n]
  BY DEF LoadAll
<1> HIDE DEF s, n
<1>4. 0 \in S
  BY <1>1, <1>2, GrowsSelf
<1>5. ASSUME NEW i \in 1 .. n, i - 1 \in S PROVE i \in S
  <2> DEFINE b == s[i - 1]
  <2>1. i - 1 \in 0 .. n /\ i \in 0 .. n
    BY <1>1
  <2>2. b \in Seq(Format) /\ Grows(kn, b) /\ fs[i] \in Format /\ s[i] = Know(b, fs[i])
    BY <1>1, <1>2, <1>5, <2>1
  <2> HIDE DEF b
  <2>3. Grows(kn, s[i])
    BY <2>2, KnowGrows, GrowsTrans
  <2> QED BY <2>1, <2>3
<1> HIDE DEF S
<1>6. \A i \in 0 .. n : i \in S
  BY <1>1, <1>4, <1>5, Upwards
<1>7. n \in S
  BY <1>1, <1>6
<1> QED BY <1>3, <1>7 DEF S

-----------------------------------------------------------------------------
(***************************************************************************)
(* A kept choice is the one that would be made now.                        *)
(***************************************************************************)
LEMMA DeterminedChoice ==
  ASSUME NEW kn \in Seq(Format), NEW hs, NEW f \in Format, IsHandle(hs[f])
  PROVE  LET k == Determined(kn, hs, f)
             c == Choice(f, Targets(kn, hs))
         IN  /\ k.is_fixed_target = hs[f].is_fixed_target
             /\ k.status = IF c = None THEN "none_available" ELSE "conversion_set"
             /\ c # None => k.conversion_target = c
<1> DEFINE list == Targets(kn, hs)
           n == FMformat_compat_cmp(f, list)
           k == Determined(kn, hs, f)
           c == Choice(f, list)
           t == list[n]
           g == SetConversion(hs[f], f, t)
<1>1. k = IF n = 0 THEN [hs[f] EXCEPT !.status = "none_available"]
          ELSE [g EXCEPT !.status = "conversion_set", !.conversion_target = t]
  BY DEF Determined
<1>2. c = IF n = 0 THEN None ELSE t
  BY DEF Choice
<1>3. n # 0 => t # None
  <2>1. list \in Seq(Format)
    BY TargetsType
  <2> HIDE DEF list
  <2>2. n \in 0 .. Len(list)
    BY <2>1, ChoiceNamed
  <2> HIDE DEF n
  <2>3. Len(list) \in Nat
    BY <2>1, LenProperties
  <2>4. n # 0 => n \in 1 .. Len(list)
    BY <2>2, <2>3
  <2>5. n # 0 => t \in Format
    BY <2>1, <2>4, ElementOfSeq
  <2> QED BY <2>5, BodyAssumption
<1> HIDE DEF k, n, list, c
<1>4. CASE n = 0
  <2>1. k = [hs[f] EXCEPT !.status = "none_available"]
    BY <1>1, <1>4
  <2>2. k.status = "none_available" /\ k.is_fixed_target = hs[f].is_fixed_target
    BY <2>1, StatusSet
  <2> QED BY <1>2, <1>4, <2>2 DEF k, c, list
<1>5. CASE n # 0
  <2>1. k = [g EXCEPT !.status = "conversion_set", !.conversion_target = t]
    BY <1>1, <1>5
  <2>2. IsHandle(g) /\ g.is_fixed_target = hs[f].is_fixed_target
    BY SetConversionFacts
  <2> HIDE DEF t, g
  <2> DEFINE e == [g EXCEPT !.status = "conversion_set", !.conversion_target = t]
  <2>4. e.status = "conversion_set" /\ e.conversion_target = t
        /\ e.is_fixed_target = g.is_fixed_target
    BY <2>2, ChoiceSet
  <2> HIDE DEF e
  <2>3. k.status = "conversion_set" /\ k.conversion_target = t
        /\ k.is_fixed_target = g.is_fixed_target
    BY <2>1, <2>4, Zenon DEF e
  <2> QED BY <1>2, <1>3, <1>5, <2>2, <2>3 DEF k, c, list
<1> QED BY <1>4, <1>5

Current(h, f, kn, hs) ==
    h.status # "not_checked" /\ SameNames(f) =>
        /\ h.status = IF Choice(f, Targets(kn, hs)) = None THEN "none_available"
                      ELSE "conversion_set"
        /\ h.status = "conversion_set" => h.conversion_target = Choice(f, Targets(kn, hs))

HandlesCurrent(kn, hs) ==
    /\ kn \in Seq(Format)
    /\ DOMAIN hs \subseteq ToSet(kn)
    /\ \A f \in DOMAIN hs : Current(hs[f], f, kn, hs)

LEMMA CurrentKept ==
  ASSUME NEW f \in Format, NEW kn, NEW hs, NEW kn2, NEW hs2, NEW h, NEW h2,
         SameTargets(kn, hs, kn2, hs2, Body[f].name), Current(h, f, kn, hs),
         h2.status = h.status, h2.conversion_target = h.conversion_target
  PROVE  Current(h2, f, kn2, hs2)
<1> SUFFICES ASSUME SameNames(f) PROVE Current(h2, f, kn2, hs2)
  BY DEF Current
<1>1. Choice(f, Targets(kn2, hs2)) = Choice(f, Targets(kn, hs))
  BY ChoiceSame
<1> QED BY <1>1, Zenon DEF Current

\* A context that grew, and handles with the same fixed targets.
LEMMA SameFixed ==
  ASSUME NEW kn, NEW kn2, Grows(kn, kn2), NEW hs, NEW hs2, NEW name,
         \A x : Fixed(hs2, x) <=> Fixed(hs, x), DOMAIN hs \subseteq ToSet(kn)
  PROVE  SameTargets(kn, hs, kn2, hs2, name)
<1>1. \A x : Fixed(hs, x) => x \in ToSet(kn)
  BY DEF Fixed
<1> QED BY <1>1 DEF Grows, SameTargets

\* hs1 is hs with a handle for f.
Made(hs, f, hs1) ==
    /\ DOMAIN hs1 = DOMAIN hs \union {f}
    /\ \A g \in DOMAIN hs : hs1[g] = hs[g]
    /\ f \notin DOMAIN hs => hs1[f] = NewHandle
    /\ \A x : Fixed(hs1, x) <=> Fixed(hs, x)

LEMMA MadeFixed ==
  ASSUME NEW hs, NEW f
  PROVE  Made(hs, f, FFSTypeHandle_by_index(hs, f))
<1> DEFINE hs1 == FFSTypeHandle_by_index(hs, f)
<1>1. /\ DOMAIN hs1 = DOMAIN hs \union {f}
      /\ \A g \in DOMAIN hs1 : hs1[g] = IF g \in DOMAIN hs THEN hs[g] ELSE NewHandle
  BY DEF FFSTypeHandle_by_index
<1>2. NewHandle.is_fixed_target = FALSE
  BY DEF NewHandle
<1> HIDE DEF hs1
<1>3. /\ \A g \in DOMAIN hs : hs1[g] = hs[g]
      /\ f \notin DOMAIN hs => hs1[f] = NewHandle
  BY <1>1
<1>4. \A x : Fixed(hs1, x) <=> Fixed(hs, x)
  <2> TAKE x
  <2>1. CASE x \in DOMAIN hs
    BY <1>1, <1>3, <2>1, Zenon DEF Fixed
  <2>2. CASE x \notin DOMAIN hs
    BY <1>1, <1>2, <1>3, <2>2, Zenon DEF Fixed
  <2> QED BY <2>1, <2>2
<1> QED BY <1>1, <1>3, <1>4 DEF hs1, Made

\* FFSset_fixed_target: the handles of the target's name are reset, and a choice
\* for a format of another name does not see the target.
LEMMA SetTargetCurrent ==
  ASSUME NEW kn, NEW hs, HandlesCurrent(kn, hs), HandlesOK(hs), NEW f \in Format,
         NEW hs1, hs1 = FFSTypeHandle_by_index(hs, f),
         NEW kn2, kn2 = Know(kn, f),
         NEW hs2, hs2 = reset_prior_conversions([hs1 EXCEPT ![f].is_fixed_target = TRUE], Body[f].name)
  PROVE  HandlesCurrent(kn2, hs2)
<1> DEFINE k == [hs1[f] EXCEPT !.is_fixed_target = TRUE]
           hs3 == [hs1 EXCEPT ![f] = k]
<1>1. kn \in Seq(Format) /\ DOMAIN hs \subseteq ToSet(kn)
      /\ \A g \in DOMAIN hs : Current(hs[g], g, kn, hs)
  BY DEF HandlesCurrent
<1>2. /\ Grows(kn, kn2) /\ f \in ToSet(kn2)
      /\ \A i \in 1 .. Len(kn2) : i > Len(kn) => kn2[i] = f
  BY <1>1, KnowGrows
<1>3. DOMAIN hs1 = DOMAIN hs \union {f} /\ \A g \in DOMAIN hs : hs1[g] = hs[g]
  <2>1. Made(hs, f, hs1)
    BY MadeFixed, Zenon
  <2> QED BY <2>1, Zenon DEF Made
<1>4. HandlesOK(hs1)
  BY HandleMade
<1>5. IsHandle(k)
  <2>1. IsHandle(hs1[f])
    BY <1>3, <1>4 DEF HandlesOK
  <2> QED BY <2>1, FixedSet
<1>6. hs2 = reset_prior_conversions(hs3, Body[f].name)
  OBVIOUS
<1> HIDE DEF k
<1>7. DOMAIN hs3 = DOMAIN hs1 /\ hs3[f] = k /\ \A g \in DOMAIN hs1 : g # f => hs3[g] = hs1[g]
  BY <1>3
<1> HIDE DEF hs3
<1>8. /\ DOMAIN hs2 = DOMAIN hs3
      /\ \A g \in DOMAIN hs3 : hs2[g] = IF Body[g].name = Body[f].name
                                        THEN [hs3[g] EXCEPT !.status = "not_checked"] ELSE hs3[g]
  BY <1>6 DEF reset_prior_conversions
<1>9. ASSUME NEW g \in DOMAIN hs2, Body[g].name = Body[f].name
      PROVE  Current(hs2[g], g, kn2, hs2)
  <2>1. IsHandle(hs3[g])
    BY <1>4, <1>5, <1>7, <1>8 DEF HandlesOK
  <2>2. hs2[g] = [hs3[g] EXCEPT !.status = "not_checked"]
    BY <1>8, <1>9
  <2>3. [hs3[g] EXCEPT !.status = "not_checked"].status = "not_checked"
    BY <2>1, StatusSet
  <2>4. hs2[g].status = "not_checked"
    BY <2>2, <2>3, Zenon
  <2> QED BY <2>4 DEF Current
<1>10. ASSUME NEW x, Body[x].name # Body[f].name
       PROVE  /\ x \in DOMAIN hs2 <=> x \in DOMAIN hs
              /\ x \in DOMAIN hs => hs2[x] = hs[x]
  <2>1. x # f
    BY <1>10
  <2> QED BY <1>3, <1>7, <1>8, <1>10, <2>1
<1>11. ASSUME NEW g \in DOMAIN hs2, Body[g].name # Body[f].name
       PROVE  Current(hs2[g], g, kn2, hs2)
  <2>1. g \in DOMAIN hs /\ hs2[g] = hs[g]
    BY <1>10, <1>11
  <2>2. g \in Format
    BY <1>1, <2>1, ToSetIs
  <2>3. \A x : Body[x].name = Body[g].name => (Fixed(hs2, x) <=> Fixed(hs, x))
    BY <1>10, <1>11, Zenon DEF Fixed
  <2>4. SameTargets(kn, hs, kn2, hs2, Body[g].name)
    <3>1. /\ kn \in Seq(Format) /\ kn2 \in Seq(Format) /\ Len(kn) <= Len(kn2)
          /\ \A i \in 1 .. Len(kn) : kn2[i] = kn[i]
      BY <1>2 DEF Grows
    <3>2. \A i \in 1 .. Len(kn2) : i > Len(kn) => Body[kn2[i]].name # Body[g].name
      BY <1>2, <1>11
    <3> QED BY <2>3, <3>1, <3>2 DEF SameTargets
  <2>5. Current(hs[g], g, kn, hs)
    BY <1>1, <2>1
  <2> QED BY <2>1, <2>2, <2>4, <2>5, CurrentKept
<1>12. kn2 \in Seq(Format)
  BY <1>2 DEF Grows
<1>13. DOMAIN hs2 \subseteq ToSet(kn2)
  BY <1>1, <1>2, <1>3, <1>7, <1>8, GrowsContains
<1> QED BY <1>9, <1>11, <1>12, <1>13 DEF HandlesCurrent

\* A call on an encoded record: fetched formats and new handles are no targets.
LEMMA EncodeCurrent ==
  ASSUME NEW kn, NEW hs, HandlesCurrent(kn, hs), HandlesOK(hs), NEW f \in Format,
         NEW hs1, hs1 = FFSTypeHandle_by_index(hs, f),
         NEW more \in Seq(Format), NEW kn2, kn2 = LoadAll(Know(kn, f), more),
         NEW hs2, hs2 = hs1 \/ hs2 = [hs1 EXCEPT ![f] = Determined(kn2, hs1, f)]
  PROVE  HandlesCurrent(kn2, hs2)
<1> DEFINE k == Determined(kn2, hs1, f)
<1>1. kn \in Seq(Format) /\ DOMAIN hs \subseteq ToSet(kn)
      /\ \A g \in DOMAIN hs : Current(hs[g], g, kn, hs)
  BY DEF HandlesCurrent
<1>2. Grows(kn, kn2) /\ f \in ToSet(kn2) /\ kn2 \in Seq(Format)
  <2> DEFINE kn1 == Know(kn, f)
  <2>1. Grows(kn, kn1) /\ f \in ToSet(kn1)
    BY <1>1, KnowGrows
  <2>2. kn1 \in Seq(Format)
    BY <2>1 DEF Grows
  <2> HIDE DEF kn1
  <2>3. Grows(kn1, kn2)
    BY <2>2, LoadGrows DEF kn1
  <2>4. Grows(kn, kn2) /\ f \in ToSet(kn2)
    BY <2>1, <2>3, GrowsTrans, GrowsContains
  <2> QED BY <2>4 DEF Grows
<1>3. /\ DOMAIN hs1 = DOMAIN hs \union {f}
      /\ \A g \in DOMAIN hs : hs1[g] = hs[g]
      /\ f \notin DOMAIN hs => hs1[f] = NewHandle
      /\ \A x : Fixed(hs1, x) <=> Fixed(hs, x)
  <2>1. Made(hs, f, hs1)
    BY MadeFixed, Zenon
  <2> QED BY <2>1, Zenon DEF Made
<1>4. IsHandle(hs1[f])
  <2>1. HandlesOK(hs1)
    BY HandleMade
  <2> QED BY <1>3, <2>1 DEF HandlesOK
<1>5. /\ k.is_fixed_target = hs1[f].is_fixed_target
      /\ k.status = IF Choice(f, Targets(kn2, hs1)) = None THEN "none_available" ELSE "conversion_set"
      /\ Choice(f, Targets(kn2, hs1)) # None => k.conversion_target = Choice(f, Targets(kn2, hs1))
  BY <1>2, <1>4, DeterminedChoice
<1>6. hs2 = hs1 \/ hs2 = [hs1 EXCEPT ![f] = k]
  OBVIOUS
<1> HIDE DEF k
<1>7. /\ DOMAIN hs2 = DOMAIN hs1
      /\ \A g \in DOMAIN hs1 : g # f => hs2[g] = hs1[g]
      /\ hs2[f] = hs1[f] \/ hs2[f] = k
  BY <1>3, <1>6
<1>8. \A x : Fixed(hs2, x) <=> Fixed(hs1, x)
  <2> TAKE x
  <2>1. CASE x = f
    BY <1>3, <1>5, <1>7, <2>1, Zenon DEF Fixed
  <2>2. CASE x # f
    BY <1>7, <2>2, Zenon DEF Fixed
  <2> QED BY <2>1, <2>2
<1>9. \A name : SameTargets(kn, hs, kn2, hs2, name)
  BY <1>1, <1>2, <1>3, <1>8, SameFixed
<1>10. DOMAIN hs2 \subseteq ToSet(kn2)
  BY <1>1, <1>2, <1>3, <1>7, GrowsContains
<1>11. ASSUME NEW g \in DOMAIN hs, hs2[g] = hs[g] PROVE Current(hs2[g], g, kn2, hs2)
  <2>1. g \in Format
    BY <1>1, ToSetIs
  <2>2. Current(hs[g], g, kn, hs)
    BY <1>1
  <2> QED BY <1>9, <1>11, <2>1, <2>2, CurrentKept
<1>12. Current(k, f, kn2, hs2)
  <2>1. Current(k, f, kn2, hs1)
    BY <1>5 DEF Current
  <2>2. SameTargets(kn2, hs1, kn2, hs2, Body[f].name)
    <3>1. Grows(kn2, kn2)
      BY <1>2, GrowsSelf
    <3>2. DOMAIN hs1 \subseteq ToSet(kn2)
      BY <1>7, <1>10
    <3> QED BY <1>8, <3>1, <3>2, SameFixed
  <2> QED BY <2>1, <2>2, CurrentKept
<1>13. ASSUME hs2[f] = hs1[f] PROVE Current(hs2[f], f, kn2, hs2)
  <2>1. CASE f \in DOMAIN hs
    BY <1>3, <1>11, <1>13, <2>1
  <2>2. CASE f \notin DOMAIN hs
    <3>1. hs2[f].status = "not_checked"
      BY <1>3, <1>13, <2>2 DEF NewHandle
    <3> QED BY <3>1 DEF Current
  <2> QED BY <2>1, <2>2
<1>14. ASSUME NEW g \in DOMAIN hs2 PROVE Current(hs2[g], g, kn2, hs2)
  <2>1. CASE g = f
    BY <1>7, <1>12, <1>13, <2>1
  <2>2. CASE g # f
    <3>1. g \in DOMAIN hs /\ hs2[g] = hs[g]
      BY <1>3, <1>7, <2>2
    <3> QED BY <1>11, <3>1
  <2> QED BY <2>1, <2>2
<1> QED BY <1>2, <1>10, <1>14 DEF HandlesCurrent

LEMMA EstablishCurrent ==
  ASSUME NEW kn, NEW hs, HandlesCurrent(kn, hs), HandlesOK(hs), NEW f \in DOMAIN hs, NEW t,
         NEW hs2, hs2 = [hs EXCEPT ![f] = SetConversion(hs[f], f, t)]
  PROVE  HandlesCurrent(kn, hs2)
<1> DEFINE k == SetConversion(hs[f], f, t)
<1>1. kn \in Seq(Format) /\ DOMAIN hs \subseteq ToSet(kn)
      /\ \A g \in DOMAIN hs : Current(hs[g], g, kn, hs)
  BY DEF HandlesCurrent
<1>2. /\ k.status = hs[f].status /\ k.conversion_target = hs[f].conversion_target
      /\ k.is_fixed_target = hs[f].is_fixed_target
  <2>1. IsHandle(hs[f])
    BY DEF HandlesOK
  <2> QED BY <2>1, SetConversionFacts
<1>3. hs2 = [hs EXCEPT ![f] = k]
  OBVIOUS
<1> HIDE DEF k
<1>4. DOMAIN hs2 = DOMAIN hs /\ \A g \in DOMAIN hs : hs2[g] = IF g = f THEN k ELSE hs[g]
  BY <1>3
<1>5. \A x : Fixed(hs2, x) <=> Fixed(hs, x)
  <2> TAKE x
  <2>1. CASE x = f
    BY <1>2, <1>4, <2>1, Zenon DEF Fixed
  <2>2. CASE x # f
    BY <1>4, <2>2, Zenon DEF Fixed
  <2> QED BY <2>1, <2>2
<1>6. \A name : SameTargets(kn, hs, kn, hs2, name)
  BY <1>1, <1>5, GrowsSelf, SameFixed
<1>7. ASSUME NEW g \in DOMAIN hs2 PROVE Current(hs2[g], g, kn, hs2)
  <2>1. g \in DOMAIN hs /\ g \in Format /\ Current(hs[g], g, kn, hs)
    BY <1>1, <1>4, ToSetIs
  <2>2. hs2[g].status = hs[g].status /\ hs2[g].conversion_target = hs[g].conversion_target
    BY <1>2, <1>4, <2>1
  <2>3. SameTargets(kn, hs, kn, hs2, Body[g].name)
    BY <1>6
  <2> DEFINE h == hs[g]
             h2 == hs2[g]
  <2>4. Current(h, g, kn, hs) /\ h2.status = h.status /\ h2.conversion_target = h.conversion_target
    BY <2>1, <2>2
  <2> HIDE DEF h, h2
  <2>5. Current(h2, g, kn, hs2)
    BY <2>1, <2>3, <2>4, CurrentKept
  <2> QED BY <2>5 DEF h2
<1> QED BY <1>1, <1>4, <1>7 DEF HandlesCurrent

CurrentInv == HandlesCurrent(known, handle)

LEMMA FromEncodeCurrent ==
  ASSUME HandleInv, CurrentInv, NEW f \in Format, NEW choose, FromEncode(f, choose)
  PROVE  CurrentInv'
<1> DEFINE hs1 == FFSTypeHandle_by_index(handle, f)
<1>1. \E more \in Seq(Format) : known' = LoadAll(Know(known, f), more)
  <2>1. Body[f].prior \in Seq(Format) /\ << >> \in Seq(Format)
    BY BodyAssumption
  <2>2. known' = LoadAll(Know(known, f), Body[f].prior) \/ known' = LoadAll(Know(known, f), << >>)
    BY Zenon DEF FromEncode
  <2> QED BY <2>1, <2>2
<1>2. handle' = hs1 \/ handle' = [hs1 EXCEPT ![f] = Determined(known', hs1, f)]
  BY Zenon DEF FromEncode
<1>3. HandlesCurrent(known', handle')
  <2> HIDE DEF hs1
  <2>1. PICK more \in Seq(Format) : known' = LoadAll(Know(known, f), more)
    BY <1>1
  <2>2. HandlesCurrent(known, handle) /\ HandlesOK(handle) /\ hs1 = FFSTypeHandle_by_index(handle, f)
    BY DEF CurrentInv, HandleInv, hs1
  <2> QED BY <1>2, <2>1, <2>2, EncodeCurrent
<1> QED BY <1>3 DEF CurrentInv

LEMMA NextCurrent ==
  ASSUME HandleInv, CurrentInv, [Next]_vars
  PROVE  CurrentInv'
<1>1. CASE UNCHANGED vars
  BY <1>1 DEF vars, CurrentInv
<1>2. ASSUME NEW f \in Own, FFSset_fixed_target(f) PROVE CurrentInv'
  <2> DEFINE hs1 == FFSTypeHandle_by_index(handle, f)
  <2>1. /\ known' = Know(known, f)
        /\ handle' = reset_prior_conversions([hs1 EXCEPT ![f].is_fixed_target = TRUE], Body[f].name)
    BY <1>2 DEF FFSset_fixed_target
  <2>2. f \in Format
    BY BodyAssumption
  <2>3. HandlesCurrent(known, handle) /\ HandlesOK(handle) /\ hs1 = FFSTypeHandle_by_index(handle, f)
    BY DEF CurrentInv, HandleInv
  <2> HIDE DEF hs1
  <2>4. HandlesCurrent(known', handle')
    BY <2>1, <2>2, <2>3, SetTargetCurrent
  <2> QED BY <2>4 DEF CurrentInv
<1>3. ASSUME NEW f \in Incoming, FFS_target_from_encode(f) PROVE CurrentInv'
  BY <1>3, FromEncodeCurrent, BodyAssumption DEF FFS_target_from_encode
<1>4. ASSUME NEW f \in Incoming, FFSdecode(f) PROVE CurrentInv'
  BY <1>4, FromEncodeCurrent, BodyAssumption DEF FFSdecode
<1>5. ASSUME NEW f \in Format, NEW t \in ToSet(known), establish_conversion(f, t) PROVE CurrentInv'
  <2>1. /\ f \in DOMAIN handle /\ known' = known
        /\ handle' = [handle EXCEPT ![f] = SetConversion(handle[f], f, t)]
    BY <1>5 DEF establish_conversion
  <2>2. HandlesCurrent(known, handle')
    BY <2>1, EstablishCurrent DEF CurrentInv, HandleInv
  <2> QED BY <2>1, <2>2 DEF CurrentInv
<1>6. CASE free_FFSContext
  <2>1. known' = << >> /\ DOMAIN handle' = {}
    BY <1>6 DEF free_FFSContext
  <2> QED BY <2>1 DEF CurrentInv, HandlesCurrent
<1> QED BY <1>1, <1>2, <1>3, <1>4, <1>5, <1>6 DEF Next

LEMMA InitCurrent ==
  ASSUME Init
  PROVE  HandleInv /\ CurrentInv
<1>1. known = << >> /\ DOMAIN handle = {}
  BY DEF Init
<1> QED BY <1>1 DEF HandleInv, HandlesOK, CurrentInv, HandlesCurrent

LEMMA CurrentIsCurrent ==
  ASSUME HandleInv, CurrentInv
  PROVE  DecisionCurrent
<1> SUFFICES ASSUME NEW f \in DOMAIN handle, handle[f].status # "not_checked", SameNames(f)
             PROVE  LET now == Determined(known, handle, f)
                    IN  /\ handle[f].status = now.status
                        /\ handle[f].status = "conversion_set" =>
                              handle[f].conversion_target = now.conversion_target
  BY Zenon DEF DecisionCurrent
<1> DEFINE now == Determined(known, handle, f)
           c == Choice(f, Targets(known, handle))
           h == handle[f]
<1>1. known \in Seq(Format) /\ f \in ToSet(known) /\ Current(h, f, known, handle)
  BY DEF CurrentInv, HandlesCurrent
<1>2. f \in Format
  BY <1>1, ToSetIs
<1>3. IsHandle(h)
  BY DEF HandleInv, HandlesOK
<1>4. /\ now.status = IF c = None THEN "none_available" ELSE "conversion_set"
      /\ c # None => now.conversion_target = c
  BY <1>1, <1>2, <1>3, DeterminedChoice
<1>5. /\ h.status = IF c = None THEN "none_available" ELSE "conversion_set"
      /\ h.status = "conversion_set" => h.conversion_target = c
  BY <1>1, Zenon DEF Current
<1> HIDE DEF now, c, h
<1>6. h.status = now.status /\ (h.status = "conversion_set" => h.conversion_target = now.conversion_target)
  BY <1>4, <1>5
<1> QED BY <1>6 DEF now, h

\* DecisionCurrent always holds: whatever targets a program sets between its calls,
\* and whatever formats are fetched, the choice FFS_determine_conversion left in a
\* handle is the one it would make now, because reset_prior_conversions resets
\* every handle whose choice the new target could change (for formats whose older
\* formats have their name).
THEOREM DecisionStaysCurrent == Spec => []DecisionCurrent
<1>1. Init => HandleInv /\ CurrentInv
  BY InitCurrent
<1>2. HandleInv /\ CurrentInv /\ [Next]_vars => (HandleInv /\ CurrentInv)'
  BY NextHandles, NextCurrent
<1>3. HandleInv /\ CurrentInv => DecisionCurrent
  BY CurrentIsCurrent
<1> QED BY <1>1, <1>2, <1>3, PTL DEF Spec

-----------------------------------------------------------------------------
(***************************************************************************)
(* The chosen target is the nearest.                                       *)
(***************************************************************************)
NoWorse(d, e) == d.diff2 < e.diff2 \/ (d.diff2 = e.diff2 /\ d.diff1 <= e.diff1)
InNat(d) == d.diff1 \in Nat /\ d.diff2 \in Nat

LEMMA NoWorseTrans ==
  ASSUME NEW a, NEW b, NEW c, InNat(a), InNat(b), InNat(c), NoWorse(a, b), NoWorse(b, c)
  PROVE  NoWorse(a, c)
BY DEF InNat, NoWorse

LEMMA NotCloser ==
  ASSUME NEW d, NEW b, InNat(d), InNat(b), ~Closer(d, b)
  PROVE  NoWorse(b, d)
BY DEF InNat, NoWorse, Closer

LEMMA CloserNoWorse ==
  ASSUME NEW d, NEW b, InNat(d), InNat(b), Closer(d, b) \/ (d.diff1 = 0 /\ d.diff2 = 0)
  PROVE  NoWorse(d, b)
BY DEF InNat, NoWorse, Closer

LEMMA NoWorseSelf ==
  ASSUME NEW d, NEW e, InNat(d), d.diff1 = e.diff1, d.diff2 = e.diff2
  PROVE  NoWorse(d, e) /\ NoWorse(e, d)
BY DEF InNat, NoWorse

LEMMA DiffNat ==
  ASSUME NEW f \in Format, NEW g \in Format
  PROVE  InNat(Diff(f, g))
BY DiffType DEF InNat

\* One comparison: the result stems from a target of f's name, is no worse than
\* before and no worse than the target compared.
LEMMA ComparedNearest ==
  ASSUME NEW f \in Format, NEW t \in Format, NEW i, i # 0, NEW b, InNat(b),
         NEW r, r = Compared(f, t, i, b, Diff(f, t))
  PROVE  /\ InNat(r) /\ NoWorse(r, b)
         /\ Body[f].name = Body[t].name => NoWorse(r, Diff(f, t))
         /\ \/ r = b
            \/ /\ r.nearest = i /\ Body[f].name = Body[t].name
               /\ r.diff1 = Diff(f, t).diff1 /\ r.diff2 = Diff(f, t).diff2
<1> DEFINE d == Diff(f, t)
           new == [diff1 |-> d.diff1, diff2 |-> d.diff2, nearest |-> i]
<1>1. InNat(d)
  BY DiffNat
<1>2. r = IF NoDifference(b) \/ Body[f].name # Body[t].name THEN b
          ELSE IF (d.diff1 = 0 /\ d.diff2 = 0) \/ Closer(d, b) THEN new ELSE b
  BY DEF Compared
<1>3. new.diff1 = d.diff1 /\ new.diff2 = d.diff2 /\ new.nearest = i
  OBVIOUS
<1> HIDE DEF d, new
<1>4. CASE NoDifference(b)
  <2>1. r = b /\ b.diff1 = 0 /\ b.diff2 = 0
    BY <1>2, <1>4 DEF NoDifference
  <2>2. NoWorse(b, d)
    BY <1>1, <2>1, CloserNoWorse
  <2> QED BY <2>1, <2>2, NoWorseSelf DEF d
<1>5. CASE ~NoDifference(b) /\ Body[f].name # Body[t].name
  <2>1. r = b
    BY <1>2, <1>5
  <2> QED BY <1>5, <2>1, NoWorseSelf DEF d
<1>6. CASE ~NoDifference(b) /\ Body[f].name = Body[t].name /\ ((d.diff1 = 0 /\ d.diff2 = 0) \/ Closer(d, b))
  <2>1. r = new
    BY <1>2, <1>6
  <2>2. NoWorse(d, b)
    BY <1>1, <1>6, CloserNoWorse
  <2>3. InNat(r) /\ r.diff1 = d.diff1 /\ r.diff2 = d.diff2 /\ r.nearest = i
    BY <1>1, <1>3, <2>1 DEF InNat
  <2>4. NoWorse(r, d)
    BY <2>3, NoWorseSelf
  <2>5. NoWorse(r, b)
    BY <2>2, <2>3 DEF NoWorse
  <2> QED BY <1>6, <2>3, <2>4, <2>5 DEF d
<1>7. CASE ~NoDifference(b) /\ Body[f].name = Body[t].name /\ ~ ((d.diff1 = 0 /\ d.diff2 = 0) \/ Closer(d, b))
  <2>1. r = b
    BY <1>2, <1>7
  <2>2. NoWorse(b, d)
    BY <1>1, <1>7, NotCloser
  <2> QED BY <2>1, <2>2, NoWorseSelf DEF d
<1> QED BY <1>4, <1>5, <1>6, <1>7

\* r was reached by comparing one of the formats G with a target of its name.
Stems(r, G, list) ==
    r.nearest # 0 =>
        \E g \in G : /\ Body[g].name = Body[list[r.nearest]].name
                     /\ r.diff1 = Diff(g, list[r.nearest]).diff1
                     /\ r.diff2 = Diff(g, list[r.nearest]).diff2

\* r is no worse than any comparison of g with the first n targets.
Beats(r, g, list, n) ==
    \A i \in 1 .. n : Body[g].name = Body[list[i]].name => NoWorse(r, Diff(g, list[i]))

LEMMA ScanNearest ==
  ASSUME NEW f \in Format, NEW list \in Seq(Format), NEW best, InNat(best),
         NEW r, r = IOformat_list_cmp(f, list, best)
  PROVE  /\ InNat(r) /\ NoWorse(r, best)
         /\ r.nearest = 0 => r.diff1 = best.diff1 /\ r.diff2 = best.diff2
         /\ Stems(r, {f}, list) /\ Beats(r, f, list, Len(list))
<1> DEFINE n == Len(list)
           s == Scan(f, list, best)
           Good(b, i) == /\ InNat(b) /\ NoWorse(b, best)
                         /\ b.nearest = 0 => b.diff1 = best.diff1 /\ b.diff2 = best.diff2
                         /\ Stems(b, {f}, list) /\ Beats(b, f, list, i)
           S == {i \in 0 .. n : Good(s[i], i)}
<1>1. n \in Nat /\ \A i \in 1 .. n : list[i] \in Format
  BY LenProperties, ElementOfSeq
<1>2. /\ s[0] = [diff1 |-> best.diff1, diff2 |-> best.diff2, nearest |-> 0]
      /\ \A i \in 1 .. n : s[i] = Compared(f, list[i], i, s[i - 1], Diff(f, list[i]))
  BY ScanDefined DEF InNat
<1>3. r = s[n]
  BY DEF IOformat_list_cmp
<1> HIDE DEF s, n
<1>4. 0 \in S
  <2>1. s[0].diff1 = best.diff1 /\ s[0].diff2 = best.diff2 /\ s[0].nearest = 0
    BY <1>2
  <2>2. NoWorse(s[0], best)
    BY <2>1, NoWorseSelf
  <2>3. Beats(s[0], f, list, 0)
    BY DEF Beats
  <2>4. InNat(s[0]) /\ Stems(s[0], {f}, list)
    BY <2>1 DEF InNat, Stems
  <2> QED BY <1>1, <2>1, <2>2, <2>3, <2>4
<1>5. ASSUME NEW i \in 1 .. n, i - 1 \in S PROVE i \in S
  <2> DEFINE b == s[i - 1]
             t == list[i]
             c == s[i]
  <2>1. Good(b, i - 1)
    BY <1>5
  <2>2. t \in Format /\ i # 0 /\ c = Compared(f, t, i, b, Diff(f, t)) /\ i \in 0 .. n
    BY <1>1, <1>2
  <2> HIDE DEF b, c
  <2>3. /\ InNat(c) /\ NoWorse(c, b)
        /\ Body[f].name = Body[t].name => NoWorse(c, Diff(f, t))
        /\ \/ c = b
           \/ /\ c.nearest = i /\ Body[f].name = Body[t].name
              /\ c.diff1 = Diff(f, t).diff1 /\ c.diff2 = Diff(f, t).diff2
    <3> HIDE DEF t
    <3> QED BY <2>1, <2>2, ComparedNearest
  <2>4. NoWorse(c, best)
    BY <2>1, <2>3, NoWorseTrans
  <2>5. /\ c.nearest = 0 => c.diff1 = best.diff1 /\ c.diff2 = best.diff2
        /\ Stems(c, {f}, list)
    <3>1. CASE c = b
      BY <2>1, <3>1
    <3>2. CASE c # b
      <4>1. /\ c.nearest = i /\ Body[f].name = Body[list[c.nearest]].name
            /\ c.diff1 = Diff(f, list[c.nearest]).diff1 /\ c.diff2 = Diff(f, list[c.nearest]).diff2
        BY <2>3, <3>2
      <4> QED BY <2>2, <4>1 DEF Stems
    <3> QED BY <3>1, <3>2
  <2>6. ASSUME NEW j \in 1 .. i, Body[f].name = Body[list[j]].name PROVE NoWorse(c, Diff(f, list[j]))
    <3>1. CASE j = i
      BY <2>3, <2>6, <3>1
    <3>2. CASE j # i
      <4>1. j \in 1 .. (i - 1) /\ j \in 1 .. n
        BY <1>1, <3>2
      <4>2. NoWorse(b, Diff(f, list[j]))
        BY <2>1, <2>6, <4>1 DEF Beats
      <4>3. InNat(Diff(f, list[j]))
        BY <1>1, <4>1, DiffNat
      <4> QED BY <2>1, <2>3, <4>2, <4>3, NoWorseTrans
    <3> QED BY <3>1, <3>2
  <2>7. Beats(c, f, list, i)
    BY <2>6 DEF Beats
  <2>8. Good(c, i)
    BY <2>3, <2>4, <2>5, <2>7
  <2> QED BY <2>2, <2>8 DEF c
<1> HIDE DEF S
<1>6. \A i \in 0 .. n : i \in S
  BY <1>1, <1>4, <1>5, Upwards
<1>7. n \in S
  BY <1>1, <1>6
<1>8. Good(s[n], n)
  BY <1>7 DEF S
<1> QED BY <1>3, <1>8 DEF n

\* The formats an incoming format can be taken for: itself and the first k older ones.
TakenFor(f, k) == {f} \union {Body[f].prior[m] : m \in 1 .. k}

LEMMA OlderNearest ==
  ASSUME NEW f \in Format, NEW list \in Seq(Format)
  PROVE  LET r == LastResult(f, list)
             G == TakenFor(f, Len(Body[f].prior))
         IN  Stems(r, G, list) /\ \A g \in G : Beats(r, g, list, Len(list))
<1> DEFINE own == OwnResult(f, list)
           fs == Body[f].prior
           n == Len(fs)
           s == OlderTried(f, list, own)
           Good(b, k) == /\ InNat(b) /\ Stems(b, TakenFor(f, k), list)
                         /\ \A g \in TakenFor(f, k) : Beats(b, g, list, Len(list))
           S == {k \in 0 .. n : Good(s[k], k)}
<1>1. n \in Nat /\ \A k \in 1 .. n : fs[k] \in Format
  <2>1. fs \in Seq(Format)
    BY BodyAssumption
  <2> HIDE DEF fs
  <2> QED BY <2>1, LenProperties, ElementOfSeq
<1>2. own \in Result(Len(list)) /\ LastResult(f, list) = s[n]
  BY ResultTypes DEF LastResult
<1>3. InNat(Worst)
  BY DEF Worst, MAX_DIFF, InNat
<1>4. InNat(own) /\ Stems(own, {f}, list) /\ Beats(own, f, list, Len(list))
  BY <1>3, ScanNearest DEF OwnResult
<1> HIDE DEF own
<1>5. /\ s[0] = own
      /\ \A k \in 1 .. n : s[k] = TryOlder(s[k - 1], IOformat_list_cmp(fs[k], list, s[k - 1]))
      /\ \A k \in 0 .. n : s[k] \in Result(Len(list))
  BY <1>2, OlderDefined
<1>6. TakenFor(f, 0) = {f}
  BY DEF TakenFor
<1>7. \A k \in 1 .. n : TakenFor(f, k) = TakenFor(f, k - 1) \union {fs[k]}
  <2> TAKE k \in 1 .. n
  <2>1. 1 .. k = (1 .. (k - 1)) \union {k}
    BY <1>1
  <2> QED BY <2>1 DEF TakenFor
<1> HIDE DEF s, n, fs
<1>8. 0 \in S
  <2>1. Stems(own, TakenFor(f, 0), list)
    BY <1>4, <1>6
  <2>2. \A g \in TakenFor(f, 0) : Beats(own, g, list, Len(list))
    BY <1>4, <1>6
  <2>3. Good(s[0], 0)
    BY <1>4, <1>5, <2>1, <2>2
  <2> HIDE DEF Good
  <2> QED BY <1>1, <2>3
<1>9. \A k \in 0 .. n : \A g \in TakenFor(f, k) : g \in Format
  BY <1>1 DEF TakenFor, fs
<1>10. ASSUME NEW k \in 1 .. n, k - 1 \in S PROVE k \in S
  <2> DEFINE b == s[k - 1]
             h == fs[k]
             r == IOformat_list_cmp(h, list, b)
             c == s[k]
             G == TakenFor(f, k - 1)
             H == TakenFor(f, k)
  <2>1. Good(b, k - 1)
    BY <1>10
  <2>2. h \in Format /\ k - 1 \in 0 .. n /\ k \in 0 .. n /\ c = TryOlder(b, r) /\ H = G \union {h}
    BY <1>1, <1>5, <1>7
  <2>3. InNat(b) /\ Stems(b, G, list) /\ \A g \in G : Beats(b, g, list, Len(list))
    BY <2>1
  <2>4. \A g \in G : g \in Format
    BY <1>9, <2>2
  <2> HIDE DEF b, h, c, G, H
  <2>5. /\ InNat(r) /\ NoWorse(r, b)
        /\ r.nearest = 0 => r.diff1 = b.diff1 /\ r.diff2 = b.diff2
        /\ Stems(r, {h}, list) /\ Beats(r, h, list, Len(list))
    BY <2>2, <2>3, ScanNearest
  <2> HIDE DEF r
  <2>6. \A i \in 1 .. Len(list) : list[i] \in Format
    BY ElementOfSeq
  <2>7. CASE b.diff1 = 0 /\ b.diff2 = 0
    <3>1. c = b
      BY <2>2, <2>7 DEF TryOlder
    <3>2. Beats(b, h, list, Len(list))
      <4>1. \A i \in 1 .. Len(list) : NoWorse(b, Diff(h, list[i]))
        BY <2>2, <2>3, <2>6, <2>7, DiffNat, CloserNoWorse
      <4> QED BY <4>1 DEF Beats
    <3>3. Stems(c, H, list)
      BY <2>2, <2>3, <3>1 DEF Stems
    <3>4. \A g \in H : Beats(c, g, list, Len(list))
      BY <2>2, <2>3, <3>1, <3>2
    <3> QED BY <2>2, <2>3, <3>1, <3>3, <3>4 DEF c, H
  <2>8. CASE ~ (b.diff1 = 0 /\ b.diff2 = 0) /\ r.nearest = 0
    <3>1. c = b
      BY <2>2, <2>8 DEF TryOlder
    <3>2. Beats(b, h, list, Len(list))
      BY <2>5, <2>8, Zenon DEF Beats, NoWorse
    <3>3. Stems(c, H, list)
      BY <2>2, <2>3, <3>1 DEF Stems
    <3>4. \A g \in H : Beats(c, g, list, Len(list))
      BY <2>2, <2>3, <3>1, <3>2
    <3> QED BY <2>2, <2>3, <3>1, <3>3, <3>4 DEF c, H
  <2>9. CASE ~ ((b.diff1 = 0 /\ b.diff2 = 0) \/ r.nearest = 0)
    <3>1. c = r
      BY <2>2, <2>9 DEF TryOlder
    <3>2. Stems(r, H, list)
      BY <2>2, <2>5 DEF Stems
    <3>3. ASSUME NEW g \in G PROVE Beats(r, g, list, Len(list))
      <4> SUFFICES ASSUME NEW i \in 1 .. Len(list), Body[g].name = Body[list[i]].name
                   PROVE  NoWorse(r, Diff(g, list[i]))
        BY DEF Beats
      <4>1. NoWorse(b, Diff(g, list[i]))
        BY <2>3 DEF Beats
      <4>2. InNat(Diff(g, list[i]))
        BY <2>4, <2>6, DiffNat
      <4> QED BY <2>3, <2>5, <4>1, <4>2, NoWorseTrans
    <3>4. \A g \in H : Beats(r, g, list, Len(list))
      BY <2>2, <2>5, <3>3
    <3> QED BY <2>2, <2>5, <3>1, <3>2, <3>4 DEF c, H
  <2> QED BY <2>7, <2>8, <2>9
<1> HIDE DEF S
<1>11. \A k \in 0 .. n : k \in S
  BY <1>1, <1>8, <1>10, Upwards
<1>12. n \in S
  BY <1>1, <1>11
<1>13. Good(s[n], n)
  BY <1>12 DEF S
<1> QED BY <1>2, <1>13 DEF n, fs

\* The target taken stems from a comparison no worse than any other.
LEMMA ChoiceNearest ==
  ASSUME NEW f \in Format, NEW list \in Seq(Format), Choice(f, list) # None
  PROVE  \E d \in DiffsTo(f, Choice(f, list)) :
            \A t \in ToSet(list) : \A e \in DiffsTo(f, t) : NoWorse(d, e)
<1> DEFINE own == OwnResult(f, list)
           last == LastResult(f, list)
           a == Named(own, list)
           z == Named(last, list)
           c == Choice(f, list)
           n == Len(Body[f].prior)
           G == TakenFor(f, n)
<1>1. own \in Result(Len(list)) /\ last \in Result(Len(list))
  BY ResultTypes
<1>2. c = NamedChoice(f, a, z)
  BY ChoiceNamed
<1>3. InNat(own) /\ Stems(own, {f}, list)
  <2>1. InNat(Worst)
    BY DEF Worst, MAX_DIFF, InNat
  <2> QED BY <2>1, ScanNearest DEF OwnResult
<1>4. Stems(last, G, list) /\ \A g \in G : Beats(last, g, list, Len(list))
  BY OlderNearest
<1>5. G = {f} \union ToSet(Body[f].prior) /\ \A g \in G : g \in Format
  <2> DEFINE fs == Body[f].prior
  <2>1. fs \in Seq(Format)
    BY BodyAssumption
  <2>2. G = {f} \union {fs[m] : m \in 1 .. Len(fs)}
    BY DEF TakenFor
  <2> HIDE DEF fs, G
  <2>3. ToSet(fs) = {fs[m] : m \in 1 .. Len(fs)} /\ ToSet(fs) \subseteq Format
    BY <2>1, ToSetIs
  <2> QED BY <2>2, <2>3 DEF fs
<1>6. \A t : DiffsTo(f, t) = {Diff(g, t) : g \in {h \in G : Body[h].name = Body[t].name}}
  BY <1>5, Zenon DEF DiffsTo
<1>7. ToSet(list) = {list[i] : i \in 1 .. Len(list)} /\ ToSet(list) \subseteq Format
  BY ToSetIs
<1> HIDE DEF own, last, c, G
<1>8. /\ a.diff1 = own.diff1 /\ a.diff2 = own.diff2
      /\ a.target = None <=> own.nearest = 0
      /\ own.nearest # 0 => own.nearest \in 1 .. Len(list) /\ a.target = list[own.nearest]
  BY <1>1, NamedFacts
<1>9. /\ z.diff1 = last.diff1 /\ z.diff2 = last.diff2
      /\ z.target = None <=> last.nearest = 0
      /\ last.nearest # 0 => last.nearest \in 1 .. Len(list) /\ z.target = list[last.nearest]
  BY <1>1, NamedFacts
<1> HIDE DEF a, z
<1>10. CASE a.target # None /\ a.diff1 = 0 /\ a.diff2 = 0
  <2> DEFINE d == Diff(f, c)
  <2>1. c = a.target
    BY <1>2, <1>10 DEF NamedChoice
  <2>2. own.nearest # 0 /\ c = list[own.nearest] /\ own.diff1 = 0 /\ own.diff2 = 0
    BY <1>8, <1>10, <2>1, Zenon
  <2>3. Body[f].name = Body[c].name /\ d.diff1 = 0 /\ d.diff2 = 0
    BY <1>3, <2>2 DEF Stems
  <2>4. d \in DiffsTo(f, c)
    BY <1>5, <1>6, <2>3
  <2> HIDE DEF d
  <2>5. ASSUME NEW t \in ToSet(list), NEW e \in DiffsTo(f, t) PROVE NoWorse(d, e)
    <3>1. PICK g \in G : e = Diff(g, t)
      BY <1>6
    <3>2. InNat(e)
      BY <1>5, <1>7, <3>1, DiffNat
    <3>3. InNat(d)
      BY <2>3 DEF InNat
    <3> QED BY <2>3, <3>2, <3>3, CloserNoWorse
  <2> QED BY <2>4, <2>5 DEF c
<1>11. CASE ~ (a.target # None /\ a.diff1 = 0 /\ a.diff2 = 0)
  <2>1. c = z.target /\ z.target # None
    BY <1>2, <1>11 DEF NamedChoice, c
  <2>2. last.nearest # 0 /\ c = list[last.nearest]
    BY <1>9, <2>1, Zenon
  <2>3. PICK g \in G : Body[g].name = Body[c].name /\ last.diff1 = Diff(g, c).diff1
                       /\ last.diff2 = Diff(g, c).diff2
    BY <1>4, <2>2 DEF Stems
  <2> DEFINE d == Diff(g, c)
  <2>4. d \in DiffsTo(f, c)
    BY <1>6, <2>3
  <2>5. last.diff1 = d.diff1 /\ last.diff2 = d.diff2
    BY <2>3
  <2> HIDE DEF d
  <2>6. ASSUME NEW t \in ToSet(list), NEW e \in DiffsTo(f, t) PROVE NoWorse(d, e)
    <3>1. PICK h \in G : e = Diff(h, t) /\ Body[h].name = Body[t].name
      BY <1>6
    <3>2. PICK i \in 1 .. Len(list) : t = list[i]
      BY <1>7
    <3>3. NoWorse(last, e)
      BY <1>4, <3>1, <3>2 DEF Beats
    <3> QED BY <2>5, <3>3, Zenon DEF NoWorse
  <2> QED BY <2>4, <2>6 DEF c
<1> QED BY <1>10, <1>11

LEMMA CurrentNearest ==
  ASSUME HandleInv, CurrentInv
  PROVE  ChosenIsNearest
<1> SUFFICES ASSUME NEW f \in DOMAIN handle, handle[f].status = "conversion_set", SameNames(f)
             PROVE  \E d \in DiffsTo(f, handle[f].conversion_target) :
                       \A t \in ToSet(Targets(known, handle)) :
                          \A e \in DiffsTo(f, t) : NoWorse(d, e)
  BY Zenon DEF ChosenIsNearest, NoWorse
<1> DEFINE L == Targets(known, handle)
           c == Choice(f, L)
           h == handle[f]
<1>1. known \in Seq(Format) /\ f \in ToSet(known) /\ Current(h, f, known, handle)
  BY DEF CurrentInv, HandlesCurrent
<1>2. f \in Format /\ L \in Seq(Format)
  BY <1>1, ToSetIs, TargetsType
<1>3. h.status = IF c = None THEN "none_available" ELSE "conversion_set"
  BY <1>1 DEF Current
<1>4. h.conversion_target = c
  BY <1>1 DEF Current
<1>5. c # None
  BY <1>3
<1> HIDE DEF L
<1>6. \E d \in DiffsTo(f, c) : \A t \in ToSet(L) : \A e \in DiffsTo(f, t) : NoWorse(d, e)
  BY <1>2, <1>5, ChoiceNearest
<1> QED BY <1>4, <1>6 DEF L

\* ChosenIsNearest always holds: the target kept in a handle misses no more fields
\* than any other target set so far would, through the incoming format or any of
\* its older formats, although IOformat_list_cmp stops at the first exact match
\* and FMformat_compat_cmp carries the best differences from one to the next.
THEOREM ChosenStaysNearest == Spec => []ChosenIsNearest
<1>1. Init => HandleInv /\ CurrentInv
  BY InitCurrent
<1>2. HandleInv /\ CurrentInv /\ [Next]_vars => (HandleInv /\ CurrentInv)'
  BY NextHandles, NextCurrent
<1>3. HandleInv /\ CurrentInv => ChosenIsNearest
  BY CurrentNearest
<1> QED BY <1>1, <1>2, <1>3, PTL DEF Spec

-----------------------------------------------------------------------------
(***************************************************************************)
(* Types.                                                                  *)
(***************************************************************************)
LEMMA KnowOnce ==
  ASSUME NEW kn \in Seq(Format), IsInjective(kn), NEW f \in Format
  PROVE  IsInjective(Know(kn, f)) /\ Know(kn, f) \in Seq(Format)
<1> DEFINE kn2 == Know(kn, f)
           n == Len(kn)
<1>1. ToSet(kn) = {kn[i] : i \in 1 .. n} /\ n \in Nat /\ DOMAIN kn = 1 .. n
  BY ToSetIs, LenProperties
<1>2. Grows(kn, kn2) /\ \A i \in 1 .. Len(kn2) : i > n => kn2[i] = f
  BY KnowGrows
<1>3. kn2 \in Seq(Format) /\ kn2 \in {kn, Append(kn, f)}
  BY <1>2 DEF Grows, Know
<1>4. Len(kn2) \in Nat /\ DOMAIN kn2 = 1 .. Len(kn2) /\ Len(kn2) <= n + 1
  BY <1>1, <1>3, LenProperties, AppendProperties
<1>5. /\ \A i \in 1 .. n : kn2[i] = kn[i]
      /\ \A i \in 1 .. Len(kn2) : i > n => kn2[i] \notin ToSet(kn)
  BY <1>2 DEF Grows
<1> HIDE DEF kn2, n
<1>6. ASSUME NEW a \in 1 .. Len(kn2), NEW b \in 1 .. Len(kn2), kn2[a] = kn2[b], a < b
      PROVE  FALSE
  <2>1. a \in 1 .. n
    BY <1>1, <1>4, <1>6
  <2>2. CASE b <= n
    <3>1. b \in 1 .. n
      BY <1>1, <2>2
    <3>2. kn[a] = kn[b]
      BY <1>5, <1>6, <2>1, <3>1
    <3>3. a = b
      BY <1>1, <2>1, <3>1, <3>2 DEF IsInjective
    <3> QED BY <1>6, <3>3
  <2>3. CASE b > n
    <3>1. kn2[b] \notin ToSet(kn)
      BY <1>5, <2>3
    <3>2. kn2[a] \in ToSet(kn)
      BY <1>1, <1>5, <2>1
    <3> QED BY <1>6, <3>1, <3>2
  <2> QED BY <1>1, <2>2, <2>3
<1>7. \A a, b \in 1 .. Len(kn2) : kn2[a] = kn2[b] => a = b
  <2> SUFFICES ASSUME NEW a \in 1 .. Len(kn2), NEW b \in 1 .. Len(kn2), kn2[a] = kn2[b], a # b
               PROVE  FALSE
    OBVIOUS
  <2>1. a < b \/ b < a
    OBVIOUS
  <2> QED BY <1>6, <2>1
<1>8. IsInjective(kn2)
  BY <1>4, <1>7 DEF IsInjective
<1> QED BY <1>3, <1>8 DEF kn2

LEMMA LoadOnce ==
  ASSUME NEW kn \in Seq(Format), IsInjective(kn), NEW fs \in Seq(Format)
  PROVE  IsInjective(LoadAll(kn, fs)) /\ ToSet(fs) \subseteq ToSet(LoadAll(kn, fs))
<1> DEFINE n == Len(fs)
           s == Loading(kn, fs)
           Has(i) == \A j \in 1 .. i : fs[j] \in ToSet(s[i])
           S == {i \in 0 .. n : IsInjective(s[i]) /\ Has(i)}
<1>1. n \in Nat /\ \A i \in 1 .. n : fs[i] \in Format
  BY LenProperties, ElementOfSeq
<1>2. /\ s[0] = kn
      /\ \A i \in 1 .. n : s[i] = Know(s[i - 1], fs[i])
      /\ \A i \in 0 .. n : s[i] \in Seq(Format)
  BY LoadingDefined
<1>3. LoadAll(kn, fs) = s[n]
  BY DEF LoadAll
<1>4. ToSet(fs) = {fs[i] : i \in 1 .. n}
  BY ToSetIs
<1> HIDE DEF s, n
<1>5. 0 \in S
  BY <1>1, <1>2
<1>6. ASSUME NEW i \in 1 .. n, i - 1 \in S PROVE i \in S
  <2> DEFINE b == s[i - 1]
  <2>1. i - 1 \in 0 .. n /\ i \in 0 .. n
    BY <1>1
  <2>2. /\ b \in Seq(Format) /\ fs[i] \in Format /\ s[i] = Know(b, fs[i])
        /\ IsInjective(b) /\ \A j \in 1 .. (i - 1) : fs[j] \in ToSet(b)
    BY <1>1, <1>2, <1>6, <2>1
  <2> HIDE DEF b
  <2>3. IsInjective(s[i])
    BY <2>2, KnowOnce
  <2>4. Grows(b, s[i]) /\ fs[i] \in ToSet(s[i])
    BY <2>2, KnowGrows
  <2>5. ToSet(b) \subseteq ToSet(s[i])
    BY <2>4, GrowsContains
  <2>6. ASSUME NEW j \in 1 .. i PROVE fs[j] \in ToSet(s[i])
    <3>1. CASE j = i
      BY <2>4, <3>1
    <3>2. CASE j # i
      <4>1. j \in 1 .. (i - 1)
        BY <1>1, <3>2
      <4> QED BY <2>2, <2>5, <4>1
    <3> QED BY <3>1, <3>2
  <2> QED BY <2>1, <2>3, <2>6
<1> HIDE DEF S
<1>7. \A i \in 0 .. n : i \in S
  BY <1>1, <1>5, <1>6, Upwards
<1>8. n \in S
  BY <1>1, <1>7
<1>9. IsInjective(s[n]) /\ \A j \in 1 .. n : fs[j] \in ToSet(s[n])
  BY <1>8 DEF S
<1> QED BY <1>3, <1>4, <1>9

Typed(hs) == \A f \in DOMAIN hs : hs[f] \in Handles

LEMMA HandleUpdates ==
  ASSUME NEW h \in Handles
  PROVE  /\ \A s \in {"not_checked", "conversion_set", "none_available"} :
               [h EXCEPT !.status = s] \in Handles
         /\ \A t \in Format : [h EXCEPT !.conversion = t] \in Handles
         /\ \A t \in Format : [h EXCEPT !.status = "conversion_set", !.conversion_target = t] \in Handles
         /\ [h EXCEPT !.is_fixed_target = TRUE] \in Handles
<1> DEFINE F == Format
           None2 == None
<1>1. h \in [status : {"not_checked", "conversion_set", "none_available"},
             conversion : F \union {None2}, conversion_target : F \union {None2},
             is_fixed_target : BOOLEAN]
  BY DEF Handles
<1> USE DEF Handles
<1>2. \A s \in {"not_checked", "conversion_set", "none_available"} : [h EXCEPT !.status = s] \in Handles
  BY <1>1
<1>3. \A t \in Format : [h EXCEPT !.conversion = t] \in Handles
  BY <1>1
<1>4. \A t \in Format : [h EXCEPT !.status = "conversion_set", !.conversion_target = t] \in Handles
  BY <1>1
<1>5. [h EXCEPT !.is_fixed_target = TRUE] \in Handles
  BY <1>1
<1> QED BY <1>2, <1>3, <1>4, <1>5

LEMMA SetConversionType ==
  ASSUME NEW h \in Handles, NEW f, NEW t \in Format
  PROVE  SetConversion(h, f, t) \in Handles
<1>1. [h EXCEPT !.conversion = t] \in Handles
  BY HandleUpdates
<1> QED BY <1>1 DEF SetConversion

LEMMA DeterminedType ==
  ASSUME NEW kn \in Seq(Format), NEW hs, NEW f \in Format, hs[f] \in Handles
  PROVE  Determined(kn, hs, f) \in Handles
<1> DEFINE list == Targets(kn, hs)
           n == FMformat_compat_cmp(f, list)
           k == Determined(kn, hs, f)
           t == list[n]
           h == hs[f]
           g == SetConversion(h, f, t)
<1>1. k = IF n = 0 THEN [h EXCEPT !.status = "none_available"]
          ELSE [g EXCEPT !.status = "conversion_set", !.conversion_target = t]
  BY DEF Determined
<1>2. list \in Seq(Format)
  BY TargetsType
<1> HIDE DEF list
<1>3. n \in 0 .. Len(list)
  BY <1>2, ChoiceNamed
<1> HIDE DEF n, k, h
<1>4. n # 0 => t \in Format
  <2>1. Len(list) \in Nat
    BY <1>2, LenProperties
  <2>2. n # 0 => n \in 1 .. Len(list)
    BY <1>3, <2>1
  <2> QED BY <1>2, <2>2, ElementOfSeq
<1>5. h \in Handles
  BY DEF h
<1>6. [h EXCEPT !.status = "none_available"] \in Handles
  BY <1>5, HandleUpdates
<1>7. n # 0 => g \in Handles
  BY <1>4, <1>5, SetConversionType
<1> HIDE DEF t, g
<1>8. n # 0 => [g EXCEPT !.status = "conversion_set", !.conversion_target = t] \in Handles
  BY <1>4, <1>7, HandleUpdates
<1>9. k \in Handles
  BY <1>1, <1>6, <1>8
<1> QED BY <1>9 DEF k

LEMMA TypedMade ==
  ASSUME NEW hs, Typed(hs), NEW f, NEW hs1, hs1 = FFSTypeHandle_by_index(hs, f)
  PROVE  Typed(hs1) /\ DOMAIN hs1 = DOMAIN hs \union {f}
<1>1. /\ DOMAIN hs1 = DOMAIN hs \union {f}
      /\ \A g \in DOMAIN hs1 : hs1[g] = IF g \in DOMAIN hs THEN hs[g] ELSE NewHandle
  BY DEF FFSTypeHandle_by_index
<1>2. NewHandle \in Handles
  BY DEF NewHandle, Handles
<1> QED BY <1>1, <1>2 DEF Typed

LEMMA TypedReplaced ==
  ASSUME NEW hs, Typed(hs), NEW f \in DOMAIN hs, NEW k \in Handles,
         NEW hs2, hs2 = [hs EXCEPT ![f] = k]
  PROVE  Typed(hs2) /\ DOMAIN hs2 = DOMAIN hs
<1>1. DOMAIN hs2 = DOMAIN hs /\ \A g \in DOMAIN hs : hs2[g] = IF g = f THEN k ELSE hs[g]
  OBVIOUS
<1> QED BY <1>1 DEF Typed

LEMMA SetTargetTyped ==
  ASSUME TypeOK, NEW f \in Format, FFSset_fixed_target(f)
  PROVE  TypeOK'
<1> DEFINE hs == FFSTypeHandle_by_index(handle, f)
           k == [hs[f] EXCEPT !.is_fixed_target = TRUE]
           hs2 == [hs EXCEPT ![f] = k]
<1>1. /\ known \in Seq(Format) /\ IsInjective(known) /\ loaded \subseteq ToSet(known)
      /\ DOMAIN handle \subseteq ToSet(known) /\ Typed(handle) /\ crashed \in BOOLEAN
  BY DEF TypeOK, Typed
<1>2. /\ known' = Know(known, f) /\ loaded' = loaded /\ crashed' = crashed
      /\ handle' = reset_prior_conversions(hs2, Body[f].name)
  BY DEF FFSset_fixed_target
<1>3. Typed(hs) /\ DOMAIN hs = DOMAIN handle \union {f}
  BY <1>1, TypedMade
<1> HIDE DEF hs
<1>4. k \in Handles
  <2>1. hs[f] \in Handles
    BY <1>3 DEF Typed
  <2> QED BY <2>1, HandleUpdates
<1> HIDE DEF k
<1>5. Typed(hs2) /\ DOMAIN hs2 = DOMAIN hs
  BY <1>3, <1>4, TypedReplaced
<1> HIDE DEF hs2
<1>6. /\ DOMAIN handle' = DOMAIN hs2
      /\ \A g \in DOMAIN hs2 : handle'[g] \in {hs2[g], [hs2[g] EXCEPT !.status = "not_checked"]}
  BY <1>2 DEF reset_prior_conversions
<1>7. \A g \in DOMAIN handle' : handle'[g] \in Handles
  <2> TAKE g \in DOMAIN handle'
  <2>1. hs2[g] \in Handles
    BY <1>5, <1>6 DEF Typed
  <2>2. [hs2[g] EXCEPT !.status = "not_checked"] \in Handles
    BY <2>1, HandleUpdates
  <2> QED BY <1>6, <2>1, <2>2
<1>8. Grows(known, known') /\ f \in ToSet(known') /\ IsInjective(known') /\ known' \in Seq(Format)
  BY <1>1, <1>2, KnowGrows, KnowOnce
<1>9. ToSet(known) \subseteq ToSet(known')
  BY <1>8, GrowsContains
<1>10. loaded' \subseteq ToSet(known') /\ DOMAIN handle' \subseteq ToSet(known')
  BY <1>1, <1>2, <1>3, <1>5, <1>6, <1>8, <1>9
<1> QED BY <1>1, <1>2, <1>7, <1>8, <1>10 DEF TypeOK

LEMMA FromEncodeTyped ==
  ASSUME TypeOK, NEW f \in Format, NEW choose, FromEncode(f, choose)
  PROVE  TypeOK'
<1> DEFINE hs1 == FFSTypeHandle_by_index(handle, f)
           kn1 == Know(known, f)
<1>1. /\ known \in Seq(Format) /\ IsInjective(known) /\ loaded \subseteq ToSet(known)
      /\ DOMAIN handle \subseteq ToSet(known) /\ Typed(handle)
  BY DEF TypeOK, Typed
<1>2. \E more \in Seq(Format) :
         /\ known' = LoadAll(kn1, more)
         /\ loaded' = Fetched(Fetched(loaded, known, <<f>>), kn1, more)
  <2>1. Body[f].prior \in Seq(Format) /\ << >> \in Seq(Format)
    BY BodyAssumption
  <2>2. \/ /\ known' = LoadAll(kn1, Body[f].prior)
           /\ loaded' = Fetched(Fetched(loaded, known, <<f>>), kn1, Body[f].prior)
        \/ /\ known' = LoadAll(kn1, << >>)
           /\ loaded' = Fetched(Fetched(loaded, known, <<f>>), kn1, << >>)
    BY Zenon DEF FromEncode
  <2> QED BY <2>1, <2>2
<1>3. PICK more \in Seq(Format) :
         /\ known' = LoadAll(kn1, more)
         /\ loaded' = Fetched(Fetched(loaded, known, <<f>>), kn1, more)
  BY <1>2
<1>4. handle' = hs1 \/ handle' = [hs1 EXCEPT ![f] = Determined(known', hs1, f)]
  BY Zenon DEF FromEncode
<1>5. crashed' \in BOOLEAN
  BY DEF FromEncode
<1>6. Grows(known, kn1) /\ f \in ToSet(kn1) /\ IsInjective(kn1) /\ kn1 \in Seq(Format)
  BY <1>1, KnowGrows, KnowOnce
<1>7. Typed(hs1) /\ DOMAIN hs1 = DOMAIN handle \union {f}
  BY <1>1, TypedMade
<1> HIDE DEF hs1, kn1
<1>8. Grows(kn1, known') /\ IsInjective(known') /\ ToSet(more) \subseteq ToSet(known')
  BY <1>3, <1>6, LoadGrows, LoadOnce
<1>9. ToSet(known) \subseteq ToSet(known') /\ f \in ToSet(known') /\ known' \in Seq(Format)
  <2>1. ToSet(known) \subseteq ToSet(kn1) /\ ToSet(kn1) \subseteq ToSet(known')
    BY <1>6, <1>8, GrowsContains
  <2> QED BY <1>6, <1>8, <2>1 DEF Grows
<1>10. loaded' \subseteq ToSet(known')
  <2>1. ToSet(<<f>>) = {f}
    BY DEF ToSet
  <2> QED BY <1>1, <1>3, <1>8, <1>9, <2>1 DEF Fetched
<1>11. Typed(handle') /\ DOMAIN handle' = DOMAIN hs1
  <2>1. f \in DOMAIN hs1 /\ hs1[f] \in Handles
    BY <1>7 DEF Typed
  <2>2. Determined(known', hs1, f) \in Handles
    BY <1>9, <2>1, DeterminedType
  <2>3. CASE handle' = hs1
    BY <1>7, <2>3
  <2>4. CASE handle' = [hs1 EXCEPT ![f] = Determined(known', hs1, f)]
    BY <1>7, <2>1, <2>2, <2>4, TypedReplaced
  <2> QED BY <1>4, <2>3, <2>4
<1>12. DOMAIN handle' \subseteq ToSet(known')
  BY <1>1, <1>7, <1>9, <1>11
<1> QED BY <1>5, <1>8, <1>9, <1>10, <1>11, <1>12 DEF TypeOK, Typed

LEMMA NextTyped ==
  ASSUME TypeOK, [Next]_vars
  PROVE  TypeOK'
<1>1. CASE UNCHANGED vars
  BY <1>1 DEF vars, TypeOK
<1>2. ASSUME NEW f \in Own, FFSset_fixed_target(f) PROVE TypeOK'
  BY <1>2, SetTargetTyped, BodyAssumption
<1>3. ASSUME NEW f \in Incoming, FFS_target_from_encode(f) PROVE TypeOK'
  BY <1>3, FromEncodeTyped, BodyAssumption DEF FFS_target_from_encode
<1>4. ASSUME NEW f \in Incoming, FFSdecode(f) PROVE TypeOK'
  BY <1>4, FromEncodeTyped, BodyAssumption DEF FFSdecode
<1>5. ASSUME NEW f \in Format, NEW t \in ToSet(known), establish_conversion(f, t) PROVE TypeOK'
  <2> DEFINE k == SetConversion(handle[f], f, t)
  <2>1. /\ f \in DOMAIN handle /\ known' = known /\ loaded' = loaded /\ crashed' = crashed
        /\ handle' = [handle EXCEPT ![f] = k]
    BY <1>5 DEF establish_conversion
  <2>2. /\ known \in Seq(Format) /\ IsInjective(known) /\ loaded \subseteq ToSet(known)
        /\ DOMAIN handle \subseteq ToSet(known) /\ Typed(handle) /\ crashed \in BOOLEAN
    BY DEF TypeOK, Typed
  <2>3. t \in Format /\ handle[f] \in Handles
    BY <2>1, <2>2, ToSetIs DEF Typed
  <2>4. k \in Handles
    BY <2>3, SetConversionType
  <2> HIDE DEF k
  <2>5. Typed(handle') /\ DOMAIN handle' = DOMAIN handle
    BY <2>1, <2>2, <2>4, TypedReplaced
  <2> QED BY <2>1, <2>2, <2>5 DEF TypeOK, Typed
<1>6. CASE free_FFSContext
  <2>1. known' = << >> /\ loaded' = {} /\ DOMAIN handle' = {} /\ crashed' = crashed
    BY <1>6 DEF free_FFSContext
  <2> QED BY <2>1 DEF TypeOK, IsInjective
<1> QED BY <1>1, <1>2, <1>3, <1>4, <1>5, <1>6 DEF Next

\* The type invariant always holds: a context keeps each of its formats once, and
\* has handles, well formed, for formats of its own only (register_data_format,
\* FFSTypeHandle_by_index).
THEOREM HandleTypes == Spec => []TypeOK
<1>1. Init => TypeOK
  <2> SUFFICES ASSUME Init PROVE TypeOK
    OBVIOUS
  <2>1. known = << >> /\ loaded = {} /\ DOMAIN handle = {} /\ crashed = FALSE
    BY DEF Init
  <2>2. crashed \in BOOLEAN
    BY Zenon DEF Init
  <2>3. known \in Seq(Format) /\ IsInjective(known)
    BY <2>1 DEF IsInjective
  <2>4. loaded \subseteq ToSet(known) /\ DOMAIN handle \subseteq ToSet(known)
    BY <2>1
  <2> QED BY <2>1, <2>2, <2>3, <2>4 DEF TypeOK
<1>2. TypeOK /\ [Next]_vars => TypeOK'
  BY NextTyped
<1> QED BY <1>1, <1>2, PTL DEF Spec
=============================================================================
