----------------------------- MODULE TypeHandles -----------------------------
(***************************************************************************)
(* The type handles of an FFSContext (ffs/ffs.c) and the choice, for each  *)
(* incoming format, of the target format its records are decoded to        *)
(* (ffs/evol.c).                                                           *)
(*                                                                         *)
(* A program names the formats it can take with FFSset_fixed_target, asks  *)
(* FFS_target_from_encode which of them an incoming record will become,    *)
(* and decodes.  The choice is made once per incoming format and kept in   *)
(* its handle; a new target resets the choices it may change.  A program   *)
(* may also install a conversion of its own with establish_conversion.     *)
(*                                                                         *)
(* A format is its identity; what it describes is Body[f]:                 *)
(*   name    the name of the top structure,                                *)
(*   fields  field name |-> type,                                          *)
(*   subs    name of a substructure |-> its fields,                        *)
(*   prior   the older formats it claims to be convertible to (the         *)
(*           COMPAT_OPT_INFO blocks), in order.                            *)
(* A type is [kind, count, text]: the FMdata_type of the base ("unknown"   *)
(* for a record), the number of elements or Var for a run-time bound, and  *)
(* the base name and bounds as written.                                    *)
(***************************************************************************)
EXTENDS Integers, Sequences, FiniteSets, SequencesExt, FiniteSetsExt

CONSTANTS Body,        \* what each format describes
          Own,         \* the formats the program registers and takes as targets
          Incoming,    \* the formats of the records it is sent
          MaxHandles   \* bound: formats with a handle at a time

Format == DOMAIN Body
Var == -1
None == "none"

ASSUME BodyAssumption ==
    /\ None \notin Format
    /\ \A f \in Format :
        /\ Body[f].prior \in Seq(Format)
        /\ IsFiniteSet(DOMAIN Body[f].fields) /\ IsFiniteSet(DOMAIN Body[f].subs)
        /\ \A s \in DOMAIN Body[f].subs : IsFiniteSet(DOMAIN Body[f].subs[s])
    /\ Own \subseteq Format /\ Incoming \subseteq Format
    /\ MaxHandles \in Nat

VARIABLES known,    \* format_list of the FMContext: the formats, in index order
          loaded,   \* the ones that were expanded from the server's representation
          handle,   \* handle_list: the handles made so far, by format
          crashed   \* a comparison recursed without end

vars == <<known, loaded, handle, crashed>>

Handles == [status : {"not_checked", "conversion_set", "none_available"},
            conversion : Format \union {None},
            conversion_target : Format \union {None},
            is_fixed_target : BOOLEAN]

-----------------------------------------------------------------------------
(* Comparing two formats.                                                  *)

IO_field_type_eq(t, u) ==
    IF t.count = Var /\ u.count = Var THEN t.text = u.text
    ELSE t.kind = u.kind /\ t.count = u.count

\* The fields of a that b does not have, or has with another type.
Missing(a, b) == {n \in DOMAIN a : n \in DOMAIN b => ~IO_field_type_eq(a[n], b[n])}

CommonSubs(f, g) == DOMAIN Body[f].subs \intersect DOMAIN Body[g].subs

\* How many fields of f are missing from g.  Substructures are compared when both
\* sides have one of that name; the others count as no difference.
MissingFrom(f, g) ==
    Cardinality(Missing(Body[f].fields, Body[g].fields))
        + Cardinality(UNION {{s} \X Missing(Body[f].subs[s], Body[g].subs[s]) :
                                s \in CommonSubs(f, g)})

FMformat_cmp_diff(f, g) ==
    IF f = g THEN [diff1 |-> 0, diff2 |-> 0]
    ELSE [diff1 |-> MissingFrom(f, g), diff2 |-> MissingFrom(g, f)]

Differences == {<<f, g, FMformat_cmp_diff(f, g)>> : f, g \in Format}
Diff(f, g) == (CHOOSE d \in Differences : d[1] = f /\ d[2] = g)[3]

\* A substructure of a loaded format carries the list of all of them (a
\* registered one carries none), so two loaded formats with two substructures in
\* common are compared for ever: the first's list leads to the second, the
\* second's back to the first.
EndlessCompare(ld, f, g) ==
    f # g /\ {f, g} \subseteq ld /\ Cardinality(CommonSubs(f, g)) >= 2

\* "count of nodes of the tree": the fields of the format and of the record each
\* record-typed field leads to (formats here are one level deep).
count_total_IOfield(f) ==
    Cardinality(DOMAIN Body[f].fields)
        + MapThenSumSet(LAMBDA n : LET s == Body[f].fields[n].text
                                   IN  IF s \in DOMAIN Body[f].subs
                                       THEN Cardinality(DOMAIN Body[f].subs[s]) ELSE 0,
                        DOMAIN Body[f].fields)

\* (float) diff2 / field_count < 1.0 - COMPAT_THRESH
check_compat_thresh(best, t) == 5 * best.diff2 < count_total_IOfield(t)

-----------------------------------------------------------------------------
(* The nearest target.  A result is [diff1, diff2, nearest], nearest an    *)
(* index of the list of targets or 0.                                      *)

MAX_DIFF == 65535

\* A mutant: extra fields count before missing ones.
Closer_Extra(d, best) == \/ d.diff1 < best.diff1
                         \/ d.diff1 = best.diff1 /\ d.diff2 < best.diff2
Closer(d, best) == \/ d.diff2 < best.diff2
                   \/ d.diff2 = best.diff2 /\ d.diff1 < best.diff1

NoDifference(b) == b.nearest # 0 /\ b.diff1 = 0 /\ b.diff2 = 0

\* One format against the targets of its name, in order; an exact match ends it.
Compared(f, t, i, b, d) ==
    IF NoDifference(b) \/ Body[f].name # Body[t].name THEN b
    ELSE IF (d.diff1 = 0 /\ d.diff2 = 0) \/ Closer(d, b)
    THEN [diff1 |-> d.diff1, diff2 |-> d.diff2, nearest |-> i]
    ELSE b

Scan(f, list, best) ==
    LET scan[i \in 0 .. Len(list)] ==
            IF i = 0 THEN [diff1 |-> best.diff1, diff2 |-> best.diff2, nearest |-> 0]
            ELSE Compared(f, list[i], i, scan[i - 1], Diff(f, list[i]))
    IN  scan

IOformat_list_cmp(f, list, best) == Scan(f, list, best)[Len(list)]

\* The older formats f lists are tried in order, each having to be closer than
\* all before it, until one is exact.
TryOlder(b, r) == IF (b.diff1 = 0 /\ b.diff2 = 0) \/ r.nearest = 0 THEN b ELSE r

OlderTried(f, list, own) ==
    LET tried[k \in 0 .. Len(Body[f].prior)] ==
            IF k = 0 THEN own
            ELSE LET try(b) == TryOlder(b, IOformat_list_cmp(Body[f].prior[k], list, b))
                 IN  try(tried[k - 1])
    IN  tried

\* The format itself must match exactly; if it does not, the older formats are
\* tried and the closest of all is taken if it misses few enough fields.  Without
\* older formats there is no match.
FMformat_compat_cmp(f, list) ==
    LET accepted(b) == IF b.nearest # 0 /\ check_compat_thresh(b, list[b.nearest])
                       THEN b.nearest ELSE 0
        nearest(own) == IF NoDifference(own) THEN own.nearest
                        ELSE IF Body[f].prior = << >> THEN 0
                        ELSE accepted(OlderTried(f, list, own)[Len(Body[f].prior)])
    IN  nearest(IOformat_list_cmp(f, list, [diff1 |-> MAX_DIFF, diff2 |-> MAX_DIFF,
                                            nearest |-> 0]))

\* The fixed targets in the order of their indices.
Fixed(hs, f) == f \in DOMAIN hs /\ hs[f].is_fixed_target

TargetsUpTo(kn, hs) ==
    LET upto[i \in 0 .. Len(kn)] ==
            IF i = 0 THEN << >>
            ELSE IF Fixed(hs, kn[i]) THEN Append(upto[i - 1], kn[i]) ELSE upto[i - 1]
    IN  upto

Targets(kn, hs) == TargetsUpTo(kn, hs)[Len(kn)]

-----------------------------------------------------------------------------
(* The context: registering and loading formats, making handles.           *)

\* A format is kept once: register_data_format finds an equal representation
\* among the loaded ones as well.
Know(kn, f) == IF Contains(kn, f) THEN kn ELSE Append(kn, f)

NewHandle == [status |-> "not_checked", conversion |-> None,
              conversion_target |-> None, is_fixed_target |-> FALSE]

FFSTypeHandle_by_index(hs, f) ==
    [g \in DOMAIN hs \union {f} |-> IF g \in DOMAIN hs THEN hs[g] ELSE NewHandle]

\* FMformat_from_ID: a format that is not in the context is fetched.
Loading(kn, fs) ==
    LET after[i \in 0 .. Len(fs)] == IF i = 0 THEN kn ELSE Know(after[i - 1], fs[i])
    IN  after

LoadAll(kn, fs) == Loading(kn, fs)[Len(fs)]

Fetched(ld, kn, fs) == ld \union (ToSet(fs) \ ToSet(kn))

-----------------------------------------------------------------------------
(* Conversions.                                                            *)

\* The field list establish_conversion takes from the target: that of the
\* structure with the incoming format's name.
TargetFields(f, t) == IF Body[t].name = Body[f].name THEN Body[t].fields
                      ELSE Body[t].subs[Body[f].name]

Elements(t) == IF t.count = Var THEN 1 ELSE t.count

\* Each target field must be sent, with the same kind and number of elements.
create_conversion(f, t) ==
    /\ Body[f].name \in {Body[t].name} \union DOMAIN Body[t].subs
    /\ \A n \in DOMAIN TargetFields(f, t) :
        /\ n \in DOMAIN Body[f].fields
        /\ LET a == Body[f].fields[n]
               b == TargetFields(f, t)[n]
           IN  a.kind = b.kind /\ Elements(a) = Elements(b)

\* A conversion that cannot be made leaves the one there was.
SetConversion(h, f, t) == IF create_conversion(f, t) THEN [h EXCEPT !.conversion = t] ELSE h

\* FFS_determine_conversion: the handle after the choice.
\* A mutant: a conversion that is there stays.
Determined_KeepsConversion(kn, hs, f) ==
    LET list == Targets(kn, hs)
        chosen(n) ==
            IF n = 0 THEN [hs[f] EXCEPT !.status = "none_available"]
            ELSE IF hs[f].conversion # None
            THEN [hs[f] EXCEPT !.status = "conversion_set", !.conversion_target = list[n]]
            ELSE [SetConversion(hs[f], f, list[n]) EXCEPT
                    !.status = "conversion_set", !.conversion_target = list[n]]
    IN  chosen(FMformat_compat_cmp(f, list))
Determined(kn, hs, f) ==
    LET list == Targets(kn, hs)
        chosen(n) ==
            IF n = 0 THEN [hs[f] EXCEPT !.status = "none_available"]
            ELSE [SetConversion(hs[f], f, list[n]) EXCEPT
                    !.status = "conversion_set", !.conversion_target = list[n]]
    IN  chosen(FMformat_compat_cmp(f, list))

Exact(f, t) == Body[f].name = Body[t].name /\ Diff(f, t) = [diff1 |-> 0, diff2 |-> 0]

\* The comparisons stop at the first exact match: f and its older formats fs in
\* order, each against the targets in order.
Endless(list, ld, fs) ==
    \E k \in DOMAIN fs, i \in DOMAIN list :
        /\ \A m \in 1 .. k - 1, j \in DOMAIN list : ~Exact(fs[m], list[j])
        /\ \A j \in 1 .. i - 1 : ~Exact(fs[k], list[j])
        /\ Body[fs[k]].name = Body[list[i]].name
        /\ EndlessCompare(ld, fs[k], list[i])

-----------------------------------------------------------------------------
(* The operations.                                                         *)

Init ==
    /\ known = << >>
    /\ loaded = {}
    /\ handle = << >>
    /\ crashed = FALSE

\* A mutant: only choices that found a target are reset.
reset_prior_conversions_OnlySet(hs, name) ==
    [f \in DOMAIN hs |-> IF Body[f].name = name /\ hs[f].status = "conversion_set"
                         THEN [hs[f] EXCEPT !.status = "not_checked"] ELSE hs[f]]
reset_prior_conversions(hs, name) ==
    [f \in DOMAIN hs |-> IF Body[f].name = name
                         THEN [hs[f] EXCEPT !.status = "not_checked"] ELSE hs[f]]

FFSset_fixed_target(f) ==
    LET hs == FFSTypeHandle_by_index(handle, f)
    IN  /\ ~crashed
        /\ known' = Know(known, f)
        /\ handle' = reset_prior_conversions([hs EXCEPT ![f].is_fixed_target = TRUE],
                                             Body[f].name)
        /\ UNCHANGED <<loaded, crashed>>

\* What a call on an encoded record does to the context: it finds the handle of
\* the record's format and, if that is called for, makes the choice.
FromEncode(f, choose) ==
    LET kn1 == Know(known, f)
        ld1 == Fetched(loaded, known, <<f>>)
        hs1 == FFSTypeHandle_by_index(handle, f)
        list == Targets(kn1, hs1)
        \* the older formats are fetched when the format has no exact match
        more == IF choose /\ ~\E i \in DOMAIN list : Exact(f, list[i])
                THEN Body[f].prior ELSE << >>
        kn2 == LoadAll(kn1, more)
        ld2 == Fetched(ld1, kn1, more)
    IN  /\ ~crashed
        /\ known' = kn2
        /\ loaded' = ld2
        /\ crashed' = (choose /\ Endless(list, ld2, <<f>> \o more))
        /\ handle' = IF choose /\ ~crashed' THEN [hs1 EXCEPT ![f] = Determined(kn2, hs1, f)]
                     ELSE hs1

Unchecked(f) == f \notin DOMAIN handle \/ handle[f].status = "not_checked"

\* The call, and what it returns for a handle.
FFS_target_from_encode(f) == FromEncode(f, Unchecked(f))

Reported(h) == IF h.status = "conversion_set" THEN h.conversion_target ELSE None

\* FFSdecode and its variants: with a conversion nothing is checked.  What the
\* record is decoded to: if there is no conversion although the choice was made
\* (it could not be created), the record is handed over as it was sent.
FFSdecode(f) ==
    FromEncode(f, Unchecked(f) /\ (f \in DOMAIN handle => handle[f].conversion = None))

DecodedTo(h, f) == IF h.conversion # None THEN h.conversion
                   ELSE IF h.status = "none_available" THEN None ELSE f

\* The program's own conversion for a format whose handle it holds and that has
\* none (FFShas_conversion).
establish_conversion(f, t) ==
    /\ ~crashed
    /\ f \in DOMAIN handle /\ handle[f].conversion = None
    /\ handle' = [handle EXCEPT ![f] = SetConversion(@, f, t)]
    /\ UNCHANGED <<known, loaded, crashed>>

\* free_FFSContext and a new context.
free_FFSContext ==
    /\ ~crashed
    /\ known' = << >>
    /\ loaded' = {}
    /\ handle' = << >>
    /\ UNCHANGED crashed

Bounded == Cardinality(DOMAIN handle') <= MaxHandles

Next ==
    \/ \E f \in Own : FFSset_fixed_target(f) /\ Bounded
    \/ \E f \in Incoming : /\ \/ FFS_target_from_encode(f)
                              \/ FFSdecode(f)
                           /\ Bounded
    \/ \E f \in Format, t \in ToSet(known) : establish_conversion(f, t)
    \/ free_FFSContext

Spec == Init /\ [][Next]_vars

-----------------------------------------------------------------------------
(* Properties.                                                             *)

\* A handle belongs to a format of the context and is well formed; only formats
\* of the context have been loaded.
TypeOK ==
    /\ known \in Seq(Format) /\ IsInjective(known)
    /\ loaded \subseteq ToSet(known)
    /\ DOMAIN handle \subseteq ToSet(known)
    /\ \A f \in DOMAIN handle : handle[f] \in Handles
    /\ crashed \in BOOLEAN

\* The formats whose older formats all have their own name: for the others the
\* reset in FFSset_fixed_target, which goes by the incoming format's name, is not
\* enough.
SameNames(f) == \A i \in DOMAIN Body[f].prior : Body[Body[f].prior[i]].name = Body[f].name

\* A choice kept in a handle is never stale: whatever targets were set since, in
\* whatever order, it is the choice that would be made now (evol.c
\* FFS_determine_conversion against ffs.c reset_prior_conversions).
DecisionCurrent ==
    LET like(h, now) == /\ h.status = now.status
                        /\ h.status = "conversion_set" =>
                                h.conversion_target = now.conversion_target
    IN  \A f \in DOMAIN handle :
            handle[f].status # "not_checked" /\ SameNames(f) =>
                like(handle[f], Determined(known, handle, f))

\* The differences between what the incoming format can be taken for (itself, or
\* one of its older formats) and target t.
DiffsTo(f, t) == {Diff(g, t) :
                    g \in {h \in {f} \union ToSet(Body[f].prior) : Body[h].name = Body[t].name}}

\* The target kept for an incoming format misses no more fields than any other
\* target the record could have gone to, whether through the format itself or
\* through an older one (evol.c IOformat_list_cmp and FMformat_compat_cmp).
ChosenIsNearest ==
    \A f \in DOMAIN handle :
        handle[f].status = "conversion_set" /\ SameNames(f) =>
            \E d \in DiffsTo(f, handle[f].conversion_target) :
                \A t \in ToSet(Targets(known, handle)) :
                    \A e \in DiffsTo(f, t) :
                        d.diff2 < e.diff2 \/ (d.diff2 = e.diff2 /\ d.diff1 <= e.diff1)

\* A program that asks which target a record will become and then decodes it gets
\* the record in that target's layout, whatever was decided, installed or
\* registered before, provided the target can be filled from the record
\* (FFS_target_from_encode, FFSdecode).
DecodesAsReported ==
    \A f \in DOMAIN handle :
        LET t == Reported(handle[f])
        IN  t # None /\ create_conversion(f, t) => DecodedTo(handle[f], f) = t
=============================================================================
