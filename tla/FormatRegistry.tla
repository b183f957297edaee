--------------------------- MODULE FormatRegistry ---------------------------
(***************************************************************************)
(* What a format server promises its clients, without lists, threads or    *)
(* locks: a set of formats that only grows, in which an ID names a single  *)
(* representation forever; every operation takes effect at one instant     *)
(* between its call and its return.  FormatServer implements it.           *)
(***************************************************************************)
CONSTANTS
    Clients,   \* the callers
    IDs,       \* the IDs the registry can hand out
    Calls,     \* [op, version, id, rep] records
    VersionOf(_) \* the version number an ID shows

VARIABLES
    formats,   \* the [id, rep] pairs known
    phase,     \* per caller: "ready", "pending" or "done"
    call,      \* per caller: its last call
    answer     \* per caller: the formats, or IDs, the call is answered with

vars == <<formats, phase, call, answer>>

Init ==
    /\ formats = {}
    /\ phase = [c \in Clients |-> "ready"]
    /\ call \in [Clients -> Calls]
    /\ answer = [c \in Clients |-> {}]

Invoke(c) ==
    /\ phase[c] = "ready"
    /\ phase' = [phase EXCEPT ![c] = "pending"]
    /\ call' \in [Clients -> Calls]
    /\ \A d \in Clients \ {c} : call'[d] = call[d]
    /\ UNCHANGED <<formats, answer>>

Answer(c, a) ==
    /\ phase[c] = "pending"
    /\ phase' = [phase EXCEPT ![c] = "done"]
    /\ answer' = [answer EXCEPT ![c] = a]
    /\ UNCHANGED call

\* A representation already known under an ID of the wanted version keeps it.
Known(q) == {e \in formats : e.rep = q.rep /\ VersionOf(e.id) = q.version}

Register(c) ==
    /\ call[c].op = "f"
    /\ \/ \E e \in Known(call[c]) : Answer(c, {e}) /\ UNCHANGED formats
       \/ /\ Known(call[c]) = {}
          /\ \E id \in IDs :
                LET new == [id |-> id, rep |-> call[c].rep] IN
                /\ VersionOf(id) = call[c].version
                /\ \A e \in formats : e.id # id
                /\ formats' = formats \cup {new}
                /\ Answer(c, {new})

\* A push adds the pair itself, or finds the representation already known.
Push(c) ==
    /\ call[c].op = "P"
    /\ \/ \E e \in Known(call[c]) : Answer(c, {e}) /\ UNCHANGED formats
       \/ LET new == [id |-> call[c].id, rep |-> call[c].rep] IN
          /\ \A e \in formats : e.id = new.id => e = new
          /\ formats' = formats \cup {new}
          /\ Answer(c, {new})

Get(c) ==
    /\ call[c].op = "g"
    /\ Answer(c, {e \in formats : e.id = call[c].id})
    /\ UNCHANGED formats

Dump(c) ==
    /\ call[c].op = "D"
    /\ Answer(c, {e.id : e \in formats})
    /\ UNCHANGED formats

Return(c) ==
    /\ phase[c] = "done"
    /\ phase' = [phase EXCEPT ![c] = "ready"]
    /\ answer' = [answer EXCEPT ![c] = {}]
    /\ UNCHANGED <<formats, call>>

Next ==
    \E c \in Clients :
        Invoke(c) \/ Register(c) \/ Push(c) \/ Get(c) \/ Dump(c) \/ Return(c)

Spec == Init /\ [][Next]_vars
=============================================================================
