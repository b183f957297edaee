---------------------------- MODULE ProxyServer ----------------------------
(***************************************************************************)
(* A format server that is a proxy of a master server (server.c): it       *)
(* pushes every format it registers to the master and asks the master for  *)
(* formats it does not know.  Everything here runs with the server's lock  *)
(* held, so one operation is one step; the master may die, lose its        *)
(* formats, or drop the connection at any time, also in the middle of one. *)
(***************************************************************************)
EXTENDS Integers, Sequences, FiniteSets

CONSTANTS Formats,     \* formats clients of the proxy use
          MaxFaults,   \* bound on the failures of the master
          MaxPending   \* bound on pending_unregistered

ASSUME ProxyAssumption ==
    MaxFaults \in Nat /\ MaxPending \in Nat \ {0} /\ IsFiniteSet(Formats)

VARIABLES
    list,     \* fs->lists[0], in order of registration
    pending,  \* fs->pending_unregistered
    fd,       \* proxy_context_to_master->server_fd is not -1
    alive,    \* the master still has the other end of that connection
    waited,   \* no attempt yet, or more than 300 seconds since the last
    channel,  \* formats written to the connection, not yet read by the master
    masterUp, master,  \* the master process and the formats it knows
    faults,   \* failures so far
    answer    \* what find_format returned for the last get: [fmt, freed]

vars == <<list, pending, fd, alive, waited, channel, masterUp, master,
          faults, answer>>

NoAnswer == [fmt |-> "none", freed |-> FALSE]
Known == {list[i] : i \in 1..Len(list)}

(* The type invariant; pending_unregistered never goes below zero.         *)
TypeOK == /\ list \in Seq(Formats) /\ pending \in Nat
          /\ fd \in BOOLEAN /\ alive \in BOOLEAN /\ waited \in BOOLEAN
          /\ channel \subseteq Formats
          /\ masterUp \in BOOLEAN /\ master \subseteq Formats
          /\ faults \in 0..MaxFaults
          /\ answer.freed \in BOOLEAN

Init == /\ list = <<>> /\ pending = 0
        /\ fd = FALSE /\ alive = FALSE /\ waited = TRUE /\ channel = {}
        /\ masterUp \in BOOLEAN /\ master \in SUBSET Formats
        /\ faults = 0 /\ answer = NoAnswer

-----------------------------------------------------------------------------
(* Outcomes of one operation on the connection, as records                 *)
(*   [fd, alive, waited, channel, pending, faults].                        *)

Now == [fd |-> fd, alive |-> alive, waited |-> waited, channel |-> channel,
        pending |-> pending, faults |-> faults]

(* A failed write or read closes the connection.                           *)
Closed(c) == [c EXCEPT !.fd = FALSE, !.alive = FALSE]

(* Mutant: a failed push leaves the connection open.                       *)
Push_StaysOpen(c, fmt) ==
    IF c.alive
    THEN {[c EXCEPT !.channel = @ \cup {fmt}]}
         \cup (IF c.faults < MaxFaults
               THEN {[c EXCEPT !.faults = @ + 1]} ELSE {})
    ELSE {c, Closed(c)}

(* register_format_to_master once a connection is there: four writes.  If  *)
(* the master has left, the writes may still be taken and come to nothing; *)
(* if it has not, it may leave now.  A failure counts nothing as pending.  *)
Push(c, fmt) ==
    IF c.alive
    THEN {[c EXCEPT !.channel = @ \cup {fmt}]}
         \cup (IF c.faults < MaxFaults
               THEN {[Closed(c) EXCEPT !.faults = @ + 1]} ELSE {})
    ELSE {c, Closed(c)}

(* Mutant: pending_unregistered is left as it was.                         *)
register_all_to_master_KeepsPending(c, l) ==
    {IF k = Len(l)
     THEN [c EXCEPT !.channel = @ \cup {l[i] : i \in 1..k}]
     ELSE [Closed(c) EXCEPT !.channel = @ \cup {l[i] : i \in 1..k},
                            !.faults = @ + 1] :
     k \in {j \in 0..Len(l) : j = Len(l) \/ c.faults < MaxFaults}}

(* register_all_to_master on a new connection: the first k formats are     *)
(* pushed.  When the next push fails the others find no connection and     *)
(* come too soon for another attempt; what they add to pending is reset    *)
(* with the rest.                                                          *)
register_all_to_master(c, l) ==
    {IF k = Len(l)
     THEN [c EXCEPT !.channel = @ \cup {l[i] : i \in 1..k}, !.pending = 0]
     ELSE [Closed(c) EXCEPT !.channel = @ \cup {l[i] : i \in 1..k}, !.pending = 0,
                            !.faults = @ + 1] :
     k \in {j \in 0..Len(l) : j = Len(l) \/ c.faults < MaxFaults}}

(* try_master_connect: an existing connection is taken to be good; without *)
(* one it is tried again only after 300 seconds, and everything is pushed. *)
try_master_connect(c, l) ==
    IF c.fd THEN {c}
    ELSE IF ~c.waited THEN {c}
    ELSE IF ~masterUp THEN {[c EXCEPT !.waited = FALSE]}
    ELSE register_all_to_master([c EXCEPT !.waited = FALSE, !.fd = TRUE,
                                          !.alive = TRUE], l)

(* It returns 1 although the pushes of register_all_to_master may have     *)
(* lost the connection again: the caller then writes to descriptor -1.     *)
Connects(c) == c.fd \/ (c.waited /\ masterUp)

register_format_to_master(c, l, fmt) ==
    LET after == try_master_connect(c, l)
    IN  IF ~Connects(c) THEN {[x EXCEPT !.pending = @ + 1] : x \in after}
        ELSE UNION {IF x.fd THEN Push(x, fmt) ELSE {x} : x \in after}

Becomes(c) == /\ fd' = c.fd /\ alive' = c.alive /\ waited' = c.waited
              /\ channel' = c.channel /\ pending' = c.pending
              /\ faults' = c.faults

-----------------------------------------------------------------------------
(* A client registers a format the proxy does not know.                    *)
Register(fmt) ==
    /\ fmt \notin Known /\ pending < MaxPending
    /\ list' = Append(list, fmt)
    /\ \E c \in register_format_to_master(Now, list', fmt) : Becomes(c)
    /\ UNCHANGED <<masterUp, master, answer>>

(* A client asks for a format the proxy does not know.  The record         *)
(* get_format_from_master fills in and returns is the request's own, which *)
(* find_format frees before it returns it.                                 *)
Get(fmt) ==
    /\ fmt \notin Known
    /\ \E c \in try_master_connect(Now, list) :
         IF ~Connects(Now) \/ ~c.fd
         THEN Becomes(c) /\ answer' = NoAnswer
         ELSE \/ /\ c.alive /\ Becomes(c)
                 /\ answer' = IF fmt \in master \cup c.channel
                              THEN [fmt |-> fmt, freed |-> TRUE] ELSE NoAnswer
              \/ /\ c.alive => c.faults < MaxFaults
                 /\ Becomes([Closed(c) EXCEPT
                               !.faults = IF c.alive THEN @ + 1 ELSE @])
                 /\ answer' = NoAnswer
    /\ UNCHANGED <<list, masterUp, master>>

(* Mutant: the main loop tends only a connection that is there.            *)
Poll_WhenConnected ==
    /\ pending > 0 /\ fd
    /\ \E c \in try_master_connect(Now, list) : Becomes(c)
    /\ UNCHANGED <<list, masterUp, master, answer>>

(* The main loop, after every poll.                                        *)
Poll == /\ pending > 0
        /\ \E c \in try_master_connect(Now, list) : Becomes(c)
        /\ UNCHANGED <<list, masterUp, master, answer>>

Wait300 == /\ ~waited /\ waited' = TRUE
           /\ UNCHANGED <<list, pending, fd, alive, channel, masterUp, master,
                          faults, answer>>

(* The master (another instance of FormatServer) reads a push.             *)
MasterReads(fmt) ==
    /\ masterUp /\ fmt \in channel
    /\ channel' = channel \ {fmt} /\ master' = master \cup {fmt}
    /\ UNCHANGED <<list, pending, fd, alive, waited, masterUp, faults, answer>>

(* It drops an idle connection, with what it has not read.                 *)
MasterDrops ==
    /\ alive /\ faults < MaxFaults
    /\ alive' = FALSE /\ channel' = {} /\ faults' = faults + 1
    /\ UNCHANGED <<list, pending, fd, waited, masterUp, master, answer>>

(* It dies and loses its formats.                                          *)
MasterDies ==
    /\ masterUp /\ faults < MaxFaults
    /\ masterUp' = FALSE /\ master' = {} /\ alive' = FALSE /\ channel' = {}
    /\ faults' = faults + 1
    /\ UNCHANGED <<list, pending, fd, waited, answer>>

MasterStarts ==
    /\ ~masterUp /\ masterUp' = TRUE
    /\ UNCHANGED <<list, pending, fd, alive, waited, channel, master, faults,
                   answer>>

Next == \/ \E fmt \in Formats : Register(fmt) \/ Get(fmt) \/ MasterReads(fmt)
        \/ Poll \/ Wait300 \/ MasterDrops \/ MasterDies \/ MasterStarts

(* The main loop polls for ever and time passes; a master that is down is  *)
(* started again and reads what it is sent.                                *)
Fairness == /\ WF_vars(Poll) /\ WF_vars(Wait300) /\ WF_vars(MasterStarts)
            /\ \A fmt \in Formats : WF_vars(MasterReads(fmt))

Spec == Init /\ [][Next]_vars
FairSpec == Spec /\ Fairness

-----------------------------------------------------------------------------
(* While the connection stands at both ends, every format the proxy has    *)
(* registered is known to the master or on its way to it, whatever mixture *)
(* of failed pushes, lost connections and restarts went before             *)
(* (register_all_to_master makes up for all of them).                      *)
MasterInStep == fd /\ alive => Known \subseteq master \cup channel

(* Formats are pending only while there is no connection: nothing is left  *)
(* pending by the connection that should have carried it.                  *)
PendingOnlyAlone == pending > 0 => ~fd

(* A pending registration makes the main loop come back to the master:     *)
(* unless the master fails again, in the end it knows every format the     *)
(* proxy has registered.  (When it does fail, during the pushes that       *)
(* follow, register_all_to_master still resets pending, and the formats    *)
(* not pushed wait for the next registration or request, not for the main  *)
(* loop.)                                                                  *)
PendingRetried ==
    \A n \in 0..MaxFaults :
        (pending > 0 /\ faults = n) ~> (Known \subseteq master \/ faults > n)

(* find_format frees "the local version" of a format it got from the       *)
(* master and returns the one it got: what it returns is not freed memory. *)
AnswerNotFreed == ~answer.freed
=============================================================================
