---------------------------- MODULE FormatServer ----------------------------
(***************************************************************************)
(* The format list of the format server daemon (fm/progs/server.c) and the *)
(* handler threads that share it.                                          *)
(*                                                                         *)
(* Every client connection has a handler thread that loops in              *)
(* format_server_handle_data: it reads a request without holding fs->lock, *)
(* takes the lock, runs find_format on fs->lists[0], releases the lock and *)
(* writes the answer.  The search of the list and the append at the tail   *)
(* found by that search are separate steps here, so that only the lock     *)
(* keeps two registrations apart, as in the code.                          *)
(*                                                                         *)
(* The server modelled here is not a proxy (ProxyServer adds the master)   *)
(* and its restart file is the subject of RestartFile.                     *)
(***************************************************************************)
EXTENDS Naturals, Sequences

CONSTANTS
    Clients,      \* connections; each one has its handler thread
    Reps,         \* format representations (struct _format_wire_format_1)
    Hash1, Hash2, \* the two words hashlittle2 computes from a representation
    Addrs,        \* version 0 IDs: heap addresses with one byte cleared
    SharedIDs,    \* whether blocks can differ in the cleared byte only
    IPAddr,       \* my_IP_addr of this server
    Pushed,       \* the [id, rep] pairs that proxies of this server push
    FidModulus,   \* 2^16: format_identifier is an unsigned INT2
    MaxFormats,   \* bound on the length of the list
    MaxRequests,  \* bound on the number of requests
    NoID, NoRep, NoFormat, Nobody

(***************************************************************************)
(* Format IDs.  word1 stands for bytes 4..7 of the ID: the low half of an  *)
(* address in version 0, the IP address in version 1, hash1 in version 2.  *)
(***************************************************************************)
ID == [version: 0..2, word1: Nat, word2: Nat]

IDLength == [v \in 0..2 |-> 8 + 2 * v]

\* "version 0 format_IDs have no version info, but second int is zero"
VersionOf(id) == IF id.word1 = 0 THEN 0 ELSE id.version

Format3ID(rep) == [version |-> 2, word1 |-> Hash1[rep], word2 |-> Hash2[rep]]

Entry == [id: ID, rep: Reps]

ASSUME HashAssumption ==
    /\ Hash1 \in [Reps -> Nat] /\ Hash2 \in [Reps -> Nat]
    /\ \A r, s \in Reps : Format3ID(r) = Format3ID(s) => r = s

ASSUME BoundAssumption ==
    /\ FidModulus \in Nat \ {0} /\ MaxFormats \in Nat /\ MaxRequests \in Nat
    /\ MaxFormats <= FidModulus /\ MaxRequests <= MaxFormats

ASSUME AddressAssumption ==
    Addrs \subseteq Nat \ {0} /\ IPAddr \in Nat \ {0} /\ SharedIDs \in BOOLEAN

ASSUME NullAssumption ==
    /\ NoID \notin ID /\ NoRep \notin Reps
    /\ NoFormat \notin Entry /\ Nobody \notin Clients

\* A proxy pushes the ID its own registration produced: a version 2 ID is the
\* hash of the representation, a version 1 ID carries the proxy's address.
ASSUME PushedAssumption ==
    /\ Pushed \subseteq Entry
    /\ \A p, q \in Pushed : p.id = q.id => p.rep = q.rep
    /\ \A p \in Pushed : \/ p.id = Format3ID(p.rep)
                         \/ p.id.version = 1 /\ p.id.word1 \notin {0, IPAddr}

(***************************************************************************)
(* Requests.  id and rep are the server_ID and server_format_rep of the    *)
(* IOFormatRep handed to find_format, idlen the length of the ID in it,    *)
(* version the requested_id_version.                                       *)
(***************************************************************************)
Ops == {"f", "P", "g", "D"}

Request == [op: Ops, version: 0..2, id: ID \cup {NoID}, idlen: Nat,
            rep: Reps \cup {NoRep}]

RegisterRequest(rep, block_version) ==
    [op |-> "f", version |-> block_version, id |-> NoID, idlen |-> 0, rep |-> rep]

PushRequest(p) ==
    [op |-> "P", version |-> 2, id |-> p.id,
     idlen |-> IDLength[p.id.version], rep |-> p.rep]

\* Mutant: the length of every ID asked for stays the initial 8.
GetRequest_ShortID(id) ==
    [op |-> "g", version |-> VersionOf(id), id |-> id,
     idlen |-> 8, rep |-> NoRep]

\* server_get_format sends ID_length[version_of_format_ID(id)] bytes.
GetRequest(id) ==
    [op |-> "g", version |-> VersionOf(id), id |-> id,
     idlen |-> IDLength[VersionOf(id)], rep |-> NoRep]

DumpRequest ==
    [op |-> "D", version |-> 0, id |-> NoID, idlen |-> 0, rep |-> NoRep]

VARIABLES
    list,                \* fs->lists[0], in list order
    server_format_count,
    lock,                \* the holder of fs->lock
    pc,                  \* where each handler thread is
    req,                 \* the request each thread is handling
    last,                \* find_format's "last": 0 for NULL
    resp,                \* the IOFormatRep find_format returned
    dumped,              \* out_list of a 'D' request
    issued,              \* history: what "I" replies told the clients
    served               \* number of requests read so far

vars == <<list, server_format_count, lock, pc, req, last, resp, dumped, issued, served>>

PCs == {"idle", "lock", "search", "append", "unlock", "reply", "close", "gone"}

Init ==
    /\ list = <<>>
    /\ server_format_count = 0
    /\ lock = Nobody
    /\ pc = [c \in Clients |-> "gone"]
    /\ req = [c \in Clients |-> DumpRequest]
    /\ last = [c \in Clients |-> 0]
    /\ resp = [c \in Clients |-> NoFormat]
    /\ dumped = [c \in Clients |-> <<>>]
    /\ issued = {}
    /\ served = 0

-----------------------------------------------------------------------------
(***************************************************************************)
(* find_format                                                             *)
(***************************************************************************)

\* Mutant: only IDs are compared, never representations.
format_eq_IDsOnly(q, e) ==
    q.id # NoID /\ q.idlen = IDLength[e.id.version] /\ q.id = e.id

\* Equal IDs decide; otherwise equal representations do.  A request with an
\* ID of another length is never equal.
format_eq(q, e) ==
    /\ q.id # NoID => q.idlen = IDLength[e.id.version]
    /\ q.id = e.id \/ q.rep = e.rep

\* Mutant: an entry issued under another ID version satisfies the request.
Matches_AnyVersion(q, e) == format_eq(q, e)

Matches(q, e) == format_eq(q, e) /\ q.version = VersionOf(e.id)

FirstMatch(q, i) ==
    /\ i \in DOMAIN list
    /\ Matches(q, list[i])
    /\ \A j \in 1..(i - 1) : ~ Matches(q, list[j])

NoMatch(q) == \A i \in DOMAIN list : ~ Matches(q, list[i])

\* Mutant: version 1 IDs do not carry the running format_identifier.
NewIDs_NoCounter(q) ==
    CASE q.id # NoID -> {q.id}
      [] q.id = NoID /\ q.version = 0 ->
           {[version |-> 0, word1 |-> a, word2 |-> 0] : a \in Addrs}
      [] q.id = NoID /\ q.version = 1 ->
           {[version |-> 1, word1 |-> IPAddr, word2 |-> 0]}
      [] q.id = NoID /\ q.version = 2 -> {Format3ID(q.rep)}

\* The IDs a new entry can get; a push brings its own.  Version 0 is the address
\* of the new block with its first byte cleared ("make sure the top byte is
\* zero").  That byte is the top one on big-endian machines, where it tells no
\* two allocated blocks apart; on 64-bit little-endian ones it is the bottom one
\* and neighbouring blocks share an ID.
NewIDs(q) ==
    CASE q.id # NoID -> {q.id}
      [] q.id = NoID /\ q.version = 0 ->
           {[version |-> 0, word1 |-> a, word2 |-> 0] : a \in Addrs}
               \ {list[i].id : i \in {j \in DOMAIN list : ~ SharedIDs}}
      [] q.id = NoID /\ q.version = 1 ->
           {[version |-> 1, word1 |-> IPAddr,
             word2 |-> server_format_count % FidModulus]}
      [] q.id = NoID /\ q.version = 2 -> {Format3ID(q.rep)}

-----------------------------------------------------------------------------
(***************************************************************************)
(* The steps of the handler thread of connection c.                        *)
(***************************************************************************)
Goto(c, label) == pc' = [pc EXCEPT ![c] = label]

\* A connection is accepted and its handler thread enters its loop.
Connect(c) ==
    /\ pc[c] = "gone"
    /\ Goto(c, "idle")
    /\ UNCHANGED <<list, server_format_count, lock, req, last, resp, dumped, issued, served>>

\* Mutant: what the thread found for its previous request is still there.
Receive_KeepsAnswer(c, q) ==
    /\ pc[c] = "idle"
    /\ served < MaxRequests
    /\ served' = served + 1
    /\ req' = [req EXCEPT ![c] = q]
    /\ Goto(c, "lock")
    /\ UNCHANGED <<list, server_format_count, lock, last, resp, dumped, issued>>

\* The thread has read a complete, acceptable request; no lock is held.
Receive(c, q) ==
    /\ pc[c] = "idle"
    /\ served < MaxRequests
    /\ served' = served + 1
    /\ req' = [req EXCEPT ![c] = q]
    /\ resp' = [resp EXCEPT ![c] = NoFormat]
    /\ dumped' = [dumped EXCEPT ![c] = <<>>]
    /\ Goto(c, "lock")
    /\ UNCHANGED <<list, server_format_count, lock, last, issued>>

\* End of file, a 'C', an unknown request or an unknown block version.
Hangup(c) ==
    /\ pc[c] = "idle"
    /\ Goto(c, "close")
    /\ UNCHANGED <<list, server_format_count, lock, req, last, resp, dumped, issued, served>>

\* Mutant: the list is used without waiting for the lock.
AcquireLock_NoWait(c) ==
    /\ pc[c] = "lock"
    /\ server_format_count < MaxFormats
    /\ lock' = c
    /\ Goto(c, "search")
    /\ UNCHANGED <<list, server_format_count, req, last, resp, dumped, issued, served>>

AcquireLock(c) ==
    /\ pc[c] = "lock"
    /\ lock = Nobody
    /\ server_format_count < MaxFormats
    /\ lock' = c
    /\ Goto(c, "search")
    /\ UNCHANGED <<list, server_format_count, req, last, resp, dumped, issued, served>>

\* The loop of find_format leaves at the first equal format.
SearchHit(c) ==
    /\ pc[c] = "search"
    /\ req[c].op # "D"
    /\ \E i \in DOMAIN list :
          /\ FirstMatch(req[c], i)
          /\ resp' = [resp EXCEPT ![c] = list[i]]
    /\ Goto(c, "unlock")
    /\ UNCHANGED <<list, server_format_count, lock, req, last, dumped, issued, served>>

\* Mutant: new_format_mode is ignored, a fetch of an unknown ID appends.
SearchMiss_AlwaysNew(c) ==
    /\ pc[c] = "search"
    /\ req[c].op # "D"
    /\ NoMatch(req[c])
    /\ last' = [last EXCEPT ![c] = Len(list)]
    /\ Goto(c, "append")
    /\ UNCHANGED <<list, server_format_count, lock, req, resp, dumped, issued, served>>

\* The loop runs off the list, "last" being its last element.
SearchMiss(c) ==
    /\ pc[c] = "search"
    /\ req[c].op # "D"
    /\ NoMatch(req[c])
    /\ last' = [last EXCEPT ![c] = Len(list)]
    /\ Goto(c, IF req[c].op = "g" THEN "unlock" ELSE "append")
    /\ UNCHANGED <<list, server_format_count, lock, req, resp, dumped, issued, served>>

\* Mutant: server_format_count is not incremented.
AppendFormat_NoCount(c) ==
    /\ pc[c] = "append"
    /\ \E id \in NewIDs(req[c]) :
          LET new == [id |-> id, rep |-> req[c].rep] IN
          /\ list' = Append(SubSeq(list, 1, last[c]), new)
          /\ resp' = [resp EXCEPT ![c] = new]
    /\ Goto(c, "unlock")
    /\ UNCHANGED <<lock, server_format_count, req, last, dumped, issued, served>>

\* last->next = new: whatever followed last is cut off.
AppendFormat(c) ==
    /\ pc[c] = "append"
    /\ \E id \in NewIDs(req[c]) :
          LET new == [id |-> id, rep |-> req[c].rep] IN
          /\ list' = Append(SubSeq(list, 1, last[c]), new)
          /\ resp' = [resp EXCEPT ![c] = new]
    /\ server_format_count' = server_format_count + 1
    /\ Goto(c, "unlock")
    /\ UNCHANGED <<lock, req, last, dumped, issued, served>>

\* 'D' goes through the one list twice, once per byte order of old.
CollectIDs(c) ==
    /\ pc[c] = "search"
    /\ req[c].op = "D"
    /\ LET ids == [i \in DOMAIN list |-> list[i].id] IN
          dumped' = [dumped EXCEPT ![c] = ids \o ids]
    /\ Goto(c, "unlock")
    /\ UNCHANGED <<list, server_format_count, lock, req, last, resp, issued, served>>

\* Mutant: the lock is kept after a push.
ReleaseLock_NotAfterPush(c) ==
    /\ pc[c] = "unlock"
    /\ lock' = IF req[c].op = "P" THEN lock ELSE Nobody
    /\ Goto(c, IF req[c].op = "P" THEN "idle" ELSE "reply")
    /\ UNCHANGED <<list, server_format_count, req, last, resp, dumped, issued, served>>

\* A push is not answered.
ReleaseLock(c) ==
    /\ pc[c] = "unlock"
    /\ lock' = Nobody
    /\ Goto(c, IF req[c].op = "P" THEN "idle" ELSE "reply")
    /\ UNCHANGED <<list, server_format_count, req, last, resp, dumped, issued, served>>

\* The 'I' reply to a registration reaches the client and publishes the ID.
ReplyID(c) ==
    /\ pc[c] = "reply"
    /\ req[c].op = "f"
    /\ issued' = issued \cup {resp[c]}
    /\ Goto(c, "idle")
    /\ UNCHANGED <<list, server_format_count, lock, req, last, resp, dumped, served>>

\* The 'f' reply to a fetch: the representation, or length 0 for none.
ReplyFormat(c) ==
    /\ pc[c] = "reply"
    /\ req[c].op = "g"
    /\ Goto(c, "idle")
    /\ UNCHANGED <<list, server_format_count, lock, req, last, resp, dumped, issued, served>>

\* The IDs go out one by one; write errors are not looked at.
ReplyDump(c) ==
    /\ pc[c] = "reply"
    /\ req[c].op = "D"
    /\ Goto(c, "idle")
    /\ UNCHANGED <<list, server_format_count, lock, req, last, resp, dumped, issued, served>>

\* A write of an ID or of a representation fails: the connection is closed.
ReplyFails(c) ==
    /\ pc[c] = "reply"
    /\ req[c].op \in {"f", "g"}
    /\ Goto(c, "close")
    /\ UNCHANGED <<list, server_format_count, lock, req, last, resp, dumped, issued, served>>

\* FSClient_close takes the lock for a moment and ends the thread.
FSClient_close(c) ==
    /\ pc[c] = "close"
    /\ lock = Nobody
    /\ Goto(c, "gone")
    /\ UNCHANGED <<list, server_format_count, lock, req, last, resp, dumped, issued, served>>

\* IDs a client can ask for: known ones, and one this server never issues.
AskableIDs ==
    {list[i].id : i \in DOMAIN list} \cup {[version |-> 1, word1 |-> IPAddr + 1, word2 |-> 0]}

Requests ==
    {RegisterRequest(rep, v) : rep \in Reps, v \in 0..2}
    \cup {PushRequest(p) : p \in Pushed}
    \cup {GetRequest(id) : id \in AskableIDs}
    \cup {DumpRequest}

ThreadStep(c) ==
    \/ AcquireLock(c) \/ SearchHit(c) \/ SearchMiss(c) \/ AppendFormat(c)
    \/ CollectIDs(c) \/ ReleaseLock(c) \/ ReplyID(c) \/ ReplyFormat(c)
    \/ ReplyDump(c) \/ ReplyFails(c) \/ FSClient_close(c)

Environment(c) ==
    Connect(c) \/ Hangup(c) \/ \E q \in Requests : Receive(c, q)

Next == \E c \in Clients : Environment(c) \/ ThreadStep(c)

Spec == Init /\ [][Next]_vars

\* A runnable thread runs, and a thread waiting for the mutex gets it once
\* nobody else competes for it; no client is obliged to send anything.
FairSpec == Spec /\ \A c \in Clients : WF_vars(ThreadStep(c))

-----------------------------------------------------------------------------
(***************************************************************************)
(* Properties                                                              *)
(***************************************************************************)

TypeOK ==
    /\ list \in Seq(Entry)
    /\ server_format_count \in Nat
    /\ lock \in Clients \cup {Nobody}
    /\ pc \in [Clients -> PCs]
    /\ req \in [Clients -> Request]
    /\ last \in [Clients -> Nat]
    /\ resp \in [Clients -> Entry \cup {NoFormat}]
    /\ dumped \in [Clients -> Seq(ID)]
    /\ issued \subseteq Entry
    /\ served \in Nat

\* Two entries of the list with one ID describe one format, however the
\* registrations and pushes of the handler threads interleave.
IdDeterminesRep ==
    \A i, j \in DOMAIN list : list[i].id = list[j].id => list[i].rep = list[j].rep

\* A representation has one version 2 ID and one entry for it: find_format
\* never appends what a concurrent registration or push has just appended.
OneEntryPerRep ==
    \A i, j \in DOMAIN list :
        /\ list[i].rep = list[j].rep
        /\ VersionOf(list[i].id) = 2 /\ VersionOf(list[j].id) = 2
        => i = j

\* server_format_count, printed as "Currently registered formats" and used to
\* number version 1 IDs, is the length of the list whenever the lock is free.
CountMatchesList == lock = Nobody => server_format_count = Len(list)

\* What an 'I' or an 'f' reply carries belongs to the request it answers.
ReplyMatchesRequest ==
    \A c \in Clients :
        pc[c] \in {"unlock", "reply"} =>
            /\ req[c].op = "f" => /\ resp[c] # NoFormat
                                  /\ resp[c].rep = req[c].rep
                                  /\ VersionOf(resp[c].id) = req[c].version
            /\ req[c].op = "g" => resp[c] = NoFormat \/ resp[c].id = req[c].id

\* Nothing a handler does ever drops or reorders a format other clients have.
AppendOnly ==
    [][/\ Len(list') >= Len(list)
       /\ SubSeq(list', 1, Len(list)) = list]_vars

\* A 'g' for an ID that an earlier 'I' reply gave to anybody is answered with
\* the representation that was registered for it.
AnswersIssued ==
    [][\A c \in Clients : \A p \in issued :
          /\ pc[c] = "search" /\ pc'[c] = "unlock"
          /\ req[c].op = "g" /\ req[c].id = p.id
          => resp'[c] = p]_vars

\* Every request that was read is answered or its connection is closed: the
\* lock taken by a handler thread is always given back.
EveryRequestServed ==
    \A c \in Clients : pc[c] = "lock" ~> pc[c] \in {"idle", "close", "gone"}

(***************************************************************************)
(* The inductive invariant behind these properties.                        *)
(***************************************************************************)

\* A thread works on the list exactly while it holds the lock.
LockInv ==
    \A c \in Clients : pc[c] \in {"search", "append", "unlock"} <=> lock = c

RequestInv ==
    \A c \in Clients :
        /\ req[c].op = "f" => req[c].id = NoID /\ req[c].rep \in Reps
        /\ req[c].op = "P" => \E p \in Pushed : req[c] = PushRequest(p)
        /\ req[c].op = "g" => \E id \in ID : req[c] = GetRequest(id)

\* What a thread found out about the list still holds when it appends.
AppendInv ==
    \A c \in Clients :
        pc[c] = "append" => /\ req[c].op \in {"f", "P"}
                            /\ last[c] = Len(list)
                            /\ NoMatch(req[c])

\* Where the ID of an entry comes from.
Origin(e, count) ==
    \/ e.id.version = 0 /\ e.id.word1 # 0
    \/ e.id.version = 1 /\ e.id.word1 = IPAddr /\ e.id.word2 < count
    \/ e.id = Format3ID(e.rep)
    \/ e \in Pushed

ListInv ==
    /\ server_format_count = Len(list)
    /\ \A i \in DOMAIN list : Origin(list[i], server_format_count)
    /\ \A c \in Clients :
          pc[c] \in {"search", "append"} => server_format_count < MaxFormats

Listed(e) == \E i \in DOMAIN list : list[i] = e

AnswerInv ==
    /\ \A e \in issued : Listed(e)
    /\ \A c \in Clients :
          /\ pc[c] \in {"unlock", "reply"} /\ resp[c] # NoFormat => Listed(resp[c])
          /\ pc[c] \in {"lock", "search", "append"} => resp[c] = NoFormat

\* IdDeterminesRep, where addresses make different IDs.
UniqueIDs == ~ SharedIDs => IdDeterminesRep

\* ReplyMatchesRequest, but for formats whose first hash word is zero.
ReplyInv ==
    \A c \in Clients :
        pc[c] \in {"unlock", "reply"} =>
            /\ req[c].op = "f" => /\ resp[c] # NoFormat
                                  /\ resp[c].rep = req[c].rep
                                  /\ \/ VersionOf(resp[c].id) = req[c].version
                                     \/ Hash1[req[c].rep] = 0
            /\ req[c].op = "g" => resp[c] = NoFormat \/ resp[c].id = req[c].id

IndInv ==
    /\ TypeOK /\ LockInv /\ RequestInv /\ AppendInv /\ ListInv /\ AnswerInv
    /\ UniqueIDs /\ OneEntryPerRep /\ ReplyInv

(***************************************************************************)
(* The server implements the registry: an operation takes effect when      *)
(* find_format finds its entry, appends it or runs off the list.           *)
(***************************************************************************)
PossibleIDs ==
    {[version |-> 0, word1 |-> a, word2 |-> 0] : a \in Addrs}
    \cup {[version |-> 1, word1 |-> IPAddr, word2 |-> n] : n \in 0..MaxFormats}
    \cup {Format3ID(r) : r \in Reps}

Phase(c) ==
    CASE pc[c] \in {"lock", "search", "append"} -> "pending"
      [] pc[c] \in {"unlock", "reply"} -> "done"
      [] OTHER -> "ready"

AnswerOf(c) ==
    IF Phase(c) # "done" THEN {}
    ELSE IF req[c].op = "D" THEN {dumped[c][i] : i \in DOMAIN dumped[c]}
    ELSE {resp[c]} \ {NoFormat}

Registry ==
    INSTANCE FormatRegistry WITH
        IDs <- PossibleIDs,
        Calls <- Request,
        formats <- {list[i] : i \in DOMAIN list},
        phase <- [c \in Clients |-> Phase(c)],
        call <- req,
        answer <- [c \in Clients |-> AnswerOf(c)]

\* The threads, the lock and the list behave as an atomic registry.
ImplementsRegistry == Registry!Spec
=============================================================================
