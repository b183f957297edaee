----------------------------- MODULE ServerLink -----------------------------
(***************************************************************************)
(* An FMContext's link to its format server: establish_server_connection   *)
(* and the handshake (fm/server_acts.c, fm/fm_formats.c), the registration *)
(* and retrieval of formats over it with their retries, and the fallback   *)
(* to a self-serving context.  The server may close the connection at any  *)
(* time, crash, and restart without its formats.                           *)
(*                                                                         *)
(* A format and the ID made from its representation are one value here:    *)
(* that the server keeps the two together is the subject of FormatServer.  *)
(* The name lookup, the fallback host (taken to be unreachable) and the    *)
(* HTTP mode are left out.                                                 *)
(***************************************************************************)
EXTENDS Naturals, Sequences

CONSTANTS
    Reps,         \* formats
    MaxPids,      \* how often the server is started
    MaxConns,     \* how often the context connects
    MaxOps,       \* operations of the application
    GarbagePid    \* what an uninitialised server_pid may hold

ASSUME LinkAssumption ==
    /\ MaxPids \in Nat /\ MaxConns \in Nat /\ MaxOps \in Nat
    /\ GarbagePid \in Nat /\ GarbagePid > MaxPids
    /\ MaxConns >= MaxOps      \* an operation connects at most once

NoFd == 0
Conns == 1..MaxConns
Pids == 1..MaxPids

VARIABLES
    server_fd, server_pid, self_server, held,   \* the FMContext
    fdBad,                                       \* server_fd is no open descriptor
    pc, op, want, attempt, retry_count, ops,     \* the operation under way
    result, answered,                            \* its outcome
    source,                                      \* history: the server a format is held from
    spid, started, formats,                      \* the server: 0 when it is down
    connPid, open, requests, replies             \* the connections

context == <<server_fd, server_pid, self_server, held, fdBad>>
call    == <<pc, op, want, attempt, retry_count, ops, result, answered, source>>
server  == <<spid, started, formats>>
network == <<connPid, open, requests, replies>>
vars    == <<context, call, server, network>>

Init ==
    /\ server_fd = NoFd /\ server_pid = 0 /\ self_server = FALSE /\ held = {}
    /\ fdBad = FALSE
    /\ pc = "idle" /\ op = "none" /\ want \in Reps /\ attempt = 0
    /\ retry_count = 0 /\ ops = 0
    /\ result = "none" /\ answered = "nothing" /\ source = [r \in Reps |-> 0]
    /\ spid = 0 /\ started = 0 /\ formats = {}
    /\ connPid = [c \in Conns |-> 0]
    /\ open = [c \in Conns |-> FALSE]
    /\ requests = [c \in Conns |-> <<>>]
    /\ replies = [c \in Conns |-> <<>>]

-----------------------------------------------------------------------------
(***************************************************************************)
(* Calls of the application.                                               *)
(***************************************************************************)
Return(r) == pc' = "idle" /\ result' = r

Begin(o, r) ==
    /\ pc = "idle" /\ ops < MaxOps
    /\ ops' = ops + 1
    /\ op' = o /\ want' = r /\ attempt' = 1 /\ retry_count' = 0
    /\ answered' = "nothing"

\* register_data_format: the cache, then the context itself or the server.
Register(r) ==
    /\ Begin("register", r)
    /\ \/ (r \in held \/ self_server) /\ Return("done") /\ held' = held \cup {r}
       \/ r \notin held /\ ~ self_server /\ pc' = "establish" /\ UNCHANGED <<held, result>>
    /\ UNCHANGED <<server_fd, server_pid, self_server, fdBad, source, server, network>>

\* FMformat_from_ID.
Get(r) ==
    /\ Begin("get", r)
    /\ \/ r \in held /\ Return("done")
       \/ r \notin held /\ self_server /\ Return("NULL")
       \/ r \notin held /\ ~ self_server /\ pc' = "establish" /\ UNCHANGED result
    /\ UNCHANGED <<context, source, server, network>>

\* FMcontext_allow_self_formats: one attempt, no second try later.
AllowSelf ==
    /\ ~ self_server
    /\ Begin("allow", want)
    /\ pc' = "establish"
    /\ UNCHANGED <<result, context, source, server, network>>

-----------------------------------------------------------------------------
(***************************************************************************)
(* establish_server_connection                                             *)
(***************************************************************************)
\* The caller goes on.
Established ==
    \/ op # "allow" /\ pc' = "send" /\ UNCHANGED result
    \/ op = "allow" /\ Return("done")

\* The callers make a second call when the first one fails; a get then ends
\* the program.
Refused ==
    \/ /\ op = "allow"
       /\ Return("done") /\ self_server' = TRUE /\ UNCHANGED attempt
    \/ /\ op # "allow" /\ attempt = 1
       /\ attempt' = 2 /\ pc' = "establish" /\ UNCHANGED <<result, self_server>>
    \/ /\ op = "register" /\ attempt = 2
       /\ Return("failed") /\ UNCHANGED <<attempt, self_server>>
    \/ /\ op = "get" /\ attempt = 2
       /\ pc' = "exited" /\ UNCHANGED <<attempt, self_server, result>>

Connected == server_fd # NoFd /\ ~ fdBad

\* select() finds a descriptor: whatever its other end does, the link counts
\* as alive.
UseLink ==
    /\ pc = "establish" /\ Connected
    /\ Established
    /\ UNCHANGED <<op, want, attempt, retry_count, ops, answered, source, context, server, network>>

Connect(c) ==
    /\ pc = "establish" /\ ~ Connected
    /\ spid # 0 /\ connPid[c] = 0
    /\ connPid' = [connPid EXCEPT ![c] = spid]
    /\ open' = [open EXCEPT ![c] = TRUE]
    /\ server_fd' = c /\ fdBad' = FALSE
    /\ pc' = "handshake"
    /\ UNCHANGED <<server_pid, self_server, held, op, want, attempt, retry_count, ops,
                   result, answered, source, server, requests, replies>>

ConnectFails ==
    /\ pc = "establish" /\ ~ Connected
    /\ spid = 0
    /\ Refused
    /\ UNCHANGED <<op, want, retry_count, ops, answered, source, server_fd, server_pid, held,
                   fdBad, server, network>>

\* server_write_header: the server answers with its magic number and its pid.
Handshake ==
    /\ pc = "handshake" /\ open[server_fd]
    /\ LET pid == connPid[server_fd] IN
       \/ /\ server_pid \in {0, pid}
          /\ server_pid' = pid
          /\ Established
          /\ UNCHANGED <<attempt, self_server>>
       \/ /\ server_pid \notin {0, pid}      \* another server, or it restarted
          /\ Refused
          /\ UNCHANGED server_pid
    /\ UNCHANGED <<op, want, retry_count, ops, answered, source, server_fd, held, fdBad, server, network>>

\* The connection ends before the header is complete.  The pid is then what
\* the local variable happened to hold, and it is kept if none was known.
\* gotMagic: the magic number was still read.
HandshakeBroken(gotMagic, junk) ==
    /\ pc = "handshake" /\ ~ open[server_fd]
    /\ \/ server_pid = 0 /\ server_pid' = junk
       \/ server_pid # 0 /\ UNCHANGED server_pid
    /\ \/ gotMagic /\ server_pid \in {0, junk}
          /\ Established /\ UNCHANGED <<attempt, self_server>>
       \/ ~ (gotMagic /\ server_pid \in {0, junk})
          /\ Refused
    /\ UNCHANGED <<op, want, retry_count, ops, answered, source, server_fd, held, fdBad, server, network>>

\* SIGPIPE is ignored only after the first header was sent: until then a write
\* to a connection that is gone may end the program.
BrokenPipe ==
    /\ pc = "handshake" /\ ~ open[server_fd]
    /\ \A c \in Conns : connPid[c] # 0 => c = server_fd
    /\ pc' = "exited"
    /\ UNCHANGED <<op, want, attempt, retry_count, ops, result, answered, source, context,
                   server, network>>

-----------------------------------------------------------------------------
(***************************************************************************)
(* server_register_format and server_get_format                            *)
(***************************************************************************)
\* Back to the retry label, which establishes the connection anew.
Retry == pc' = "establish" /\ attempt' = 1

\* Mutant: a failed read of a get is not counted.
ReadFailed_NotCounted ==
    /\ Retry
    /\ UNCHANGED <<retry_count, result>>

\* After a failed read: a registration is retried without end, a get until
\* retry_count exceeds 3.
ReadFailed ==
    \/ /\ op = "register"
       /\ Retry /\ UNCHANGED <<retry_count, result>>
    \/ /\ op = "get"
       /\ retry_count' = retry_count + 1
       /\ \/ retry_count' > 3 /\ Return("NULL") /\ UNCHANGED attempt
          \/ retry_count' <= 3 /\ Retry /\ UNCHANGED result

SendRequest ==
    /\ pc = "send"
    /\ \/ open[server_fd]
          /\ requests' = [requests EXCEPT ![server_fd] = Append(@, [op |-> op, rep |-> want])]
       \/ ~ open[server_fd]      \* accepted by the kernel, lost
          /\ UNCHANGED requests
    /\ pc' = "reply"
    /\ UNCHANGED <<op, want, attempt, retry_count, ops, result, answered, source, context, server,
                   connPid, open, replies>>

\* A registration is retried, a get gives up.
SendFails ==
    /\ pc = "send"
    /\ ~ open[server_fd]
    /\ \/ op = "register" /\ Retry /\ UNCHANGED result
       \/ op = "get" /\ Return("NULL") /\ UNCHANGED attempt
    /\ UNCHANGED <<op, want, retry_count, ops, answered, source, context, server, network>>

\* The first reply in the stream is read.  The code would retry on a reply to
\* the other kind of request; by ReplyToThisCall there is none.
ReadReply ==
    /\ pc = "reply"
    /\ replies[server_fd] # <<>> /\ Head(replies[server_fd]).op = op
    /\ LET m == Head(replies[server_fd]) IN
       \/ /\ m.known
          /\ held' = held \cup {want}
          /\ answered' = m.rep
          /\ source' = [source EXCEPT ![want] = connPid[server_fd]]
          /\ Return("done")
       \/ /\ ~ m.known
          /\ answered' = m.rep
          /\ Return("NULL") /\ UNCHANGED <<held, source>>
    /\ replies' = [replies EXCEPT ![server_fd] = Tail(@)]
    /\ UNCHANGED <<op, want, attempt, retry_count, ops, server_fd, server_pid, self_server,
                   fdBad, server, connPid, open, requests>>

\* Mutant: a read is given up while the connection is alive.
ReadReplyFails_GivesUp ==
    /\ pc = "reply"
    /\ ReadFailed
    /\ UNCHANGED <<op, want, ops, answered, source, context, server, network>>

\* Mutant: a registration is taken to be done once it was sent.
ReadReplyFails_Assumes ==
    /\ pc = "reply" /\ op = "register"
    /\ Return("done")
    /\ held' = held \cup {want}
    /\ source' = [source EXCEPT ![want] = connPid[server_fd]]
    /\ UNCHANGED <<op, want, attempt, retry_count, ops, answered, server_fd, server_pid,
                   self_server, fdBad, server, network>>

\* End of file, or an error.
ReadReplyFails ==
    /\ pc = "reply"
    /\ ~ open[server_fd] /\ replies[server_fd] = <<>>
    /\ ReadFailed
    /\ UNCHANGED <<op, want, ops, answered, source, context, server, network>>

-----------------------------------------------------------------------------
(***************************************************************************)
(* The server and the environment.                                         *)
(***************************************************************************)
\* A handler thread of the server serves the next request of c.
ServerHandles(c) ==
    /\ open[c] /\ requests[c] # <<>>
    /\ LET q == Head(requests[c]) IN
          /\ formats' = IF q.op = "register" THEN formats \cup {q.rep} ELSE formats
          /\ replies' = [replies EXCEPT ![c] =
                           Append(@, [op |-> q.op, rep |-> q.rep, known |-> q.rep \in formats'])]
    /\ requests' = [requests EXCEPT ![c] = Tail(@)]
    /\ UNCHANGED <<context, call, spid, started, connPid, open>>

\* The server closes the connection; replies on their way may be lost.
ServerCloses(c) ==
    /\ open[c]
    /\ open' = [open EXCEPT ![c] = FALSE]
    /\ requests' = [requests EXCEPT ![c] = <<>>]
    /\ replies' \in {replies, [replies EXCEPT ![c] = <<>>]}
    /\ UNCHANGED <<context, call, server, connPid>>

ServerCrashes ==
    /\ spid # 0
    /\ spid' = 0 /\ formats' = {}
    /\ open' = [c \in Conns |-> FALSE]
    /\ requests' = [c \in Conns |-> <<>>]
    /\ replies' \in {replies, [c \in Conns |-> <<>>]}
    /\ UNCHANGED <<context, call, started, connPid>>

ServerStarts ==
    /\ spid = 0 /\ started < MaxPids
    /\ started' = started + 1
    /\ spid' = started'
    /\ UNCHANGED <<context, call, formats, network>>

\* Another application registers a format.
OtherRegisters(r) ==
    /\ spid # 0
    /\ formats' = formats \cup {r}
    /\ UNCHANGED <<context, call, spid, started, network>>

\* The application closes descriptors it does not know (EBADF from select).
FdLost ==
    /\ Connected /\ pc = "idle"
    /\ fdBad' = TRUE
    /\ open' = [open EXCEPT ![server_fd] = FALSE]
    /\ UNCHANGED <<server_fd, server_pid, self_server, held, call, server, connPid,
                   requests, replies>>

ClientStep ==
    \/ UseLink \/ ConnectFails \/ Handshake \/ BrokenPipe
    \/ \E c \in Conns : Connect(c)
    \/ \E g \in BOOLEAN, j \in {0, GarbagePid} \cup Pids : HandshakeBroken(g, j)
    \/ SendRequest \/ SendFails \/ ReadReply \/ ReadReplyFails

AppStep == AllowSelf \/ \E r \in Reps : Register(r) \/ Get(r)

Env ==
    \/ \E c \in Conns : ServerCloses(c)
    \/ ServerCrashes \/ ServerStarts \/ FdLost
    \/ \E r \in Reps : OtherRegisters(r)

Next == ClientStep \/ AppStep \/ Env \/ \E c \in Conns : ServerHandles(c)

Spec == Init /\ [][Next]_vars

\* The calling thread runs and the server serves what it has received.
FairSpec ==
    /\ Spec /\ WF_vars(ClientStep)
    /\ \A c \in Conns : WF_vars(ServerHandles(c))

-----------------------------------------------------------------------------
(***************************************************************************)
(* Properties                                                              *)
(***************************************************************************)
Requests == [op : {"register", "get"}, rep : Reps]
Replies == [op : {"register", "get"}, rep : Reps, known : BOOLEAN]

TypeOK ==
    /\ server_fd \in 0..MaxConns /\ server_pid \in 0..GarbagePid
    /\ self_server \in BOOLEAN /\ held \subseteq Reps /\ fdBad \in BOOLEAN
    /\ pc \in {"idle", "establish", "handshake", "send", "reply", "exited"}
    /\ op \in {"none", "register", "get", "allow"} /\ want \in Reps
    /\ attempt \in 0..2 /\ retry_count \in 0..4 /\ ops \in 0..MaxOps
    /\ result \in {"none", "done", "NULL", "failed"}
    /\ answered \in Reps \cup {"nothing"} /\ source \in [Reps -> 0..MaxPids]
    /\ spid \in 0..MaxPids /\ started \in 0..MaxPids /\ formats \subseteq Reps
    /\ connPid \in [Conns -> 0..MaxPids] /\ open \in [Conns -> BOOLEAN]
    /\ requests \in [Conns -> Seq(Requests)]
    /\ replies \in [Conns -> Seq(Replies)]

\* A reply that ends a call is the one to this call's request, however often
\* the request was retried before and wherever the link broke: an ID is never
\* given to another format.
ReplyToThisCall ==
    /\ answered \in {"nothing", want}
    /\ pc = "reply" /\ server_fd # NoFd /\ replies[server_fd] # <<>>
          => Head(replies[server_fd]).op = op

\* A format that a context holds from a server which still runs is known to
\* that server, so whoever meets its ID can retrieve it: a lost reply or a
\* broken link is never taken for an answer.
HeldIsServed ==
    \A r \in held : (source[r] = spid /\ spid # 0) => r \in formats

\* A context that holds formats from one server process sends no request to
\* another one: "it was unacceptable in some way, didn't give us a magic number
\* or had restarted since last time" makes establish_server_connection fail.
RestartedServerRefused ==
    pc = "reply" /\ open[server_fd]
       => \A r \in held : source[r] \in {0, connPid[server_fd]}

\* A retrieval comes to an end whatever the server does.
GetReturns == (op = "get" /\ pc # "idle") ~> pc \in {"idle", "exited"}

\* A registration comes to an end as long as there is a server.
RegisterReturns ==
    (op = "register" /\ pc # "idle") ~> (pc \in {"idle", "exited"} \/ spid = 0)
=============================================================================
