------------------------- MODULE ServerConnections -------------------------
(***************************************************************************)
(* The connections of the format server (fm/progs/server.c): the table     *)
(* fs->ports indexed by file descriptor, the main thread that accepts and  *)
(* times out connections with fs->lock held, and the handler threads that  *)
(* close their own connection, partly outside the lock.                    *)
(*                                                                         *)
(* A file descriptor is a number the kernel hands out again after close(). *)
(* fdOwner is the kernel's view (which connection a descriptor names now), *)
(* ports the server's view, sock[c] the number the handler of c goes on    *)
(* using.  What the requests mean is the subject of FormatServer; here a   *)
(* request is read, served under the lock and answered.                    *)
(***************************************************************************)
EXTENDS Integers, FiniteSets, FiniteSetsExt

CONSTANTS
    Clients,       \* connections that clients open, one each
    Slow,          \* those that may not complete the handshake: late or gone
    MaxFd,         \* descriptors available to the server
    ConnTimeout,   \* CONN_TIMEOUT_INTERVAL
    MaxTime,       \* bound on the clock
    Main, Nobody, NULL

ASSUME ConnAssumption ==
    /\ IsFiniteSet(Clients) /\ Slow \subseteq Clients
    /\ MaxFd \in Nat \ {0} /\ ConnTimeout \in Nat \ {0} /\ MaxTime \in Nat \ {0}
    /\ Main \notin Clients /\ Nobody \notin Clients /\ NULL \notin Clients
    /\ Main # Nobody

Fds == 1..MaxFd

VARIABLES
    now,            \* time(NULL)
    last_timeout,   \* last_timeout_time, 0 until the first call
    selectedAt,     \* when the main thread last called select()
    mpc,            \* main thread: "select", "accept" or "timeout"
    lock,           \* the holder of fs->lock, if it is held between steps
    ports, timestamp, portCount,
    fdOwner,        \* kernel: the connection a descriptor refers to
    tpc,            \* handler threads, and connections before they have one
    sock,           \* fsc->fd
    serving,        \* the connection whose request a thread has read
    shut,           \* kernel: the connection was shut down
    peer,           \* the client's end: "up" or "down"
    inbox,          \* a request of the client waits in the socket
    recent,         \* history: the client sent something in this unit of time
    misdelivered    \* history: some reply went to another connection

kernel == <<fdOwner, shut>>
client == <<peer, inbox, recent>>
table  == <<ports, timestamp, portCount>>
clock  == <<now, last_timeout, selectedAt>>
thread == <<tpc, sock, serving, misdelivered>>
vars   == <<clock, mpc, lock, table, kernel, thread, client>>

Init ==
    /\ now = 1 /\ last_timeout = 0 /\ selectedAt = 1
    /\ mpc = "select" /\ lock = Nobody
    /\ ports = [f \in Fds |-> NULL]
    /\ timestamp = [f \in Fds |-> 0]
    /\ portCount = 0
    /\ fdOwner = [f \in Fds |-> NULL]
    /\ tpc = [c \in Clients |-> "new"]
    /\ sock = [c \in Clients |-> 0]
    /\ serving = [c \in Clients |-> c]
    /\ shut = [c \in Clients |-> FALSE]
    /\ peer = [c \in Clients |-> "up"]
    /\ inbox = [c \in Clients |-> FALSE]
    /\ recent = [c \in Clients |-> FALSE]
    /\ misdelivered = FALSE

-----------------------------------------------------------------------------
(***************************************************************************)
(* The clients and the clock.                                              *)
(***************************************************************************)
Tick ==
    /\ now < MaxTime
    /\ now' = now + 1
    /\ recent' = [c \in Clients |-> FALSE]
    /\ UNCHANGED <<last_timeout, selectedAt, mpc, lock, table, kernel, thread, peer, inbox>>

Dial(c) ==
    /\ tpc[c] = "new"
    /\ tpc' = [tpc EXCEPT ![c] = "backlog"]
    /\ UNCHANGED <<clock, mpc, lock, table, kernel, sock, serving, misdelivered, client>>

Send(c) ==
    /\ tpc[c] # "new" /\ peer[c] = "up" /\ ~ inbox[c]
    /\ ~ shut[c]
    /\ inbox' = [inbox EXCEPT ![c] = TRUE]
    /\ recent' = [recent EXCEPT ![c] = TRUE]
    /\ UNCHANGED <<clock, mpc, lock, table, kernel, thread, peer>>

Quit(c) ==
    /\ tpc[c] # "new" /\ peer[c] = "up"
    /\ tpc[c] \in {"backlog", "header"} => c \in Slow
    /\ peer' = [peer EXCEPT ![c] = "down"]
    /\ UNCHANGED <<clock, mpc, lock, table, kernel, thread, inbox, recent>>

-----------------------------------------------------------------------------
(***************************************************************************)
(* The main thread: format_server_poll_and_handle.                         *)
(***************************************************************************)
Backlog == {c \in Clients : tpc[c] = "backlog"}

\* select() returns because of a connection request or after its timeout of
\* CONN_TIMEOUT_INTERVAL + 5, and the main thread takes the lock.
SelectReturns ==
    /\ mpc = "select" /\ lock = Nobody
    /\ lock' = Main
    /\ \/ Backlog # {} /\ mpc' = "accept"
       \/ Backlog = {} /\ now - selectedAt > ConnTimeout /\ mpc' = "timeout"
    /\ UNCHANGED <<clock, table, kernel, thread, client>>

\* FSClient_force_close of the connections on the descriptors fds.  The join
\* of the detached handler thread returns at once; the handler is not told,
\* and its FSClient stays allocated.
ForceClose(fds) ==
    /\ ports' = [f \in Fds |-> IF f \in fds THEN NULL ELSE ports[f]]
    /\ timestamp' = [f \in Fds |-> IF f \in fds THEN 0 ELSE timestamp[f]]
    /\ portCount' = portCount - Cardinality(fds)
    /\ fdOwner' = [f \in Fds |-> IF f \in fds THEN NULL ELSE fdOwner[f]]
    /\ shut' = [c \in Clients |-> shut[c] \/ \E f \in fds : fdOwner[f] = c]

FreeFds == {f \in Fds : fdOwner[f] = NULL}
Used == {f \in Fds : ports[f] # NULL}

\* accept() returns the lowest free descriptor.
Install(c, f) ==
    /\ tpc' = [tpc EXCEPT ![c] = "header"]
    /\ sock' = [sock EXCEPT ![c] = f]
    /\ UNCHANGED <<serving, misdelivered>>

Accept(c) ==
    /\ mpc = "accept" /\ c \in Backlog
    /\ FreeFds # {}
    /\ LET f == Min(FreeFds) IN
          /\ ports' = [ports EXCEPT ![f] = c]
          /\ timestamp' = [timestamp EXCEPT ![f] = now]
          /\ fdOwner' = [fdOwner EXCEPT ![f] = c]
          /\ Install(c, f)
    /\ portCount' = portCount + 1
    /\ mpc' = "timeout"
    /\ UNCHANGED <<clock, lock, shut, client>>

\* The port timeout_oldest_conn closes: the lowest of those of oldest time.
Oldest == Min({f \in Used : \A g \in Used : timestamp[f] <= timestamp[g]})

\* accept() fails: the oldest connection is closed and accept() tried again,
\* which finds the descriptor that was just closed.
AcceptWhenFull(c) ==
    /\ mpc = "accept" /\ c \in Backlog
    /\ FreeFds = {}
    /\ Used # {}
    /\ LET f == Oldest IN
          /\ ports' = [ports EXCEPT ![f] = c]
          /\ timestamp' = [timestamp EXCEPT ![f] = now]
          /\ shut' = [d \in Clients |-> shut[d] \/ fdOwner[f] = d]
          /\ fdOwner' = [fdOwner EXCEPT ![f] = c]
          /\ Install(c, f)
    /\ portCount' = (portCount - 1) + 1
    /\ mpc' = "timeout"
    /\ UNCHANGED <<clock, lock, client>>

\* Mutant: no return after the failed accept(), whose result is -1.
AcceptFails_NoReturn ==
    /\ mpc = "accept"
    /\ FreeFds = {} /\ Used = {}
    /\ \E c \in Backlog : Install(c, -1)
    /\ mpc' = "timeout"
    /\ UNCHANGED <<clock, lock, table, kernel, client>>

\* accept() fails twice: "Cannot accept socket connection".
AcceptFails ==
    /\ mpc = "accept"
    /\ FreeFds = {} /\ Used = {}
    /\ mpc' = "timeout"
    /\ UNCHANGED <<clock, lock, table, kernel, thread, client>>

Expired == {f \in Used : now - timestamp[f] > ConnTimeout}

\* Mutant: the handler thread is not detached, so the join waits for it.
TimeoutOldConns_Joins ==
    /\ mpc = "timeout"
    /\ \/ /\ now - last_timeout < ConnTimeout \/ last_timeout = 0
          /\ last_timeout' = IF last_timeout = 0 THEN now ELSE last_timeout
          /\ UNCHANGED <<table, kernel>>
       \/ /\ last_timeout # 0 /\ now - last_timeout >= ConnTimeout
          /\ last_timeout' = now
          /\ \A f \in Expired : tpc[ports[f]] = "exited"
          /\ ForceClose(Expired)
    /\ mpc' = "select" /\ lock' = Nobody /\ selectedAt' = now
    /\ UNCHANGED <<now, thread, client>>

\* timeout_old_conns, and back to select() without the lock.
TimeoutOldConns ==
    /\ mpc = "timeout"
    /\ \/ /\ last_timeout = 0
          /\ last_timeout' = now
          /\ UNCHANGED <<table, kernel>>
       \/ /\ last_timeout # 0 /\ now - last_timeout < ConnTimeout
          /\ UNCHANGED <<last_timeout, table, kernel>>
       \/ /\ last_timeout # 0 /\ now - last_timeout >= ConnTimeout
          /\ last_timeout' = now
          /\ ForceClose(Expired)
    /\ mpc' = "select" /\ lock' = Nobody /\ selectedAt' = now
    /\ UNCHANGED <<now, thread, client>>

-----------------------------------------------------------------------------
(***************************************************************************)
(* The handler thread of connection c, which uses descriptor sock[c].      *)
(***************************************************************************)
Owner(c) == fdOwner[sock[c]]

\* The descriptor names a connection that can still carry data.
Alive(o) == IF o = NULL THEN FALSE ELSE ~ shut[o]

\* ... and its client is still there.
Reachable(o) == IF o = NULL THEN FALSE ELSE ~ shut[o] /\ peer[o] = "up"

\* Nothing more can be read from it.
Drained(o) == IF o = NULL THEN TRUE ELSE shut[o] \/ (peer[o] = "down" /\ ~ inbox[o])

ReadHeader(c) ==
    /\ tpc[c] = "header"
    /\ Reachable(Owner(c))
    /\ tpc' = [tpc EXCEPT ![c] = "read"]
    /\ UNCHANGED <<clock, mpc, lock, table, kernel, sock, serving, misdelivered, client>>

\* server_read_header got no acceptable magic number in time: it closes the
\* descriptor, but not the FSClient.  When nothing could be read the magic
\* number is uninitialised and may look acceptable by accident.
ReadHeaderFails(c) ==
    /\ tpc[c] = "header"
    /\ \/ c \in Slow
       \/ ~ Reachable(Owner(c))
    /\ \/ fdOwner' = [fdOwner EXCEPT ![sock[c]] = NULL]
       \/ UNCHANGED fdOwner
    /\ tpc' = [tpc EXCEPT ![c] = "read"]
    /\ UNCHANGED <<clock, mpc, lock, table, shut, sock, serving, misdelivered, client>>

\* A request is read from whatever connection the descriptor names now.
ReadRequest(c) ==
    /\ tpc[c] = "read"
    /\ LET o == Owner(c) IN
          /\ Alive(o)
          /\ inbox[o]
          /\ inbox' = [inbox EXCEPT ![o] = FALSE]
          /\ serving' = [serving EXCEPT ![c] = o]
    /\ tpc' = [tpc EXCEPT ![c] = "serve"]
    /\ UNCHANGED <<clock, mpc, lock, table, kernel, sock, misdelivered, peer, recent>>

\* read() fails or returns end of file.
ReadFails(c) ==
    /\ tpc[c] = "read"
    /\ Drained(Owner(c))
    /\ tpc' = [tpc EXCEPT ![c] = "close"]
    /\ UNCHANGED <<clock, mpc, lock, table, kernel, sock, serving, misdelivered, client>>

\* The work on the format list, with the lock held.
ServeRequest(c) ==
    /\ tpc[c] = "serve" /\ lock = Nobody
    /\ tpc' = [tpc EXCEPT ![c] = "reply"]
    /\ UNCHANGED <<clock, mpc, lock, table, kernel, sock, serving, misdelivered, client>>

WriteReply(c) ==
    /\ tpc[c] = "reply"
    /\ Reachable(Owner(c))
    /\ misdelivered' = (misdelivered \/ Owner(c) # serving[c])
    /\ tpc' = [tpc EXCEPT ![c] = "read"]
    /\ UNCHANGED <<clock, mpc, lock, table, kernel, sock, serving, client>>

WriteFails(c) ==
    /\ tpc[c] = "reply"
    /\ ~ Reachable(Owner(c))
    /\ tpc' = [tpc EXCEPT ![c] = "close"]
    /\ UNCHANGED <<clock, mpc, lock, table, kernel, sock, serving, misdelivered, client>>

\* Mutant: the port is left in the table.
FSClient_close_KeepsPort(c) ==
    /\ tpc[c] = "close" /\ lock = Nobody
    /\ timestamp' = [timestamp EXCEPT ![sock[c]] = 0]
    /\ portCount' = portCount - 1
    /\ tpc' = [tpc EXCEPT ![c] = "closing"]
    /\ UNCHANGED <<clock, mpc, lock, ports, kernel, sock, serving, misdelivered, client>>

\* FSClient_close under the lock: clears the port and frees the FSClient.
FSClient_close(c) ==
    /\ tpc[c] = "close" /\ lock = Nobody
    /\ ports' = [ports EXCEPT ![sock[c]] = NULL]
    /\ timestamp' = [timestamp EXCEPT ![sock[c]] = 0]
    /\ portCount' = portCount - 1
    /\ tpc' = [tpc EXCEPT ![c] = "closing"]
    /\ UNCHANGED <<clock, mpc, lock, kernel, sock, serving, misdelivered, client>>

\* Mutant: the thread exits before the close.
CloseFd_ExitsFirst(c) ==
    /\ tpc[c] = "closing"
    /\ tpc' = [tpc EXCEPT ![c] = "exited"]
    /\ UNCHANGED <<clock, mpc, lock, table, kernel, sock, serving, misdelivered, client>>

\* "moved close outside of the mutex because sometimes it blocks"
CloseFd(c) ==
    /\ tpc[c] = "closing"
    /\ fdOwner' = [fdOwner EXCEPT ![sock[c]] = NULL]
    /\ tpc' = [tpc EXCEPT ![c] = "exited"]
    /\ UNCHANGED <<clock, mpc, lock, table, shut, sock, serving, misdelivered, client>>

MainStep ==
    \/ SelectReturns \/ AcceptFails \/ TimeoutOldConns
    \/ \E c \in Clients : Accept(c) \/ AcceptWhenFull(c)

ThreadStep(c) ==
    \/ ReadHeader(c) \/ ReadHeaderFails(c) \/ ReadRequest(c) \/ ReadFails(c)
    \/ ServeRequest(c) \/ WriteReply(c) \/ WriteFails(c)
    \/ FSClient_close(c) \/ CloseFd(c)

ClientStep(c) == Dial(c) \/ Send(c) \/ Quit(c)

Next ==
    \/ Tick
    \/ MainStep
    \/ \E c \in Clients : ThreadStep(c) \/ ClientStep(c)

Spec == Init /\ [][Next]_vars

\* The threads of the server run; nothing is assumed of the clients.
FairSpec == Spec /\ WF_vars(MainStep) /\ \A c \in Clients : WF_vars(ThreadStep(c))

-----------------------------------------------------------------------------
(***************************************************************************)
(* Properties                                                              *)
(***************************************************************************)
TypeOK ==
    /\ now \in 1..MaxTime /\ last_timeout \in 0..MaxTime /\ selectedAt \in 1..MaxTime
    /\ mpc \in {"select", "accept", "timeout"}
    /\ lock \in {Main, Nobody}
    /\ ports \in [Fds -> Clients \cup {NULL}]
    /\ timestamp \in [Fds -> Nat]
    /\ portCount \in Int
    /\ fdOwner \in [Fds -> Clients \cup {NULL}]
    /\ tpc \in [Clients -> {"new", "backlog", "header", "read", "serve", "reply",
                            "close", "closing", "exited"}]
    /\ sock \in [Clients -> 0..MaxFd]
    /\ serving \in [Clients -> Clients]
    /\ shut \in [Clients -> BOOLEAN]
    /\ peer \in [Clients -> {"up", "down"}]
    /\ inbox \in [Clients -> BOOLEAN]
    /\ recent \in [Clients -> BOOLEAN]
    /\ misdelivered \in BOOLEAN

\* The threads whose FSClient is allocated.
Active(c) == tpc[c] \in {"header", "read", "serve", "reply", "close"}

\* fs->ports never holds an FSClient that was freed, even when a connection is
\* closed by force while its handler closes it too: the main thread can use
\* what it finds in the table.
PortsNotDangling ==
    \A f \in Fds : ports[f] # NULL => Active(ports[f]) /\ sock[ports[f]] = f

\* The reply to a request goes to the client that sent it.
RepliesToAsker == ~ misdelivered

\* The main thread closes a connection for its age only if its client has been
\* idle for the timeout ("closes them after they have been idle").
OnlyIdleTimedOut ==
    [][\A f \in Fds :
          /\ mpc = "timeout"
          /\ ports[f] # NULL /\ ports'[f] = NULL
          => ~ recent[ports[f]]]_vars

\* Closing by force never blocks the main thread, which holds the lock the
\* handler thread needs to end.
MainReturns == lock = Main ~> lock = Nobody

\* The descriptor of a client that has gone is given back in the end, whatever
\* happened to the numbers in between.
NoDescriptorLeak ==
    \A c \in Clients :
       (peer[c] = "down" /\ \E f \in Fds : fdOwner[f] = c)
          ~> (\A f \in Fds : fdOwner[f] # c)
=============================================================================
