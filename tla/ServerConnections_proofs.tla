----------------------- MODULE ServerConnections_proofs -----------------------
(***************************************************************************)
(* The table of connections never refers to a freed FSClient, for any      *)
(* number of clients and descriptors and whatever the main thread and the  *)
(* handlers close at the same time.                                        *)
(***************************************************************************)
EXTENDS ServerConnections, WellFoundedInduction, FiniteSetTheorems, TLAPS

-----------------------------------------------------------------------------
(***************************************************************************)
(* The descriptors that accept() and timeout_oldest_conn pick exist.       *)
(***************************************************************************)
LEMMA HasLeast ==
  ASSUME NEW S \in SUBSET Nat, S # {}
  PROVE  \E x \in S : \A y \in S : x <= y
<1>1. PICK x \in S : \A y \in S : ~ (<<y, x>> \in OpToRel(<, Nat))
  BY WFMin, NatLessThanWellFounded
<1>2. \A y \in S : ~ (y < x)
  BY <1>1 DEF OpToRel
<1> QED BY <1>2

LEMMA MinIsMember ==
  ASSUME NEW S \in SUBSET Nat, S # {}
  PROVE  Min(S) \in S
  BY HasLeast DEF Min

LEMMA OldestIsUsed ==
  ASSUME timestamp \in [Fds -> Nat], Used # {}, MaxFd \in Nat
  PROVE  Oldest \in Used
<1> DEFINE Times == {timestamp[f] : f \in Used}
           First == {f \in Used : \A g \in Used : timestamp[f] <= timestamp[g]}
<1>1. Used \subseteq Fds /\ Fds \subseteq Nat
  BY DEF Used, Fds
<1>2. Times \in SUBSET Nat /\ Times # {}
  BY <1>1
<1>3. PICK t \in Times : \A u \in Times : t <= u
  BY <1>2, HasLeast
<1>4. First # {} /\ First \in SUBSET Nat
  <2>1. PICK f \in Used : t = timestamp[f]
    OBVIOUS
  <2>2. f \in First
    BY <1>3, <2>1
  <2> QED BY <1>1, <2>2
<1>5. Min(First) \in First
  BY <1>4, MinIsMember
<1> QED BY <1>5 DEF Oldest

-----------------------------------------------------------------------------
(***************************************************************************)
(* The invariant.                                                          *)
(***************************************************************************)

\* What is enough of TypeOK for the argument.
TableOK ==
    /\ ports \in [Fds -> Clients \cup {NULL}]
    /\ tpc \in [Clients -> {"new", "backlog", "header", "read", "serve", "reply",
                            "close", "closing", "exited"}]
    /\ sock \in [Clients -> 0..MaxFd]
    /\ timestamp \in [Fds -> Nat] /\ now \in Nat

\* PortsNotDangling is inductive once the types are known: a port is set to
\* the connection whose descriptor it is, and the only step that frees an
\* FSClient clears the port of its descriptor in the same critical section.
PortsInv == TableOK /\ PortsNotDangling

LEMMA InitPorts == Init => PortsInv
  BY ConnAssumption DEF Init, PortsInv, TableOK, PortsNotDangling, Fds

\* A step that leaves the table and the descriptors alone and moves a handler
\* from one state with an FSClient to another keeps the invariant.
LEMMA HandlerMoves ==
  ASSUME PortsInv, NEW c \in Clients, Active(c),
         NEW s \in {"header", "read", "serve", "reply", "close"},
         tpc' = [tpc EXCEPT ![c] = s], UNCHANGED <<ports, sock, timestamp, now>>
  PROVE  PortsInv'
  BY ConnAssumption DEF PortsInv, TableOK, PortsNotDangling, Active, Fds

\* The same for steps that touch neither the table nor a handler's state.
LEMMA Elsewhere ==
  ASSUME PortsInv, UNCHANGED <<ports, tpc, sock, timestamp>>, now' \in Nat
  PROVE  PortsInv'
  BY DEF PortsInv, TableOK, PortsNotDangling, Active

LEMMA MainPorts ==
  ASSUME PortsInv, MainStep
  PROVE  PortsInv'
<1>1. CASE SelectReturns
  BY <1>1, Elsewhere DEF SelectReturns, table, thread, clock, PortsInv, TableOK
<1>2. CASE AcceptFails
  BY <1>2, Elsewhere DEF AcceptFails, table, thread, clock, PortsInv, TableOK
<1>3. CASE TimeoutOldConns
  <2>1. UNCHANGED <<tpc, sock, now>>
    BY <1>3 DEF TimeoutOldConns, thread
  <2>2. /\ ports' \in [Fds -> Clients \cup {NULL}]
        /\ \A f \in Fds : ports'[f] = ports[f] \/ ports'[f] = NULL
        /\ timestamp' \in [Fds -> Nat]
    BY <1>3 DEF TimeoutOldConns, ForceClose, table, PortsInv, TableOK
  <2> QED BY <2>1, <2>2, ConnAssumption DEF PortsInv, TableOK, PortsNotDangling, Active
<1>4. ASSUME NEW c \in Clients, Accept(c) \/ AcceptWhenFull(c)
      PROVE  PortsInv'
  <2>1. PICK f \in Fds : /\ ports' = [ports EXCEPT ![f] = c]
                         /\ timestamp' = [timestamp EXCEPT ![f] = now]
                         /\ now' = now
                         /\ tpc' = [tpc EXCEPT ![c] = "header"]
                         /\ sock' = [sock EXCEPT ![c] = f]
    <3>1. CASE Accept(c)
      <4>1. Min(FreeFds) \in Fds
        <5>1. FreeFds # {} /\ FreeFds \subseteq 1..MaxFd
          BY <3>1 DEF Accept, FreeFds, Fds
        <5>2. FreeFds \in SUBSET Nat
          BY <5>1, ConnAssumption
        <5>3. Min(FreeFds) \in FreeFds
          BY <5>1, <5>2, MinIsMember
        <5> QED BY <5>1, <5>3 DEF Fds
      <4> QED BY <3>1, <4>1 DEF Accept, Install, clock
    <3>2. CASE AcceptWhenFull(c)
      <4>1. Oldest \in Fds
        BY <3>2, OldestIsUsed, ConnAssumption
           DEF AcceptWhenFull, Used, PortsInv, TableOK
      <4> QED BY <3>2, <4>1 DEF AcceptWhenFull, Install, clock
    <3> QED BY <1>4, <3>1, <3>2
  <2>2. tpc[c] = "backlog"
    BY <1>4 DEF Accept, AcceptWhenFull, Backlog
  <2>3. \A g \in Fds : ports[g] # c
    BY <2>2, ConnAssumption DEF PortsInv, PortsNotDangling, Active
  <2> QED BY <2>1, <2>2, <2>3, ConnAssumption
          DEF PortsInv, TableOK, PortsNotDangling, Active, Fds
<1> QED BY <1>1, <1>2, <1>3, <1>4 DEF MainStep

LEMMA ThreadPorts ==
  ASSUME PortsInv, NEW c \in Clients, ThreadStep(c)
  PROVE  PortsInv'
<1>1. CASE ReadHeader(c) \/ ReadHeaderFails(c)
  BY <1>1, HandlerMoves DEF ReadHeader, ReadHeaderFails, Active, table, clock
<1>2. CASE ReadRequest(c) \/ ReadFails(c)
  BY <1>2, HandlerMoves DEF ReadRequest, ReadFails, Active, table, clock
<1>3. CASE ServeRequest(c)
  BY <1>3, HandlerMoves DEF ServeRequest, Active, table, clock
<1>4. CASE WriteReply(c) \/ WriteFails(c)
  BY <1>4, HandlerMoves DEF WriteReply, WriteFails, Active, table, clock
<1>5. CASE FSClient_close(c)
  <2>1. /\ ports' = [ports EXCEPT ![sock[c]] = NULL]
        /\ timestamp' = [timestamp EXCEPT ![sock[c]] = 0]
        /\ tpc' = [tpc EXCEPT ![c] = "closing"]
        /\ UNCHANGED <<sock, now>>
    BY <1>5 DEF FSClient_close, clock
  <2>2. TableOK'
    BY <2>1 DEF PortsInv, TableOK
  <2>3. ASSUME NEW f \in Fds, ports'[f] # NULL
        PROVE  (Active(ports[f]) /\ sock[ports[f]] = f)'
    <3>1. f # sock[c] /\ ports'[f] = ports[f]
      BY <2>1, <2>3 DEF PortsInv, TableOK
    <3>2. ports[f] \in Clients /\ Active(ports[f]) /\ sock[ports[f]] = f
      BY <2>3, <3>1 DEF PortsInv, TableOK, PortsNotDangling
    <3>3. ports[f] # c
      BY <3>1, <3>2
    <3> QED BY <2>1, <3>1, <3>2, <3>3 DEF PortsInv, TableOK, Active
  <2> QED BY <2>2, <2>3 DEF PortsInv, PortsNotDangling
<1>6. CASE CloseFd(c)
  <2>1. \A f \in Fds : ports[f] # c
    BY <1>6, ConnAssumption DEF CloseFd, PortsInv, PortsNotDangling, Active
  <2> QED BY <1>6, <2>1 DEF CloseFd, PortsInv, TableOK, PortsNotDangling, Active, table, clock
<1> QED BY <1>1, <1>2, <1>3, <1>4, <1>5, <1>6 DEF ThreadStep

LEMMA ClientPorts ==
  ASSUME PortsInv, NEW c \in Clients, ClientStep(c)
  PROVE  PortsInv'
<1>1. CASE Dial(c)
  <2>1. \A f \in Fds : ports[f] # c
    BY <1>1, ConnAssumption DEF Dial, PortsInv, PortsNotDangling, Active
  <2> QED BY <1>1, <2>1 DEF Dial, PortsInv, TableOK, PortsNotDangling, Active, table, clock
<1>2. CASE Send(c) \/ Quit(c)
  BY <1>2, Elsewhere DEF Send, Quit, table, thread, clock, PortsInv, TableOK
<1> QED BY <1>1, <1>2 DEF ClientStep

\* fs->ports never refers to an FSClient that FSClient_close has freed, and
\* what it refers to is on the descriptor of that entry.
THEOREM PortsNotDanglingHolds == Spec => []PortsNotDangling
<1>1. PortsInv /\ [Next]_vars => PortsInv'
  <2> SUFFICES ASSUME PortsInv, [Next]_vars PROVE PortsInv'
    OBVIOUS
  <2>1. CASE Tick
    BY <2>1, Elsewhere DEF Tick, table, thread, PortsInv, TableOK
  <2>2. CASE MainStep
    BY <2>2, MainPorts
  <2>3. CASE \E c \in Clients : ThreadStep(c) \/ ClientStep(c)
    BY <2>3, ThreadPorts, ClientPorts
  <2>4. CASE UNCHANGED vars
    BY <2>4, Elsewhere DEF vars, table, thread, clock, PortsInv, TableOK
  <2> QED BY <2>1, <2>2, <2>3, <2>4 DEF Next
<1>2. PortsInv => PortsNotDangling
  BY DEF PortsInv
<1> QED BY InitPorts, <1>1, <1>2, PTL DEF Spec

-----------------------------------------------------------------------------
(***************************************************************************)
(* Types.  sock in 0..MaxFd is the point: no handler is ever started on    *)
(* the -1 of a failed accept(), and every descriptor it uses is one of the *)
(* table.                                                                  *)
(***************************************************************************)

\* A connection that was accepted has a descriptor of the table; TypeOK needs it
\* where a handler asks the kernel what its descriptor names.
HandlersHaveFd == \A c \in Clients : tpc[c] \notin {"new", "backlog"} => sock[c] \in Fds

ConnTypes == TypeOK /\ HandlersHaveFd

LEMMA MinFreeIsFd ==
  ASSUME FreeFds # {}
  PROVE  Min(FreeFds) \in Fds
<1>1. FreeFds \in SUBSET Nat /\ FreeFds \subseteq Fds
  BY ConnAssumption DEF FreeFds, Fds
<1> QED BY <1>1, MinIsMember

LEMMA ExpiredCounted == Cardinality(Expired) \in Nat
<1>1. Expired \subseteq 1..MaxFd /\ MaxFd \in Int
  BY ConnAssumption DEF Expired, Used, Fds
<1>2. IsFiniteSet(1..MaxFd)
  BY <1>1, FS_Interval
<1> QED BY <1>1, <1>2, FS_Subset, FS_CardinalityType

\* accept() gives a handler a descriptor of the table.
LEMMA AcceptTypes ==
  ASSUME ConnTypes, NEW c \in Clients, Accept(c) \/ AcceptWhenFull(c)
  PROVE  ConnTypes'
<1>1. CASE Accept(c)
  <2>1. Min(FreeFds) \in Fds
    BY <1>1, MinFreeIsFd DEF Accept
  <2> DEFINE f == Min(FreeFds)
  <2>2. f \in Fds /\ f \in 0..MaxFd /\ now \in Nat /\ portCount + 1 \in Int
    BY <2>1, ConnAssumption DEF Fds, ConnTypes, HandlersHaveFd, TypeOK
  <2> HIDE DEF f
  <2>3. /\ ports' = [ports EXCEPT ![f] = c]
        /\ timestamp' = [timestamp EXCEPT ![f] = now]
        /\ fdOwner' = [fdOwner EXCEPT ![f] = c]
        /\ tpc' = [tpc EXCEPT ![c] = "header"]
        /\ sock' = [sock EXCEPT ![c] = f]
        /\ portCount' = portCount + 1
        /\ mpc' = "timeout"
        /\ UNCHANGED <<clock, lock, shut, client, serving, misdelivered>>
    BY <1>1 DEF Accept, Install, f
  <2> QED BY <2>2, <2>3 DEF ConnTypes, HandlersHaveFd, TypeOK, clock, client
<1>2. CASE AcceptWhenFull(c)
  <2>1. Oldest \in Used
    BY <1>2, OldestIsUsed, ConnAssumption DEF AcceptWhenFull, ConnTypes, HandlersHaveFd, TypeOK
  <2> DEFINE f == Oldest
  <2>2. f \in Fds /\ f \in 0..MaxFd /\ now \in Nat /\ (portCount - 1) + 1 \in Int
    BY <2>1, ConnAssumption DEF Fds, Used, ConnTypes, HandlersHaveFd, TypeOK
  <2> HIDE DEF f
  <2>3. /\ ports' = [ports EXCEPT ![f] = c]
        /\ timestamp' = [timestamp EXCEPT ![f] = now]
        /\ fdOwner' = [fdOwner EXCEPT ![f] = c]
        /\ tpc' = [tpc EXCEPT ![c] = "header"]
        /\ sock' = [sock EXCEPT ![c] = f]
        /\ portCount' = (portCount - 1) + 1
        /\ mpc' = "timeout"
        /\ shut' = [d \in Clients |-> shut[d] \/ fdOwner[f] = d]
        /\ UNCHANGED <<clock, lock, client, serving, misdelivered>>
    BY <1>2 DEF AcceptWhenFull, Install, f
  <2>4. shut' \in [Clients -> BOOLEAN]
    BY <2>3
  <2> QED BY <2>2, <2>3, <2>4 DEF ConnTypes, HandlersHaveFd, TypeOK, clock, client
<1> QED BY <1>1, <1>2

LEMMA MainTypes ==
  ASSUME ConnTypes, MainStep
  PROVE  ConnTypes'
<1>1. CASE SelectReturns
  BY <1>1 DEF SelectReturns, ConnTypes, HandlersHaveFd, TypeOK, clock, table, kernel, thread, client
<1>2. CASE AcceptFails
  BY <1>2 DEF AcceptFails, ConnTypes, HandlersHaveFd, TypeOK, clock, table, kernel, thread, client
<1>3. CASE TimeoutOldConns
  <2>1. /\ mpc' = "select" /\ lock' = Nobody /\ selectedAt' = now
        /\ UNCHANGED <<now, thread, client>>
        /\ last_timeout' \in {now, last_timeout}
        /\ UNCHANGED <<table, kernel>> \/ ForceClose(Expired)
    BY <1>3 DEF TimeoutOldConns
  <2>2. /\ now \in 1..MaxTime /\ now \in 0..MaxTime /\ last_timeout \in 0..MaxTime
    BY ConnAssumption DEF ConnTypes, TypeOK
  <2>3. portCount - Cardinality(Expired) \in Int
    BY ExpiredCounted DEF ConnTypes, TypeOK
  <2>4. CASE UNCHANGED <<table, kernel>>
    BY <2>1, <2>2, <2>4 DEF ConnTypes, HandlersHaveFd, TypeOK, table, kernel, thread, client
  <2>5. CASE ForceClose(Expired)
    <3>1. /\ ports' \in [Fds -> Clients \cup {NULL}]
          /\ fdOwner' \in [Fds -> Clients \cup {NULL}]
          /\ timestamp' \in [Fds -> Nat]
          /\ portCount' \in Int
      BY <2>3, <2>5 DEF ForceClose, ConnTypes, HandlersHaveFd, TypeOK
    <3>2. shut' \in [Clients -> BOOLEAN]
      BY <2>5 DEF ForceClose
    <3> QED BY <2>1, <2>2, <3>1, <3>2 DEF ConnTypes, HandlersHaveFd, TypeOK, thread, client
  <2> QED BY <2>1, <2>4, <2>5
<1> QED BY <1>1, <1>2, <1>3, AcceptTypes DEF MainStep

LEMMA ThreadTypes ==
  ASSUME ConnTypes, NEW c \in Clients, ThreadStep(c)
  PROVE  ConnTypes'
<1> USE DEF ConnTypes, HandlersHaveFd, TypeOK, clock, table, kernel, client
<1>1. CASE ReadHeader(c) \/ ReadFails(c) \/ ServeRequest(c) \/ WriteFails(c)
  BY <1>1 DEF ReadHeader, ReadFails, ServeRequest, WriteFails
<1>2. CASE ReadHeaderFails(c) \/ CloseFd(c)
  BY <1>2 DEF ReadHeaderFails, CloseFd
<1>3. CASE ReadRequest(c)
  <2>1. Owner(c) # NULL
    BY <1>3 DEF ReadRequest, Alive
  <2>2. PICK o \in Clients :
          /\ inbox' = [inbox EXCEPT ![o] = FALSE]
          /\ serving' = [serving EXCEPT ![c] = o]
    <3>1. sock[c] \in Fds => Owner(c) \in Clients
      BY <2>1 DEF Owner
    <3>2. sock[c] \in Fds
      BY <1>3 DEF ReadRequest
    <3> QED BY <1>3, <3>1, <3>2 DEF ReadRequest
  <2> QED BY <1>3, <2>2 DEF ReadRequest
<1>4. CASE WriteReply(c)
  BY <1>4 DEF WriteReply
<1>5. CASE FSClient_close(c)
  BY <1>5 DEF FSClient_close
<1> QED BY <1>1, <1>2, <1>3, <1>4, <1>5 DEF ThreadStep

LEMMA ClientTypes ==
  ASSUME ConnTypes, NEW c \in Clients, ClientStep(c)
  PROVE  ConnTypes'
<1> USE DEF ConnTypes, HandlersHaveFd, TypeOK, clock, table, kernel, thread, client
<1>1. CASE Dial(c)
  BY <1>1 DEF Dial
<1>2. CASE Send(c)
  BY <1>2 DEF Send
<1>3. CASE Quit(c)
  BY <1>3 DEF Quit
<1> QED BY <1>1, <1>2, <1>3 DEF ClientStep

\* The types of the server's table, the kernel's and the handlers' view of it.
THEOREM ConnectionTypes == Spec => []TypeOK
<1>1. Init => ConnTypes
  <2> SUFFICES ASSUME Init PROVE ConnTypes
    OBVIOUS
  <2>1. 1 \in 1..MaxTime /\ 0 \in 0..MaxTime /\ 0 \in 0..MaxFd /\ 0 \in Nat /\ 0 \in Int
    BY ConnAssumption
  <2> QED BY <2>1 DEF Init, ConnTypes, HandlersHaveFd, TypeOK
<1>2. ConnTypes /\ [Next]_vars => ConnTypes'
  <2> SUFFICES ASSUME ConnTypes, [Next]_vars PROVE ConnTypes'
    OBVIOUS
  <2>1. CASE Tick
    <3>1. now + 1 \in 1..MaxTime
      BY <2>1, ConnAssumption DEF Tick, ConnTypes, TypeOK
    <3> QED BY <2>1, <3>1 DEF Tick, ConnTypes, HandlersHaveFd, TypeOK, table, kernel, thread
  <2>2. CASE MainStep
    BY <2>2, MainTypes
  <2>3. CASE \E c \in Clients : ThreadStep(c) \/ ClientStep(c)
    BY <2>3, ThreadTypes, ClientTypes
  <2>4. CASE UNCHANGED vars
    BY <2>4 DEF vars, ConnTypes, HandlersHaveFd, TypeOK, clock, table, kernel, thread, client
  <2> QED BY <2>1, <2>2, <2>3, <2>4 DEF Next
<1>3. ConnTypes => TypeOK
  BY DEF ConnTypes
<1> QED BY <1>1, <1>2, <1>3, PTL DEF Spec
===============================================================================
