------------------------ MODULE ProxyServer_proofs ------------------------
(***************************************************************************)
(* A proxy and its master stay in step, for every set of formats and every *)
(* number of failures of the master.                                       *)
(***************************************************************************)
EXTENDS ProxyServer, TLAPS

-----------------------------------------------------------------------------
(***************************************************************************)
(* What the operations on the connection make of it.                       *)
(***************************************************************************)

\* The part of ProxyAssumption the proofs use.
LEMMA FaultBound == MaxFaults \in Nat
  BY ProxyAssumption

Conn == [fd : BOOLEAN, alive : BOOLEAN, waited : BOOLEAN, channel : SUBSET Formats,
         pending : Nat, faults : 0..MaxFaults]

Items(l) == {l[i] : i \in 1..Len(l)}

\* Nothing is pending on a connection that is there.
Settled(c) == c.pending > 0 => ~c.fd

LEMMA NowIsConn ==
  ASSUME TypeOK
  PROVE  Now \in Conn
  BY DEF TypeOK, Now, Conn

LEMMA ClosedIsConn ==
  ASSUME NEW c \in Conn
  PROVE  /\ Closed(c) \in Conn
         /\ ~Closed(c).fd /\ ~Closed(c).alive
         /\ Closed(c).channel = c.channel /\ Closed(c).pending = c.pending
         /\ Closed(c).faults = c.faults
  BY DEF Closed, Conn

\* A push reaches the connection, or loses it, or goes to a master that has left.
LEMMA PushOutcome ==
  ASSUME NEW c \in Conn, NEW fmt \in Formats, NEW x \in Push(c, fmt)
  PROVE  /\ x \in Conn
         /\ x.pending = c.pending
         /\ x.fd => c.fd
         /\ x.fd /\ x.alive => c.alive /\ x.channel = c.channel \cup {fmt}
<1>1. CASE x = [c EXCEPT !.channel = @ \cup {fmt}] /\ c.alive
  BY <1>1 DEF Conn
<1>2. CASE x = [Closed(c) EXCEPT !.faults = @ + 1] /\ c.faults < MaxFaults
  <2>1. c.faults + 1 \in 0..MaxFaults
    BY <1>2, FaultBound DEF Conn
  <2> QED BY <1>2, <2>1, ClosedIsConn DEF Conn
<1>3. CASE x \in {c, Closed(c)} /\ ~c.alive
  BY <1>3, ClosedIsConn
<1> QED BY <1>1, <1>2, <1>3 DEF Push

\* A new connection carries the whole list and settles what was pending, or is
\* lost again.
LEMMA PushAllOutcome ==
  ASSUME NEW c \in Conn, NEW l \in Seq(Formats), NEW x \in register_all_to_master(c, l)
  PROVE  /\ x \in Conn
         /\ x.pending = 0
         /\ x.fd => Items(l) \subseteq x.channel
<1>1. PICK k \in 0..Len(l) :
        /\ k = Len(l) \/ c.faults < MaxFaults
        /\ x = IF k = Len(l)
               THEN [c EXCEPT !.channel = @ \cup {l[i] : i \in 1..k}, !.pending = 0]
               ELSE [Closed(c) EXCEPT !.channel = @ \cup {l[i] : i \in 1..k}, !.pending = 0,
                                      !.faults = @ + 1]
  BY DEF register_all_to_master
<1>2. {l[i] : i \in 1..k} \subseteq Formats
  OBVIOUS
<1>3. CASE k = Len(l)
  BY <1>1, <1>2, <1>3 DEF Conn, Items
<1>4. CASE k # Len(l)
  <2>1. c.faults + 1 \in 0..MaxFaults
    BY <1>1, <1>4, FaultBound DEF Conn
  <2> QED BY <1>1, <1>2, <1>4, <2>1, ClosedIsConn DEF Conn
<1> QED BY <1>3, <1>4

\* try_master_connect leaves a connection alone, makes a complete one, or none.
LEMMA ConnectOutcome ==
  ASSUME NEW c \in Conn, Settled(c), NEW l \in Seq(Formats),
         NEW x \in try_master_connect(c, l)
  PROVE  /\ x \in Conn
         /\ Settled(x)
         /\ x = c \/ ~x.fd \/ Items(l) \subseteq x.channel
         /\ ~Connects(c) => ~x.fd
<1>1. CASE x = c
  BY <1>1 DEF try_master_connect, Connects
<1>2. CASE ~c.fd /\ x = [c EXCEPT !.waited = FALSE]
  BY <1>2 DEF Conn, Settled
<1>3. CASE /\ ~c.fd /\ c.waited /\ masterUp
           /\ x \in register_all_to_master(
                       [c EXCEPT !.waited = FALSE, !.fd = TRUE, !.alive = TRUE], l)
  <2>1. [c EXCEPT !.waited = FALSE, !.fd = TRUE, !.alive = TRUE] \in Conn
    BY DEF Conn
  <2>2. x \in Conn /\ x.pending = 0 /\ (x.fd => Items(l) \subseteq x.channel)
    BY <1>3, <2>1, PushAllOutcome
  <2> QED BY <1>3, <2>2 DEF Settled, Connects
<1> QED BY <1>1, <1>2, <1>3 DEF try_master_connect, Connects

-----------------------------------------------------------------------------
(***************************************************************************)
(* The invariant: the two properties are inductive together with the types.*)
(***************************************************************************)
ProxyInv == TypeOK /\ MasterInStep /\ PendingOnlyAlone

\* A step that becomes c keeps the invariant if c does.
Good(c, l) == /\ c \in Conn /\ Settled(c)
              /\ c.fd /\ c.alive => Items(l) \subseteq master \cup c.channel

LEMMA NowIsGood ==
  ASSUME ProxyInv
  PROVE  Good(Now, list)
<1>1. Now \in Conn
  BY NowIsConn DEF ProxyInv
<1> QED BY <1>1 DEF ProxyInv, Good, Settled, Now, MasterInStep, PendingOnlyAlone, Known, Items

LEMMA BecomesGood ==
  ASSUME ProxyInv, list' \in Seq(Formats), NEW c, Good(c, list'), Becomes(c),
         UNCHANGED <<masterUp, master>>, answer'.freed \in BOOLEAN
  PROVE  ProxyInv'
<1>1. TypeOK'
  BY DEF ProxyInv, TypeOK, Good, Conn, Becomes
<1>2. MasterInStep'
  BY DEF Good, Becomes, MasterInStep, Known, Items
<1>3. PendingOnlyAlone'
  BY DEF Good, Becomes, Settled, PendingOnlyAlone
<1> QED BY <1>1, <1>2, <1>3 DEF ProxyInv

LEMMA ConnectGood ==
  ASSUME ProxyInv, NEW c \in try_master_connect(Now, list)
  PROVE  Good(c, list)
<1>1. Now \in Conn /\ Settled(Now) /\ list \in Seq(Formats)
  BY NowIsGood DEF Good, ProxyInv, TypeOK
<1>2. /\ c \in Conn /\ Settled(c)
      /\ c = Now \/ ~c.fd \/ Items(list) \subseteq c.channel
  BY <1>1, ConnectOutcome
<1> QED BY <1>2, NowIsGood DEF Good

LEMMA RegisterKeeps ==
  ASSUME ProxyInv, NEW fmt \in Formats, Register(fmt)
  PROVE  ProxyInv'
<1>1. list \in Seq(Formats) /\ list' = Append(list, fmt) /\ list' \in Seq(Formats)
  BY DEF ProxyInv, TypeOK, Register
<1>2. Items(list') \subseteq Items(list) \cup {fmt}
  BY <1>1 DEF Items
<1>3. Now \in Conn /\ Settled(Now)
  BY NowIsGood DEF Good
<1>4. PICK c \in register_format_to_master(Now, list', fmt) : Becomes(c)
  BY DEF Register
<1>5. Good(c, list')
  <2>1. CASE ~Connects(Now)
    <3>1. PICK x \in try_master_connect(Now, list') : c = [x EXCEPT !.pending = @ + 1]
      BY <1>4, <2>1 DEF register_format_to_master
    <3>2. x \in Conn /\ ~x.fd
      BY <1>1, <1>3, <2>1, <3>1, ConnectOutcome
    <3> QED BY <3>1, <3>2 DEF Good, Conn, Settled
  <2>2. CASE Connects(Now)
    <3>1. PICK x \in try_master_connect(Now, list') :
             c \in IF x.fd THEN Push(x, fmt) ELSE {x}
      BY <1>4, <2>2 DEF register_format_to_master
    <3>2. /\ x \in Conn /\ Settled(x)
          /\ x = Now \/ ~x.fd \/ Items(list') \subseteq x.channel
      BY <1>1, <1>3, <3>1, ConnectOutcome
    <3>3. CASE ~x.fd
      BY <3>1, <3>2, <3>3 DEF Good
    <3>4. CASE x.fd
      <4>1. /\ c \in Conn /\ c.pending = x.pending /\ (c.fd => x.fd)
            /\ c.fd /\ c.alive => x.alive /\ c.channel = x.channel \cup {fmt}
        BY <3>1, <3>2, <3>4, PushOutcome
      <4>2. Settled(c)
        BY <3>2, <4>1 DEF Settled
      <4>3. CASE x = Now
        BY <1>2, <3>4, <4>1, <4>2, <4>3, NowIsGood DEF Good
      <4>4. CASE Items(list') \subseteq x.channel
        BY <4>1, <4>2, <4>4 DEF Good
      <4> QED BY <3>2, <3>4, <4>3, <4>4
    <3> QED BY <3>3, <3>4
  <2> QED BY <2>1, <2>2
<1>6. UNCHANGED <<masterUp, master, answer>>
  BY DEF Register
<1> QED BY <1>1, <1>4, <1>5, <1>6, BecomesGood DEF ProxyInv, TypeOK

LEMMA GetKeeps ==
  ASSUME ProxyInv, NEW fmt \in Formats, Get(fmt)
  PROVE  ProxyInv'
<1>1. UNCHANGED <<list, masterUp, master>> /\ list' \in Seq(Formats)
  BY DEF Get, ProxyInv, TypeOK
<1>2. PICK c \in try_master_connect(Now, list) :
        IF ~Connects(Now) \/ ~c.fd
        THEN Becomes(c) /\ answer' = NoAnswer
        ELSE \/ /\ c.alive /\ Becomes(c)
                /\ answer' = IF fmt \in master \cup c.channel
                             THEN [fmt |-> fmt, freed |-> TRUE] ELSE NoAnswer
             \/ /\ c.alive => c.faults < MaxFaults
                /\ Becomes([Closed(c) EXCEPT !.faults = IF c.alive THEN @ + 1 ELSE @])
                /\ answer' = NoAnswer
  BY DEF Get
<1>3. Good(c, list)
  BY ConnectGood
<1>4. answer'.freed \in BOOLEAN
  <2>1. answer' = NoAnswer \/ answer' = [fmt |-> fmt, freed |-> TRUE]
    BY <1>2
  <2>2. CASE answer' = NoAnswer
    BY <2>2 DEF NoAnswer
  <2>3. CASE answer' = [fmt |-> fmt, freed |-> TRUE]
    BY <2>3
  <2> QED BY <2>1, <2>2, <2>3
<1>5. CASE Becomes(c)
  BY <1>1, <1>3, <1>4, <1>5, BecomesGood
<1>6. CASE /\ c.alive => c.faults < MaxFaults
           /\ Becomes([Closed(c) EXCEPT !.faults = IF c.alive THEN @ + 1 ELSE @])
  <2> DEFINE d == [Closed(c) EXCEPT !.faults = IF c.alive THEN @ + 1 ELSE @]
  <2>1. d \in Conn /\ ~d.fd
    <3>1. c \in Conn
      BY <1>3 DEF Good
    <3>2. c.alive => c.faults + 1 \in 0..MaxFaults
      BY <1>6, <3>1, FaultBound DEF Conn
    <3> QED BY <3>1, <3>2, ClosedIsConn DEF Conn
  <2>2. Good(d, list')
    BY <2>1 DEF Good, Settled
  <2> QED BY <1>1, <1>4, <1>6, <2>2, BecomesGood
<1> QED BY <1>2, <1>5, <1>6

\* The steps of the master and of the clock.
LEMMA MasterKeeps ==
  ASSUME ProxyInv,
         Wait300 \/ MasterDrops \/ MasterDies \/ MasterStarts
           \/ \E fmt \in Formats : MasterReads(fmt)
  PROVE  ProxyInv'
<1>1. CASE Wait300
  BY <1>1 DEF Wait300, ProxyInv, TypeOK, MasterInStep, PendingOnlyAlone, Known
<1>2. CASE MasterDrops
  <2>1. faults + 1 \in 0..MaxFaults
    BY <1>2, FaultBound DEF MasterDrops, ProxyInv, TypeOK
  <2> QED BY <1>2, <2>1 DEF MasterDrops, ProxyInv, TypeOK, MasterInStep, PendingOnlyAlone, Known
<1>3. CASE MasterDies
  <2>1. faults + 1 \in 0..MaxFaults
    BY <1>3, FaultBound DEF MasterDies, ProxyInv, TypeOK
  <2> QED BY <1>3, <2>1 DEF MasterDies, ProxyInv, TypeOK, MasterInStep, PendingOnlyAlone, Known
<1>4. CASE MasterStarts
  BY <1>4 DEF MasterStarts, ProxyInv, TypeOK, MasterInStep, PendingOnlyAlone, Known
<1>5. ASSUME NEW fmt \in Formats, MasterReads(fmt) PROVE ProxyInv'
  BY <1>5 DEF MasterReads, ProxyInv, TypeOK, MasterInStep, PendingOnlyAlone, Known
<1> QED BY <1>1, <1>2, <1>3, <1>4, <1>5

LEMMA ProxyInvariant == Spec => []ProxyInv
<1>1. Init => ProxyInv
  <2> SUFFICES ASSUME Init PROVE ProxyInv
    OBVIOUS
  <2>1. TypeOK
    <3>1. 0 \in Nat /\ 0 \in 0..MaxFaults /\ << >> \in Seq(Formats)
      BY FaultBound
    <3>2. NoAnswer.freed \in BOOLEAN
      BY DEF NoAnswer
    <3> QED BY <3>1, <3>2 DEF Init, TypeOK
  <2>2. MasterInStep /\ PendingOnlyAlone
    BY DEF Init, MasterInStep, PendingOnlyAlone
  <2> QED BY <2>1, <2>2 DEF ProxyInv
<1>2. ProxyInv /\ [Next]_vars => ProxyInv'
  <2> SUFFICES ASSUME ProxyInv, [Next]_vars PROVE ProxyInv'
    OBVIOUS
  <2>1. ASSUME NEW fmt \in Formats, Register(fmt) PROVE ProxyInv'
    BY <2>1, RegisterKeeps
  <2>2. ASSUME NEW fmt \in Formats, Get(fmt) PROVE ProxyInv'
    BY <2>2, GetKeeps
  <2>3. CASE Poll
    <3>1. PICK c \in try_master_connect(Now, list) : Becomes(c)
      BY <2>3 DEF Poll
    <3>2. UNCHANGED <<list, masterUp, master, answer>>
      BY <2>3 DEF Poll
    <3>3. Good(c, list)
      BY ConnectGood
    <3> QED BY <3>1, <3>2, <3>3, BecomesGood DEF ProxyInv, TypeOK
  <2>4. CASE UNCHANGED vars
    BY <2>4 DEF vars, ProxyInv, TypeOK, MasterInStep, PendingOnlyAlone, Known
  <2> QED BY <2>1, <2>2, <2>3, <2>4, MasterKeeps DEF Next
<1> QED BY <1>1, <1>2, PTL DEF Spec

\* The types; pending_unregistered never goes below zero.
THEOREM ProxyTypes == Spec => []TypeOK
  BY ProxyInvariant, PTL DEF ProxyInv

\* On a connection that stands at both ends the master has or will get every
\* format the proxy has registered, after any failures and restarts.
THEOREM MasterStaysInStep == Spec => []MasterInStep
  BY ProxyInvariant, PTL DEF ProxyInv

\* No connection leaves a registration pending.
THEOREM PendingNeedsNoConnection == Spec => []PendingOnlyAlone
  BY ProxyInvariant, PTL DEF ProxyInv
=============================================================================
