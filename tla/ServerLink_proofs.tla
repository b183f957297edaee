------------------------- MODULE ServerLink_proofs -------------------------
(***************************************************************************)
(* The link to the format server, for every set of formats and any number  *)
(* of restarts, connections and calls: an answer is the answer to the call *)
(* that is under way, and a format that is held from a running server is   *)
(* known there.                                                            *)
(***************************************************************************)
EXTENDS ServerLink, TLAPS

-----------------------------------------------------------------------------
(***************************************************************************)
(* The inductive invariant.                                                *)
(***************************************************************************)

\* A call that talks to the server has a connection and a request to make; one
\* that is under way has not used up its retries.
CallOK ==
    /\ pc \in {"handshake", "send", "reply"} => server_fd \in Conns
    /\ pc \in {"send", "reply"} => op \in {"register", "get"}
    /\ pc \in {"establish", "handshake"} => op \in {"register", "get", "allow"}
    /\ pc \in {"establish", "handshake", "send", "reply"} => retry_count \in 0..3

\* What a connection carries while a call waits for its reply: nothing, its
\* request, or the answer to it.
Request == [op |-> op, rep |-> want]
Answer(k) == [op |-> op, rep |-> want, known |-> k]

Carries(c) ==
    \/ requests[c] = << >> /\ replies[c] = << >>
    \/ requests[c] = <<Request>> /\ replies[c] = << >>
    \/ requests[c] = << >> /\ \E k \in BOOLEAN : replies[c] = <<Answer(k)>>

\* At all other times, and on all other connections, nothing is in flight, so no
\* answer can come late: a call is given up only when its connection has ended
\* and has been read to the end.
Quiet ==
    /\ \A c \in Conns : IF pc = "reply" /\ c = server_fd THEN Carries(c)
                        ELSE requests[c] = << >> /\ replies[c] = << >>
    /\ \A c \in Conns : ~open[c] => requests[c] = << >>

\* A connection that is open leads to the server that runs now; process numbers
\* are not used twice.
PidsOK ==
    /\ spid \in {0, started}
    /\ \A c \in Conns : connPid[c] <= started
    /\ \A c \in Conns : open[c] => connPid[c] = spid /\ spid # 0
    /\ \A r \in Reps : source[r] <= started /\ (source[r] # 0 => r \in held)

\* A positive answer of the server that runs now is still true when it is read.
AnswerTrue ==
    pc = "reply" /\ connPid[server_fd] = spid /\ spid # 0 /\ replies[server_fd] = <<Answer(TRUE)>>
        => want \in formats

LinkInv ==
    /\ TypeOK /\ CallOK /\ Quiet /\ PidsOK /\ AnswerTrue
    /\ answered \in {"nothing", want}
    /\ HeldIsServed

-----------------------------------------------------------------------------
(***************************************************************************)
(* Steps of a call that do not touch the connection.                       *)
(***************************************************************************)

LEMMA LinkBounds == /\ MaxPids \in Nat /\ MaxConns \in Nat /\ MaxOps \in Nat
                    /\ GarbagePid \in Nat /\ MaxPids < GarbagePid
  BY LinkAssumption

\* Before and after, no reply is waited for: what is in flight, the processes and
\* what is held from them stay as they are.
LEMMA OffTheWire ==
  ASSUME LinkInv, pc # "reply", pc' # "reply", UNCHANGED <<server, network, source>>,
         held' = held \/ \E r \in Reps : (r \in held \/ source[r] = 0) /\ held' = held \cup {r}
  PROVE  Quiet' /\ PidsOK' /\ AnswerTrue' /\ HeldIsServed'
<1> USE DEF LinkInv, server, network
<1>1. Quiet'
  BY DEF Quiet
<1>2. PidsOK'
  BY DEF PidsOK, TypeOK
<1>3. AnswerTrue'
  BY DEF AnswerTrue
<1>4. HeldIsServed'
  <2> SUFFICES ASSUME NEW r \in held', source[r] = spid, spid # 0 PROVE r \in formats
    BY DEF HeldIsServed
  <2>1. r \in held \/ source[r] = 0
    OBVIOUS
  <2> QED BY <2>1 DEF HeldIsServed
<1> QED BY <1>1, <1>2, <1>3, <1>4

LEMMA BeginKeeps ==
  ASSUME LinkInv, NEW o \in {"register", "get", "allow"}, NEW r \in Reps, Begin(o, r)
  PROVE  /\ ops' \in 0..MaxOps /\ op' = o /\ want' = r /\ attempt' = 1 /\ retry_count' = 0
         /\ answered' = "nothing" /\ pc = "idle"
  BY LinkBounds DEF Begin, LinkInv, TypeOK

LEMMA AppKeeps ==
  ASSUME LinkInv, AppStep
  PROVE  LinkInv'
<1>1. ASSUME NEW r \in Reps, Register(r) PROVE LinkInv'
  <2>1. /\ ops' \in 0..MaxOps /\ op' = "register" /\ want' = r /\ attempt' = 1
        /\ retry_count' = 0 /\ answered' = "nothing" /\ pc = "idle"
    BY <1>1, BeginKeeps DEF Register
  <2>2. /\ \/ pc' = "idle" /\ result' = "done" /\ held' = held \cup {r}
           \/ r \notin held /\ pc' = "establish" /\ held' = held /\ result' = result
        /\ UNCHANGED <<server_fd, server_pid, self_server, fdBad, source, server, network>>
    BY <1>1 DEF Register, Return
  <2>3. r \in held \/ source[r] = 0
    BY DEF LinkInv, PidsOK
  <2>4. Quiet' /\ PidsOK' /\ AnswerTrue' /\ HeldIsServed'
    BY <2>1, <2>2, <2>3, OffTheWire
  <2>5. TypeOK'
    <3>1. held' \subseteq Reps
      BY <2>2 DEF LinkInv, TypeOK
    <3>2. pc' \in {"idle", "establish"} /\ result' \in {"none", "done", "NULL", "failed"}
      BY <2>2 DEF LinkInv, TypeOK
    <3> QED BY <2>1, <2>2, <3>1, <3>2 DEF LinkInv, TypeOK, server, network
  <2>6. CallOK'
    BY <2>1, <2>2 DEF CallOK
  <2> QED BY <2>1, <2>4, <2>5, <2>6 DEF LinkInv
<1>2. ASSUME NEW r \in Reps, Get(r) PROVE LinkInv'
  <2>1. /\ ops' \in 0..MaxOps /\ op' = "get" /\ want' = r /\ attempt' = 1
        /\ retry_count' = 0 /\ answered' = "nothing" /\ pc = "idle"
    BY <1>2, BeginKeeps DEF Get
  <2>2. /\ \/ pc' = "idle" /\ result' \in {"done", "NULL"}
           \/ pc' = "establish" /\ result' = result
        /\ UNCHANGED <<context, source, server, network>>
    BY <1>2 DEF Get, Return
  <2>4. Quiet' /\ PidsOK' /\ AnswerTrue' /\ HeldIsServed'
    BY <2>1, <2>2, OffTheWire DEF context
  <2>5. TypeOK'
    BY <2>1, <2>2 DEF LinkInv, TypeOK, server, network, context
  <2>6. CallOK'
    BY <2>1, <2>2 DEF CallOK
  <2> QED BY <2>1, <2>4, <2>5, <2>6 DEF LinkInv
<1>3. CASE AllowSelf
  <2>1. /\ ops' \in 0..MaxOps /\ op' = "allow" /\ want' = want /\ attempt' = 1
        /\ retry_count' = 0 /\ answered' = "nothing" /\ pc = "idle"
    BY <1>3, BeginKeeps DEF AllowSelf, LinkInv, TypeOK
  <2>2. pc' = "establish" /\ result' = result /\ UNCHANGED <<context, source, server, network>>
    BY <1>3 DEF AllowSelf
  <2>4. Quiet' /\ PidsOK' /\ AnswerTrue' /\ HeldIsServed'
    BY <2>1, <2>2, OffTheWire DEF context
  <2>5. TypeOK'
    BY <2>1, <2>2 DEF LinkInv, TypeOK, server, network, context
  <2>6. CallOK'
    BY <2>1, <2>2 DEF CallOK
  <2> QED BY <2>1, <2>4, <2>5, <2>6 DEF LinkInv
<1> QED BY <1>1, <1>2, <1>3 DEF AppStep

-----------------------------------------------------------------------------
(***************************************************************************)
(* Establishing the connection.                                            *)
(***************************************************************************)

\* Where establish_server_connection leaves the call.
Outcome ==
    /\ pc' \in {"idle", "send", "establish", "exited"}
    /\ pc' = "send" => op # "allow"
    /\ attempt' \in 0..2 /\ self_server' \in BOOLEAN
    /\ result' \in {"none", "done", "NULL", "failed"}

LEMMA EstablishedOutcome ==
  ASSUME LinkInv, Established, UNCHANGED <<attempt, self_server>>
  PROVE  Outcome
<1>1. CASE op # "allow" /\ pc' = "send" /\ UNCHANGED result
  BY <1>1 DEF LinkInv, TypeOK, Outcome
<1>2. CASE op = "allow" /\ Return("done")
  BY <1>2 DEF LinkInv, TypeOK, Return, Outcome
<1> QED BY <1>1, <1>2 DEF Established

LEMMA RefusedOutcome ==
  ASSUME LinkInv, Refused
  PROVE  Outcome
<1> USE DEF LinkInv, TypeOK, Return, Outcome
<1>1. CASE op = "allow" /\ Return("done") /\ self_server' = TRUE /\ UNCHANGED attempt
  BY <1>1
<1>2. CASE /\ op # "allow" /\ attempt = 1
           /\ attempt' = 2 /\ pc' = "establish" /\ UNCHANGED <<result, self_server>>
  BY <1>2
<1>3. CASE /\ op = "register" /\ attempt = 2
           /\ Return("failed") /\ UNCHANGED <<attempt, self_server>>
  BY <1>3
<1>4. CASE /\ op = "get" /\ attempt = 2
           /\ pc' = "exited" /\ UNCHANGED <<attempt, self_server, result>>
  BY <1>4
<1> QED BY <1>1, <1>2, <1>3, <1>4 DEF Refused

LEMMA EstablishKeeps ==
  ASSUME LinkInv, pc \in {"establish", "handshake"}, Outcome,
         pc' = "send" => server_fd \in Conns,
         server_pid' \in 0..GarbagePid,
         UNCHANGED <<op, want, retry_count, ops, answered, source, server_fd, held, fdBad,
                     server, network>>
  PROVE  LinkInv'
<1>1. Quiet' /\ PidsOK' /\ AnswerTrue' /\ HeldIsServed'
  BY OffTheWire DEF Outcome
<1>2. TypeOK'
  BY DEF LinkInv, TypeOK, Outcome, server, network
<1>3. CallOK'
  BY DEF LinkInv, CallOK, Outcome
<1> QED BY <1>1, <1>2, <1>3 DEF LinkInv

LEMMA ConnectKeeps ==
  ASSUME LinkInv, NEW c \in Conns, Connect(c)
  PROVE  LinkInv'
<1>1. /\ pc = "establish" /\ pc' = "handshake" /\ spid # 0 /\ connPid[c] = 0
      /\ connPid' = [connPid EXCEPT ![c] = spid] /\ open' = [open EXCEPT ![c] = TRUE]
      /\ server_fd' = c /\ fdBad' = FALSE
      /\ UNCHANGED <<server_pid, self_server, held, op, want, attempt, retry_count, ops,
                     result, answered, source, server, requests, replies>>
  BY DEF Connect
<1>2. TypeOK'
  <2>1. c \in 0..MaxConns
    BY LinkBounds DEF Conns
  <2> QED BY <1>1, <2>1 DEF LinkInv, TypeOK, server
<1>3. CallOK'
  BY <1>1 DEF LinkInv, CallOK
<1>4. Quiet'
  BY <1>1 DEF LinkInv, TypeOK, Quiet
<1>5. PidsOK'
  <2>1. started \in Nat /\ spid <= started
    BY LinkBounds DEF LinkInv, PidsOK, TypeOK
  <2> QED BY <1>1, <2>1 DEF LinkInv, TypeOK, PidsOK, server
<1>6. AnswerTrue' /\ HeldIsServed'
  BY <1>1 DEF LinkInv, AnswerTrue, HeldIsServed, server
<1> QED BY <1>1, <1>2, <1>3, <1>4, <1>5, <1>6 DEF LinkInv

LEMMA LinkSteps ==
  ASSUME LinkInv,
         UseLink \/ ConnectFails \/ Handshake \/ BrokenPipe
           \/ \E g \in BOOLEAN, j \in {0, GarbagePid} \cup Pids : HandshakeBroken(g, j)
  PROVE  LinkInv'
<1>0. server_pid \in 0..GarbagePid
  BY DEF LinkInv, TypeOK
<1>1. CASE UseLink
  <2>1. server_fd \in Conns
    BY <1>1, LinkBounds DEF UseLink, Connected, NoFd, Conns, LinkInv, TypeOK
  <2>2. Outcome
    BY <1>1, EstablishedOutcome DEF UseLink, context
  <2> QED BY <1>0, <1>1, <2>1, <2>2, EstablishKeeps DEF UseLink, context
<1>2. CASE ConnectFails
  <2>1. Outcome /\ pc' # "send"
    BY <1>2, RefusedOutcome DEF ConnectFails, Refused, Return
  <2> QED BY <1>0, <1>2, <2>1, EstablishKeeps DEF ConnectFails
<1>3. CASE Handshake
  <2>1. server_fd \in Conns
    BY <1>3 DEF Handshake, LinkInv, CallOK
  <2>2. Outcome
    BY <1>3, EstablishedOutcome, RefusedOutcome DEF Handshake
  <2>3. server_pid' \in 0..GarbagePid
    <3>1. connPid[server_fd] \in 0..GarbagePid
      BY <2>1, LinkBounds DEF LinkInv, TypeOK
    <3> QED BY <1>0, <1>3, <3>1 DEF Handshake
  <2> QED BY <1>3, <2>1, <2>2, <2>3, EstablishKeeps DEF Handshake
<1>4. CASE BrokenPipe
  <2>1. Outcome /\ pc' # "send"
    BY <1>4 DEF BrokenPipe, Outcome, context, LinkInv, TypeOK
  <2> QED BY <1>0, <1>4, <2>1, EstablishKeeps DEF BrokenPipe, context
<1>5. ASSUME NEW g \in BOOLEAN, NEW j \in {0, GarbagePid} \cup Pids, HandshakeBroken(g, j)
      PROVE  LinkInv'
  <2>1. server_fd \in Conns
    BY <1>5 DEF HandshakeBroken, LinkInv, CallOK
  <2>2. Outcome
    BY <1>5, EstablishedOutcome, RefusedOutcome DEF HandshakeBroken
  <2>3. server_pid' \in 0..GarbagePid
    <3>1. j \in 0..GarbagePid
      BY LinkBounds DEF Pids
    <3> QED BY <1>0, <1>5, <3>1 DEF HandshakeBroken
  <2> QED BY <1>5, <2>1, <2>2, <2>3, EstablishKeeps DEF HandshakeBroken
<1> QED BY <1>1, <1>2, <1>3, <1>4, <1>5

-----------------------------------------------------------------------------
(***************************************************************************)
(* The request and its reply.                                              *)
(***************************************************************************)

LEMMA OneElement ==
  ASSUME NEW x
  PROVE  /\ Append(<< >>, x) = <<x>> /\ Head(<<x>>) = x /\ Tail(<<x>>) = << >>
         /\ <<x>> # << >>
  OBVIOUS

LEMMA SendKeeps ==
  ASSUME LinkInv, SendRequest
  PROVE  LinkInv'
<1>1. /\ pc = "send" /\ pc' = "reply" /\ server_fd \in Conns /\ op \in {"register", "get"}
      /\ \/ /\ open[server_fd]
            /\ requests' = [requests EXCEPT ![server_fd] = Append(@, Request)]
         \/ requests' = requests
      /\ UNCHANGED <<op, want, attempt, retry_count, ops, result, answered, source, context,
                     server, connPid, open, replies>>
  BY DEF SendRequest, LinkInv, CallOK, Request
<1>2. /\ requests \in [Conns -> Seq(Requests)] /\ Request \in Requests
      /\ requests[server_fd] = << >> /\ replies[server_fd] = << >>
  BY <1>1 DEF LinkInv, TypeOK, Quiet, Request, Requests
<1>3. /\ requests' \in [Conns -> Seq(Requests)]
      /\ requests'[server_fd] \in {<< >>, <<Request>>}
      /\ ~open[server_fd] => requests'[server_fd] = << >>
      /\ \A c \in Conns : c # server_fd => requests'[c] = requests[c]
  <2>1. Append(<< >>, Request) = <<Request>> /\ <<Request>> \in Seq(Requests)
    BY <1>2, OneElement
  <2> QED BY <1>1, <1>2, <2>1 DEF LinkInv, Quiet
<1>4. Request' = Request
  BY <1>1 DEF Request
<1>5. TypeOK'
  BY <1>1, <1>3 DEF LinkInv, TypeOK, context, server
<1>6. CallOK'
  BY <1>1 DEF LinkInv, CallOK, context
<1>7. Quiet'
  <2>1. Carries(server_fd)'
    BY <1>1, <1>2, <1>3, <1>4 DEF Carries, context
  <2> QED BY <1>1, <1>3, <2>1 DEF LinkInv, Quiet, context
<1>8. PidsOK' /\ HeldIsServed'
  BY <1>1 DEF LinkInv, PidsOK, HeldIsServed, context, server
<1>9. AnswerTrue'
  BY <1>1, <1>2, OneElement DEF AnswerTrue, context
<1> QED BY <1>1, <1>5, <1>6, <1>7, <1>8, <1>9 DEF LinkInv

LEMMA SendFailsKeeps ==
  ASSUME LinkInv, SendFails
  PROVE  LinkInv'
<1>1. /\ pc = "send" /\ pc' \in {"idle", "establish"} /\ attempt' \in 0..2
      /\ result' \in {"none", "done", "NULL", "failed"} /\ op \in {"register", "get"}
      /\ UNCHANGED <<op, want, retry_count, ops, answered, source, context, server, network>>
  BY DEF SendFails, Retry, Return, LinkInv, TypeOK, CallOK
<1>2. Quiet' /\ PidsOK' /\ AnswerTrue' /\ HeldIsServed'
  BY <1>1, OffTheWire DEF context
<1>3. TypeOK'
  BY <1>1 DEF LinkInv, TypeOK, context, server, network
<1>4. CallOK'
  BY <1>1 DEF LinkInv, CallOK, context
<1> QED BY <1>1, <1>2, <1>3, <1>4 DEF LinkInv

\* What a waiting call finds at the head of the connection.
LEMMA HeadIsAnswer ==
  ASSUME LinkInv, pc = "reply", replies[server_fd] # << >>
  PROVE  /\ server_fd \in Conns /\ requests[server_fd] = << >>
         /\ \E k \in BOOLEAN : replies[server_fd] = <<Answer(k)>>
  BY DEF LinkInv, CallOK, Quiet, Carries

LEMMA ReadReplyKeeps ==
  ASSUME LinkInv, ReadReply
  PROVE  LinkInv'
<1>1. pc = "reply" /\ replies[server_fd] # << >>
  BY DEF ReadReply
<1>2. PICK k \in BOOLEAN : replies[server_fd] = <<Answer(k)>>
  BY <1>1, HeadIsAnswer
<1>3. server_fd \in Conns /\ requests[server_fd] = << >>
  BY <1>1, HeadIsAnswer
<1>4. Head(replies[server_fd]) = Answer(k) /\ Tail(replies[server_fd]) = << >>
  BY <1>2, OneElement
<1>5. Answer(k).rep = want /\ Answer(k).known = k
  BY DEF Answer
<1>6. /\ pc' = "idle" /\ result' \in {"done", "NULL"}
      /\ answered' = want
      /\ \/ k /\ held' = held \cup {want}
              /\ source' = [source EXCEPT ![want] = connPid[server_fd]]
         \/ ~k /\ held' = held /\ source' = source
      /\ replies' = [replies EXCEPT ![server_fd] = << >>]
      /\ UNCHANGED <<op, want, attempt, retry_count, ops, server_fd, server_pid, self_server,
                     fdBad, server, connPid, open, requests>>
  BY <1>4, <1>5 DEF ReadReply, Return
<1>7. want \in Reps /\ connPid[server_fd] \in 0..MaxPids /\ held \subseteq Reps
      /\ source \in [Reps -> 0..MaxPids] /\ replies \in [Conns -> Seq(Replies)]
  BY <1>3 DEF LinkInv, TypeOK
<1>8. TypeOK'
  <2>1. << >> \in Seq(Replies)
    OBVIOUS
  <2>2. /\ held' \subseteq Reps /\ source' \in [Reps -> 0..MaxPids]
        /\ replies' \in [Conns -> Seq(Replies)]
    BY <1>6, <1>7, <2>1
  <2> QED BY <1>6, <1>7, <2>2 DEF LinkInv, TypeOK, server
<1>9. CallOK'
  BY <1>6 DEF CallOK
<1>10. Quiet'
  BY <1>3, <1>6, <1>7 DEF LinkInv, Quiet
<1>11. PidsOK'
  BY <1>3, <1>6, <1>7 DEF LinkInv, PidsOK, server
<1>12. AnswerTrue'
  BY <1>6 DEF AnswerTrue
<1>13. HeldIsServed'
  <2> SUFFICES ASSUME NEW r \in held', source'[r] = spid, spid # 0 PROVE r \in formats
    BY <1>6 DEF HeldIsServed, server
  <2>1. CASE r = want /\ k
    <3>1. connPid[server_fd] = spid
      BY <1>6, <1>7, <2>1
    <3>2. replies[server_fd] = <<Answer(TRUE)>>
      BY <1>2, <2>1
    <3> QED BY <1>1, <2>1, <3>1, <3>2 DEF LinkInv, AnswerTrue
  <2>2. CASE ~(r = want /\ k)
    BY <1>6, <1>7, <2>2 DEF LinkInv, HeldIsServed
  <2> QED BY <2>1, <2>2
<1> QED BY <1>6, <1>8, <1>9, <1>10, <1>11, <1>12, <1>13 DEF LinkInv

\* The connection has ended and nothing is left in it: the retry starts clean.
LEMMA ReadReplyFailsKeeps ==
  ASSUME LinkInv, ReadReplyFails
  PROVE  LinkInv'
<1>1. /\ pc = "reply" /\ server_fd \in Conns /\ op \in {"register", "get"}
      /\ replies[server_fd] = << >> /\ requests[server_fd] = << >>
  BY DEF ReadReplyFails, LinkInv, CallOK, Quiet
<1>2. UNCHANGED <<op, want, ops, answered, source, context, server, network>>
  BY DEF ReadReplyFails
<1>3. /\ pc' \in {"idle", "establish"} /\ attempt' \in 0..2
      /\ result' \in {"none", "done", "NULL", "failed"}
      /\ retry_count' \in 0..4 /\ (pc' = "establish" => retry_count' \in 0..3)
  <2>1. retry_count \in 0..3 /\ attempt \in 0..2 /\ result \in {"none", "done", "NULL", "failed"}
    BY <1>1 DEF LinkInv, CallOK, TypeOK
  <2>2. CASE op = "register" /\ Retry /\ UNCHANGED <<retry_count, result>>
    BY <2>1, <2>2 DEF Retry
  <2>3. CASE /\ op = "get"
             /\ retry_count' = retry_count + 1
             /\ \/ retry_count' > 3 /\ Return("NULL") /\ UNCHANGED attempt
                \/ retry_count' <= 3 /\ Retry /\ UNCHANGED result
    BY <2>1, <2>3 DEF Retry, Return
  <2> QED BY <2>2, <2>3 DEF ReadReplyFails, ReadFailed
<1>4. TypeOK'
  BY <1>2, <1>3 DEF LinkInv, TypeOK, context, server, network
<1>5. CallOK'
  BY <1>1, <1>2, <1>3 DEF CallOK
<1>6. Quiet'
  BY <1>1, <1>2, <1>3 DEF LinkInv, Quiet, network, context
<1>7. PidsOK' /\ HeldIsServed' /\ AnswerTrue'
  BY <1>2, <1>3 DEF LinkInv, PidsOK, HeldIsServed, AnswerTrue, context, server, network
<1> QED BY <1>2, <1>4, <1>5, <1>6, <1>7 DEF LinkInv

-----------------------------------------------------------------------------
(***************************************************************************)
(* The server.                                                             *)
(***************************************************************************)

LEMMA HandlesKeeps ==
  ASSUME LinkInv, NEW c \in Conns, ServerHandles(c)
  PROVE  LinkInv'
<1>1. open[c] /\ requests[c] # << >>
  BY DEF ServerHandles
<1>2. pc = "reply" /\ c = server_fd /\ requests[c] = <<Request>> /\ replies[c] = << >>
  BY <1>1 DEF LinkInv, Quiet, Carries
<1>3. op \in {"register", "get"} /\ want \in Reps
  BY <1>2 DEF LinkInv, CallOK, TypeOK
<1>4. Head(requests[c]) = Request /\ Tail(requests[c]) = << >>
  BY <1>2, OneElement
<1> DEFINE known == want \in formats'
<1>5. Append(replies[c], [op |-> Request.op, rep |-> Request.rep,
                          known |-> Request.rep \in formats']) = <<Answer(known)>>
  <2>1. Request.op = op /\ Request.rep = want
    BY DEF Request
  <2>2. Append(<< >>, [op |-> op, rep |-> want, known |-> want \in formats'])
          = <<[op |-> op, rep |-> want, known |-> want \in formats']>>
    BY OneElement
  <2> QED BY <1>2, <2>1, <2>2 DEF Answer
<1>6. /\ formats' = IF op = "register" THEN formats \cup {want} ELSE formats
      /\ replies' = [replies EXCEPT ![c] = <<Answer(known)>>]
      /\ requests' = [requests EXCEPT ![c] = << >>]
      /\ UNCHANGED <<context, call, spid, started, connPid, open>>
  <2>1. Request.op = op /\ Request.rep = want
    BY DEF Request
  <2>2. replies' = [replies EXCEPT ![c] = Append(@, [op |-> Request.op, rep |-> Request.rep,
                                                     known |-> Request.rep \in formats'])]
    BY <1>4 DEF ServerHandles
  <2> QED BY <1>4, <1>5, <2>1, <2>2 DEF ServerHandles
<1>7. known \in BOOLEAN /\ Answer(known) \in Replies
  BY <1>3 DEF Answer, Replies
<1> HIDE DEF known
<1>8. requests \in [Conns -> Seq(Requests)] /\ replies \in [Conns -> Seq(Replies)]
  BY DEF LinkInv, TypeOK
<1>9. TypeOK'
  <2>1. << >> \in Seq(Requests) /\ <<Answer(known)>> \in Seq(Replies)
    BY <1>7
  <2>2. requests' \in [Conns -> Seq(Requests)] /\ replies' \in [Conns -> Seq(Replies)]
    BY <1>6, <1>8, <2>1
  <2>3. formats' \subseteq Reps
    BY <1>3, <1>6 DEF LinkInv, TypeOK
  <2> QED BY <1>6, <2>2, <2>3 DEF LinkInv, TypeOK, context, call
<1>10. CallOK'
  BY <1>6 DEF LinkInv, CallOK, context, call
<1>11. Quiet'
  <2>1. \A k : Answer(k)' = Answer(k)
    BY <1>6 DEF Answer, call
  <2>2. Carries(c)'
    BY <1>6, <1>7, <1>8, <2>1 DEF Carries
  <2> QED BY <1>2, <1>6, <1>8, <2>2 DEF LinkInv, Quiet, context, call
<1>12. PidsOK'
  BY <1>6 DEF LinkInv, PidsOK, context, call
<1>13. AnswerTrue'
  <2>1. Answer(TRUE)' = Answer(TRUE)
    BY <1>6 DEF Answer, call
  <2>2. <<Answer(known)>> = <<Answer(TRUE)>> => known
    BY <1>7 DEF Answer
  <2> QED BY <1>2, <1>6, <1>8, <2>1, <2>2 DEF AnswerTrue, known, context, call
<1>14. HeldIsServed'
  BY <1>6 DEF LinkInv, HeldIsServed, context, call
<1> QED BY <1>6, <1>9, <1>10, <1>11, <1>12, <1>13, <1>14 DEF LinkInv, call

\* Connections end, with what they carried to the server and perhaps with what
\* they carried back.
LEMMA ConnectionsEnd ==
  ASSUME LinkInv, NEW S \in SUBSET Conns, UNCHANGED <<context, call, connPid, started>>,
         open' = [c \in Conns |-> open[c] /\ c \notin S],
         requests' = [c \in Conns |-> IF c \in S THEN << >> ELSE requests[c]],
         replies' = replies \/ replies' = [c \in Conns |-> IF c \in S THEN << >> ELSE replies[c]]
  PROVE  /\ CallOK' /\ Quiet'
         /\ open' \in [Conns -> BOOLEAN]
         /\ requests' \in [Conns -> Seq(Requests)] /\ replies' \in [Conns -> Seq(Replies)]
         /\ \A c \in Conns : replies'[c] = replies[c] \/ replies'[c] = << >>
<1>1. /\ open' \in [Conns -> BOOLEAN]
      /\ requests' \in [Conns -> Seq(Requests)] /\ replies' \in [Conns -> Seq(Replies)]
  <2>1. /\ requests \in [Conns -> Seq(Requests)] /\ << >> \in Seq(Requests)
        /\ replies \in [Conns -> Seq(Replies)] /\ << >> \in Seq(Replies)
    BY DEF LinkInv, TypeOK
  <2>2. open' \in [Conns -> BOOLEAN]
    OBVIOUS
  <2>3. requests' \in [Conns -> Seq(Requests)]
    BY <2>1
  <2>4. replies' \in [Conns -> Seq(Replies)]
    BY <2>1
  <2> QED BY <2>2, <2>3, <2>4
<1>2. CallOK'
  BY DEF LinkInv, CallOK, context, call
<1>3. \A c \in Conns : /\ replies'[c] = replies[c] \/ replies'[c] = << >>
                       /\ requests'[c] = requests[c] \/ requests'[c] = << >>
                       /\ open'[c] => requests'[c] = requests[c] /\ replies'[c] = replies[c]
                       /\ ~open'[c] => requests'[c] = << >>
  BY DEF LinkInv, Quiet, TypeOK
<1>4. Quiet'
  <2>1. Request' = Request /\ \A k : Answer(k)' = Answer(k)
    BY DEF Request, Answer, call
  <2>2. \A c \in Conns : Carries(c) => Carries(c)'
    BY <1>3, <2>1 DEF Carries
  <2> QED BY <1>3, <2>2 DEF LinkInv, Quiet, context, call
<1> QED BY <1>1, <1>2, <1>3, <1>4

LEMMA EnvKeeps ==
  ASSUME LinkInv, Env
  PROVE  LinkInv'
<1>0. /\ open \in [Conns -> BOOLEAN] /\ requests \in [Conns -> Seq(Requests)]
      /\ replies \in [Conns -> Seq(Replies)]
  BY DEF LinkInv, TypeOK
<1>1. ASSUME NEW c \in Conns, ServerCloses(c) PROVE LinkInv'
  <2>1. UNCHANGED <<context, call, server, connPid>>
    BY <1>1 DEF ServerCloses
  <2>2. /\ open' = [d \in Conns |-> open[d] /\ d \notin {c}]
        /\ requests' = [d \in Conns |-> IF d \in {c} THEN << >> ELSE requests[d]]
        /\ \/ replies' = replies
           \/ replies' = [d \in Conns |-> IF d \in {c} THEN << >> ELSE replies[d]]
    BY <1>0, <1>1 DEF ServerCloses
  <2>3. /\ CallOK' /\ Quiet' /\ open' \in [Conns -> BOOLEAN]
        /\ requests' \in [Conns -> Seq(Requests)] /\ replies' \in [Conns -> Seq(Replies)]
        /\ \A d \in Conns : replies'[d] = replies[d] \/ replies'[d] = << >>
    BY <2>1, <2>2, ConnectionsEnd DEF server
  <2>4. TypeOK'
    BY <2>1, <2>3 DEF LinkInv, TypeOK, context, call, server
  <2>5. PidsOK' /\ HeldIsServed'
    BY <2>1, <2>2 DEF LinkInv, PidsOK, HeldIsServed, context, call, server
  <2>6. AnswerTrue'
    BY <2>1, <2>3, OneElement DEF LinkInv, AnswerTrue, CallOK, Answer, context, call, server
  <2> QED BY <2>1, <2>3, <2>4, <2>5, <2>6 DEF LinkInv, call
<1>2. CASE ServerCrashes
  <2>1. spid' = 0 /\ formats' = {} /\ UNCHANGED <<context, call, started, connPid>>
    BY <1>2 DEF ServerCrashes
  <2>2. /\ open' = [d \in Conns |-> open[d] /\ d \notin Conns]
        /\ requests' = [d \in Conns |-> IF d \in Conns THEN << >> ELSE requests[d]]
        /\ \/ replies' = replies
           \/ replies' = [d \in Conns |-> IF d \in Conns THEN << >> ELSE replies[d]]
    BY <1>0, <1>2 DEF ServerCrashes
  <2>3. /\ CallOK' /\ Quiet' /\ open' \in [Conns -> BOOLEAN]
        /\ requests' \in [Conns -> Seq(Requests)] /\ replies' \in [Conns -> Seq(Replies)]
    BY <2>1, <2>2, ConnectionsEnd
  <2>4. TypeOK'
    BY <2>1, <2>3, LinkBounds DEF LinkInv, TypeOK, context, call
  <2>5. PidsOK' /\ HeldIsServed' /\ AnswerTrue'
    BY <2>1, <2>2 DEF LinkInv, PidsOK, HeldIsServed, AnswerTrue, context, call
  <2> QED BY <2>1, <2>3, <2>4, <2>5 DEF LinkInv, call
<1>3. CASE ServerStarts
  <2>1. /\ spid = 0 /\ started < MaxPids /\ started' = started + 1 /\ spid' = started + 1
        /\ UNCHANGED <<context, call, formats, network>>
    BY <1>3 DEF ServerStarts
  <2>2. started \in Nat /\ started + 1 \in 0..MaxPids /\ started <= started + 1
    BY <2>1, LinkBounds DEF LinkInv, TypeOK
  <2>3. \A c \in Conns : connPid[c] \in Nat /\ connPid[c] <= started
    BY LinkBounds DEF LinkInv, TypeOK, PidsOK
  <2>4. ASSUME NEW r \in Reps PROVE source[r] \in Nat /\ source[r] <= started
    <3>1. source[r] \in 0..MaxPids
      BY DEF LinkInv, TypeOK
    <3> QED BY <3>1, LinkBounds DEF LinkInv, PidsOK
  <2>5. TypeOK'
    BY <2>1, <2>2 DEF LinkInv, TypeOK, context, call, network
  <2>6. CallOK'
    BY <2>1 DEF LinkInv, CallOK, context, call
  <2>7. Quiet'
    BY <2>1 DEF LinkInv, Quiet, Carries, Request, Answer, context, call, network
  <2>8. PidsOK'
    <3>1. \A c \in Conns : ~open[c]
      BY <2>1 DEF LinkInv, PidsOK
    <3>2. \A c \in Conns : connPid[c] <= started + 1
      BY <2>2, <2>3
    <3>3. ASSUME NEW r \in Reps PROVE source[r] <= started + 1
      BY <2>2, <2>4
    <3> QED BY <2>1, <3>1, <3>2, <3>3 DEF LinkInv, PidsOK, context, call, network
  <2>9. AnswerTrue'
    BY <2>1, <2>2, <2>3 DEF LinkInv, AnswerTrue, CallOK, context, call, network
  <2>10. HeldIsServed'
    BY <2>1, <2>2, <2>4 DEF LinkInv, TypeOK, HeldIsServed, context, call
  <2> QED BY <2>1, <2>5, <2>6, <2>7, <2>8, <2>9, <2>10 DEF LinkInv, call
<1>4. CASE FdLost
  <2>1. /\ fdBad' = TRUE /\ pc = "idle"
        /\ open' = [open EXCEPT ![server_fd] = FALSE]
        /\ UNCHANGED <<server_fd, server_pid, self_server, held, call, server, connPid,
                       requests, replies>>
    BY <1>4 DEF FdLost
  <2>2. TypeOK'
    BY <2>1 DEF LinkInv, TypeOK, call, server
  <2>3. CallOK' /\ AnswerTrue'
    BY <2>1 DEF CallOK, AnswerTrue, call
  <2>4. Quiet'
    BY <2>1 DEF LinkInv, Quiet, call
  <2>5. PidsOK' /\ HeldIsServed'
    BY <1>0, <2>1 DEF LinkInv, PidsOK, HeldIsServed, call, server
  <2> QED BY <2>1, <2>2, <2>3, <2>4, <2>5 DEF LinkInv, call
<1>5. ASSUME NEW r \in Reps, OtherRegisters(r) PROVE LinkInv'
  <2>1. /\ formats' = formats \cup {r}
        /\ UNCHANGED <<context, call, spid, started, network>>
    BY <1>5 DEF OtherRegisters
  <2>2. TypeOK'
    BY <2>1 DEF LinkInv, TypeOK, context, call, network
  <2>3. CallOK' /\ PidsOK' /\ HeldIsServed'
    BY <2>1 DEF LinkInv, CallOK, PidsOK, HeldIsServed, context, call, network
  <2>4. Quiet' /\ AnswerTrue'
    BY <2>1 DEF LinkInv, Quiet, AnswerTrue, Carries, Request, Answer, context, call, network
  <2> QED BY <2>1, <2>2, <2>3, <2>4 DEF LinkInv, call
<1> QED BY <1>1, <1>2, <1>3, <1>4, <1>5 DEF Env

-----------------------------------------------------------------------------
LEMMA LinkInit == Init => LinkInv
<1> SUFFICES ASSUME Init PROVE LinkInv
  OBVIOUS
<1>1. TypeOK
  <2>1. /\ 0 \in 0..MaxConns /\ 0 \in 0..GarbagePid /\ 0 \in 0..2 /\ 0 \in 0..4
        /\ 0 \in 0..MaxOps /\ 0 \in 0..MaxPids
        /\ << >> \in Seq(Requests) /\ << >> \in Seq(Replies)
    BY LinkBounds
  <2> QED BY <2>1 DEF Init, TypeOK, NoFd
<1>2. CallOK /\ Quiet /\ AnswerTrue /\ HeldIsServed
  BY DEF Init, CallOK, Quiet, AnswerTrue, HeldIsServed
<1>3. PidsOK
  BY DEF Init, PidsOK
<1>4. answered = "nothing"
  BY DEF Init
<1> QED BY <1>1, <1>2, <1>3, <1>4 DEF LinkInv

LEMMA LinkInvariant == Spec => []LinkInv
<1>1. LinkInv /\ [Next]_vars => LinkInv'
  <2> SUFFICES ASSUME LinkInv, [Next]_vars PROVE LinkInv'
    OBVIOUS
  <2>1. CASE ClientStep
    BY <2>1, LinkSteps, ConnectKeeps, SendKeeps, SendFailsKeeps, ReadReplyKeeps,
       ReadReplyFailsKeeps DEF ClientStep
  <2>2. CASE AppStep
    BY <2>2, AppKeeps
  <2>3. CASE Env
    BY <2>3, EnvKeeps
  <2>4. CASE \E c \in Conns : ServerHandles(c)
    BY <2>4, HandlesKeeps
  <2>5. CASE UNCHANGED vars
    <3>1. UNCHANGED <<context, call, server, network>>
      BY <2>5 DEF vars
    <3>2. TypeOK'
      BY <3>1 DEF LinkInv, TypeOK, context, call, server, network
    <3>3. CallOK' /\ PidsOK' /\ HeldIsServed'
      BY <3>1 DEF LinkInv, CallOK, PidsOK, HeldIsServed, context, call, server, network
    <3>4. Quiet' /\ AnswerTrue'
      BY <3>1 DEF LinkInv, Quiet, AnswerTrue, Carries, Request, Answer, context, call,
                  server, network
    <3> QED BY <3>1, <3>2, <3>3, <3>4 DEF LinkInv, call
  <2> QED BY <2>1, <2>2, <2>3, <2>4, <2>5 DEF Next
<1> QED BY LinkInit, <1>1, PTL DEF Spec

\* The types; a call that is under way has retries left.
THEOREM LinkTypes == Spec => []TypeOK
  BY LinkInvariant, PTL DEF LinkInv

\* A call is ended only by the reply to its own request, never by one to an
\* earlier call or to an earlier attempt.
THEOREM ReplyIsToThisCall == Spec => []ReplyToThisCall
<1>1. LinkInv => ReplyToThisCall
  <2> SUFFICES ASSUME LinkInv PROVE ReplyToThisCall
    OBVIOUS
  <2>1. ASSUME pc = "reply", replies[server_fd] # << >>
        PROVE  Head(replies[server_fd]).op = op
    <3>1. PICK k \in BOOLEAN : replies[server_fd] = <<Answer(k)>>
      BY <2>1, HeadIsAnswer
    <3>2. Head(replies[server_fd]) = Answer(k)
      BY <3>1, OneElement
    <3> QED BY <3>2 DEF Answer
  <2> QED BY <2>1 DEF LinkInv, ReplyToThisCall
<1> QED BY LinkInvariant, <1>1, PTL

\* A format held from a server that still runs is known to it.
THEOREM HeldStaysServed == Spec => []HeldIsServed
  BY LinkInvariant, PTL DEF LinkInv
=============================================================================
