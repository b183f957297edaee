------------------------ MODULE FormatServer_proofs ------------------------
(***************************************************************************)
(* Proofs about FormatServer, for every set of clients and formats.        *)
(***************************************************************************)
EXTENDS FormatServer, TLAPS

-----------------------------------------------------------------------------
(***************************************************************************)
(* Lemmas about the data.                                                  *)
(***************************************************************************)

\* A format_identifier below 2^16 is not truncated.
LEMMA ModSmall == \A a \in Nat, b \in Nat \ {0} : a < b => a % b = a
  OBVIOUS

\* The entries of the list are well formed.
LEMMA ListEntries ==
    TypeOK => \A i \in DOMAIN list : /\ list[i] \in Entry
                                     /\ list[i].id \in ID /\ list[i].rep \in Reps
  <1> SUFFICES ASSUME TypeOK, NEW i \in DOMAIN list
               PROVE  list[i] \in Entry /\ list[i].id \in ID /\ list[i].rep \in Reps
    OBVIOUS
  <1>1. list[i] \in Entry
    BY DEF TypeOK
  <1> QED
    BY <1>1 DEF Entry

\* The version an ID shows (version_of_format_ID) indexes ID_length.
LEMMA VersionOfType == \A id \in ID : VersionOf(id) \in 0..2
  BY DEF VersionOf, ID

\* generate_format3_server_ID yields an ID of version 2.
LEMMA Format3IDType == \A r \in Reps : Format3ID(r) \in ID
  BY HashAssumption DEF Format3ID, ID

\* The requests of the environment are well formed.
LEMMA RequestType == TypeOK => Requests \subseteq Request
  <1> SUFFICES ASSUME TypeOK, NEW q \in Requests
               PROVE  q \in Request
    OBVIOUS
  <1>1. IDLength \in [0..2 -> Nat]
    BY DEF IDLength
  <1>2. \A p \in Pushed : p \in Entry
    BY PushedAssumption
  <1>3. AskableIDs \subseteq ID
    <2>2. \A i \in DOMAIN list : list[i].id \in ID
      BY ListEntries
    <2>3. [version |-> 1, word1 |-> IPAddr + 1, word2 |-> 0] \in ID
      BY AddressAssumption DEF ID
    <2> QED
      BY <2>2, <2>3 DEF AskableIDs
  <1>4. CASE q \in {RegisterRequest(rep, v) : rep \in Reps, v \in 0..2}
    BY <1>4 DEF RegisterRequest, Request, Ops
  <1>5. CASE q \in {PushRequest(p) : p \in Pushed}
    BY <1>5, <1>1, <1>2 DEF PushRequest, Request, Ops, Entry, ID
  <1>6. CASE q \in {GetRequest(id) : id \in AskableIDs}
    BY <1>6, <1>1, <1>3, VersionOfType DEF GetRequest, Request, Ops
  <1>7. CASE q = DumpRequest
    BY <1>7 DEF DumpRequest, Request, Ops
  <1> QED
    BY <1>4, <1>5, <1>6, <1>7 DEF Requests

\* What the fields of a fetch and of a push are.
LEMMA GetRequestFields ==
    \A id \in ID : /\ GetRequest(id).op = "g" /\ GetRequest(id).rep = NoRep
                   /\ GetRequest(id).id = id
                   /\ GetRequest(id).version = VersionOf(id)
                   /\ GetRequest(id).idlen = IDLength[VersionOf(id)]
  BY DEF GetRequest

LEMMA PushRequestFields ==
    \A p \in Pushed : /\ PushRequest(p).op = "P" /\ PushRequest(p).rep = p.rep
                      /\ PushRequest(p).id = p.id
                      /\ PushRequest(p).version = 2
                      /\ PushRequest(p).idlen = IDLength[p.id.version]
  BY DEF PushRequest

\* A new entry of the list is well formed.
LEMMA NewIDType ==
    ASSUME TypeOK, NEW c \in Clients, NEW id \in NewIDs(req[c]),
           req[c].op \in {"f", "P"}, req[c].rep \in Reps
    PROVE  id \in ID
  <1>1. req[c] \in Request
    BY DEF TypeOK
  <1>2. CASE req[c].id # NoID
    BY <1>1, <1>2 DEF NewIDs, Request
  <1>3. CASE req[c].id = NoID /\ req[c].version = 0
    BY <1>3, AddressAssumption DEF NewIDs, ID
  <1>4. CASE req[c].id = NoID /\ req[c].version = 1
    <2>1. server_format_count % FidModulus \in Nat
      BY BoundAssumption DEF TypeOK
    <2> QED
      BY <1>4, <2>1, AddressAssumption DEF NewIDs, ID
  <1>5. CASE req[c].id = NoID /\ req[c].version = 2
    BY <1>5, Format3IDType DEF NewIDs
  <1> QED
    BY <1>1, <1>2, <1>3, <1>4, <1>5 DEF Request
-----------------------------------------------------------------------------
(***************************************************************************)
(* The inductive invariant.                                                *)
(***************************************************************************)

LEMMA InitInd == Init => IndInv
  <1> SUFFICES ASSUME Init PROVE IndInv
    OBVIOUS
  <1>1. DumpRequest \in Request
    BY DEF DumpRequest, Request, Ops
  <1>2. TypeOK
    BY <1>1 DEF Init, TypeOK, PCs
  <1>3. LockInv /\ AppendInv /\ ListInv /\ AnswerInv
    BY NullAssumption DEF Init, LockInv, AppendInv, ListInv, AnswerInv
  <1>4. RequestInv /\ ReplyInv
    BY DEF Init, RequestInv, ReplyInv, DumpRequest
  <1>5. UniqueIDs /\ OneEntryPerRep
    BY DEF Init, UniqueIDs, IdDeterminesRep, OneEntryPerRep
  <1> QED
    BY <1>2, <1>3, <1>4, <1>5 DEF IndInv

\* Steps that only move a thread outside the critical section.
LEMMA OutsideInd ==
    ASSUME IndInv, NEW c \in Clients,
           \/ Connect(c) \/ Hangup(c) \/ ReplyFormat(c) \/ ReplyDump(c)
           \/ ReplyFails(c) \/ FSClient_close(c)
    PROVE  IndInv'
  <1> USE DEF IndInv
  <1>1. /\ UNCHANGED <<list, server_format_count, lock, req, last, resp, dumped, issued, served>>
        /\ \E l \in {"idle", "close", "gone"} : pc' = [pc EXCEPT ![c] = l]
        /\ pc[c] \in {"gone", "idle", "reply", "close"}
    BY DEF Connect, Hangup, ReplyFormat, ReplyDump, ReplyFails, FSClient_close, Goto
  <1>2. PICK l \in {"idle", "close", "gone"} : pc' = [pc EXCEPT ![c] = l]
    BY <1>1
  <1>3. TypeOK'
    BY <1>1, <1>2 DEF TypeOK, PCs
  <1>4. \A d \in Clients : pc'[d] = pc[d] \/ pc'[d] \in {"idle", "close", "gone"}
    BY <1>2 DEF TypeOK
  <1>5. LockInv'
    BY <1>1, <1>2 DEF LockInv, TypeOK
  <1>6. RequestInv'
    BY <1>1 DEF RequestInv
  <1>7. AppendInv'
    BY <1>1, <1>4 DEF AppendInv, NoMatch
  <1>8. ListInv'
    BY <1>1, <1>4 DEF ListInv, Origin
  <1>9. AnswerInv'
    BY <1>1, <1>4 DEF AnswerInv, Listed
  <1>10. UniqueIDs' /\ OneEntryPerRep'
    BY <1>1 DEF UniqueIDs, IdDeterminesRep, OneEntryPerRep
  <1>11. ReplyInv'
    BY <1>1, <1>4 DEF ReplyInv
  <1> QED
    BY <1>3, <1>5, <1>6, <1>7, <1>8, <1>9, <1>10, <1>11
LEMMA ReceiveInd ==
    ASSUME IndInv, NEW c \in Clients, NEW q \in Requests, Receive(c, q)
    PROVE  IndInv'
  <1> USE DEF IndInv
  <1>1. /\ UNCHANGED <<list, server_format_count, lock, last, issued>>
        /\ req' = [req EXCEPT ![c] = q]
        /\ pc' = [pc EXCEPT ![c] = "lock"]
        /\ resp' = [resp EXCEPT ![c] = NoFormat]
        /\ pc[c] = "idle"
    BY DEF Receive, Goto
  <1>2. q \in Request
    BY RequestType
  <1>3. TypeOK'
    BY <1>1, <1>2 DEF Receive, TypeOK, PCs
  <1>4. \A d \in Clients : \/ pc'[d] = "lock" /\ resp'[d] = NoFormat
                           \/ pc'[d] = pc[d] /\ req'[d] = req[d] /\ resp'[d] = resp[d]
    BY <1>1 DEF TypeOK
  <1>5. LockInv'
    BY <1>1 DEF LockInv, TypeOK
  <1>6. RequestInv'
    <2>1. \A id \in AskableIDs : id \in ID
      <3>2. \A i \in DOMAIN list : list[i].id \in ID
        BY ListEntries
      <3>3. [version |-> 1, word1 |-> IPAddr + 1, word2 |-> 0] \in ID
        BY AddressAssumption DEF ID
      <3> QED
        BY <3>2, <3>3 DEF AskableIDs
    <2>2. /\ q.op = "f" => q.id = NoID /\ q.rep \in Reps
          /\ q.op = "P" => \E p \in Pushed : q = PushRequest(p)
          /\ q.op = "g" => \E id \in ID : q = GetRequest(id)
      BY <2>1 DEF Requests, RegisterRequest, PushRequest, GetRequest, DumpRequest
    <2>3. \A d \in Clients : req'[d] = q \/ req'[d] = req[d]
      BY <1>1 DEF TypeOK
    <2> QED
      BY <2>2, <2>3 DEF RequestInv
  <1>7. AppendInv'
    BY <1>1, <1>4 DEF AppendInv, NoMatch
  <1>8. ListInv'
    BY <1>1, <1>4 DEF ListInv, Origin
  <1>9. AnswerInv'
    BY <1>1, <1>4 DEF AnswerInv, Listed
  <1>10. UniqueIDs' /\ OneEntryPerRep'
    BY <1>1 DEF UniqueIDs, IdDeterminesRep, OneEntryPerRep
  <1>11. ReplyInv'
    BY <1>4 DEF ReplyInv
  <1> QED
    BY <1>3, <1>5, <1>6, <1>7, <1>8, <1>9, <1>10, <1>11

LEMMA AcquireLockInd ==
    ASSUME IndInv, NEW c \in Clients, AcquireLock(c)
    PROVE  IndInv'
  <1> USE DEF IndInv
  <1>1. /\ UNCHANGED <<list, server_format_count, req, last, resp, dumped, issued, served>>
        /\ pc[c] = "lock" /\ pc' = [pc EXCEPT ![c] = "search"]
        /\ lock = Nobody /\ lock' = c
        /\ server_format_count < MaxFormats
    BY DEF AcquireLock, Goto
  <1>2. TypeOK'
    BY <1>1 DEF TypeOK, PCs
  <1>3. \A d \in Clients : \/ pc'[d] = "search" /\ pc[d] = "lock"
                           \/ pc'[d] = pc[d]
    BY <1>1 DEF TypeOK
  <1>4. LockInv'
    BY <1>1, NullAssumption DEF LockInv, TypeOK
  <1>5. RequestInv' /\ UniqueIDs' /\ OneEntryPerRep'
    BY <1>1 DEF RequestInv, UniqueIDs, IdDeterminesRep, OneEntryPerRep
  <1>6. AppendInv'
    BY <1>1, <1>3 DEF AppendInv, NoMatch
  <1>7. ListInv'
    BY <1>1, <1>3 DEF ListInv, Origin
  <1>8. AnswerInv'
    BY <1>1, <1>3 DEF AnswerInv, Listed
  <1>9. ReplyInv'
    BY <1>1, <1>3 DEF ReplyInv
  <1> QED
    BY <1>2, <1>4, <1>5, <1>6, <1>7, <1>8, <1>9

LEMMA SearchHitInd ==
    ASSUME IndInv, NEW c \in Clients, SearchHit(c)
    PROVE  IndInv'
  <1> USE DEF IndInv
  <1>1. PICK i \in DOMAIN list : /\ FirstMatch(req[c], i)
                                 /\ resp' = [resp EXCEPT ![c] = list[i]]
    BY DEF SearchHit
  <1>2. /\ UNCHANGED <<list, server_format_count, lock, req, last, dumped, issued, served>>
        /\ pc[c] = "search" /\ pc' = [pc EXCEPT ![c] = "unlock"]
    BY DEF SearchHit, Goto
  <1>3. list[i] \in Entry
    BY DEF TypeOK
  <1>4. TypeOK'
    BY <1>1, <1>2, <1>3 DEF TypeOK, PCs
  <1>5. \A d \in Clients : \/ d = c /\ pc'[d] = "unlock" /\ resp'[d] = list[i]
                           \/ d # c /\ pc'[d] = pc[d] /\ resp'[d] = resp[d]
    BY <1>1, <1>2 DEF TypeOK
  <1>6. LockInv'
    BY <1>2 DEF LockInv, TypeOK
  <1>7. RequestInv' /\ UniqueIDs' /\ OneEntryPerRep'
    BY <1>2 DEF RequestInv, UniqueIDs, IdDeterminesRep, OneEntryPerRep
  <1>8. AppendInv'
    BY <1>2, <1>5 DEF AppendInv, NoMatch
  <1>9. ListInv'
    BY <1>2, <1>5 DEF ListInv, Origin
  <1>10. AnswerInv'
    BY <1>2, <1>5 DEF AnswerInv, Listed
  <1>11. ReplyInv'
    <2>1. Matches(req[c], list[i])
      BY <1>1 DEF FirstMatch
    <2>2. list[i] # NoFormat /\ list[i].id \in ID /\ list[i].rep \in Reps
      BY <1>3, NullAssumption DEF Entry
    <2>3. req[c].op = "f" => /\ list[i].rep = req[c].rep
                             /\ VersionOf(list[i].id) = req[c].version
      BY <2>1, <2>2, NullAssumption DEF Matches, format_eq, RequestInv
    <2>4. req[c].op = "g" => list[i].id = req[c].id
      <3>1. req[c].op = "g" => req[c].rep = NoRep
        BY GetRequestFields DEF RequestInv
      <3> QED
        BY <2>1, <2>2, <3>1, NullAssumption DEF Matches, format_eq
    <2> QED
      BY <1>2, <1>5, <2>2, <2>3, <2>4 DEF ReplyInv
  <1> QED
    BY <1>4, <1>6, <1>7, <1>8, <1>9, <1>10, <1>11

LEMMA SearchMissInd ==
    ASSUME IndInv, NEW c \in Clients, SearchMiss(c)
    PROVE  IndInv'
  <1> USE DEF IndInv
  <1>1. /\ UNCHANGED <<list, server_format_count, lock, req, resp, dumped, issued, served>>
        /\ pc[c] = "search" /\ req[c].op # "D" /\ NoMatch(req[c])
        /\ last' = [last EXCEPT ![c] = Len(list)]
        /\ pc' = [pc EXCEPT ![c] = IF req[c].op = "g" THEN "unlock" ELSE "append"]
    BY DEF SearchMiss, Goto
  <1>2. TypeOK'
    BY <1>1 DEF TypeOK, PCs
  <1>3. \A d \in Clients :
            \/ /\ d = c /\ last'[d] = Len(list)
               /\ \/ pc'[d] = "append" /\ req[d].op # "g"
                  \/ pc'[d] = "unlock" /\ req[d].op = "g"
            \/ d # c /\ pc'[d] = pc[d] /\ last'[d] = last[d]
    BY <1>1 DEF TypeOK
  <1>4. LockInv'
    BY <1>1 DEF LockInv, TypeOK
  <1>5. RequestInv' /\ UniqueIDs' /\ OneEntryPerRep'
    BY <1>1 DEF RequestInv, UniqueIDs, IdDeterminesRep, OneEntryPerRep
  <1>6. AppendInv'
    <2>1. req[c].op \in Ops
      BY DEF TypeOK, Request
    <2> QED
      BY <1>1, <1>3, <2>1 DEF AppendInv, NoMatch, Ops
  <1>7. ListInv'
    BY <1>1, <1>3 DEF ListInv, Origin
  <1>8. AnswerInv'
    BY <1>1, <1>3 DEF AnswerInv, Listed
  <1>9. ReplyInv'
    BY <1>1, <1>3 DEF ReplyInv, AnswerInv
  <1> QED
    BY <1>2, <1>4, <1>5, <1>6, <1>7, <1>8, <1>9
\* The ID of a new entry is either taken by nobody or already names the same
\* representation: the heart of IdDeterminesRep.
LEMMA NewIDFresh ==
    ASSUME IndInv, ~ SharedIDs, NEW c \in Clients, pc[c] = "append",
           NEW id \in NewIDs(req[c]), NEW i \in DOMAIN list, list[i].id = id
    PROVE  list[i].rep = req[c].rep
  <1> USE DEF IndInv
  <1>1. list[i] \in Entry /\ list[i].id \in ID /\ list[i].rep \in Reps
    BY ListEntries
  <1>2. Origin(list[i], server_format_count)
    BY DEF ListInv
  <1>3. req[c].op \in {"f", "P"} /\ req[c].version \in 0..2
    BY DEF AppendInv, TypeOK, Request
  <1>4. \A r \in Reps : Format3ID(r).version = 2
    BY DEF Format3ID
  <1>5. ASSUME NEW r \in Reps, id = Format3ID(r)
        PROVE  list[i].rep = r
    BY <1>1, <1>2, <1>4, <1>5, PushedAssumption, HashAssumption DEF Origin
  <1>6. CASE req[c].op = "P"
    <2>1. PICK p \in Pushed : req[c] = PushRequest(p)
      BY <1>6 DEF RequestInv
    <2>2. req[c].id = p.id /\ req[c].rep = p.rep /\ p \in Entry
      BY <2>1, PushRequestFields, PushedAssumption
    <2>3. id = p.id /\ p.rep \in Reps
      BY <2>2, NullAssumption DEF NewIDs, Entry
    <2>4. CASE p.id = Format3ID(p.rep)
      BY <2>2, <2>3, <2>4, <1>5
    <2>5. CASE p.id.version = 1 /\ p.id.word1 \notin {0, IPAddr}
      BY <1>1, <1>2, <1>4, <2>2, <2>3, <2>5, PushedAssumption DEF Origin
    <2> QED
      BY <2>4, <2>5, PushedAssumption
  <1>7. CASE req[c].op = "f"
    <2>1. req[c].id = NoID /\ req[c].rep \in Reps
      BY <1>7 DEF RequestInv
    <2>2. CASE req[c].version = 0
      BY <2>1, <2>2 DEF NewIDs
    <2>3. CASE req[c].version = 1
      <3>1. server_format_count < FidModulus
        BY BoundAssumption DEF ListInv, TypeOK
      <3>2. server_format_count % FidModulus = server_format_count
        BY <3>1, ModSmall, BoundAssumption DEF TypeOK
      <3>3. id = [version |-> 1, word1 |-> IPAddr, word2 |-> server_format_count]
        BY <2>1, <2>3, <3>2 DEF NewIDs
      <3>4. id.version = 1 /\ id.word1 = IPAddr /\ id.word2 = server_format_count
        BY <3>3
      <3> QED
        BY <1>1, <1>2, <1>4, <3>4, PushedAssumption DEF Origin, TypeOK
    <2>4. CASE req[c].version = 2
      BY <2>1, <2>4, <1>5 DEF NewIDs
    <2> QED
      BY <1>3, <2>2, <2>3, <2>4
  <1> QED
    BY <1>3, <1>6, <1>7

\* Where the ID of a new entry comes from.
LEMMA NewIDOrigin ==
    ASSUME IndInv, NEW c \in Clients, pc[c] = "append", NEW id \in NewIDs(req[c])
    PROVE  /\ \/ id.version = 0 /\ id.word1 # 0
              \/ id.version = 1 /\ id.word1 = IPAddr /\ id.word2 = server_format_count
              \/ id = Format3ID(req[c].rep)
              \/ [id |-> id, rep |-> req[c].rep] \in Pushed
           /\ req[c].op = "f" => \/ VersionOf(id) = req[c].version
                                 \/ req[c].version = 2 /\ Hash1[req[c].rep] = 0
           /\ id \in ID
  <1> USE DEF IndInv
  <1>1. req[c].op \in {"f", "P"} /\ req[c].version \in 0..2
    BY DEF AppendInv, TypeOK, Request
  <1>2. CASE req[c].op = "P"
    <2>1. PICK p \in Pushed : req[c] = PushRequest(p)
      BY <1>2 DEF RequestInv
    <2>2. p \in Entry /\ p = [id |-> p.id, rep |-> p.rep]
      BY PushedAssumption DEF Entry
    <2>3. req[c].id = p.id /\ req[c].rep = p.rep /\ p.id \in ID
      BY <2>1, <2>2, PushRequestFields DEF Entry
    <2>4. id = p.id
      BY <2>3, NullAssumption DEF NewIDs
    <2> QED
      BY <1>2, <2>2, <2>3, <2>4
  <1>3. CASE req[c].op = "f"
    <2>1. req[c].id = NoID /\ req[c].rep \in Reps
      BY <1>3 DEF RequestInv
    <2>2. id \in ID
      BY <1>1, <2>1, NewIDType
    <2>3. CASE req[c].version = 0
      <3>1. PICK a \in Addrs : id = [version |-> 0, word1 |-> a, word2 |-> 0]
        BY <2>1, <2>3 DEF NewIDs
      <3> QED
        BY <2>2, <2>3, <3>1, AddressAssumption DEF VersionOf
    <2>4. CASE req[c].version = 1
      <3>1. server_format_count < FidModulus
        BY BoundAssumption DEF ListInv, TypeOK
      <3>2. server_format_count % FidModulus = server_format_count
        BY <3>1, ModSmall, BoundAssumption DEF TypeOK
      <3>3. id = [version |-> 1, word1 |-> IPAddr, word2 |-> server_format_count]
        BY <2>1, <2>4, <3>2 DEF NewIDs
      <3> QED
        BY <2>2, <2>4, <3>3, AddressAssumption DEF VersionOf
    <2>5. CASE req[c].version = 2
      <3>1. id = Format3ID(req[c].rep)
        BY <2>1, <2>5 DEF NewIDs
      <3>2. id.version = 2 /\ id.word1 = Hash1[req[c].rep]
        BY <3>1 DEF Format3ID
      <3> QED
        BY <2>2, <2>5, <3>1, <3>2 DEF VersionOf
    <2> QED
      BY <1>1, <2>3, <2>4, <2>5
  <1> QED
    BY <1>1, <1>2, <1>3
LEMMA AppendFormatInd ==
    ASSUME IndInv, NEW c \in Clients, AppendFormat(c)
    PROVE  IndInv'
  <1> USE DEF IndInv
  <1>1. PICK id \in NewIDs(req[c]) :
            /\ list' = Append(SubSeq(list, 1, last[c]), [id |-> id, rep |-> req[c].rep])
            /\ resp' = [resp EXCEPT ![c] = [id |-> id, rep |-> req[c].rep]]
    BY DEF AppendFormat
  <1>n. PICK n \in Nat : n = Len(list)
    BY DEF TypeOK
  <1>2. /\ UNCHANGED <<lock, req, last, dumped, issued, served>>
        /\ server_format_count' = server_format_count + 1
        /\ pc[c] = "append" /\ pc' = [pc EXCEPT ![c] = "unlock"]
    BY DEF AppendFormat, Goto
  <1>3. /\ req[c].op \in {"f", "P"} /\ last[c] = n /\ NoMatch(req[c])
        /\ req[c].rep \in Reps
    <2>1. req[c].op \in {"f", "P"} /\ last[c] = n /\ NoMatch(req[c])
      BY <1>2, <1>n DEF AppendInv
    <2>2. req[c].op = "P" => req[c].rep \in Reps
      BY PushRequestFields, PushedAssumption DEF RequestInv, Entry
    <2> QED
      BY <2>1, <2>2 DEF RequestInv
  <1>4. id \in ID /\ [id |-> id, rep |-> req[c].rep] \in Entry
    <2>1. id \in ID
      BY <1>2, NewIDOrigin
    <2> QED
      BY <1>3, <2>1 DEF Entry
  <1>new. PICK new \in Entry : new = [id |-> id, rep |-> req[c].rep]
    BY <1>4
  <1>12. new.id = id /\ new.rep = req[c].rep /\ new # NoFormat
    BY <1>new, NullAssumption
  <1>5. list' = Append(list, new)
    <2>1. SubSeq(list, 1, n) = list
      BY <1>n DEF TypeOK
    <2> QED
      BY <1>1, <1>3, <1>new, <2>1
  <1>6. /\ n \in Nat /\ Len(list') = n + 1 /\ DOMAIN list' = 1..(n + 1)
        /\ DOMAIN list = 1..n /\ list' \in Seq(Entry)
        /\ list'[n + 1] = new
        /\ \A i \in 1..n : list'[i] = list[i]
    BY <1>4, <1>5, <1>n DEF TypeOK
  <1>7. TypeOK'
    <2>1. pc' \in [Clients -> PCs]
      BY <1>2 DEF TypeOK, PCs
    <2>2. resp' \in [Clients -> Entry \cup {NoFormat}]
      BY <1>1, <1>new DEF TypeOK
    <2>3. server_format_count' \in Nat
      BY <1>2 DEF TypeOK
    <2> QED
      BY <1>2, <1>6, <2>1, <2>2, <2>3 DEF TypeOK
  <1>8. \A d \in Clients : \/ d = c /\ pc'[d] = "unlock" /\ resp'[d] = new
                           \/ /\ d # c /\ pc'[d] = pc[d] /\ resp'[d] = resp[d]
                              /\ pc[d] \notin {"search", "append", "unlock"}
    BY <1>1, <1>2, <1>new DEF TypeOK, LockInv
  <1>9. LockInv'
    BY <1>2 DEF LockInv, TypeOK
  <1>10. RequestInv'
    BY <1>2 DEF RequestInv
  <1>11. AppendInv'
    BY <1>8 DEF AppendInv
  <1>13. ListInv'
    <2>1. \A i \in 1..n : Origin(list[i], server_format_count)
      BY <1>6 DEF ListInv
    <2>2. ASSUME NEW i \in 1..n
          PROVE  Origin(list'[i], server_format_count')
      <3>1. list[i].id.word2 \in Nat
        BY <1>6, ListEntries DEF ID
      <3>2. list[i].id.word2 < server_format_count => list[i].id.word2 < server_format_count'
        BY <1>2, <3>1 DEF TypeOK
      <3> QED
        BY <1>6, <2>1, <3>2 DEF Origin
    <2>3. Origin(list'[n + 1], server_format_count')
      <3>1. \/ id.version = 0 /\ id.word1 # 0
            \/ id.version = 1 /\ id.word1 = IPAddr /\ id.word2 = server_format_count
            \/ id = Format3ID(req[c].rep)
            \/ [id |-> id, rep |-> req[c].rep] \in Pushed
        BY <1>2, NewIDOrigin
      <3>2. id.word2 = server_format_count => id.word2 < server_format_count'
        BY <1>2 DEF TypeOK
      <3> QED
        BY <1>6, <1>12, <1>new, <3>1, <3>2 DEF Origin
    <2>4. \A i \in DOMAIN list' : Origin(list'[i], server_format_count')
      BY <1>6, <2>2, <2>3
    <2> QED
      BY <1>2, <1>6, <1>8, <1>n, <2>4 DEF ListInv
  <1>14. AnswerInv'
    <2>1. \A e \in Entry : Listed(e) => Listed(e)'
      BY <1>6 DEF Listed
    <2>2. Listed(new)'
      BY <1>6 DEF Listed
    <2> QED
      BY <1>2, <1>8, <2>1, <2>2 DEF AnswerInv, TypeOK
  <1>15. UniqueIDs'
    <2> SUFFICES ASSUME ~ SharedIDs PROVE IdDeterminesRep'
      BY DEF UniqueIDs
    <2>1. \A i \in 1..n : list[i].id = id => list[i].rep = req[c].rep
      BY <1>2, <1>6, NewIDFresh
    <2> QED
      BY <1>6, <1>12, <2>1 DEF UniqueIDs, IdDeterminesRep
  <1>16. OneEntryPerRep'
    <2>1. ASSUME NEW i \in 1..n, list[i].rep = new.rep,
                 VersionOf(list[i].id) = 2, VersionOf(id) = 2
          PROVE  FALSE
      <3>1. ~ Matches(req[c], list[i])
        BY <1>3, <1>6 DEF NoMatch
      <3>2. list[i].id \in ID /\ list[i].id.version = 2 /\ id.version = 2
        BY <1>4, <1>6, <2>1, ListEntries DEF VersionOf
      <3>3. CASE req[c].op = "f"
        <4>1. req[c].id = NoID
          BY <3>3 DEF RequestInv
        <4>2. req[c].version = 2
          BY <1>2, <2>1, <3>3, NewIDOrigin
        <4> QED
          BY <1>12, <2>1, <3>1, <4>1, <4>2 DEF Matches, format_eq
      <3>4. CASE req[c].op = "P"
        <4>1. PICK p \in Pushed : req[c] = PushRequest(p)
          BY <3>4 DEF RequestInv
        <4>2. /\ req[c].id = p.id /\ req[c].version = 2
              /\ req[c].idlen = IDLength[p.id.version] /\ p.id \in ID
          BY <4>1, PushRequestFields, PushedAssumption DEF Entry
        <4>3. id = p.id
          BY <4>2, NullAssumption DEF NewIDs
        <4> QED
          BY <1>12, <2>1, <3>1, <3>2, <4>2, <4>3 DEF Matches, format_eq
      <3> QED
        BY <1>3, <3>3, <3>4
    <2> QED
      BY <1>6, <1>12, <2>1 DEF OneEntryPerRep
  <1>17. ReplyInv'
    <2>1. req[c].op = "f" => \/ VersionOf(id) = req[c].version
                             \/ Hash1[req[c].rep] = 0
      BY <1>2, NewIDOrigin
    <2>2. req[c].op # "g"
      BY <1>3
    <2> QED
      BY <1>2, <1>4, <1>8, <1>12, <2>1, <2>2 DEF ReplyInv
  <1> QED
    BY <1>7, <1>9, <1>10, <1>11, <1>13, <1>14, <1>15, <1>16, <1>17
LEMMA CollectIDsInd ==
    ASSUME IndInv, NEW c \in Clients, CollectIDs(c)
    PROVE  IndInv'
  <1> USE DEF IndInv
  <1>1. /\ UNCHANGED <<list, server_format_count, lock, req, last, resp, issued, served>>
        /\ pc[c] = "search" /\ pc' = [pc EXCEPT ![c] = "unlock"]
        /\ req[c].op = "D"
    BY DEF CollectIDs, Goto
  <1>2. TypeOK'
    <2>1. [i \in DOMAIN list |-> list[i].id] \in Seq(ID)
      <3>1. PICK n \in Nat : DOMAIN list = 1..n
        BY DEF TypeOK
      <3>2. \A i \in 1..n : list[i].id \in ID
        BY <3>1, ListEntries
      <3>3. [i \in 1..n |-> list[i].id] \in Seq(ID)
        BY <3>2
      <3> QED
        BY <3>1, <3>3
    <2>2. dumped' \in [Clients -> Seq(ID)]
      BY <2>1 DEF CollectIDs, TypeOK
    <2> QED
      BY <1>1, <2>2 DEF TypeOK, PCs
  <1>3. \A d \in Clients : \/ d = c /\ pc'[d] = "unlock"
                           \/ d # c /\ pc'[d] = pc[d]
    BY <1>1 DEF TypeOK
  <1>4. LockInv'
    BY <1>1 DEF LockInv, TypeOK
  <1>5. RequestInv' /\ UniqueIDs' /\ OneEntryPerRep'
    BY <1>1 DEF RequestInv, UniqueIDs, IdDeterminesRep, OneEntryPerRep
  <1>6. AppendInv'
    BY <1>1, <1>3 DEF AppendInv, NoMatch
  <1>7. ListInv'
    BY <1>1, <1>3 DEF ListInv
  <1>8. AnswerInv'
    BY <1>1, <1>3 DEF AnswerInv, Listed
  <1>9. ReplyInv'
    BY <1>1, <1>3 DEF ReplyInv
  <1> QED
    BY <1>2, <1>4, <1>5, <1>6, <1>7, <1>8, <1>9

LEMMA ReleaseLockInd ==
    ASSUME IndInv, NEW c \in Clients, ReleaseLock(c)
    PROVE  IndInv'
  <1> USE DEF IndInv
  <1>1. /\ UNCHANGED <<list, server_format_count, req, last, resp, dumped, issued, served>>
        /\ lock' = Nobody /\ pc[c] = "unlock"
        /\ pc' = [pc EXCEPT ![c] = IF req[c].op = "P" THEN "idle" ELSE "reply"]
    BY DEF ReleaseLock, Goto
  <1>2. TypeOK'
    BY <1>1 DEF TypeOK, PCs
  <1>3. \A d \in Clients : \/ d = c /\ pc'[d] \in {"idle", "reply"}
                           \/ d # c /\ pc'[d] = pc[d]
    BY <1>1 DEF TypeOK
  <1>4. LockInv'
    BY <1>1, <1>3, NullAssumption DEF LockInv
  <1>5. RequestInv' /\ UniqueIDs' /\ OneEntryPerRep'
    BY <1>1 DEF RequestInv, UniqueIDs, IdDeterminesRep, OneEntryPerRep
  <1>6. AppendInv'
    BY <1>1, <1>3 DEF AppendInv, NoMatch
  <1>7. ListInv'
    BY <1>1, <1>3 DEF ListInv
  <1>8. AnswerInv'
    BY <1>1, <1>3 DEF AnswerInv, Listed
  <1>9. ReplyInv'
    BY <1>1, <1>3 DEF ReplyInv
  <1> QED
    BY <1>2, <1>4, <1>5, <1>6, <1>7, <1>8, <1>9

LEMMA ReplyIDInd ==
    ASSUME IndInv, NEW c \in Clients, ReplyID(c)
    PROVE  IndInv'
  <1> USE DEF IndInv
  <1>1. /\ UNCHANGED <<list, server_format_count, lock, req, last, resp, dumped, served>>
        /\ pc[c] = "reply" /\ pc' = [pc EXCEPT ![c] = "idle"]
        /\ req[c].op = "f" /\ issued' = issued \cup {resp[c]}
    BY DEF ReplyID, Goto
  <1>2. Listed(resp[c]) /\ resp[c] \in Entry
    BY <1>1 DEF AnswerInv, ReplyInv, TypeOK
  <1>3. TypeOK'
    BY <1>1, <1>2 DEF TypeOK, PCs
  <1>4. \A d \in Clients : \/ d = c /\ pc'[d] = "idle"
                           \/ d # c /\ pc'[d] = pc[d]
    BY <1>1 DEF TypeOK
  <1>5. LockInv'
    BY <1>1, <1>4 DEF LockInv
  <1>6. RequestInv' /\ UniqueIDs' /\ OneEntryPerRep'
    BY <1>1 DEF RequestInv, UniqueIDs, IdDeterminesRep, OneEntryPerRep
  <1>7. AppendInv'
    BY <1>1, <1>4 DEF AppendInv, NoMatch
  <1>8. ListInv'
    BY <1>1, <1>4 DEF ListInv
  <1>9. AnswerInv'
    BY <1>1, <1>2, <1>4 DEF AnswerInv, Listed
  <1>10. ReplyInv'
    BY <1>1, <1>4 DEF ReplyInv
  <1> QED
    BY <1>3, <1>5, <1>6, <1>7, <1>8, <1>9, <1>10

\* Every step preserves the invariant.
LEMMA NextInd == IndInv /\ [Next]_vars => IndInv'
  <1> SUFFICES ASSUME IndInv, [Next]_vars PROVE IndInv'
    OBVIOUS
  <1>1. CASE UNCHANGED vars
    <2>1. UNCHANGED <<TypeOK, LockInv, RequestInv>>
      BY <1>1 DEF vars, TypeOK, LockInv, RequestInv
    <2>2. UNCHANGED <<AppendInv, ListInv, AnswerInv>>
      BY <1>1 DEF vars, AppendInv, NoMatch, ListInv, AnswerInv, Listed
    <2>3. UNCHANGED <<UniqueIDs, OneEntryPerRep, ReplyInv>>
      BY <1>1 DEF vars, UniqueIDs, IdDeterminesRep, OneEntryPerRep, ReplyInv
    <2> QED
      BY <2>1, <2>2, <2>3 DEF IndInv
  <1>2. ASSUME NEW c \in Clients, Environment(c)
        PROVE  IndInv'
    BY <1>2, OutsideInd, ReceiveInd DEF Environment
  <1>3. ASSUME NEW c \in Clients, ThreadStep(c)
        PROVE  IndInv'
    BY <1>3, AcquireLockInd, SearchHitInd, SearchMissInd, AppendFormatInd,
       CollectIDsInd, ReleaseLockInd, ReplyIDInd, OutsideInd
       DEF ThreadStep
  <1> QED
    BY <1>1, <1>2, <1>3 DEF Next

-----------------------------------------------------------------------------
(***************************************************************************)
(* The theorems.                                                           *)
(***************************************************************************)

\* The inductive invariant holds in every reachable state.
THEOREM Invariance == Spec => []IndInv
  BY InitInd, NextInd, PTL DEF Spec

\* Every variable of the server keeps its type.
THEOREM TypeCorrect == Spec => []TypeOK
  <1>1. IndInv => TypeOK
    BY DEF IndInv
  <1> QED
    BY <1>1, Invariance, PTL
\* An ID in the list names one representation, provided the addresses behind
\* version 0 IDs stay distinct when one byte is cleared.
THEOREM IdDeterminesRepHolds ==
    ASSUME ~ SharedIDs
    PROVE  Spec => []IdDeterminesRep
  <1>1. IndInv => IdDeterminesRep
    BY DEF IndInv, UniqueIDs
  <1> QED
    BY <1>1, Invariance, PTL

\* A representation is never listed twice under version 2 IDs, whatever the
\* interleaving of the registrations and pushes.
THEOREM OneEntryPerRepHolds == Spec => []OneEntryPerRep
  <1>1. IndInv => OneEntryPerRep
    BY DEF IndInv
  <1> QED
    BY <1>1, Invariance, PTL

\* server_format_count is the length of the list.
THEOREM CountMatchesListHolds == Spec => []CountMatchesList
  <1>1. IndInv => CountMatchesList
    BY DEF IndInv, ListInv, CountMatchesList
  <1> QED
    BY <1>1, Invariance, PTL

\* Whatever other threads do between the search and the reply, a registration
\* is answered with an ID of the asked version for its own representation and
\* a fetch with a format of the asked ID, unless a hash starts with zero.
THEOREM ReplyMatchesRequestHolds ==
    ASSUME \A r \in Reps : Hash1[r] # 0
    PROVE  Spec => []ReplyMatchesRequest
  <1>1. IndInv => ReplyMatchesRequest
    <2> SUFFICES ASSUME IndInv, NEW c \in Clients, pc[c] \in {"unlock", "reply"}
                 PROVE  /\ req[c].op = "f" => /\ resp[c] # NoFormat
                                              /\ resp[c].rep = req[c].rep
                                              /\ VersionOf(resp[c].id) = req[c].version
                        /\ req[c].op = "g" => resp[c] = NoFormat \/ resp[c].id = req[c].id
      BY DEF ReplyMatchesRequest
    <2>1. req[c].op = "f" => req[c].rep \in Reps
      BY DEF IndInv, RequestInv
    <2> QED
      BY <2>1 DEF IndInv, ReplyInv
  <1> QED
    BY <1>1, Invariance, PTL

\* No step of any thread drops, overwrites or reorders an entry: the append
\* goes to the tail that find_format saw, and the lock keeps it the tail.
THEOREM AppendOnlyHolds == Spec => AppendOnly
  <1>1. ASSUME IndInv, [Next]_vars
        PROVE  [/\ Len(list') >= Len(list)
                /\ SubSeq(list', 1, Len(list)) = list]_vars
    <2>1. CASE UNCHANGED list
      BY <1>1, <2>1 DEF IndInv, TypeOK
    <2>2. ASSUME NEW c \in Clients, AppendFormat(c)
          PROVE  /\ Len(list') >= Len(list)
                 /\ SubSeq(list', 1, Len(list)) = list
      <3>1. last[c] = Len(list) /\ list \in Seq(Entry)
        BY <1>1, <2>2 DEF AppendFormat, IndInv, AppendInv, TypeOK
      <3>2. PICK new : list' = Append(SubSeq(list, 1, last[c]), new)
        BY <2>2 DEF AppendFormat
      <3>3. SubSeq(list, 1, Len(list)) = list
        BY <3>1
      <3>4. list' = Append(list, new)
        BY <3>1, <3>2, <3>3
      <3> QED
        BY <3>1, <3>4
    <2>3. CASE Next
      <3>1. PICK c \in Clients : Environment(c) \/ ThreadStep(c)
        BY <2>3 DEF Next
      <3>2. UNCHANGED list \/ AppendFormat(c)
        BY <3>1 DEF Environment, Connect, Hangup, Receive, ThreadStep, AcquireLock,
                    SearchHit, SearchMiss, CollectIDs, ReleaseLock, ReplyID, ReplyFormat,
                    ReplyDump, ReplyFails,
                    FSClient_close
      <3> QED
        BY <2>1, <2>2, <3>2
    <2> QED
      BY <1>1, <2>1, <2>3 DEF vars
  <1> QED
    BY <1>1, Invariance, PTL DEF Spec, AppendOnly

\* A client that fetches an ID that was issued to anyone is answered with the
\* format it was issued for, provided no format hashes to a first word of zero
\* and version 0 IDs are distinct.
THEOREM AnswersIssuedHolds ==
    ASSUME ~ SharedIDs, \A r \in Reps : Hash1[r] # 0
    PROVE  Spec => AnswersIssued
  <1>1. ASSUME IndInv, [Next]_vars
        PROVE  [\A c \in Clients : \A p \in issued :
                   /\ pc[c] = "search" /\ pc'[c] = "unlock"
                   /\ req[c].op = "g" /\ req[c].id = p.id
                   => resp'[c] = p]_vars
    <2> SUFFICES ASSUME Next, NEW c \in Clients, NEW p \in issued,
                        pc[c] = "search", pc'[c] = "unlock",
                        req[c].op = "g", req[c].id = p.id
                 PROVE  resp'[c] = p
      BY <1>1
    <2> USE <1>1 DEF IndInv
    <2>1. p \in Entry /\ Listed(p)
      BY DEF TypeOK, AnswerInv
    <2>2. PICK k \in DOMAIN list : list[k] = p
      BY <2>1 DEF Listed
    <2>3. p.id \in ID /\ p.rep \in Reps /\ VersionOf(p.id) = p.id.version
      <3>1. p.id \in ID /\ p.rep \in Reps
        BY <2>1 DEF Entry
      <3>2. Origin(p, server_format_count)
        BY <2>2 DEF ListInv
      <3>3. p.id = Format3ID(p.rep) => p.id.word1 # 0
        BY <3>1 DEF Format3ID
      <3>4. p.id.word1 # 0 \/ p.id.version = 0
        BY <3>2, <3>3, PushedAssumption, AddressAssumption DEF Origin
      <3> QED
        BY <3>1, <3>4 DEF VersionOf
    <2>4. /\ req[c].version = VersionOf(p.id) /\ req[c].rep = NoRep
          /\ req[c].idlen = IDLength[VersionOf(p.id)]
      <3>1. PICK id \in ID : req[c] = GetRequest(id)
        BY DEF RequestInv
      <3> QED
        BY <3>1, GetRequestFields
    <2>5. Matches(req[c], list[k])
      BY <2>2, <2>3, <2>4 DEF Matches, format_eq
    <2>6. SearchHit(c)
      <3>1. PICK d \in Clients : Environment(d) \/ ThreadStep(d)
        BY DEF Next
      <3>2. d = c
        BY <3>1 DEF TypeOK, Environment, Connect, Hangup, Receive, ThreadStep,
                    AcquireLock, SearchHit, SearchMiss, AppendFormat, CollectIDs,
                    ReleaseLock, ReplyID, ReplyFormat,
                    ReplyDump, ReplyFails, FSClient_close, Goto
      <3>3. SearchHit(c) \/ SearchMiss(c)
        BY <3>1, <3>2 DEF Environment, Connect, Hangup, Receive, ThreadStep,
                          AcquireLock, AppendFormat, CollectIDs,
                          ReleaseLock, ReplyID, ReplyFormat,
                    ReplyDump, ReplyFails, FSClient_close
      <3> QED
        BY <2>5, <3>3 DEF SearchMiss, NoMatch
    <2>7. PICK i \in DOMAIN list : /\ Matches(req[c], list[i])
                                   /\ resp' = [resp EXCEPT ![c] = list[i]]
      BY <2>6 DEF SearchHit, FirstMatch
    <2>8. list[i] \in Entry /\ list[i].rep \in Reps
      BY ListEntries
    <2>9. list[i].id = p.id
      BY <2>4, <2>7, <2>8, NullAssumption DEF Matches, format_eq
    <2>10. list[i].rep = p.rep
      BY <2>2, <2>9 DEF UniqueIDs, IdDeterminesRep
    <2>11. list[i] = p
      BY <2>1, <2>8, <2>9, <2>10 DEF Entry
    <2> QED
      BY <2>7, <2>11 DEF TypeOK
  <1> QED
    BY <1>1, Invariance, PTL DEF Spec, AnswersIssued
-----------------------------------------------------------------------------
(***************************************************************************)
(* The server implements the registry.                                     *)
(***************************************************************************)

\* What the registry sees of the threads.
Phases == [c \in Clients |-> Phase(c)]
Answers == [c \in Clients |-> AnswerOf(c)]
Formats == {list[i] : i \in DOMAIN list}

\* Where a call is, by the position of its thread, before a step and after.
LEMMA PhaseAt ==
    ASSUME NEW c \in Clients
    PROVE  /\ pc[c] \in {"lock", "search", "append"} => Phase(c) = "pending"
           /\ pc[c] \in {"unlock", "reply"} => Phase(c) = "done"
           /\ pc[c] \in {"idle", "close", "gone"} => Phase(c) = "ready"
           /\ pc'[c] \in {"lock", "search", "append"} => Phase(c)' = "pending"
           /\ pc'[c] \in {"unlock", "reply"} => Phase(c)' = "done"
           /\ pc'[c] \in {"idle", "close", "gone"} => Phase(c)' = "ready"
  BY DEF Phase

\* A step of one thread changes the phase and the answer of its call only.
LEMMA OneThread ==
    ASSUME IndInv, NEW c \in Clients,
           \A d \in Clients \ {c} : /\ pc'[d] = pc[d] /\ req'[d] = req[d]
                                    /\ resp'[d] = resp[d] /\ dumped'[d] = dumped[d]
    PROVE  /\ Phases' = [Phases EXCEPT ![c] = Phase(c)']
           /\ Answers' = [Answers EXCEPT ![c] = AnswerOf(c)']
  <1>1. ASSUME NEW d \in Clients \ {c} PROVE Phase(d)' = Phase(d)
    BY DEF Phase
  <1>2. ASSUME NEW d \in Clients \ {c} PROVE AnswerOf(d)' = AnswerOf(d)
    BY <1>1 DEF AnswerOf
  <1>3. Phases' = [d \in Clients |-> Phase(d)']
    BY DEF Phases
  <1>4. Answers' = [d \in Clients |-> AnswerOf(d)']
    BY DEF Answers
  <1>5. Phases' = [Phases EXCEPT ![c] = Phase(c)']
    BY <1>1, <1>3, Zenon DEF Phases
  <1>6. Answers' = [Answers EXCEPT ![c] = AnswerOf(c)']
    BY <1>2, <1>4, Zenon DEF Answers
  <1> QED
    BY <1>5, <1>6

\* A thread whose call is not done has no answer to show.
LEMMA NoAnswer ==
    ASSUME NEW c \in Clients
    PROVE  /\ Phase(c) # "done" => AnswerOf(c) = {}
           /\ Phase(c)' # "done" => AnswerOf(c)' = {}
  BY DEF AnswerOf

\* Steps within a phase, which the registry does not see.
LEMMA InPhase ==
    ASSUME IndInv, NEW c \in Clients,
           \A d \in Clients \ {c} : pc'[d] = pc[d],
           list' = list, req' = req, resp' = resp, dumped' = dumped,
           Phase(c)' = Phase(c)
    PROVE  UNCHANGED <<Formats, Phases, req, Answers>>
  <1>1. AnswerOf(c)' = AnswerOf(c)
    BY DEF AnswerOf
  <1>2. /\ Phases' = [Phases EXCEPT ![c] = Phase(c)']
        /\ Answers' = [Answers EXCEPT ![c] = AnswerOf(c)']
    BY OneThread
  <1>3. Phases' = Phases /\ Answers' = Answers
    <2>1. [Phases EXCEPT ![c] = Phase(c)] = Phases
      BY DEF Phases
    <2>2. [Answers EXCEPT ![c] = AnswerOf(c)] = Answers
      BY DEF Answers
    <2> QED
      BY <1>1, <1>2, <2>1, <2>2
  <1>4. Formats' = Formats
    BY DEF Formats
  <1> QED
    BY <1>3, <1>4

\* A request that has been read is a call of the registry.
LEMMA ReceiveInvokes ==
    ASSUME IndInv, NEW c \in Clients, NEW q \in Requests, Receive(c, q)
    PROVE  Registry!Invoke(c)
  <1> USE DEF IndInv
  <1>1. /\ pc \in [Clients -> PCs] /\ req \in [Clients -> Request]
        /\ resp \in [Clients -> Entry \cup {NoFormat}] /\ dumped \in [Clients -> Seq(ID)]
    BY DEF TypeOK
  <1>2. /\ pc[c] = "idle" /\ pc' = [pc EXCEPT ![c] = "lock"]
        /\ req' = [req EXCEPT ![c] = q] /\ list' = list
        /\ \A d \in Clients \ {c} : /\ pc'[d] = pc[d] /\ req'[d] = req[d]
                                    /\ resp'[d] = resp[d] /\ dumped'[d] = dumped[d]
    BY <1>1 DEF Receive, Goto
  <1>3. Phase(c) = "ready" /\ Phase(c)' = "pending"
    BY <1>1, <1>2, PhaseAt
  <1>4. AnswerOf(c) = {} /\ AnswerOf(c)' = {}
    BY <1>3, NoAnswer
  <1>5. /\ Phases' = [Phases EXCEPT ![c] = Phase(c)']
        /\ Answers' = [Answers EXCEPT ![c] = AnswerOf(c)']
    BY <1>2, OneThread
  <1>6. Phases[c] = "ready" /\ Phases' = [Phases EXCEPT ![c] = "pending"]
    BY <1>3, <1>5 DEF Phases
  <1>7. Answers' = Answers
    BY <1>4, <1>5 DEF Answers
  <1>8. Formats' = Formats
    BY <1>2 DEF Formats
  <1>9. q \in Request
    BY RequestType
  <1>10. req' \in [Clients -> Request] /\ \A d \in Clients \ {c} : req'[d] = req[d]
    BY <1>1, <1>2, <1>9
  <1> QED
    BY <1>6, <1>7, <1>8, <1>10 DEF Registry!Invoke, Phases, Answers, Formats

\* A thread that leaves the critical section with the answer returns from the call.
LEMMA Returning ==
    ASSUME IndInv, NEW c \in Clients,
           pc[c] \in {"unlock", "reply"}, pc'[c] \in {"idle", "close"},
           \A d \in Clients \ {c} : pc'[d] = pc[d],
           list' = list, req' = req, resp' = resp, dumped' = dumped
    PROVE  Registry!Return(c)
  <1>1. Phase(c) = "done" /\ Phase(c)' = "ready"
    BY PhaseAt
  <1>2. AnswerOf(c)' = {}
    BY <1>1, NoAnswer
  <1>3. /\ Phases' = [Phases EXCEPT ![c] = Phase(c)']
        /\ Answers' = [Answers EXCEPT ![c] = AnswerOf(c)']
    BY OneThread
  <1>4. /\ Phases[c] = "done" /\ Phases' = [Phases EXCEPT ![c] = "ready"]
        /\ Answers' = [Answers EXCEPT ![c] = {}]
    BY <1>1, <1>2, <1>3 DEF Phases
  <1>5. Formats' = Formats
    BY DEF Formats
  <1> QED
    BY <1>4, <1>5 DEF Registry!Return, Phases, Answers, Formats

\* A thread that is done with the list has decided the answer of its call.
LEMMA Answering ==
    ASSUME IndInv, NEW c \in Clients, NEW a, AnswerOf(c)' = a,
           pc[c] \in {"search", "append"}, pc' = [pc EXCEPT ![c] = "unlock"],
           req' = req,
           \A d \in Clients \ {c} : resp'[d] = resp[d] /\ dumped'[d] = dumped[d]
    PROVE  Registry!Answer(c, a)
  <1>1. pc'[c] = "unlock" /\ \A d \in Clients \ {c} : pc'[d] = pc[d]
    BY DEF IndInv, TypeOK
  <1>2. Phase(c) = "pending" /\ Phase(c)' = "done"
    BY <1>1, PhaseAt
  <1>3. /\ Phases' = [Phases EXCEPT ![c] = Phase(c)']
        /\ Answers' = [Answers EXCEPT ![c] = AnswerOf(c)']
    BY <1>1, OneThread
  <1>4. Phases[c] = "pending" /\ Phases' = [Phases EXCEPT ![c] = "done"]
    BY <1>2, <1>3 DEF Phases
  <1> QED
    BY <1>3, <1>4 DEF Registry!Answer, Phases, Answers

\* The answer of a call about one format is what find_format returned.
LEMMA AnswerIsFound ==
    ASSUME IndInv, NEW c \in Clients, pc'[c] = "unlock", req'[c].op # "D"
    PROVE  AnswerOf(c)' = {resp'[c]} \ {NoFormat}
  BY DEF AnswerOf, Phase

\* An ID in the list shows the version it was made with.
LEMMA ListedVersion ==
    ASSUME IndInv, \A r \in Reps : Hash1[r] # 0, NEW i \in DOMAIN list
    PROVE  VersionOf(list[i].id) = list[i].id.version
  <1>1. list[i].id \in ID /\ list[i].rep \in Reps /\ list[i] \in Entry
    BY ListEntries DEF IndInv
  <1>2. Origin(list[i], server_format_count)
    BY DEF IndInv, ListInv
  <1>3. list[i].id = Format3ID(list[i].rep) => list[i].id.word1 # 0
    BY <1>1 DEF Format3ID
  <1>4. list[i].id.word1 # 0 \/ list[i].id.version = 0
    BY <1>2, <1>3, PushedAssumption, AddressAssumption DEF Origin
  <1> QED
    BY <1>1, <1>4 DEF VersionOf

\* A format of the list that a push matches has the representation pushed.
LEMMA PushMatch ==
    ASSUME IndInv, NEW c \in Clients, req[c].op = "P",
           NEW i \in DOMAIN list, Matches(req[c], list[i])
    PROVE  list[i].rep = req[c].rep
  <1> USE DEF IndInv
  <1>1. PICK p \in Pushed : req[c] = PushRequest(p)
    BY DEF RequestInv
  <1>2. /\ req[c].id = p.id /\ req[c].rep = p.rep /\ req[c].version = 2
        /\ p \in Entry
    BY <1>1, PushRequestFields, PushedAssumption
  <1>3. p.id \in ID /\ p.rep \in Reps
    BY <1>2 DEF Entry
  <1>4. list[i] \in Entry /\ list[i].id \in ID /\ list[i].rep \in Reps
    BY ListEntries
  <1>5. VersionOf(list[i].id) = 2 /\ (list[i].id = p.id \/ list[i].rep = req[c].rep)
    BY <1>2 DEF Matches, format_eq
  <1>6. CASE list[i].id = p.id
    <2>1. p.id.version = 2
      BY <1>3, <1>5, <1>6 DEF VersionOf
    <2>2. p.id = Format3ID(p.rep)
      BY <2>1, PushedAssumption
    <2>3. Origin(list[i], server_format_count)
      BY DEF ListInv
    <2>4. list[i].id = Format3ID(list[i].rep)
      BY <1>6, <2>1, <2>3, PushedAssumption DEF Origin
    <2> QED
      BY <1>2, <1>3, <1>4, <1>6, <2>2, <2>4, HashAssumption
  <1> QED
    BY <1>5, <1>6

\* The first equal format answers a registration, a push or a fetch.
LEMMA SearchHitAnswers ==
    ASSUME IndInv, ~ SharedIDs, NEW c \in Clients, SearchHit(c)
    PROVE  Registry!Register(c) \/ Registry!Push(c) \/ Registry!Get(c)
  <1> USE DEF IndInv
  <1>1. PICK i \in DOMAIN list : /\ Matches(req[c], list[i])
                                 /\ resp' = [resp EXCEPT ![c] = list[i]]
    BY DEF SearchHit, FirstMatch
  <1>2. /\ pc[c] = "search" /\ pc' = [pc EXCEPT ![c] = "unlock"]
        /\ req' = req /\ list' = list /\ dumped' = dumped /\ req[c].op # "D"
    BY DEF SearchHit, Goto
  <1>3. /\ pc'[c] = "unlock" /\ resp'[c] = list[i]
        /\ \A d \in Clients \ {c} : resp'[d] = resp[d]
    BY <1>1, <1>2 DEF TypeOK
  <1>4. list[i] \in Entry /\ list[i].rep \in Reps /\ list[i] # NoFormat
    BY ListEntries, NullAssumption
  <1>5. AnswerOf(c)' = {list[i]}
    BY <1>2, <1>3, <1>4, AnswerIsFound
  <1>6. Registry!Answer(c, {list[i]})
    BY <1>2, <1>3, <1>5, Answering
  <1>7. Formats' = Formats /\ list[i] \in Formats
    BY <1>2 DEF Formats
  <1>8. req[c].op \in {"f", "P", "g"}
    BY <1>2 DEF TypeOK, Request, Ops
  <1>9. CASE req[c].op = "f"
    <2>1. req[c].id = NoID
      BY <1>9 DEF RequestInv
    <2>2. list[i].rep = req[c].rep /\ VersionOf(list[i].id) = req[c].version
      <3>1. list[i].id # NoID
        BY ListEntries, NullAssumption
      <3> QED
        BY <1>1, <2>1, <3>1 DEF Matches, format_eq
    <2>3. list[i] \in Registry!Known(req[c])
      BY <1>7, <2>2 DEF Registry!Known, Formats
    <2> QED
      BY <1>6, <1>7, <1>9, <2>3 DEF Registry!Register, Formats
  <1>10. CASE req[c].op = "P"
    <2>1. list[i].rep = req[c].rep
      BY <1>1, <1>10, PushMatch
    <2>2. VersionOf(list[i].id) = req[c].version
      BY <1>1 DEF Matches
    <2>3. list[i] \in Registry!Known(req[c])
      BY <1>7, <2>1, <2>2 DEF Registry!Known, Formats
    <2> QED
      BY <1>6, <1>7, <1>10, <2>3 DEF Registry!Push, Formats
  <1>11. CASE req[c].op = "g"
    <2>1. req[c].rep = NoRep
      BY <1>11, GetRequestFields DEF RequestInv
    <2>2. list[i].id = req[c].id
      BY <1>1, <1>4, <2>1, NullAssumption DEF Matches, format_eq
    <2>3. ASSUME NEW e \in Formats, e.id = req[c].id
          PROVE  e = list[i]
      <3>1. PICK j \in DOMAIN list : e = list[j]
        BY <2>3 DEF Formats
      <3>2. list[j] \in Entry /\ list[j].rep = list[i].rep
        BY <2>2, <2>3, <3>1, ListEntries DEF UniqueIDs, IdDeterminesRep
      <3> QED
        BY <1>4, <2>2, <2>3, <3>1, <3>2 DEF Entry
    <2>4. {e \in Formats : e.id = req[c].id} = {list[i]}
      BY <1>7, <2>2, <2>3
    <2> QED
      BY <1>6, <1>7, <1>11, <2>4 DEF Registry!Get, Formats
  <1> QED
    BY <1>8, <1>9, <1>10, <1>11

\* A fetch that runs off the list is of an ID that no format has.
LEMMA SearchMissAnswers ==
    ASSUME IndInv, \A r \in Reps : Hash1[r] # 0,
           NEW c \in Clients, SearchMiss(c), req[c].op = "g"
    PROVE  Registry!Get(c)
  <1> USE DEF IndInv
  <1>1. /\ pc[c] = "search" /\ pc' = [pc EXCEPT ![c] = "unlock"] /\ NoMatch(req[c])
        /\ req' = req /\ list' = list /\ dumped' = dumped /\ resp' = resp
    BY DEF SearchMiss, Goto
  <1>2. pc'[c] = "unlock" /\ resp'[c] = NoFormat
    BY <1>1 DEF TypeOK, AnswerInv
  <1>3. AnswerOf(c)' = {}
    BY <1>1, <1>2, AnswerIsFound
  <1>4. Registry!Answer(c, {})
    BY <1>1, <1>3, Answering
  <1>5. ASSUME NEW i \in DOMAIN list, list[i].id = req[c].id
        PROVE  FALSE
    <2>1. PICK id \in ID : req[c] = GetRequest(id)
      BY DEF RequestInv
    <2>2. /\ req[c].id = id /\ req[c].version = VersionOf(id)
          /\ req[c].idlen = IDLength[VersionOf(id)]
      BY <2>1, GetRequestFields
    <2>3. VersionOf(list[i].id) = list[i].id.version
      BY ListedVersion
    <2>4. Matches(req[c], list[i])
      BY <1>5, <2>2, <2>3 DEF Matches, format_eq
    <2> QED
      BY <1>1, <2>4 DEF NoMatch
  <1>6. {e \in Formats : e.id = req[c].id} = {} /\ Formats' = Formats
    BY <1>1, <1>5 DEF Formats
  <1> QED
    BY <1>4, <1>6 DEF Registry!Get, Formats

\* A dump tells the IDs of all formats.
LEMMA CollectIDsAnswers ==
    ASSUME IndInv, NEW c \in Clients, CollectIDs(c)
    PROVE  Registry!Dump(c)
  <1> USE DEF IndInv
  <1> DEFINE ids == [i \in DOMAIN list |-> list[i].id]
  <1>1. /\ pc[c] = "search" /\ pc' = [pc EXCEPT ![c] = "unlock"]
        /\ req' = req /\ list' = list /\ resp' = resp /\ req[c].op = "D"
        /\ dumped' = [dumped EXCEPT ![c] = ids \o ids]
    BY DEF CollectIDs, Goto
  <1>2. /\ pc'[c] = "unlock" /\ dumped'[c] = ids \o ids
        /\ \A d \in Clients \ {c} : dumped'[d] = dumped[d]
    BY <1>1 DEF TypeOK
  <1>3. AnswerOf(c)' = {dumped'[c][i] : i \in DOMAIN dumped'[c]}
    BY <1>1, <1>2 DEF AnswerOf, Phase
  <1>4. PICK n \in Nat : DOMAIN list = 1..n
    BY DEF TypeOK
  <1>5. ids \in Seq(ID) /\ Len(ids) = n /\ \A i \in 1..n : ids[i] = list[i].id
    <2>1. \A i \in 1..n : list[i].id \in ID
      BY <1>4, ListEntries
    <2>2. ids = [i \in 1..n |-> list[i].id]
      BY <1>4
    <2> QED
      BY <2>1, <2>2
  <1> HIDE DEF ids
  <1>6. /\ DOMAIN (ids \o ids) = 1 .. (n + n)
        /\ \A i \in 1 .. (n + n) : (ids \o ids)[i] = IF i <= n THEN ids[i] ELSE ids[i - n]
    BY <1>5
  <1>7. {(ids \o ids)[i] : i \in 1 .. (n + n)} = {list[i].id : i \in 1..n}
    <2>1. ASSUME NEW i \in 1 .. (n + n)
          PROVE  \E j \in 1..n : (ids \o ids)[i] = list[j].id
      <3>1. CASE i <= n
        BY <1>5, <1>6, <3>1
      <3>2. CASE ~ (i <= n)
        <4>1. i - n \in 1..n
          BY <3>2
        <4> QED
          BY <1>5, <1>6, <3>2, <4>1
      <3> QED
        BY <3>1, <3>2
    <2>2. ASSUME NEW j \in 1..n
          PROVE  j \in 1 .. (n + n) /\ (ids \o ids)[j] = list[j].id
      BY <1>5, <1>6
    <2> DEFINE twice == ids \o ids
               both  == 1 .. (n + n)
    <2>3. /\ \A i \in both : \E j \in 1..n : twice[i] = list[j].id
          /\ \A j \in 1..n : j \in both /\ twice[j] = list[j].id
      BY <2>1, <2>2
    <2> HIDE DEF twice, both
    <2>4. {twice[i] : i \in both} = {list[i].id : i \in 1..n}
      BY <2>3
    <2> QED
      BY <2>4 DEF twice, both
  <1>8. {e.id : e \in Formats} = {list[i].id : i \in 1..n}
    BY <1>4 DEF Formats
  <1>9. AnswerOf(c)' = {e.id : e \in Formats}
    <2>1. AnswerOf(c)' = {(ids \o ids)[i] : i \in DOMAIN (ids \o ids)}
      BY <1>2, <1>3
    <2>2. AnswerOf(c)' = {(ids \o ids)[i] : i \in 1 .. (n + n)}
      BY <1>6, <2>1, Zenon
    <2> QED
      BY <1>7, <1>8, <2>2, Zenon
  <1>10. Registry!Answer(c, {e.id : e \in Formats})
    <2> DEFINE a == {e.id : e \in Formats}
    <2>1. AnswerOf(c)' = a
      BY <1>9
    <2> HIDE DEF a
    <2>2. Registry!Answer(c, a)
      BY <1>1, <1>2, <2>1, Answering
    <2> QED
      BY <2>2 DEF a
  <1>11. Formats' = Formats
    BY <1>1 DEF Formats
  <1> QED
    BY <1>1, <1>10, <1>11 DEF Registry!Dump, Formats

\* A new format makes the registration or the push that brought it.
LEMMA AppendFormatAnswers ==
    ASSUME IndInv, ~ SharedIDs, \A r \in Reps : Hash1[r] # 0,
           NEW c \in Clients, AppendFormat(c)
    PROVE  Registry!Register(c) \/ Registry!Push(c)
  <1> USE DEF IndInv
  <1>1. /\ pc[c] = "append" /\ pc' = [pc EXCEPT ![c] = "unlock"]
        /\ req' = req /\ dumped' = dumped
    BY DEF AppendFormat, Goto
  <1>2. PICK id \in NewIDs(req[c]) :
            /\ list' = Append(SubSeq(list, 1, last[c]), [id |-> id, rep |-> req[c].rep])
            /\ resp' = [resp EXCEPT ![c] = [id |-> id, rep |-> req[c].rep]]
    BY DEF AppendFormat
  <1> DEFINE new == [id |-> id, rep |-> req[c].rep]
  <1>3. req[c].op \in {"f", "P"} /\ last[c] = Len(list) /\ NoMatch(req[c])
    BY <1>1 DEF AppendInv
  <1>4. req[c].rep \in Reps
    <2>1. CASE req[c].op = "f"
      BY <2>1 DEF RequestInv
    <2>2. CASE req[c].op = "P"
      BY <2>2, PushRequestFields, PushedAssumption DEF RequestInv, Entry
    <2> QED
      BY <1>3, <2>1, <2>2
  <1>5. id \in ID
    BY <1>1, <1>2, NewIDOrigin
  <1>6. new \in Entry /\ new # NoFormat /\ new.id = id /\ new.rep = req[c].rep
    BY <1>4, <1>5, NullAssumption DEF Entry
  <1> HIDE DEF new
  <1>7. /\ pc'[c] = "unlock" /\ resp'[c] = new
        /\ \A d \in Clients \ {c} : resp'[d] = resp[d]
    BY <1>1, <1>2 DEF TypeOK, new
  <1>8. Registry!Answer(c, {new})
    <2>1. AnswerOf(c)' = {new}
      BY <1>1, <1>3, <1>6, <1>7, AnswerIsFound
    <2> QED
      BY <1>1, <1>7, <2>1, Answering
  <1>9. Formats' = Formats \cup {new}
    <2>1. PICK n \in Nat : DOMAIN list = 1..n /\ Len(list) = n
      BY DEF TypeOK
    <2>2. list \in Seq(Entry) /\ list' = Append(SubSeq(list, 1, Len(list)), new)
      BY <1>2, <1>3 DEF TypeOK, new
    <2>3. SubSeq(list, 1, Len(list)) = list
      BY <2>2
    <2>4. list' = Append(list, new)
      BY <2>2, <2>3
    <2>5. /\ DOMAIN list' = 1 .. (n + 1)
          /\ \A i \in 1..n : list'[i] = list[i]
          /\ list'[n + 1] = new
      BY <1>6, <2>1, <2>2, <2>4
    <2>6. \A e : e \in Formats' <=> e \in Formats \/ e = new
      BY <2>1, <2>5 DEF Formats
    <2> QED
      BY <2>6
  <1>10. ASSUME NEW e \in Formats, e.id = id
         PROVE  e = new /\ e.rep = req[c].rep
    <2>1. PICK i \in DOMAIN list : e = list[i]
      BY <1>10 DEF Formats
    <2>2. list[i].rep = req[c].rep /\ list[i] \in Entry
      BY <1>1, <1>2, <1>10, <2>1, NewIDFresh, ListEntries
    <2> QED
      BY <1>6, <1>10, <2>1, <2>2 DEF Entry
  <1>11. CASE req[c].op = "f"
    <2>1. req[c].id = NoID /\ req[c].version \in 0..2
      BY <1>11 DEF RequestInv, TypeOK, Request
    <2>2. VersionOf(id) = req[c].version
      BY <1>1, <1>2, <1>4, <1>11, NewIDOrigin
    <2>3. Registry!Known(req[c]) = {}
      <3>1. ASSUME NEW i \in DOMAIN list, list[i].rep = req[c].rep,
                   VersionOf(list[i].id) = req[c].version
            PROVE  FALSE
        <4>1. Matches(req[c], list[i])
          BY <2>1, <3>1 DEF Matches, format_eq
        <4> QED
          BY <1>3, <4>1 DEF NoMatch
      <3> QED
        BY <3>1 DEF Registry!Known
    <2>4. \A e \in Formats : e.id # id
      <3>1. ASSUME NEW e \in Formats, e.id = id
            PROVE  e \in Registry!Known(req[c])
        BY <1>10, <2>2, <3>1 DEF Registry!Known, Formats
      <3> QED
        BY <2>3, <3>1
    <2>5. id \in PossibleIDs
      <3>1. CASE req[c].version = 0
        BY <1>2, <2>1, <3>1 DEF NewIDs, PossibleIDs
      <3>2. CASE req[c].version = 1
        <4>1. server_format_count < MaxFormats
          BY <1>1 DEF ListInv
        <4>2. server_format_count % FidModulus = server_format_count
          <5>1. server_format_count < FidModulus
            BY <4>1, BoundAssumption DEF TypeOK
          <5> QED
            BY <5>1, ModSmall, BoundAssumption DEF TypeOK
        <4>3. id = [version |-> 1, word1 |-> IPAddr, word2 |-> server_format_count]
          BY <1>2, <2>1, <3>2, <4>2 DEF NewIDs
        <4>4. server_format_count \in 0..MaxFormats
          BY <4>1, BoundAssumption DEF TypeOK
        <4> DEFINE numbers == 0..MaxFormats
        <4>5. server_format_count \in numbers
          BY <4>4
        <4> HIDE DEF numbers
        <4>6. id \in {[version |-> 1, word1 |-> IPAddr, word2 |-> k] : k \in numbers}
          BY <4>3, <4>5, Zenon
        <4> QED
          BY <4>6 DEF PossibleIDs, numbers
      <3>3. CASE req[c].version = 2
        BY <1>2, <1>4, <2>1, <3>3 DEF NewIDs, PossibleIDs
      <3> QED
        BY <2>1, <3>1, <3>2, <3>3
    <2> QED
      BY <1>8, <1>9, <1>11, <2>2, <2>3, <2>4, <2>5 DEF Registry!Register, Formats, new
  <1>12. CASE req[c].op = "P"
    <2>1. id = req[c].id
      <3>1. req[c].id # NoID
        BY <1>12, PushRequestFields, PushedAssumption, NullAssumption DEF RequestInv, Entry
      <3> QED
        BY <1>2, <3>1 DEF NewIDs
    <2>2. \A e \in Formats : e.id = new.id => e = new
      BY <1>6, <1>10
    <2> QED
      BY <1>8, <1>9, <1>12, <2>1, <2>2 DEF Registry!Push, Formats, new
  <1> QED
    BY <1>3, <1>11, <1>12

\* The server starts as an empty registry with nobody calling.
LEMMA InitIsInit == Init => Registry!Init
  <1> SUFFICES ASSUME Init PROVE Registry!Init
    OBVIOUS
  <1>1. list = <<>> /\ pc = [c \in Clients |-> "gone"] /\ req \in [Clients -> Request]
    BY InitInd DEF Init, IndInv, TypeOK
  <1>2. Formats = {}
    BY <1>1 DEF Formats
  <1>3. \A c \in Clients : Phase(c) = "ready" /\ AnswerOf(c) = {}
    BY <1>1, PhaseAt, NoAnswer
  <1>4. Phases = [c \in Clients |-> "ready"] /\ Answers = [c \in Clients |-> {}]
    BY <1>3 DEF Phases, Answers
  <1> QED
    BY <1>1, <1>2, <1>4 DEF Registry!Init, Formats, Phases, Answers

\* What a step is to the registry.
Served(c) ==
    \/ Registry!Invoke(c) \/ Registry!Register(c) \/ Registry!Push(c)
    \/ Registry!Get(c) \/ Registry!Dump(c) \/ Registry!Return(c)
    \/ UNCHANGED <<Formats, Phases, req, Answers>>

LEMMA StepIsServed ==
    ASSUME IndInv, ~ SharedIDs, \A r \in Reps : Hash1[r] # 0,
           NEW c \in Clients, Environment(c) \/ ThreadStep(c)
    PROVE  Served(c)
  <1>1. pc \in [Clients -> PCs] /\ req[c].op \in Ops
    BY DEF IndInv, TypeOK, Request
  <1>2. CASE Connect(c) \/ Hangup(c) \/ AcquireLock(c) \/ FSClient_close(c)
    <2>1. /\ \E l \in PCs : pc' = [pc EXCEPT ![c] = l]
          /\ \/ pc[c] \in {"gone", "idle", "close"} /\ pc'[c] \in {"idle", "close", "gone"}
             \/ pc[c] = "lock" /\ pc'[c] = "search"
          /\ list' = list /\ req' = req /\ resp' = resp /\ dumped' = dumped
      BY <1>1, <1>2 DEF Connect, Hangup, AcquireLock, FSClient_close, Goto, PCs
    <2>2. Phase(c)' = Phase(c)
      BY <2>1, PhaseAt
    <2>3. \A d \in Clients \ {c} : pc'[d] = pc[d]
      BY <1>1, <2>1
    <2> QED
      BY <2>1, <2>2, <2>3, InPhase DEF Served
  <1>3. CASE \E q \in Requests : Receive(c, q)
    BY <1>3, ReceiveInvokes DEF Served
  <1>4. CASE SearchHit(c)
    BY <1>4, SearchHitAnswers DEF Served
  <1>5. CASE SearchMiss(c)
    <2>1. CASE req[c].op = "g"
      BY <1>5, <2>1, SearchMissAnswers DEF Served
    <2>2. CASE req[c].op # "g"
      <3>1. /\ pc[c] = "search" /\ pc' = [pc EXCEPT ![c] = "append"]
            /\ list' = list /\ req' = req /\ resp' = resp /\ dumped' = dumped
        BY <1>5, <2>2 DEF SearchMiss, Goto
      <3>2. pc'[c] = "append" /\ \A d \in Clients \ {c} : pc'[d] = pc[d]
        BY <1>1, <3>1
      <3>3. Phase(c)' = Phase(c)
        BY <3>1, <3>2, PhaseAt
      <3> QED
        BY <3>1, <3>2, <3>3, InPhase DEF Served
    <2> QED
      BY <2>1, <2>2
  <1>6. CASE AppendFormat(c)
    BY <1>6, AppendFormatAnswers DEF Served
  <1>7. CASE CollectIDs(c)
    BY <1>7, CollectIDsAnswers DEF Served
  <1>8. CASE ReleaseLock(c) /\ req[c].op # "P"
    <2>1. /\ pc[c] = "unlock" /\ pc' = [pc EXCEPT ![c] = "reply"]
          /\ list' = list /\ req' = req /\ resp' = resp /\ dumped' = dumped
      BY <1>8 DEF ReleaseLock, Goto
    <2>2. pc'[c] = "reply" /\ \A d \in Clients \ {c} : pc'[d] = pc[d]
      BY <1>1, <2>1
    <2>3. Phase(c)' = Phase(c)
      BY <2>1, <2>2, PhaseAt
    <2> QED
      BY <2>1, <2>2, <2>3, InPhase DEF Served
  <1>9. CASE \/ ReleaseLock(c) /\ req[c].op = "P"
             \/ ReplyID(c) \/ ReplyFormat(c) \/ ReplyDump(c) \/ ReplyFails(c)
    <2>1. /\ pc[c] \in {"unlock", "reply"}
          /\ \E l \in {"idle", "close"} : pc' = [pc EXCEPT ![c] = l]
          /\ list' = list /\ req' = req /\ resp' = resp /\ dumped' = dumped
      BY <1>9 DEF ReleaseLock, ReplyID, ReplyFormat, ReplyDump, ReplyFails, Goto
    <2>2. pc'[c] \in {"idle", "close"} /\ \A d \in Clients \ {c} : pc'[d] = pc[d]
      BY <1>1, <2>1
    <2> QED
      BY <2>1, <2>2, Returning DEF Served
  <1> QED
    BY <1>2, <1>3, <1>4, <1>5, <1>6, <1>7, <1>8, <1>9 DEF Environment, ThreadStep

LEMMA NextImplements ==
    ASSUME ~ SharedIDs, \A r \in Reps : Hash1[r] # 0
    PROVE  IndInv /\ [Next]_vars => [Registry!Next]_(Registry!vars)
  <1> SUFFICES ASSUME IndInv, [Next]_vars
               PROVE  Registry!Next \/ UNCHANGED Registry!vars
    BY DEF Registry!vars
  <1>1. CASE UNCHANGED vars
    <2>1. UNCHANGED <<Formats, req>>
      BY <1>1 DEF vars, Formats
    <2>2. \A c \in Clients : Phase(c)' = Phase(c)
      BY <1>1 DEF vars, Phase
    <2>3. \A c \in Clients : AnswerOf(c)' = AnswerOf(c)
      BY <1>1 DEF vars, AnswerOf, Phase
    <2>4. UNCHANGED <<Phases, Answers>>
      BY <2>2, <2>3 DEF Phases, Answers
    <2> QED
      BY <2>1, <2>4 DEF Registry!vars, Formats, Phases, Answers
  <1>2. CASE Next
    <2>1. PICK c \in Clients : Environment(c) \/ ThreadStep(c)
      BY <1>2 DEF Next
    <2>2. Served(c)
      BY <2>1, StepIsServed
    <2>3. CASE UNCHANGED <<Formats, Phases, req, Answers>>
      BY <2>3 DEF Registry!vars, Formats, Phases, Answers
    <2>4. CASE ~ UNCHANGED <<Formats, Phases, req, Answers>>
      BY <2>2, <2>4 DEF Served, Registry!Next
    <2> QED
      BY <2>3, <2>4
  <1> QED
    BY <1>1, <1>2

\* The handler threads, the lock and the list behave as one atomic registry:
\* each registration, push, fetch or dump takes effect at one instant between
\* its arrival and its reply, whatever the other connections do.  Provided no
\* format hashes to a first word of zero and version 0 IDs are distinct.
THEOREM ImplementsRegistryHolds ==
    ASSUME ~ SharedIDs, \A r \in Reps : Hash1[r] # 0
    PROVE  Spec => ImplementsRegistry
  <1>1. IndInv /\ [Next]_vars => [Registry!Next]_(Registry!vars)
    BY NextImplements
  <1> QED
    BY <1>1, InitIsInit, Invariance, PTL DEF Spec, ImplementsRegistry, Registry!Spec
=============================================================================
