--------------------------- MODULE SessionProofs ---------------------------
(* What holds of Session for every value of its constants.                  *)
EXTENDS Session, TLAPS

-----------------------------------------------------------------------------
(* The values the supervisor and the reader move around                     *)

(* The three kinds of owner of a PDU are told apart.                        *)
LEMMA OwnersApart ==
  /\ Owners \cap Answers = {} /\ NoOwner \notin Owners /\ NoOwner \notin Answers
  /\ EnquireLink \in Owners /\ Unbind \in Owners /\ Requests \subseteq Owners
  /\ EnquireLink \notin Requests /\ Unbind \notin Requests /\ EnquireLink # Unbind
BY SessionAssumption DEF Owners, Own, Answers, EnquireLink, Unbind

LEMMA SeqNumsType == 1 \in SeqNums /\ SeqNums \subseteq 0 .. MaxSeq /\ 0 \notin SeqNums
BY SessionAssumption DEF SeqNums

LEMMA InitInv == ASSUME Init PROVE SessionInv
<1>1. TableTypeOK
  BY SeqNumsType DEF Init, TableTypeOK
<1>2. CallTypeOK
  BY SessionAssumption DEF Init, CallTypeOK, NoReply, Reply, Kinds, Phases
<1>3. SupervisorTypeOK
  <2>1. outgoing \in Seq(Pdus)
    BY DEF Init
  <2> QED BY <2>1 DEF Init, SupervisorTypeOK, States, SupSteps, Stops
<1>4. ReaderTypeOK
  BY DEF Init, ReaderTypeOK, Answers
<1>5. PeerTypeOK
  BY DEF Init, PeerTypeOK
<1>6. WaiterHasEntry
  BY DEF Init, WaiterHasEntry
<1> QED BY <1>1, <1>2, <1>3, <1>4, <1>5, <1>6 DEF SessionInv, TypeOK

-----------------------------------------------------------------------------
(* The correlation table                                                    *)

(* A fresh number keeps the table a function into owners, and the cursor    *)
(* stays a sequence_number, also after the last one (pending.rs allocate).  *)
LEMMA RegisterType ==
  ASSUME TableTypeOK, CallTypeOK, NEW o \in Owners, NEW s \in SeqNums, Register(o, s)
  PROVE  /\ TableTypeOK'
         /\ seqOf' \in [Owners -> 0 .. MaxSeq] /\ seqOf'[o] = s
<1>1. waiting' \in [SeqNums -> Owners \cup {NoOwner}]
  BY DEF TableTypeOK, Register
<1>2. due' \in SUBSET SeqNums
  BY DEF TableTypeOK, Register
<1>3. cursor' \in SeqNums
  BY SessionAssumption DEF TableTypeOK, Register, Successor, SeqNums
<1>4. seqOf' \in [Owners -> 0 .. MaxSeq] /\ seqOf'[o] = s
  BY SeqNumsType DEF CallTypeOK, Register
<1> QED BY <1>1, <1>2, <1>3, <1>4 DEF TableTypeOK

(* Registering takes nobody's entry: the number handed out is free.         *)
LEMMA RegisterKeepsWaiters ==
  ASSUME SessionInv, NEW o \in Owners, NEW s \in SeqNums, Register(o, s),
         NEW r \in Requests, r # o, phase[r] \in {"registered", "awaiting"}, reply[r] = NoReply
  PROVE  seqOf'[r] \in SeqNums /\ waiting'[seqOf'[r]] = r
<1>1. r \in Owners /\ r # NoOwner
  BY OwnersApart
<1>2. seqOf[r] \in SeqNums /\ waiting[seqOf[r]] = r
  BY DEF SessionInv, WaiterHasEntry
<1>3. waiting[s] = NoOwner
  BY DEF Register, Allocates, FreeSeqs
<1>4. seqOf'[r] = seqOf[r]
  BY <1>1 DEF Register, SessionInv, TypeOK, CallTypeOK
<1>5. seqOf[r] # s
  BY <1>1, <1>2, <1>3
<1> QED BY <1>2, <1>4, <1>5 DEF Register, SessionInv, TypeOK, TableTypeOK

(* Emptying part of the table leaves it a table.                            *)
LEMMA WithoutType ==
  ASSUME TableTypeOK, NEW S
  PROVE  Without(S) \in [SeqNums -> Owners \cup {NoOwner}]
BY DEF TableTypeOK, Without

(* What the waiters of a set of entries are told is a reply.                *)
LEMMA ToldType ==
  ASSUME CallTypeOK, NEW S, NEW k \in Kinds
  PROVE  Told(S, k) \in [Owners -> [kind : Kinds, of : Owners \cup {NoOwner}]]
BY DEF CallTypeOK, Told, Reply

(* A caller whose entry goes is told: nobody is left with a receiver that   *)
(* nothing can send into.                                                   *)
LEMMA ToldWhenTaken ==
  ASSUME SessionInv, NEW S, NEW k \in Kinds \ {"none"}, NEW r \in Requests,
         phase[r] \in {"registered", "awaiting"}, Told(S, k)[r] = NoReply
  PROVE  Without(S)[seqOf[r]] = r
<1>1. r \in Owners
  BY OwnersApart
<1>2. seqOf[r] \in SeqNums
  BY DEF SessionInv, WaiterHasEntry
<1>3. ~(seqOf[r] \in S /\ waiting[seqOf[r]] = r)
  BY <1>1 DEF Told, NoReply, Reply
<1>4. reply[r] = NoReply
  BY <1>1, <1>3 DEF Told
<1>5. waiting[seqOf[r]] = r
  BY <1>4 DEF SessionInv, WaiterHasEntry
<1> QED BY <1>2, <1>3, <1>5 DEF Without

-----------------------------------------------------------------------------
(* One step of a call                                                       *)

(* A step of a call r that leaves the table alone keeps the waiters of the  *)
(* other calls.                                                             *)
LEMMA OtherCallsWait ==
  ASSUME SessionInv, NEW r \in Requests, UNCHANGED waiting,
         \A q \in Requests \ {r} :
           phase'[q] = phase[q] /\ seqOf'[q] = seqOf[q] /\ reply'[q] = reply[q],
         phase'[r] \notin {"registered", "awaiting"}
  PROVE  WaiterHasEntry'
BY DEF SessionInv, WaiterHasEntry

LEMMA CallKeepsInv ==
  ASSUME SessionInv, NEW r \in Requests, Call(r)
  PROVE  SessionInv'
<1> USE OwnersApart
<1> USE DEF SessionInv, TypeOK
<1>1. ASSUME Outside(r) PROVE ReaderTypeOK' /\ PeerTypeOK'
  BY <1>1 DEF Outside, readerVars, peerVars, ReaderTypeOK, PeerTypeOK
<1>2. ASSUME Outside(r), outgoing' \in Seq(Pdus) PROVE SupervisorTypeOK'
  BY <1>2 DEF Outside, supVars, SupervisorTypeOK
<1>3. ASSUME UNCHANGED tableVars PROVE TableTypeOK'
  BY <1>3 DEF tableVars, TableTypeOK
<1>4. ASSUME UNCHANGED outgoing PROVE outgoing' \in Seq(Pdus)
  BY <1>4 DEF SupervisorTypeOK
<1>5. CASE Refuse(r)
  <2>1. CallTypeOK'
    BY <1>5 DEF Refuse, CallTypeOK, Phases, Kinds, Reply
  <2>2. WaiterHasEntry'
    BY <1>5, OtherCallsWait DEF Refuse, CallTypeOK, tableVars
  <2> QED BY <1>1, <1>2, <1>3, <1>4, <1>5, <2>1, <2>2 DEF Refuse
<1>6. CASE Accept(r)
  <2>1. CallTypeOK'
    BY <1>6 DEF Accept, CallTypeOK, Phases
  <2>2. WaiterHasEntry'
    BY <1>6, OtherCallsWait DEF Accept, CallTypeOK, tableVars
  <2> QED BY <1>1, <1>2, <1>3, <1>4, <1>6, <2>1, <2>2 DEF Accept
<1>7. CASE Admit(r)
  <2>1. CallTypeOK'
    BY <1>7 DEF Admit, CallTypeOK, Phases
  <2>2. WaiterHasEntry'
    BY <1>7, OtherCallsWait DEF Admit, CallTypeOK, tableVars
  <2> QED BY <1>1, <1>2, <1>3, <1>4, <1>7, <2>1, <2>2 DEF Admit
<1>8. CASE RegisterCall(r)
  <2>1. PICK s \in SeqNums : Register(r, s)
    BY <1>8 DEF RegisterCall
  <2>2. TableTypeOK' /\ CallTypeOK'
    <3>1. phase' \in [Requests -> Phases] /\ reply' = reply
      BY <1>8 DEF RegisterCall, CallTypeOK, Phases
    <3>2. TableTypeOK' /\ seqOf' \in [Owners -> 0 .. MaxSeq]
      BY <2>1, RegisterType
    <3> QED BY <3>1, <3>2 DEF CallTypeOK
  <2>3. WaiterHasEntry'
    <3> SUFFICES ASSUME NEW q \in Requests, phase'[q] \in {"registered", "awaiting"}
                 PROVE  /\ seqOf'[q] \in SeqNums
                        /\ reply'[q] = NoReply => waiting'[seqOf'[q]] = q
      BY DEF WaiterHasEntry
    <3>1. CASE q = r
      <4>1. seqOf'[r] = s
        BY <2>1, RegisterType
      <4>2. waiting'[s] = r
        BY <2>1 DEF Register, TableTypeOK
      <4> QED BY <3>1, <4>1, <4>2
    <3>2. CASE q # r
      <4>1. phase'[q] = phase[q] /\ reply'[q] = reply[q]
        BY <1>8, <3>2 DEF RegisterCall, CallTypeOK
      <4>2. seqOf'[q] = seqOf[q] /\ seqOf[q] \in SeqNums
        BY <2>1, <3>2, <4>1 DEF Register, CallTypeOK, WaiterHasEntry
      <4>3. ASSUME reply[q] = NoReply PROVE waiting'[seqOf'[q]] = q
        BY <2>1, <3>2, <4>1, <4>3, RegisterKeepsWaiters
      <4> QED BY <4>1, <4>2, <4>3
    <3> QED BY <3>1, <3>2
  <2> QED BY <1>1, <1>2, <1>4, <1>8, <2>2, <2>3 DEF RegisterCall
<1>9. CASE NoNumberLeft(r)
  <2>1. CallTypeOK'
    BY <1>9 DEF NoNumberLeft, CallTypeOK, Phases, Kinds, Reply
  <2>2. WaiterHasEntry'
    BY <1>9, OtherCallsWait DEF NoNumberLeft, CallTypeOK, tableVars
  <2> QED BY <1>1, <1>2, <1>3, <1>4, <1>9, <2>1, <2>2 DEF NoNumberLeft
<1>10. CASE Enqueue(r)
  <2>1. CallTypeOK'
    BY <1>10 DEF Enqueue, CallTypeOK, Phases
  <2>2. outgoing' \in Seq(Pdus)
    <3>1. Pdu(r, seqOf[r]) \in Pdus
      BY <1>10 DEF Enqueue, WaiterHasEntry, Pdu, Pdus, RequestPdus
    <3> QED BY <1>10, <3>1 DEF Enqueue, SupervisorTypeOK
  <2>3. WaiterHasEntry'
    BY <1>10 DEF Enqueue, WaiterHasEntry, CallTypeOK, tableVars
  <2> QED BY <1>1, <1>2, <1>3, <1>10, <2>1, <2>2, <2>3 DEF Enqueue
<1>11. CASE QueueClosed(r)
  <2>1. CallTypeOK'
    BY <1>11, SeqNumsType, SessionAssumption DEF QueueClosed, CallTypeOK, Phases, Kinds, Reply
  <2>2. WaiterHasEntry'
    BY <1>11, OtherCallsWait DEF QueueClosed, CallTypeOK, tableVars
  <2> QED BY <1>1, <1>2, <1>3, <1>4, <1>11, <2>1, <2>2 DEF QueueClosed
<1>12. CASE Return(r)
  <2>1. CallTypeOK'
    BY <1>12, SessionAssumption DEF Return, CallTypeOK, Phases
  <2>2. WaiterHasEntry'
    BY <1>12, OtherCallsWait DEF Return, CallTypeOK, tableVars
  <2> QED BY <1>1, <1>2, <1>3, <1>4, <1>12, <2>1, <2>2 DEF Return
<1>13. CASE Drop(r)
  <2>1. CallTypeOK'
    BY <1>13, SessionAssumption DEF Drop, CallTypeOK, Phases
  <2>2. WaiterHasEntry'
    BY <1>13, OtherCallsWait DEF Drop, CallTypeOK, tableVars
  <2> QED BY <1>1, <1>2, <1>3, <1>4, <1>13, <2>1, <2>2 DEF Drop
<1> QED
  BY <1>5, <1>6, <1>7, <1>8, <1>9, <1>10, <1>11, <1>12, <1>13 DEF Call

-----------------------------------------------------------------------------
(* One step of the supervisor                                               *)

(* A step that leaves the calls and the table alone keeps every waiter.     *)
LEMMA WaitersUndisturbed ==
  ASSUME SessionInv, UNCHANGED tableVars, UNCHANGED callVars
  PROVE  WaiterHasEntry' /\ TableTypeOK' /\ CallTypeOK'
BY DEF SessionInv, TypeOK, WaiterHasEntry, tableVars, callVars, TableTypeOK, CallTypeOK

(* The supervisor's own requests are no calls: their receivers and replies  *)
(* are not what WaiterHasEntry speaks of.                                   *)
LEMMA OwnReceiver ==
  ASSUME SessionInv, NEW o \in Own, NEW n \in 0 .. MaxSeq,
         UNCHANGED tableVars, UNCHANGED phase,
         \/ UNCHANGED reply
         \/ reply' = [reply EXCEPT ![o] = NoReply],
         seqOf' = [seqOf EXCEPT ![o] = n]
  PROVE  WaiterHasEntry' /\ TableTypeOK' /\ CallTypeOK'
<1>1. \A r \in Requests : r \in Owners /\ r # o
  BY OwnersApart DEF Own
<1>2. TableTypeOK' /\ CallTypeOK'
  <2>1. NoReply \in [kind : Kinds, of : Owners \cup {NoOwner}]
    BY DEF NoReply, Reply, Kinds
  <2>2. reply' \in [Owners -> [kind : Kinds, of : Owners \cup {NoOwner}]]
    BY <2>1 DEF SessionInv, TypeOK, CallTypeOK
  <2> QED BY <2>2 DEF SessionInv, TypeOK, tableVars, TableTypeOK, CallTypeOK
<1>3. ASSUME NEW r \in Requests PROVE seqOf'[r] = seqOf[r] /\ reply'[r] = reply[r]
  BY <1>1 DEF SessionInv, TypeOK, CallTypeOK
<1>4. WaiterHasEntry'
  BY <1>3 DEF SessionInv, WaiterHasEntry, tableVars
<1> QED BY <1>2, <1>4

LEMMA OwnRegister ==
  ASSUME SessionInv, NEW o \in Own, NEW s \in SeqNums, Register(o, s), UNCHANGED phase,
         reply' = [reply EXCEPT ![o] = NoReply]
  PROVE  WaiterHasEntry' /\ TableTypeOK' /\ CallTypeOK'
<1>1. o \in Owners /\ \A r \in Requests : r \in Owners /\ r # o
  BY OwnersApart DEF Own
<1>2. TableTypeOK' /\ seqOf' \in [Owners -> 0 .. MaxSeq]
  BY <1>1, RegisterType DEF SessionInv, TypeOK
<1>3. CallTypeOK'
  BY <1>1, <1>2 DEF SessionInv, TypeOK, CallTypeOK, NoReply, Reply, Kinds
<1>4. WaiterHasEntry'
  <2> SUFFICES ASSUME NEW r \in Requests, phase'[r] \in {"registered", "awaiting"}
               PROVE  /\ seqOf'[r] \in SeqNums
                      /\ reply'[r] = NoReply => waiting'[seqOf'[r]] = r
    BY DEF WaiterHasEntry
  <2>1. reply'[r] = reply[r] /\ phase[r] \in {"registered", "awaiting"}
    BY <1>1 DEF SessionInv, TypeOK, CallTypeOK
  <2>2. seqOf'[r] = seqOf[r] /\ seqOf[r] \in SeqNums
    BY <1>1, <2>1 DEF Register, SessionInv, TypeOK, CallTypeOK, WaiterHasEntry
  <2>3. ASSUME reply[r] = NoReply PROVE waiting'[seqOf'[r]] = r
    BY <1>1, <2>1, <2>3, RegisterKeepsWaiters
  <2> QED BY <2>1, <2>2, <2>3
<1> QED BY <1>2, <1>3, <1>4

(* Taking a set of entries out of the table and telling their waiters.      *)
LEMMA TakenAndTold ==
  ASSUME SessionInv, NEW S, NEW k \in Kinds \ {"none"},
         waiting' = Without(S), reply' = Told(S, k), due' \in SUBSET SeqNums,
         UNCHANGED <<cursor, seqOf, phase>>
  PROVE  WaiterHasEntry' /\ TableTypeOK' /\ CallTypeOK'
<1>1. TableTypeOK'
  BY WithoutType DEF SessionInv, TypeOK, TableTypeOK
<1>2. CallTypeOK'
  BY ToldType DEF SessionInv, TypeOK, CallTypeOK
<1>3. WaiterHasEntry'
  BY ToldWhenTaken DEF SessionInv, WaiterHasEntry
<1> QED BY <1>1, <1>2, <1>3

(* Connecting and binding, and the end of the session.                      *)
LEMMA AttemptKeepsInv ==
  ASSUME SessionInv,
         StartAttempt \/ ConnectOk \/ AttemptFails \/ AttemptCancelled \/ BindOk
  PROVE  SessionInv'
<1> USE DEF SessionInv, TypeOK
<1>1. WaiterHasEntry' /\ TableTypeOK' /\ CallTypeOK'
  BY WaitersUndisturbed
     DEF StartAttempt, ConnectOk, AttemptFails, AttemptCancelled, BindOk, Quiet, tableVars, callVars
<1>2. ASSUME Conclude PROVE state' \in States /\ sup' \in SupSteps /\ outgoing' \in Seq(Pdus)
  <2>1. <<>> \in Seq(Pdus)
    OBVIOUS
  <2> QED BY <1>2, <2>1 DEF Conclude, Concluded, SupervisorTypeOK, States, SupSteps
<1>3. CASE StartAttempt
  BY <1>1, <1>2, <1>3 DEF StartAttempt, Quiet, readerVars, peerVars, SupervisorTypeOK,
     ReaderTypeOK, PeerTypeOK, States, SupSteps
<1>4. CASE ConnectOk
  BY <1>1, <1>4 DEF ConnectOk, Quiet, readerVars, SupervisorTypeOK, ReaderTypeOK, PeerTypeOK,
     States, SupSteps
<1>5. CASE AttemptFails
  BY <1>1, <1>5 DEF AttemptFails, Quiet, readerVars, peerVars, SupervisorTypeOK, ReaderTypeOK,
     PeerTypeOK, Stops, SupSteps
<1>6. CASE AttemptCancelled
  BY <1>1, <1>2, <1>6 DEF AttemptCancelled, Quiet, readerVars, peerVars, SupervisorTypeOK,
     ReaderTypeOK, PeerTypeOK, Stops
<1>7. CASE BindOk
  BY <1>1, <1>7 DEF BindOk, Quiet, peerVars, SupervisorTypeOK, ReaderTypeOK, PeerTypeOK,
     States, SupSteps, Serving, Stops
<1> QED BY <1>3, <1>4, <1>5, <1>6, <1>7

(* The select! loop of serve(), and the write of a PDU.                     *)
LEMMA ServeKeepsInv ==
  ASSUME SessionInv,
         \/ ServeCancelled \/ ServeReaderEnded \/ ServeOutgoing
         \/ KeepaliveTick \/ KeepaliveResult \/ Sweep \/ Written \/ WriteFails
  PROVE  SessionInv'
<1> USE DEF SessionInv, TypeOK
<1> USE OwnersApart
<1>1. ASSUME UNCHANGED readerVars, UNCHANGED peerVars PROVE ReaderTypeOK' /\ PeerTypeOK'
  BY <1>1 DEF readerVars, peerVars, ReaderTypeOK, PeerTypeOK
<1>2. CASE ServeCancelled
  <2>1. SupervisorTypeOK'
    BY <1>2 DEF ServeCancelled, Quiet, SupervisorTypeOK, Stops, SupSteps, Goodbye
  <2> QED BY <1>1, <1>2, <2>1, WaitersUndisturbed DEF ServeCancelled, Quiet
<1>3. CASE ServeReaderEnded
  <2>1. SupervisorTypeOK'
    BY <1>3 DEF ServeReaderEnded, Quiet, SupervisorTypeOK, StopServing, Stops, SupSteps
  <2> QED BY <1>1, <1>3, <2>1, WaitersUndisturbed DEF ServeReaderEnded, Quiet
<1>4. CASE ServeOutgoing
  <2>1. Head(outgoing) \in Pdus /\ Tail(outgoing) \in Seq(Pdus)
    BY <1>4 DEF ServeOutgoing, SupervisorTypeOK
  <2>2. SupervisorTypeOK'
    BY <1>4, <2>1 DEF ServeOutgoing, Quiet, SupervisorTypeOK, SupSteps, Serving
  <2> QED BY <1>1, <1>4, <2>2, WaitersUndisturbed DEF ServeOutgoing, Quiet
<1>5. CASE KeepaliveTick
  <2>1. missed' \in Nat
    BY <1>5 DEF KeepaliveTick, MissesAtTick, SupervisorTypeOK
  <2>2. ASSUME StopServing("retry") \/ StopServing("hopeless"),
               seqOf' = [seqOf EXCEPT ![EnquireLink] = 0],
               UNCHANGED <<tableVars, reply, writing>>
        PROVE  SessionInv'
    <3>1. SupervisorTypeOK'
      BY <1>5, <2>1, <2>2 DEF KeepaliveTick, StopServing, SupervisorTypeOK, Stops, SupSteps
    <3>2. 0 \in 0 .. MaxSeq
      BY SessionAssumption
    <3>3. WaiterHasEntry' /\ TableTypeOK' /\ CallTypeOK'
      BY <1>5, <2>2, <3>2, OwnReceiver DEF KeepaliveTick, Own
    <3> QED BY <1>1, <1>5, <3>1, <3>3 DEF KeepaliveTick
  <2>3. ASSUME NEW s \in SeqNums, Register(EnquireLink, s), writing' = Pdu(EnquireLink, s),
               reply' = [reply EXCEPT ![EnquireLink] = NoReply],
               sup' = "writing", UNCHANGED stop
        PROVE  SessionInv'
    <3>1. writing' \in Pdus
      BY <2>3 DEF Pdu, Pdus, RequestPdus
    <3>2. SupervisorTypeOK'
      BY <1>5, <2>1, <2>3, <3>1 DEF KeepaliveTick, SupervisorTypeOK, SupSteps, Serving
    <3>3. WaiterHasEntry' /\ TableTypeOK' /\ CallTypeOK'
      BY <1>5, <2>3, OwnRegister DEF KeepaliveTick, Own
    <3> QED BY <1>1, <1>5, <3>2, <3>3 DEF KeepaliveTick
  <2> QED BY <1>5, <2>2, <2>3 DEF KeepaliveTick
<1>6. CASE KeepaliveResult
  <2>1. missed' \in Nat
    BY <1>6 DEF KeepaliveResult, MissesAtAnswer, SupervisorTypeOK
  <2>2. SupervisorTypeOK'
    BY <1>6, <2>1 DEF KeepaliveResult, StopServing, SupervisorTypeOK, Stops, SupSteps
  <2>3. 0 \in 0 .. MaxSeq
    BY SessionAssumption
  <2>4. WaiterHasEntry' /\ TableTypeOK' /\ CallTypeOK'
    BY <1>6, <2>3, OwnReceiver DEF KeepaliveResult, Own
  <2> QED BY <1>1, <1>6, <2>2, <2>4 DEF KeepaliveResult
<1>7. CASE Sweep
  <2>1. WaiterHasEntry' /\ TableTypeOK' /\ CallTypeOK'
    BY <1>7, TakenAndTold DEF Sweep, Kinds, TableTypeOK
  <2>2. SupervisorTypeOK'
    BY <1>7 DEF Sweep, supVars, SupervisorTypeOK
  <2> QED BY <1>1, <1>7, <2>1, <2>2 DEF Sweep
<1>8. CASE Written
  <2>1. writing \in RequestPdus \/ writing.owner \notin Owners
    BY DEF SupervisorTypeOK, Pdus, NoPdu, Pdu, RequestPdus
  <2>2. PeerTypeOK'
    BY <1>8, <2>1 DEF Written, PeerTypeOK
  <2>3. SupervisorTypeOK'
    BY <1>8 DEF Written, Quiet, SupervisorTypeOK, SupSteps, Serving
  <2>4. ReaderTypeOK'
    BY <1>8 DEF Written, readerVars, ReaderTypeOK
  <2> QED BY <1>8, <2>2, <2>3, <2>4, WaitersUndisturbed DEF Written, Quiet
<1>9. CASE WriteFails
  <2>1. SupervisorTypeOK'
    BY <1>9 DEF WriteFails, Quiet, StopServing, SupervisorTypeOK, Stops, SupSteps
  <2> QED BY <1>1, <1>9, <2>1, WaitersUndisturbed DEF WriteFails, Quiet
<1> QED BY <1>2, <1>3, <1>4, <1>5, <1>6, <1>7, <1>8, <1>9

(* The goodbye, the join, and what follows a lost connection.               *)
LEMMA LeaveKeepsInv ==
  ASSUME SessionInv,
         \/ SayGoodbye \/ GoodbyeOver \/ CancelConnection \/ Joined \/ JoinTimeout
         \/ FailAll \/ Discard \/ GiveUp \/ BackOff \/ BackOffEnds
  PROVE  SessionInv'
<1> USE DEF SessionInv, TypeOK
<1> USE OwnersApart
<1>1. 0 \in 0 .. MaxSeq /\ <<>> \in Seq(Pdus)
  BY SessionAssumption
<1>2. ASSUME Conclude PROVE state' \in States /\ sup' \in SupSteps /\ outgoing' \in Seq(Pdus)
  BY <1>1, <1>2 DEF Conclude, Concluded, SupervisorTypeOK, States, SupSteps
<1>3. CASE SayGoodbye
  <2>1. SupervisorTypeOK' /\ ReaderTypeOK'
    BY <1>3 DEF SayGoodbye, readerVars, SupervisorTypeOK, ReaderTypeOK, SupSteps, Goodbye
  <2>2. ASSUME NEW s \in SeqNums, Register(Unbind, s),
               atPeer' = atPeer \cup {Pdu(Unbind, s)} \/ UNCHANGED atPeer,
               reply' = [reply EXCEPT ![Unbind] = NoReply]
        PROVE  WaiterHasEntry' /\ TableTypeOK' /\ CallTypeOK' /\ PeerTypeOK'
    <3>1. PeerTypeOK'
      BY <1>3, <2>2 DEF SayGoodbye, PeerTypeOK, Pdu, RequestPdus
    <3> QED BY <1>3, <2>2, <3>1, OwnRegister DEF SayGoodbye, Own
  <2>3. ASSUME UNCHANGED <<tableVars, seqOf, reply, atPeer>>
        PROVE  WaiterHasEntry' /\ TableTypeOK' /\ CallTypeOK' /\ PeerTypeOK'
    BY <1>3, <2>3, WaitersUndisturbed DEF SayGoodbye, callVars, PeerTypeOK
  <2> QED BY <1>3, <2>1, <2>2, <2>3 DEF SayGoodbye
<1>4. CASE GoodbyeOver
  <2>1. SupervisorTypeOK' /\ ReaderTypeOK' /\ PeerTypeOK'
    BY <1>4 DEF GoodbyeOver, readerVars, peerVars, SupervisorTypeOK, ReaderTypeOK, PeerTypeOK, SupSteps
  <2>2. WaiterHasEntry' /\ TableTypeOK' /\ CallTypeOK'
    BY <1>1, <1>4, OwnReceiver DEF GoodbyeOver, Own
  <2> QED BY <2>1, <2>2
<1>5. CASE CancelConnection
  BY <1>5, WaitersUndisturbed DEF CancelConnection, Quiet, peerVars, SupervisorTypeOK, ReaderTypeOK,
     PeerTypeOK, SupSteps
<1>6. CASE Joined \/ JoinTimeout
  <2>1. ServeReturns
    BY <1>6 DEF Joined, JoinTimeout
  <2>2. SupervisorTypeOK' /\ PeerTypeOK'
    BY <1>2, <2>1 DEF ServeReturns, SupervisorTypeOK, PeerTypeOK, SupSteps
  <2>3. WaiterHasEntry' /\ TableTypeOK' /\ CallTypeOK'
    BY <1>1, <2>1, OwnReceiver DEF ServeReturns, Own
  <2>4. ReaderTypeOK'
    <3>1. CASE Joined
      BY <2>1, <3>1 DEF Joined, ServeReturns, ReaderTypeOK
    <3>2. CASE JoinTimeout
      <4>1. Stray(reader, held, atPeer) \in StrayReaders
        BY <3>2 DEF JoinTimeout, Stray, StrayReaders, ReaderTypeOK, PeerTypeOK
      <4>2. strays' \in SUBSET StrayReaders
        BY <3>2, <4>1 DEF JoinTimeout, ReaderTypeOK
      <4> QED BY <2>1, <3>2, <4>2 DEF JoinTimeout, ServeReturns, ReaderTypeOK
    <3> QED BY <1>6, <3>1, <3>2
  <2> QED BY <2>2, <2>3, <2>4
<1>7. CASE FailAll
  <2>1. SupervisorTypeOK' /\ ReaderTypeOK' /\ PeerTypeOK'
    BY <1>7 DEF FailAll, readerVars, peerVars, SupervisorTypeOK, ReaderTypeOK, PeerTypeOK, SupSteps
  <2>2. WaiterHasEntry' /\ TableTypeOK' /\ CallTypeOK'
    BY <1>7, TakenAndTold DEF FailAll, Kinds
  <2> QED BY <2>1, <2>2
<1>8. CASE Discard
  <2>1. Tail(outgoing) \in Seq(Pdus)
    BY <1>8 DEF Discard, SupervisorTypeOK
  <2> QED BY <1>8, <2>1, WaitersUndisturbed DEF Discard, Quiet, supVars, readerVars, peerVars,
          SupervisorTypeOK, ReaderTypeOK, PeerTypeOK
<1>9. CASE GiveUp
  BY <1>9, WaitersUndisturbed DEF GiveUp, Quiet, readerVars, peerVars, SupervisorTypeOK, ReaderTypeOK,
     PeerTypeOK, SupSteps, States
<1>10. CASE BackOff
  BY <1>10, WaitersUndisturbed DEF BackOff, Quiet, readerVars, peerVars, SupervisorTypeOK, ReaderTypeOK,
     PeerTypeOK, SupSteps, States
<1>11. CASE BackOffEnds
  BY <1>2, <1>11, WaitersUndisturbed DEF BackOffEnds, Quiet, readerVars, peerVars, SupervisorTypeOK,
     ReaderTypeOK, PeerTypeOK, SupSteps, States
<1> QED BY <1>3, <1>4, <1>5, <1>6, <1>7, <1>8, <1>9, <1>10, <1>11

-----------------------------------------------------------------------------
(* One step of the reader                                                   *)

(* A response takes the entry of its number, and whoever listens there is   *)
(* told, whether or not the response is the one it waits for.               *)
LEMMA ResolveKeepsWaiters ==
  ASSUME SessionInv, NEW p \in RequestPdus, NEW nacked \in BOOLEAN, Resolve(p, nacked),
         UNCHANGED <<seqOf, phase>>
  PROVE  WaiterHasEntry' /\ TableTypeOK' /\ CallTypeOK'
<1> USE DEF SessionInv, TypeOK
<1> DEFINE o == waiting[p.seq]
           k == IF ~nacked /\ SameOperation(o, p.owner) THEN "ok" ELSE "mismatch"
<1>1. p.seq \in SeqNums /\ p.owner \in Owners /\ o \in Owners \cup {NoOwner}
  BY DEF RequestPdus, TableTypeOK
<1>2. Reply(k, p.owner) \in [kind : Kinds, of : Owners \cup {NoOwner}]
      /\ Reply(k, p.owner) # NoReply
  BY <1>1 DEF Reply, NoReply, Kinds
<1>3. TableTypeOK'
  BY WithoutType DEF Resolve, TableTypeOK
<1>4. reply' = IF Listening(p.seq) THEN [reply EXCEPT ![o] = Reply(k, p.owner)] ELSE reply
  BY DEF Resolve
<1>5. CallTypeOK'
  BY <1>2, <1>4 DEF CallTypeOK
<1>6. WaiterHasEntry'
  <2> SUFFICES ASSUME NEW r \in Requests, phase[r] \in {"registered", "awaiting"},
                      reply'[r] = NoReply
               PROVE  waiting'[seqOf[r]] = r
    BY DEF WaiterHasEntry
  <2>1. r \in Owners /\ r # NoOwner /\ seqOf[r] \in SeqNums
    BY OwnersApart DEF WaiterHasEntry
  <2>2. reply[r] = NoReply /\ ~(Listening(p.seq) /\ o = r)
    BY <1>2, <1>4, <2>1 DEF CallTypeOK
  <2>3. waiting[seqOf[r]] = r
    BY <2>2 DEF WaiterHasEntry
  <2>4. seqOf[r] # p.seq
    BY <2>1, <2>2, <2>3 DEF Listening
  <2> QED BY <2>1, <2>3, <2>4 DEF Resolve, Without
<1> QED BY <1>3, <1>5, <1>6

LEMMA ReaderKeepsInv ==
  ASSUME SessionInv, Reader
  PROVE  SessionInv'
<1> USE DEF SessionInv, TypeOK
<1>1. ASSUME ReaderFrame, outgoing' \in Seq(Pdus) PROVE SupervisorTypeOK'
  BY <1>1 DEF ReaderFrame, supVars, SupervisorTypeOK
<1>2. ASSUME ReaderFrame, UNCHANGED tableVars, UNCHANGED reply
      PROVE  WaiterHasEntry' /\ TableTypeOK' /\ CallTypeOK'
  BY <1>2, WaitersUndisturbed DEF ReaderFrame, callVars
<1>3. ASSUME UNCHANGED outgoing PROVE outgoing' \in Seq(Pdus)
  BY <1>3 DEF SupervisorTypeOK
<1>4. ASSUME NEW p \in atPeer, NEW nacked \in BOOLEAN, ReadResponse(p, nacked)
      PROVE  SessionInv'
  <2>1. p \in RequestPdus
    BY DEF PeerTypeOK
  <2>2. WaiterHasEntry' /\ TableTypeOK' /\ CallTypeOK'
    BY <1>4, <2>1, ResolveKeepsWaiters DEF ReadResponse, ReaderFrame
  <2>3. ReaderTypeOK' /\ PeerTypeOK'
    BY <1>4 DEF ReadResponse, ReaderFrame, readerVars, ReaderTypeOK, PeerTypeOK
  <2> QED BY <1>1, <1>3, <1>4, <2>2, <2>3 DEF ReadResponse
<1>5. ASSUME NEW answer \in PeerAnswers, ReadRequest(answer)
      PROVE  SessionInv'
  <2>1. ReaderTypeOK' /\ PeerTypeOK'
    BY <1>5, SessionAssumption DEF ReadRequest, ReaderFrame, ReaderTypeOK, PeerTypeOK
  <2> QED BY <1>1, <1>2, <1>3, <1>5, <2>1 DEF ReadRequest
<1>6. CASE ReadEof
  <2>1. ReaderTypeOK' /\ PeerTypeOK'
    BY <1>6 DEF ReadEof, ReaderFrame, ReaderTypeOK, PeerTypeOK
  <2> QED BY <1>1, <1>2, <1>3, <1>6, <2>1 DEF ReadEof
<1>7. ASSUME Deliver(held) PROVE deliveries' \in Nat
  BY <1>7 DEF Deliver, ReaderTypeOK
<1>8. CASE QueueAnswer
  <2>1. ReaderTypeOK' /\ PeerTypeOK'
    BY <1>7, <1>8 DEF QueueAnswer, ReaderFrame, ReaderTypeOK, PeerTypeOK
  <2>2. Pdu(held, 0) \in Pdus
    BY DEF ReaderTypeOK, Pdu, Pdus
  <2>3. outgoing' \in Seq(Pdus)
    BY <1>8, <2>2 DEF QueueAnswer, SupervisorTypeOK
  <2> QED BY <1>1, <1>2, <1>8, <2>1, <2>3 DEF QueueAnswer
<1>9. CASE ReaderCancelled
  <2>1. ReaderTypeOK' /\ PeerTypeOK'
    BY <1>7, <1>9 DEF ReaderCancelled, ReaderFrame, ReaderTypeOK, PeerTypeOK
  <2> QED BY <1>1, <1>2, <1>3, <1>9, <2>1 DEF ReaderCancelled
<1> QED BY <1>4, <1>5, <1>6, <1>8, <1>9 DEF Reader

(* One step of a reader that was aborted and is not gone yet.               *)
LEMMA StrayKeepsInv ==
  ASSUME SessionInv, AbortedReader
  PROVE  SessionInv'
<1> USE DEF SessionInv, TypeOK
<1>1. PICK s \in strays :
        \/ \E p \in s.peer, nacked \in BOOLEAN : StrayReadsResponse(s, p, nacked)
        \/ \E answer \in PeerAnswers : StrayReadsRequest(s, answer)
        \/ StrayQueues(s) \/ StrayGone(s)
  BY DEF AbortedReader
<1>2. s \in StrayReaders /\ s.peer \subseteq RequestPdus /\ s.held \in Answers
  BY DEF ReaderTypeOK, StrayReaders
<1>3. ASSUME StrayFrame, outgoing' \in Seq(Pdus) PROVE SupervisorTypeOK'
  BY <1>3 DEF StrayFrame, ReaderFrame, supVars, SupervisorTypeOK
<1>4. ASSUME StrayFrame, UNCHANGED tableVars, UNCHANGED reply
      PROVE  WaiterHasEntry' /\ TableTypeOK' /\ CallTypeOK'
  BY <1>4, WaitersUndisturbed DEF StrayFrame, ReaderFrame, callVars
<1>5. ASSUME StrayFrame, deliveries' \in Nat, strays' \in SUBSET StrayReaders
      PROVE  ReaderTypeOK'
  BY <1>5 DEF StrayFrame, ReaderTypeOK
<1>6. ASSUME StrayFrame, peerPdus' \in Nat PROVE PeerTypeOK'
  BY <1>6 DEF StrayFrame, ReaderFrame, PeerTypeOK
<1>7. outgoing \in Seq(Pdus) /\ deliveries \in Nat /\ strays \in SUBSET StrayReaders
      /\ peerPdus \in Nat
  BY DEF SupervisorTypeOK, ReaderTypeOK, PeerTypeOK
<1>8. ASSUME Deliver(s.held) PROVE deliveries' \in Nat
  BY <1>7, <1>8 DEF Deliver
<1>9. ASSUME NEW p \in s.peer, NEW nacked \in BOOLEAN, StrayReadsResponse(s, p, nacked)
      PROVE  SessionInv'
  <2>1. [s EXCEPT !.peer = @ \ {p}] \in StrayReaders
    BY <1>2 DEF StrayReaders
  <2>2. strays' \in SUBSET StrayReaders
    BY <1>7, <1>9, <2>1 DEF StrayReadsResponse
  <2>3. WaiterHasEntry' /\ TableTypeOK' /\ CallTypeOK'
    BY <1>2, <1>9, ResolveKeepsWaiters DEF StrayReadsResponse, StrayFrame, ReaderFrame
  <2> QED BY <1>3, <1>5, <1>6, <1>7, <1>9, <2>2, <2>3 DEF StrayReadsResponse
<1>10. ASSUME NEW answer \in PeerAnswers, StrayReadsRequest(s, answer)
       PROVE  SessionInv'
  <2>1. [s EXCEPT !.at = "queuing", !.held = answer] \in StrayReaders
    BY <1>2, SessionAssumption DEF StrayReaders
  <2>2. strays' \in SUBSET StrayReaders /\ peerPdus' \in Nat
    BY <1>7, <1>10, <2>1 DEF StrayReadsRequest
  <2> QED BY <1>3, <1>4, <1>5, <1>6, <1>7, <1>10, <2>2 DEF StrayReadsRequest
<1>11. CASE StrayQueues(s)
  <2>1. [s EXCEPT !.at = "reading"] \in StrayReaders
    BY <1>2 DEF StrayReaders
  <2>2. strays' \in SUBSET StrayReaders
    BY <1>7, <1>11, <2>1 DEF StrayQueues
  <2>3. Pdu(s.held, 0) \in Pdus
    BY <1>2 DEF Pdu, Pdus
  <2>4. outgoing' \in Seq(Pdus)
    BY <1>7, <1>11, <2>3 DEF StrayQueues
  <2> QED BY <1>3, <1>4, <1>5, <1>6, <1>7, <1>8, <1>11, <2>2, <2>4 DEF StrayQueues
<1>12. CASE StrayGone(s)
  <2>1. strays' \in SUBSET StrayReaders /\ deliveries' \in Nat
    BY <1>7, <1>8, <1>12 DEF StrayGone
  <2> QED BY <1>3, <1>4, <1>5, <1>6, <1>7, <1>12, <2>1 DEF StrayGone
<1> QED BY <1>1, <1>9, <1>10, <1>11, <1>12

-----------------------------------------------------------------------------
(* The theorems                                                             *)

LEMMA NextKeepsInv ==
  ASSUME SessionInv, [Next]_vars
  PROVE  SessionInv'
<1>1. ASSUME NEW r \in Requests, Call(r) PROVE SessionInv'
  BY <1>1, CallKeepsInv
<1>2. ASSUME NEW s \in SeqNums, DeadlinePasses(s) PROVE SessionInv'
  BY <1>2 DEF DeadlinePasses, SessionInv, TypeOK, WaiterHasEntry, callVars, supVars, readerVars,
     peerVars, TableTypeOK, CallTypeOK, SupervisorTypeOK, ReaderTypeOK, PeerTypeOK
<1>3. CASE Shutdown
  BY <1>3, WaitersUndisturbed DEF Shutdown, SessionInv, TypeOK, supVars, readerVars, peerVars,
     SupervisorTypeOK, ReaderTypeOK, PeerTypeOK
<1>4. CASE Supervisor
  BY <1>4, AttemptKeepsInv, ServeKeepsInv, LeaveKeepsInv DEF Supervisor
<1>5. CASE Reader
  BY <1>5, ReaderKeepsInv
<1>6. CASE TakeDelivery
  BY <1>6, WaitersUndisturbed DEF TakeDelivery, ReaderFrame, SessionInv, TypeOK, callVars, supVars,
     SupervisorTypeOK, ReaderTypeOK, PeerTypeOK
<1>7. CASE UNCHANGED vars
  BY <1>7, WaitersUndisturbed DEF vars, SessionInv, TypeOK, callVars, supVars, readerVars, peerVars,
     SupervisorTypeOK, ReaderTypeOK, PeerTypeOK
<1>8. CASE AbortedReader
  BY <1>8, StrayKeepsInv
<1> QED BY <1>1, <1>2, <1>3, <1>4, <1>5, <1>6, <1>7, <1>8 DEF Next

(* No caller of request() is ever left with a receiver that nothing can     *)
(* send into: its entry is in the correlation table until it is told.  And  *)
(* the session stays in its types: in particular every PDU that is queued   *)
(* or written for a request carries a sequence_number.                      *)
THEOREM SessionInvariant == Spec => []SessionInv
<1>1. Init => SessionInv
  BY InitInv
<1>2. SessionInv /\ [Next]_vars => SessionInv'
  BY NextKeepsInv
<1> QED BY <1>1, <1>2, PTL DEF Spec
=============================================================================
