------------------------------ MODULE Session ------------------------------
(***************************************************************************)
(* One SMPP session of crates/smpp-session: the calls made through         *)
(* SessionHandle::request, the send window, the correlation table, the     *)
(* outgoing queue, the supervisor task (connect, bind, serve, reconnect,   *)
(* shut down) and the reader task it spawns for every connection.          *)
(*                                                                         *)
(* A step is what runs between two awaits: each `.await` of the code that  *)
(* can suspend is a place where the other tasks may run.  Time is not      *)
(* counted: a deadline passes when DeadlinePasses says so, and a timer arm *)
(* may be taken whenever the code could find it ready.                     *)
(*                                                                         *)
(* The message centre is the environment: it may answer any request it     *)
(* holds, in any order, late or never, refuse it with a generic_nack, send *)
(* requests of its own, stop reading, or close the socket.                 *)
(***************************************************************************)
EXTENDS Integers, Sequences, FiniteSets

CONSTANTS
  Requests,          \* the calls to SessionHandle::request, each made once
  Regulated,         \* those carrying a message: they need a window slot
  Droppable,         \* those whose caller may drop the future
  Permitted,         \* those whose operation the bind mode allows
  WindowSize,        \* slots of the send window
  Headroom,          \* slots the outgoing queue has beyond the window
  MaxSeq,            \* largest sequence_number (0x7FFFFFFF in the code)
  MaxMissed,         \* MAX_MISSED_ENQUIRE_LINKS
  KeepaliveOn,       \* enquire_link_s # 0
  ReconnectEnabled,  \* the profile's reconnect.enabled
  DeliveryCapacity,  \* DELIVERY_QUEUE_CAPACITY
  MaxConnections,    \* bound: connections the message centre accepts
  MaxPeerPdus,       \* bound: requests the message centre sends of its own
  PeerAnswers,       \* bound: the answers those requests call for
  NoOwner            \* a free sequence_number

EnquireLink == "enquire_link"
Unbind      == "unbind"
Own         == {EnquireLink, Unbind}   \* requests of the supervisor itself
Owners      == Requests \cup Own
SeqNums     == 1 .. MaxSeq
Answers     == {"enquire_link_resp", "unbind_resp", "deliver_sm_resp", "generic_nack"}

ASSUME SessionAssumption ==
  /\ IsFiniteSet(Requests)
  /\ Regulated \subseteq Requests /\ Droppable \subseteq Requests
  /\ Permitted \subseteq Requests
  /\ Requests \cap (Own \cup Answers) = {} /\ NoOwner \notin Owners \cup Answers
  /\ WindowSize \in Nat \ {0} /\ Headroom \in Nat
  /\ MaxSeq \in Nat \ {0} /\ MaxMissed \in Nat \ {0}
  /\ KeepaliveOn \in BOOLEAN /\ ReconnectEnabled \in BOOLEAN
  /\ DeliveryCapacity \in Nat \ {0}
  /\ MaxConnections \in Nat /\ MaxPeerPdus \in Nat /\ PeerAnswers \subseteq Answers

VARIABLES
  state,       \* the published SessionState
  token,       \* the session's CancellationToken is cancelled
  outgoing,    \* the queue of PDUs to write
  waiting,     \* correlation table: sequence_number -> owner, or NoOwner
  due,         \* entries of the table whose deadline has passed
  cursor,      \* where the next allocation starts scanning
  seqOf,       \* sequence_number an owner holds a receiver for, 0 for none
  reply,       \* what was sent into that receiver
  phase,       \* where each call to request() stands
  sup,         \* where the supervisor stands
  stop,        \* why the connection attempt ended
  writing,     \* the PDU the supervisor is writing
  missed,      \* missed_keepalives
  reader,      \* where the reader task stands
  held,        \* the answer the reader is queuing
  readerEnd,   \* ReaderOutcome
  connToken,   \* the connection's own token is cancelled
  deliveries,  \* deliver_sm PDUs queued for the application
  strays,      \* readers of earlier connections, aborted and not yet gone
  atPeer,      \* requests written on this connection and not answered
  connections, \* sockets opened so far
  peerPdus     \* requests the message centre has sent so far

tableVars  == <<waiting, due, cursor>>
callVars   == <<seqOf, reply, phase>>
supVars    == <<sup, stop, writing, missed>>
readerVars == <<reader, held, readerEnd, connToken, deliveries, strays>>
peerVars   == <<atPeer, connections, peerPdus>>
vars == <<state, token, outgoing, tableVars, callVars, supVars, readerVars, peerVars>>

-----------------------------------------------------------------------------
(* Values *)

Pdu(o, s)  == [owner |-> o, seq |-> s]
NoPdu      == Pdu(NoOwner, 0)
Capacity   == WindowSize + Headroom
Reply(k, o) == [kind |-> k, of |-> o]
NoReply    == Reply("none", NoOwner)

States  == {"CLOSED", "CONNECTING", "BINDING", "BOUND", "UNBOUND", "RECONNECT", "ERROR"}
Phases  == {"idle", "gate", "admitted", "registered", "awaiting", "done", "dropped"}
Kinds   == {"none", "ok", "mismatch", "timeout", "cancelled",
            "not_bound", "not_allowed", "closed", "exhausted"}
Serving == {"serving", "writing"}
Goodbye == {"unbinding", "unbound"}
SupSteps == Serving \cup Goodbye \cup
            {"top", "connecting", "binding", "closing", "joining",
             "failing", "draining", "backoff", "done"}
Stops   == {"none", "unbind", "cancelled", "peer_unbound", "retry", "hopeless"}

(* The permit lives as long as the request future (WindowPermit's Drop).    *)
SlotHolders == {r \in Regulated : phase[r] \in {"admitted", "registered", "awaiting"}}

-----------------------------------------------------------------------------
(* The correlation table (pending.rs) *)

FreeSeqs == {s \in SeqNums : waiting[s] = NoOwner}
InFlight == SeqNums \ FreeSeqs

(* Numbers between the cursor and s, going round after MaxSeq.              *)
Distance(s) == (s - cursor) % MaxSeq
Successor(s) == IF s = MaxSeq THEN 1 ELSE s + 1

MutantAllocateLowest(s) == s \in FreeSeqs /\ \A t \in FreeSeqs : s <= t

(* The scan of allocate(): the first free number from the cursor on.        *)
Allocates(s) == /\ s \in FreeSeqs
                /\ \A t \in FreeSeqs : Distance(s) <= Distance(t)

Register(o, s) ==
  /\ Allocates(s)
  /\ waiting' = [waiting EXCEPT ![s] = o]
  /\ due' = due \ {s}
  /\ cursor' = Successor(s)
  /\ seqOf' = [seqOf EXCEPT ![o] = s]

(* An entry reaches its caller unless the receiver is gone.                 *)
Listening(s) == waiting[s] # NoOwner /\ seqOf[waiting[s]] = s

MutantToldNobody(S, k) == reply

(* Sends the same outcome into every receiver whose entry is in S.          *)
Told(S, k) ==
  [o \in Owners |-> IF seqOf[o] \in S /\ waiting[seqOf[o]] = o
                    THEN Reply(k, NoOwner) ELSE reply[o]]

Without(S) == [s \in SeqNums |-> IF s \in S THEN NoOwner ELSE waiting[s]]

(* resolve(): the entry goes, and its caller learns whether the response is *)
(* the one its operation calls for.  A response to p, arriving after p's    *)
(* entry has gone, finds nothing or finds whoever holds the number now.     *)
SameOperation(o, q) == o = q \/ (o \notin Own /\ q \notin Own)

Resolve(p, nacked) ==
  LET o == waiting[p.seq]
      k == IF ~nacked /\ SameOperation(o, p.owner) THEN "ok" ELSE "mismatch"
  IN  /\ waiting' = Without({p.seq})
      /\ due' = due \ {p.seq}
      /\ reply' = IF Listening(p.seq)
                  THEN [reply EXCEPT ![o] = Reply(k, p.owner)] ELSE reply
      /\ UNCHANGED cursor

MutantExpiredUnheardOnly == {s \in InFlight : ~Listening(s)}

(* expire(): past its deadline, or with nobody listening any more.          *)
Expired == {s \in InFlight : s \in due \/ ~Listening(s)}

DeadlinePasses(s) ==
  /\ waiting[s] # NoOwner /\ s \notin due
  /\ due' = due \cup {s}
  /\ UNCHANGED <<state, token, outgoing, waiting, cursor, callVars, supVars,
                 readerVars, peerVars>>

-----------------------------------------------------------------------------
(* SessionHandle::request, one action per await                             *)

Outside(r) == UNCHANGED <<state, token, supVars, readerVars, peerVars>>

(* The snapshot is read once, before anything is awaited.                   *)
Refuse(r) ==
  /\ phase[r] = "idle"
  /\ state # "BOUND" \/ r \notin Permitted
  /\ phase' = [phase EXCEPT ![r] = "done"]
  /\ reply' = [reply EXCEPT ![r] =
                 Reply(IF state # "BOUND" THEN "not_bound" ELSE "not_allowed", NoOwner)]
  /\ UNCHANGED <<outgoing, tableVars, seqOf>> /\ Outside(r)

Accept(r) ==
  /\ phase[r] = "idle" /\ state = "BOUND" /\ r \in Permitted
  /\ phase' = [phase EXCEPT ![r] = "gate"]
  /\ UNCHANGED <<outgoing, tableVars, seqOf, reply>> /\ Outside(r)

(* SendGate::admit: the pacing wait ends and a slot is free.  Nothing       *)
(* closes the window while a caller is parked here: close() runs when the   *)
(* last handle is dropped, and every caller borrows one.                    *)
Admit(r) ==
  /\ phase[r] = "gate"
  /\ r \in Regulated => Cardinality(SlotHolders) < WindowSize
  /\ phase' = [phase EXCEPT ![r] = "admitted"]
  /\ UNCHANGED <<outgoing, tableVars, seqOf, reply>> /\ Outside(r)

RegisterCall(r) ==
  /\ phase[r] = "admitted"
  /\ \E s \in SeqNums : Register(r, s)
  /\ phase' = [phase EXCEPT ![r] = "registered"]
  /\ UNCHANGED <<outgoing, reply>> /\ Outside(r)

NoNumberLeft(r) ==
  /\ phase[r] = "admitted" /\ FreeSeqs = {}
  /\ phase' = [phase EXCEPT ![r] = "done"]
  /\ reply' = [reply EXCEPT ![r] = Reply("exhausted", NoOwner)]
  /\ UNCHANGED <<outgoing, tableVars, seqOf>> /\ Outside(r)

(* outgoing.send: parks while the queue is full; the channel closes with    *)
(* the supervisor, which owns its receiver.                                 *)
Enqueue(r) ==
  /\ phase[r] = "registered" /\ sup # "done"
  /\ Len(outgoing) < Capacity
  /\ outgoing' = Append(outgoing, Pdu(r, seqOf[r]))
  /\ phase' = [phase EXCEPT ![r] = "awaiting"]
  /\ UNCHANGED <<tableVars, seqOf, reply>> /\ Outside(r)

QueueClosed(r) ==
  /\ phase[r] = "registered" /\ sup = "done"
  /\ phase' = [phase EXCEPT ![r] = "done"]
  /\ reply' = [reply EXCEPT ![r] = Reply("closed", NoOwner)]
  /\ seqOf' = [seqOf EXCEPT ![r] = 0]
  /\ UNCHANGED <<outgoing, tableVars>> /\ Outside(r)

Return(r) ==
  /\ phase[r] = "awaiting" /\ reply[r] # NoReply
  /\ phase' = [phase EXCEPT ![r] = "done"]
  /\ seqOf' = [seqOf EXCEPT ![r] = 0]
  /\ UNCHANGED <<outgoing, tableVars, reply>> /\ Outside(r)

(* The caller drops the future: the permit comes back and the receiver is   *)
(* closed, while the entry and the queued PDU stay where they are.          *)
Drop(r) ==
  /\ r \in Droppable
  /\ phase[r] \in {"gate", "admitted", "registered", "awaiting"}
  /\ phase' = [phase EXCEPT ![r] = "dropped"]
  /\ seqOf' = [seqOf EXCEPT ![r] = 0]
  /\ UNCHANGED <<outgoing, tableVars, reply>> /\ Outside(r)

Shutdown ==
  /\ ~token /\ token' = TRUE
  /\ UNCHANGED <<state, outgoing, tableVars, callVars, supVars, readerVars, peerVars>>

-----------------------------------------------------------------------------
(* The supervisor: connect and bind                                         *)

Quiet == UNCHANGED <<token, tableVars, callVars>>

Concluded == IF state = "CLOSED" THEN state ELSE "UNBOUND"

(* conclude(), and the receiver of the outgoing queue dropped with run().   *)
Conclude ==
  /\ state' = Concluded
  /\ sup' = "done" /\ outgoing' = <<>>

StartAttempt ==
  /\ sup = "top"
  /\ \/ token /\ Conclude
     \/ ~token /\ state' = "CONNECTING" /\ sup' = "connecting" /\ UNCHANGED outgoing
  /\ Quiet /\ UNCHANGED <<stop, writing, missed, readerVars, peerVars>>

ConnectOk ==
  /\ sup = "connecting" /\ connections < MaxConnections
  /\ state' = "BINDING" /\ sup' = "binding"
  /\ connections' = connections + 1
  /\ Quiet /\ UNCHANGED <<outgoing, stop, writing, missed, readerVars, atPeer, peerPdus>>

(* A refused connection and a failed bind exchange are judged by            *)
(* is_retryable: a fatal bind_resp, or a PDU that is not the bind response, *)
(* is not.                                                                  *)
AttemptFails ==
  /\ sup \in {"connecting", "binding"}
  /\ stop' \in IF sup = "binding" THEN {"retry", "hopeless"} ELSE {"retry"}
  /\ sup' = "failing"
  /\ Quiet /\ UNCHANGED <<state, outgoing, writing, missed, readerVars, peerVars>>

(* Both awaits of attempt_connection watch the token.                       *)
MutantWatchesToken == sup = "connecting"
WatchesToken == sup \in {"connecting", "binding"}

AttemptCancelled ==
  /\ WatchesToken /\ token
  /\ Conclude
  /\ stop' = "cancelled"
  /\ Quiet /\ UNCHANGED <<writing, missed, readerVars, peerVars>>

BindOk ==
  /\ sup = "binding"
  /\ state' = "BOUND" /\ sup' = "serving" /\ missed' = 0 /\ stop' = "none"
  /\ reader' = "reading" /\ readerEnd' = "none" /\ connToken' = FALSE
  /\ Quiet /\ UNCHANGED <<outgoing, writing, held, deliveries, strays, peerVars>>

-----------------------------------------------------------------------------
(* The supervisor: the select! loop of serve()                              *)

StopServing(why) == stop' = why /\ sup' = "closing"

ServeCancelled ==
  /\ sup = "serving" /\ token
  /\ stop' = "unbind" /\ sup' = "unbinding"
  /\ Quiet /\ UNCHANGED <<state, outgoing, writing, missed, readerVars, peerVars>>

ServeReaderEnded ==
  /\ sup = "serving" /\ reader = "stopped"
  /\ StopServing(IF readerEnd = "peer_unbound" THEN "peer_unbound" ELSE "retry")
  /\ Quiet /\ UNCHANGED <<state, outgoing, writing, missed, readerVars, peerVars>>

ServeOutgoing ==
  /\ sup = "serving" /\ outgoing # <<>>
  /\ sup' = "writing" /\ writing' = Head(outgoing) /\ outgoing' = Tail(outgoing)
  /\ Quiet /\ UNCHANGED <<state, stop, missed, readerVars, peerVars>>

(* A waiter still held when the period comes round is a miss.  The profile  *)
(* makes the response timeout shorter than the period, so its deadline has  *)
(* passed by then.                                                          *)
Overdue == seqOf[EnquireLink] # 0 /\ (seqOf[EnquireLink] \in due \/ reply[EnquireLink] # NoReply)
TickDue == KeepaliveOn /\ (seqOf[EnquireLink] = 0 \/ Overdue)

MutantMissesAtTick == missed
MissesAtTick == IF seqOf[EnquireLink] # 0 THEN missed + 1 ELSE missed

KeepaliveTick ==
  /\ sup = "serving" /\ TickDue
  /\ missed' = MissesAtTick
  /\ \/ /\ missed' > missed /\ missed' >= MaxMissed
        /\ StopServing("retry")
        /\ seqOf' = [seqOf EXCEPT ![EnquireLink] = 0]
        /\ UNCHANGED <<tableVars, reply, writing>>
     \/ /\ missed' = missed \/ missed' < MaxMissed
        /\ \E s \in SeqNums : Register(EnquireLink, s) /\ writing' = Pdu(EnquireLink, s)
        /\ reply' = [reply EXCEPT ![EnquireLink] = NoReply]
        /\ sup' = "writing" /\ UNCHANGED stop
     \/ /\ missed' = missed \/ missed' < MaxMissed
        /\ FreeSeqs = {}
        /\ StopServing("hopeless")
        /\ seqOf' = [seqOf EXCEPT ![EnquireLink] = 0]
        /\ UNCHANGED <<tableVars, reply, writing>>
  /\ UNCHANGED <<state, token, outgoing, phase, readerVars, peerVars>>

MutantMissesAtAnswer == 0
MissesAtAnswer == IF reply[EnquireLink].kind = "ok" THEN 0 ELSE missed + 1

KeepaliveResult ==
  /\ sup = "serving" /\ seqOf[EnquireLink] # 0 /\ reply[EnquireLink] # NoReply
  /\ seqOf' = [seqOf EXCEPT ![EnquireLink] = 0]
  /\ missed' = MissesAtAnswer
  /\ IF missed' >= MaxMissed THEN StopServing("retry") ELSE UNCHANGED <<stop, sup>>
  /\ UNCHANGED <<state, token, outgoing, tableVars, reply, phase, writing, readerVars, peerVars>>

Sweep ==
  /\ sup = "serving" /\ Expired # {}
  /\ waiting' = Without(Expired) /\ due' = due \ Expired
  /\ reply' = Told(Expired, "timeout")
  /\ UNCHANGED <<state, token, outgoing, cursor, seqOf, phase, supVars, readerVars, peerVars>>

(* write(): the PDU leaves, the socket refuses it or takes too long, or the *)
(* session is cancelled half-way, which leaves nothing whole on the wire.   *)
Written ==
  /\ sup = "writing" /\ sup' = "serving" /\ writing' = NoPdu
  /\ atPeer' = IF writing.owner \in Owners THEN atPeer \cup {writing} ELSE atPeer
  /\ Quiet /\ UNCHANGED <<state, outgoing, stop, missed, readerVars, connections, peerPdus>>

WriteFails ==
  /\ sup = "writing" /\ writing' = NoPdu
  /\ \/ StopServing("retry")
     \/ token /\ StopServing("cancelled")
  /\ Quiet /\ UNCHANGED <<state, outgoing, missed, readerVars, peerVars>>

-----------------------------------------------------------------------------
(* The supervisor: goodbye, join, and what follows                          *)

(* unbind(): sent and then waited for, both under a deadline; the reader    *)
(* is still running and may resolve the response.                           *)
SayGoodbye ==
  /\ sup = "unbinding"
  /\ \/ /\ \E s \in SeqNums : /\ Register(Unbind, s)
                              /\ \/ sup' = "unbound" /\ atPeer' = atPeer \cup {Pdu(Unbind, s)}
                                 \/ sup' = "closing" /\ UNCHANGED atPeer
        /\ reply' = [reply EXCEPT ![Unbind] = NoReply]
     \/ /\ FreeSeqs = {} /\ sup' = "closing"
        /\ UNCHANGED <<tableVars, seqOf, reply, atPeer>>
  /\ UNCHANGED <<state, token, outgoing, phase, stop, writing, missed, readerVars,
                 connections, peerPdus>>

GoodbyeOver ==
  /\ sup = "unbound"   \* answered, or UNBIND_TIMEOUT elapsed
  /\ sup' = "closing"
  /\ seqOf' = [seqOf EXCEPT ![Unbind] = 0]
  /\ UNCHANGED <<state, token, outgoing, tableVars, reply, phase, stop, writing, missed,
                 readerVars, peerVars>>

CancelConnection ==
  /\ sup = "closing" /\ sup' = "joining" /\ connToken' = TRUE
  /\ Quiet /\ UNCHANGED <<state, outgoing, stop, writing, missed, reader, held, readerEnd,
                          deliveries, strays, peerVars>>

(* serve() returns: the receiver of the keep-alive is dropped, its misses    *)
(* with it, and what this connection still answers is for no reader of a    *)
(* later one.                                                               *)
ServeReturns ==
  /\ sup = "joining"
  /\ seqOf' = [seqOf EXCEPT ![EnquireLink] = 0]
  /\ reply' = [reply EXCEPT ![EnquireLink] = NoReply]
  /\ atPeer' = {} /\ missed' = 0
  /\ IF stop \in {"retry", "hopeless"}
     THEN sup' = "failing" /\ UNCHANGED <<state, outgoing>>
     ELSE Conclude
  /\ UNCHANGED <<token, tableVars, phase, stop, writing, held, readerEnd,
                 connToken, deliveries, connections, peerPdus>>

Joined == reader = "stopped" /\ ServeReturns /\ UNCHANGED <<reader, strays>>

(* READER_JOIN_TIMEOUT elapses: abort() is called and not awaited, so the   *)
(* reader goes on until its current poll ends, with its half of the socket. *)
Stray(at, answer, peer) ==
  [of |-> connections, at |-> at, held |-> answer, peer |-> peer]

JoinTimeout ==
  /\ reader # "stopped" /\ ServeReturns
  /\ reader' = "stopped" /\ strays' = strays \cup {Stray(reader, held, atPeer)}

(* fail_all() and then the queue, one try_recv at a time: a caller parked   *)
(* on a full queue gets in as soon as one slot is free.                     *)
FailAll ==
  /\ sup = "failing" /\ sup' = "draining"
  /\ waiting' = Without(InFlight) /\ due' = {} /\ reply' = Told(InFlight, "cancelled")
  /\ UNCHANGED <<state, token, outgoing, cursor, seqOf, phase, stop, writing, missed,
                 readerVars, peerVars>>

Discard ==
  /\ sup = "draining" /\ outgoing # <<>>
  /\ outgoing' = Tail(outgoing)
  /\ Quiet /\ UNCHANGED <<state, supVars, readerVars, peerVars>>

(* decide(): give up on what no retry can fix, or with reconnection off.    *)
GiveUp ==
  /\ sup = "draining" /\ outgoing = <<>>
  /\ stop = "hopeless" \/ ~ReconnectEnabled
  /\ state' = "ERROR" /\ sup' = "done"
  /\ Quiet /\ UNCHANGED <<outgoing, stop, writing, missed, readerVars, peerVars>>

BackOff ==
  /\ sup = "draining" /\ outgoing = <<>>
  /\ stop # "hopeless" /\ ReconnectEnabled
  /\ state' = "RECONNECT" /\ sup' = "backoff"
  /\ Quiet /\ UNCHANGED <<outgoing, stop, writing, missed, readerVars, peerVars>>

BackOffEnds ==
  /\ sup = "backoff"
  /\ \/ token /\ Conclude
     \/ state' = "CLOSED" /\ sup' = "top" /\ UNCHANGED outgoing
  /\ Quiet /\ UNCHANGED <<stop, writing, missed, readerVars, peerVars>>

-----------------------------------------------------------------------------
(* The reader task                                                          *)

ReaderFrame == UNCHANGED <<state, token, supVars, phase, seqOf, connections>>

ReadResponse(p, nacked) ==
  /\ reader = "reading" /\ p \in atPeer
  /\ atPeer' = atPeer \ {p}
  /\ Resolve(p, nacked)
  /\ ReaderFrame /\ UNCHANGED <<outgoing, readerVars, peerPdus>>

(* A request of the message centre, or bytes that do not parse: the reader  *)
(* queues the answer.                                                       *)
ReadRequest(answer) ==
  /\ reader = "reading" /\ peerPdus < MaxPeerPdus
  /\ reader' = "queuing" /\ held' = answer /\ peerPdus' = peerPdus + 1
  /\ ReaderFrame
  /\ UNCHANGED <<outgoing, tableVars, reply, readerEnd, connToken, deliveries, strays, atPeer>>

ReadEof ==
  /\ reader = "reading"
  /\ reader' = "stopped" /\ readerEnd' = "link_lost"
  /\ ReaderFrame /\ UNCHANGED <<outgoing, tableVars, reply, held, connToken, deliveries, strays,
                                atPeer, peerPdus>>

(* try_send: a full delivery queue drops the PDU it has acknowledged.       *)
Deliver(answer) ==
  deliveries' = IF answer = "deliver_sm_resp" /\ deliveries < DeliveryCapacity
                THEN deliveries + 1 ELSE deliveries

QueueAnswer ==
  /\ reader = "queuing" /\ Len(outgoing) < Capacity
  /\ outgoing' = Append(outgoing, Pdu(held, 0))
  /\ IF held = "unbind_resp"
     THEN reader' = "stopped" /\ readerEnd' = "peer_unbound"
     ELSE reader' = "reading" /\ UNCHANGED readerEnd
  /\ Deliver(held)
  /\ ReaderFrame /\ UNCHANGED <<tableVars, reply, held, connToken, strays, atPeer, peerPdus>>

ReaderCancelled ==
  /\ reader \in {"reading", "queuing"} /\ connToken
  /\ reader' = "stopped" /\ readerEnd' = "cancelled"
  /\ IF reader = "queuing" THEN Deliver(held) ELSE UNCHANGED deliveries
  /\ ReaderFrame /\ UNCHANGED <<outgoing, tableVars, reply, held, connToken, strays, atPeer, peerPdus>>

TakeDelivery ==
  /\ deliveries > 0 /\ deliveries' = deliveries - 1
  /\ ReaderFrame /\ UNCHANGED <<outgoing, tableVars, reply, reader, held, readerEnd, connToken,
                                strays, atPeer, peerPdus>>

-----------------------------------------------------------------------------
(* An aborted reader, in the poll it was in: it may read what its own       *)
(* connection already holds, and queue what it has in hand while the queue  *)
(* has room and a receiver.  It is dropped where it would park.             *)

StrayFrame == UNCHANGED <<reader, held, readerEnd, connToken, atPeer>> /\ ReaderFrame

StrayReadsResponse(s, p, nacked) ==
  /\ s.at = "reading" /\ Resolve(p, nacked)
  /\ strays' = (strays \ {s}) \cup {[s EXCEPT !.peer = @ \ {p}]}
  /\ StrayFrame /\ UNCHANGED <<outgoing, deliveries, peerPdus>>

StrayReadsRequest(s, answer) ==
  /\ s.at = "reading" /\ peerPdus < MaxPeerPdus
  /\ strays' = (strays \ {s}) \cup {[s EXCEPT !.at = "queuing", !.held = answer]}
  /\ peerPdus' = peerPdus + 1
  /\ StrayFrame /\ UNCHANGED <<outgoing, tableVars, reply, deliveries>>

StrayQueues(s) ==
  /\ s.at = "queuing" /\ sup # "done" /\ Len(outgoing) < Capacity
  /\ outgoing' = Append(outgoing, Pdu(s.held, 0))
  /\ strays' = (strays \ {s})
                \cup (IF s.held = "unbind_resp" THEN {} ELSE {[s EXCEPT !.at = "reading"]})
  /\ Deliver(s.held)
  /\ StrayFrame /\ UNCHANGED <<tableVars, reply, peerPdus>>

(* It sees its token, the closed queue or the end of the stream, or the     *)
(* runtime drops it, with or without handing its deliver_sm over.           *)
StrayGone(s) ==
  /\ strays' = strays \ {s}
  /\ UNCHANGED deliveries \/ (s.at = "queuing" /\ Deliver(s.held))
  /\ StrayFrame /\ UNCHANGED <<outgoing, tableVars, reply, peerPdus>>

-----------------------------------------------------------------------------
Init ==
  /\ state = "CLOSED" /\ token = FALSE /\ outgoing = <<>>
  /\ waiting = [s \in SeqNums |-> NoOwner] /\ due = {} /\ cursor = 1
  /\ seqOf = [o \in Owners |-> 0] /\ reply = [o \in Owners |-> NoReply]
  /\ phase = [r \in Requests |-> "idle"]
  /\ sup = "top" /\ stop = "none" /\ writing = NoPdu /\ missed = 0
  /\ reader = "stopped" /\ held = "generic_nack" /\ readerEnd = "none"
  /\ connToken = FALSE /\ deliveries = 0 /\ strays = {}
  /\ atPeer = {} /\ connections = 0 /\ peerPdus = 0

Call(r) ==
  \/ Refuse(r) \/ Accept(r) \/ Admit(r) \/ RegisterCall(r) \/ NoNumberLeft(r)
  \/ Enqueue(r) \/ QueueClosed(r) \/ Return(r) \/ Drop(r)

Supervisor ==
  \/ StartAttempt \/ ConnectOk \/ AttemptFails \/ AttemptCancelled \/ BindOk
  \/ ServeCancelled \/ ServeReaderEnded \/ ServeOutgoing
  \/ KeepaliveTick \/ KeepaliveResult \/ Sweep \/ Written \/ WriteFails
  \/ SayGoodbye \/ GoodbyeOver \/ CancelConnection \/ Joined \/ JoinTimeout
  \/ FailAll \/ Discard \/ GiveUp \/ BackOff \/ BackOffEnds

Reader ==
  \/ \E p \in atPeer, nacked \in BOOLEAN : ReadResponse(p, nacked)
  \/ \E answer \in PeerAnswers : ReadRequest(answer)
  \/ ReadEof \/ QueueAnswer \/ ReaderCancelled

AbortedReader ==
  \E s \in strays :
    \/ \E p \in s.peer, nacked \in BOOLEAN : StrayReadsResponse(s, p, nacked)
    \/ \E answer \in PeerAnswers : StrayReadsRequest(s, answer)
    \/ StrayQueues(s) \/ StrayGone(s)

Next ==
  \/ \E r \in Requests : Call(r)
  \/ \E s \in SeqNums : DeadlinePasses(s)
  \/ Shutdown \/ Supervisor \/ Reader \/ AbortedReader \/ TakeDelivery

Spec == Init /\ [][Next]_vars

(* What the supervisor does outside select! and without the message centre, *)
(* one of them at a time; and the reader with an answer in hand.            *)
SupervisorMoves ==
  \/ StartAttempt \/ AttemptCancelled \/ Written \/ WriteFails
  \/ SayGoodbye \/ GoodbyeOver \/ CancelConnection \/ Joined \/ JoinTimeout
  \/ FailAll \/ Discard \/ GiveUp \/ BackOff \/ BackOffEnds
ReaderMoves == QueueAnswer \/ ReaderCancelled

(* What the runtime guarantees.  Tasks that can run do run; deadlines pass; *)
(* select! draws its first arm at random, so an arm that keeps being ready  *)
(* is taken in the end.  Nothing is assumed of the message centre or of the *)
(* callers.                                                                 *)
Fairness ==
  /\ \A r \in Requests : WF_vars(RegisterCall(r) \/ NoNumberLeft(r) \/ QueueClosed(r))
  /\ \A r \in Requests : SF_vars(Enqueue(r)) /\ WF_vars(Return(r))
  /\ \A s \in SeqNums : WF_vars(DeadlinePasses(s))
  /\ WF_vars(SupervisorMoves) /\ WF_vars(ReaderMoves)
  /\ SF_vars(ServeCancelled) /\ SF_vars(ServeReaderEnded) /\ SF_vars(ServeOutgoing)
  /\ SF_vars(KeepaliveTick) /\ SF_vars(KeepaliveResult) /\ SF_vars(Sweep)

FairSpec == Spec /\ Fairness

-----------------------------------------------------------------------------
(* Properties *)

TableTypeOK ==
  /\ waiting \in [SeqNums -> Owners \cup {NoOwner}]
  /\ due \in SUBSET SeqNums /\ cursor \in SeqNums

CallTypeOK ==
  /\ seqOf \in [Owners -> 0 .. MaxSeq]
  /\ reply \in [Owners -> [kind : Kinds, of : Owners \cup {NoOwner}]]
  /\ phase \in [Requests -> Phases]

RequestPdus == [owner : Owners, seq : SeqNums]
Pdus == RequestPdus \cup [owner : Answers, seq : {0}]

SupervisorTypeOK ==
  /\ state \in States /\ token \in BOOLEAN
  /\ outgoing \in Seq(Pdus) /\ writing \in Pdus \cup {NoPdu}
  /\ sup \in SupSteps /\ stop \in Stops
  /\ missed \in Nat

StrayReaders == [of : Nat, at : {"reading", "queuing"}, held : Answers,
                 peer : SUBSET RequestPdus]

ReaderTypeOK ==
  /\ reader \in {"reading", "queuing", "stopped"} /\ held \in Answers
  /\ readerEnd \in {"none", "peer_unbound", "link_lost", "cancelled"}
  /\ connToken \in BOOLEAN /\ deliveries \in Nat
  /\ strays \in SUBSET StrayReaders

PeerTypeOK ==
  /\ atPeer \in SUBSET RequestPdus
  /\ connections \in Nat /\ peerPdus \in Nat

TypeOK == TableTypeOK /\ CallTypeOK /\ SupervisorTypeOK /\ ReaderTypeOK /\ PeerTypeOK

(* A caller that holds a receiver nobody has sent into has its entry in the *)
(* correlation table, under its own number: something can still wake it.    *)
(* Registering over an entry, or dropping one silently, would orphan it     *)
(* (pending.rs register, resolve, expire, fail_all).                        *)
WaiterHasEntry ==
  \A r \in Requests :
    phase[r] \in {"registered", "awaiting"}
      => /\ seqOf[r] \in SeqNums
         /\ reply[r] = NoReply => waiting[seqOf[r]] = r

(* TypeOK alone is not inductive: a queued PDU carries the number its       *)
(* caller holds, and that this is a number is part of WaiterHasEntry.       *)
SessionInv == TypeOK /\ WaiterHasEntry

(* shutdown() returns: once the session is cancelled the supervisor ends,   *)
(* whatever the message centre does or fails to do (supervisor.rs: "Every   *)
(* await that can block is bounded, cancellable, or both").                 *)
ShutdownReturns == token ~> sup = "done"

(* While the session serves a connection, a call waiting for its response   *)
(* gets an outcome: the response, or the timeout (CA-005-06, CA-007-03).    *)
ServedCallReturns ==
  \A r \in Requests :
    phase[r] = "awaiting" /\ sup \in Serving
      ~> phase[r] \in {"done", "dropped"} \/ sup \notin Serving

(* CA-005-04: with the keep-alive on, a message centre that stops answering *)
(* it is found out.  Either enquire_link keeps being answered, or the       *)
(* session keeps leaving the connection.                                    *)
SilenceIsNoticed ==
  \/ []<><<\E p \in atPeer : p.owner = EnquireLink /\ p \notin atPeer'>>_vars
  \/ []<>(sup \notin Serving)

=============================================================================
