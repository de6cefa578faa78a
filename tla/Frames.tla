------------------------------- MODULE Frames ------------------------------
(***************************************************************************)
(* The octets of a connection cut in PDUs                                  *)
(* (crates/smpp-session/src/actors/framing.rs and connection.rs,           *)
(* crates/smpp-core/src/codec.rs).                                         *)
(*                                                                         *)
(* The peer sends PDUs, the socket hands them over in any pieces, and the  *)
(* client finds where each ends by the length it announces: first the      *)
(* answer to its bind, then, from the same buffer, what its reader takes.  *)
(* Lengths are scaled.                                                     *)
(***************************************************************************)
EXTENDS Integers, Sequences, FiniteSets

CONSTANTS
  LengthField, \* octets of `command_length`, LENGTH_FIELD_OCTETS
  PduHeader,   \* octets of a header, HEADER_LENGTH
  MaxLength,   \* the longest PDU that is accepted, MAX_COMMAND_LENGTH
  PeerPdus,    \* (bound) the PDUs the peer may send
  MaxPdus      \* (bound) how many it sends

ASSUME FramesAssumption ==
  /\ LengthField \in Nat \ {0} /\ PduHeader \in Nat /\ MaxLength \in Nat
  /\ LengthField <= PduHeader /\ PduHeader <= MaxLength
  /\ \A pdu \in PeerPdus : pdu.says \in Nat

VARIABLE stream \* one connection

framesVars == <<stream>>

Unknown == -1   \* the `None` of `announced_length`

BindModes == {"transmitter", "receiver", "transceiver"}

\* `bind_request`, and the `matching_response` of its operation.
BindRequest(mode) == [transmitter |-> "bind_transmitter", receiver |-> "bind_receiver",
                      transceiver |-> "bind_transceiver"][mode]
MatchingResponse(operation) ==
  [bind_transmitter |-> "bind_transmitter_resp", bind_receiver |-> "bind_receiver_resp",
   bind_transceiver |-> "bind_transceiver_resp"][operation]

\* A PDU of the peer: the length it announces, how many octets the parser of
\* its body takes, and what it is: "unparsed" when that parser refuses it.
Pdu(says, takes, is, status) == [says |-> says, takes |-> takes, is |-> is, status |-> status]

Trusted(pdu) == pdu.says \in PduHeader .. MaxLength

\* What a PDU puts on the wire.
SizeOf(pdu) == IF Trusted(pdu) THEN pdu.says ELSE PduHeader
Octets(pdu, number) == [at \in 1 .. SizeOf(pdu) |-> [of |-> number, at |-> at]]

-----------------------------------------------------------------------------
(* The two codecs.                                                         *)

\* The length read at the head of a buffer.  Octets that are not the head of
\* a PDU read as some length.
AnnouncedLength(src, sent) ==
  IF Len(src) < LengthField THEN Unknown
  ELSE IF \A at \in 1 .. LengthField : src[at] = [of |-> src[1].of, at |-> at]
       THEN sent[src[1].of].says
       ELSE PduHeader

\* `codec::decode`: the header decides what is whole, and what the parser of
\* the body leaves is inside the PDU.
DecodePdu(bytes, sent) ==
  LET announced == AnnouncedLength(bytes, sent)
  IN  IF announced = Unknown THEN "Incomplete"
      ELSE IF announced > MaxLength THEN "CommandTooLarge"
      ELSE IF announced < PduHeader THEN "Malformed"
      ELSE IF Len(bytes) < announced THEN "Incomplete"
      ELSE IF Len(bytes) > announced THEN "TrailingBytes"
      ELSE sent[bytes[1].of].is

\* `src.split_to(announced)`.  The mutant trusts what the codec consumed.
MutantSplitAt(src, sent) == sent[src[1].of].takes
SplitAt(src, sent) == AnnouncedLength(src, sent)

\* `SessionCodec::decode`, called when it has something to say: a frame, a
\* length it refuses, or the room it needs.
Untrusted(s) == AnnouncedLength(s.src, s.sent) \notin {Unknown} \union PduHeader .. MaxLength
WaitsForMore(s) ==
  ~Untrusted(s) /\ (AnnouncedLength(s.src, s.sent) \notin 0 .. Len(s.src))

\* `codec::encode`, of a command of some length.
Encodes(length) == length <= MaxLength

-----------------------------------------------------------------------------
(* One connection.                                                         *)

NewStreams ==
  [mode : BindModes, phase : {"binding"}, sent : {<<>>}, wire : {<<>>}, closed : {FALSE},
   arrived : {0}, src : {<<>>}, room : {0}, items : {<<>>}, nacks : {0}, written : {<<>>},
   end : {"none"}]

PeerSends(pdu) ==
  /\ Len(stream.sent) < MaxPdus /\ ~stream.closed
  /\ stream' = [stream EXCEPT !.sent = Append(@, pdu),
                              !.wire = @ \o Octets(pdu, Len(stream.sent) + 1)]

PeerCloses == ~stream.closed /\ stream' = [stream EXCEPT !.closed = TRUE]

\* `Framed` reads when the codec asks for more, as much as the socket has;
\* the codec has made room for the rest of the frame (`src.reserve`).
Arrive(count) ==
  LET src == stream.src \o SubSeq(stream.wire, stream.arrived + 1, stream.arrived + count)
      needed == AnnouncedLength(stream.src, stream.sent)
  IN  /\ stream.end = "none" /\ WaitsForMore(stream)
      /\ stream.arrived + count <= Len(stream.wire)
      /\ stream' = [stream EXCEPT !.src = src, !.arrived = @ + count,
                                  !.room = IF needed = Unknown THEN 0 ELSE needed]

\* A length that cannot be trusted ends the connection: nothing says where the
\* next PDU starts.
LengthRefused ==
  /\ stream.end = "none" /\ Untrusted(stream)
  /\ stream' = [stream EXCEPT !.end = "InvalidData"]

\* `bind`: what the first frame is decides of the connection.
AfterBind(is, status) ==
  CASE is = "unparsed" -> "Protocol"
    [] is # "unparsed" /\ is # MatchingResponse(BindRequest(stream.mode)) -> "UnexpectedResponse"
    [] is = MatchingResponse(BindRequest(stream.mode)) /\ status # "ok" -> "BindRejected"
    [] OTHER -> "none"

\* A whole frame leaves the buffer, whether or not it parses.  The reader
\* answers one that does not by a `generic_nack`.
TakeFrame ==
  LET is     == DecodePdu(SubSeq(stream.src, 1, AnnouncedLength(stream.src, stream.sent)),
                          stream.sent)
      number == stream.src[1].of
      item   == [of |-> number, is |-> is]
      rest   == SubSeq(stream.src, SplitAt(stream.src, stream.sent) + 1, Len(stream.src))
      taken  == [stream EXCEPT !.src = rest, !.items = Append(@, item), !.room = 0]
  IN  /\ stream.end = "none" /\ ~WaitsForMore(stream) /\ ~Untrusted(stream)
      /\ stream' =
           IF stream.phase = "binding"
           THEN LET end == AfterBind(is, stream.sent[number].status)
                IN  [taken EXCEPT !.end = end,
                                  !.phase = IF end = "none" THEN "bound" ELSE "binding"]
           ELSE [taken EXCEPT !.nacks = IF is = "unparsed" THEN @ + 1 ELSE @]

\* The end of the stream: octets short of a frame are an error.
EndOfStream ==
  /\ stream.end = "none" /\ stream.closed /\ WaitsForMore(stream)
  /\ stream.arrived = Len(stream.wire)
  /\ stream' = [stream EXCEPT !.end = IF stream.src = <<>> THEN "Eof" ELSE "Truncated"]

\* The encoder adds a PDU whole, or refuses it and ends the connection.
WritePdu(length) ==
  /\ stream.end = "none" /\ stream.phase = "bound" /\ Len(stream.written) < 1
  /\ stream' = IF Encodes(length) THEN [stream EXCEPT !.written = Append(@, length)]
                                  ELSE [stream EXCEPT !.end = "InvalidInput"]

FramesNext ==
  \/ \E pdu \in PeerPdus : PeerSends(pdu)
  \/ PeerCloses
  \/ \E count \in 1 .. MaxPdus * MaxLength : Arrive(count)
  \/ LengthRefused \/ TakeFrame \/ EndOfStream
  \/ \E length \in {MaxLength, MaxLength + 1} : WritePdu(length)

-----------------------------------------------------------------------------
(* What must hold of it.                                                   *)

\* The PDUs are taken in order, each for what it is, however they were cut.
PdusAreWhole ==
  \A k \in DOMAIN stream.items :
    stream.items[k] = [of |-> k, is |-> stream.sent[k].is] /\ Trusted(stream.sent[k])

\* The buffer is the last of what has arrived, from where the next PDU begins.
BufferIsAligned ==
  LET next  == Len(stream.items) + 1
      taken == stream.arrived - Len(stream.src)
  IN  /\ stream.src = SubSeq(stream.wire, taken + 1, stream.arrived)
      /\ IF next \in DOMAIN stream.sent THEN stream.wire[taken + 1] = [of |-> next, at |-> 1]
                                        ELSE taken = Len(stream.wire)

\* A connection is only left for what the peer did, and never for a body: it
\* ends clean when all was read, and on a length when the next is no length.
EndsForAReason ==
  LET next == Len(stream.items) + 1
  IN  /\ stream.end = "Eof" => next = Len(stream.sent) + 1
      /\ stream.end = "InvalidData" => ~Trusted(stream.sent[next])
      /\ stream.end = "Truncated" => next <= Len(stream.sent)
      /\ stream.phase = "bound" =>
           /\ stream.sent[1].is = MatchingResponse(BindRequest(stream.mode))
           /\ stream.sent[1].status = "ok"
           /\ stream.end \notin {"Protocol", "UnexpectedResponse", "BindRejected"}

\* Every PDU that did not parse was answered, and room is only made for a
\* length that is accepted.
NoMoreThanAsked ==
  /\ stream.nacks = IF stream.phase = "binding" THEN 0
                    ELSE Cardinality({k \in DOMAIN stream.items : stream.items[k].is = "unparsed"})
  /\ stream.room <= MaxLength

(* However the octets of a connection are cut, its PDUs are taken whole,   *)
(* in order and for what they are, across those that do not parse and      *)
(* those whose body is not read to its end, and across the bind: only a    *)
(* length that is not one, or a cut PDU, ends it (framing.rs, codec.rs).   *)
FramesStayAligned == PdusAreWhole /\ BufferIsAligned /\ EndsForAReason /\ NoMoreThanAsked
=============================================================================
