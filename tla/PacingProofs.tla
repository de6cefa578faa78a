----------------------------- MODULE PacingProofs -----------------------------
(* What holds of Pacing for any senders, window, quota, cooldown and ring:   *)
(* the slots are the requests that hold them, the queues are the requests    *)
(* that are parked, the ring is the window of time it stands for, and a      *)
(* cooldown is served.                                                       *)
EXTENDS Pacing, FiniteSetTheorems, SequenceTheorems, TLAPS

-----------------------------------------------------------------------------
(* Queues of senders                                                         *)

(* A queue that holds the members of a set, once each.                       *)
QueueOf(q, S) == q \in Seq(Senders) /\ IsInjective(q) /\ Range(q) = S

LEMMA QueueIs ==
  ASSUME NEW q, NEW S, QueueOf(q, S)
  PROVE  /\ Len(q) \in Nat /\ DOMAIN q = 1 .. Len(q) /\ q \in Seq(Senders)
         /\ \A i, j \in 1 .. Len(q) : q[i] = q[j] => i = j
         /\ \A i \in 1 .. Len(q) : q[i] \in S
         /\ \A x \in S : \E i \in 1 .. Len(q) : q[i] = x
<1>1. Len(q) \in Nat /\ DOMAIN q = 1 .. Len(q) /\ q \in Seq(Senders)
  BY DEF QueueOf
<1> QED BY <1>1 DEF QueueOf, IsInjective, Range

LEMMA IsQueue ==
  ASSUME NEW q \in Seq(Senders), NEW S,
         \A i, j \in 1 .. Len(q) : q[i] = q[j] => i = j,
         \A i \in 1 .. Len(q) : q[i] \in S,
         \A x \in S : \E i \in 1 .. Len(q) : q[i] = x
  PROVE  QueueOf(q, S)
<1>1. DOMAIN q = 1 .. Len(q)
  OBVIOUS
<1> QED BY <1>1 DEF QueueOf, IsInjective, Range

LEMMA EmptyQueue ==
  /\ QueueOf(<<>>, {})
  /\ \A q, S : QueueOf(q, S) => (q = <<>> <=> S = {})
<1>1. QueueOf(<<>>, {})
  <2>1. <<>> \in Seq(Senders) /\ DOMAIN <<>> = {}
    OBVIOUS
  <2> QED BY <2>1 DEF QueueOf, IsInjective, Range
<1>2. ASSUME NEW q, NEW S, QueueOf(q, S) PROVE q = <<>> <=> S = {}
  <2>1. q = <<>> => S = {}
    BY <1>2, QueueIs
  <2>2. S = {} => Len(q) = 0
    BY <1>2, QueueIs
  <2> QED BY <1>2, <2>1, <2>2, QueueIs, EmptySeq
<1> QED BY <1>1, <1>2

LEMMA AppendQueue ==
  ASSUME NEW q, NEW S, QueueOf(q, S), NEW s \in Senders \ S
  PROVE  QueueOf(Append(q, s), S \cup {s})
<1> DEFINE n == Len(q)  r == Append(q, s)
<1>1. /\ n \in Nat /\ q \in Seq(Senders) /\ (\A i, j \in 1 .. n : q[i] = q[j] => i = j)
      /\ (\A i \in 1 .. n : q[i] \in S) /\ \A x \in S : \E i \in 1 .. n : q[i] = x
  BY QueueIs
<1>2. r \in Seq(Senders) /\ Len(r) = n + 1 /\ r[n + 1] = s /\ \A i \in 1 .. n : r[i] = q[i]
  BY <1>1, AppendProperties
<1> HIDE DEF n, r
<1>3. 1 .. Len(r) = (1 .. n) \cup {n + 1}
  BY <1>1, <1>2
<1>4. /\ \A i, j \in 1 .. Len(r) : r[i] = r[j] => i = j
      /\ \A i \in 1 .. Len(r) : r[i] \in S \cup {s}
      /\ \A x \in S \cup {s} : \E i \in 1 .. Len(r) : r[i] = x
  BY <1>1, <1>2, <1>3
<1>5. QueueOf(r, S \cup {s})
  BY <1>2, <1>4, IsQueue
<1> QED BY <1>5 DEF r

LEMMA TailQueue ==
  ASSUME NEW q, NEW S, QueueOf(q, S), q # <<>>
  PROVE  QueueOf(Tail(q), S \ {Head(q)}) /\ Head(q) \in S /\ Head(q) \in Senders
<1> DEFINE n == Len(q)  r == Tail(q)
<1>1. /\ n \in Nat /\ q \in Seq(Senders) /\ (\A i, j \in 1 .. n : q[i] = q[j] => i = j)
      /\ (\A i \in 1 .. n : q[i] \in S) /\ \A x \in S : \E i \in 1 .. n : q[i] = x
  BY QueueIs
<1>2. n > 0 /\ Head(q) = q[1] /\ Head(q) \in Senders
  BY <1>1, HeadTailProperties, EmptySeq
<1>3. r \in Seq(Senders) /\ Len(r) = n - 1 /\ \A i \in 1 .. n - 1 : r[i] = q[i + 1]
  BY <1>1, HeadTailProperties
<1> HIDE DEF n, r
<1>4. \A i, j \in 1 .. Len(r) : r[i] = r[j] => i = j
  BY <1>1, <1>2, <1>3
<1>5. ASSUME NEW i \in 1 .. Len(r) PROVE r[i] \in S \ {Head(q)}
  <2>1. i + 1 \in 1 .. n /\ i + 1 # 1 /\ 1 \in 1 .. n /\ i \in 1 .. n - 1
    BY <1>1, <1>2, <1>3
  <2>2. r[i] = q[i + 1] /\ q[i + 1] # q[1]
    BY <1>1, <1>3, <2>1
  <2> QED BY <1>1, <1>2, <2>1, <2>2
<1>6. ASSUME NEW x \in S \ {Head(q)} PROVE \E i \in 1 .. Len(r) : r[i] = x
  <2>1. PICK i \in 1 .. n : q[i] = x
    BY <1>1
  <2>2. i - 1 \in 1 .. n - 1 /\ (i - 1) + 1 = i
    BY <1>1, <1>2, <1>6, <2>1
  <2>3. r[i - 1] = x
    BY <1>3, <2>1, <2>2
  <2> QED BY <1>3, <2>2, <2>3
<1>7. QueueOf(r, S \ {Head(q)})
  BY <1>3, <1>4, <1>5, <1>6, IsQueue
<1> QED BY <1>1, <1>2, <1>7 DEF r, n

(* A sender that takes its place with it.                                    *)
LEMMA WithoutQueue ==
  ASSUME NEW q, NEW S, QueueOf(q, S), NEW s
  PROVE  QueueOf(Without(q, s), S \ {s})
<1> DEFINE n == Len(q)
<1>1. /\ n \in Nat /\ q \in Seq(Senders) /\ (\A i, j \in 1 .. n : q[i] = q[j] => i = j)
      /\ (\A i \in 1 .. n : q[i] \in S) /\ (\A x \in S : \E i \in 1 .. n : q[i] = x)
      /\ DOMAIN q = 1 .. n
  BY QueueIs
<1>2. CASE ~Contains(q, s)
  <2>1. s \notin S
    BY <1>1, <1>2 DEF Contains
  <2> QED BY <1>2, <2>1 DEF Without
<1>3. CASE Contains(q, s)
  <2> DEFINE k == CHOOSE i \in DOMAIN q : q[i] = s
             a == SubSeq(q, 1, k - 1)
             b == SubSeq(q, k + 1, n)
             r == a \o b
  <2>1. k \in 1 .. n /\ q[k] = s
    BY <1>1, <1>3 DEF Contains
  <2>2. Without(q, s) = r
    BY <1>3 DEF Without, RemoveAt
  <2> HIDE DEF k
  <2>3. \A i \in 1 .. n : q[i] \in Senders
    BY <1>1
  <2>4. a \in Seq(Senders) /\ Len(a) = k - 1 /\ \A i \in 1 .. k - 1 : a[i] = q[i]
    <3>1. k - 1 \in Int /\ 1 \in Int /\ \A i \in 1 .. k - 1 : q[i] \in Senders
      BY <1>1, <2>1, <2>3
    <3>2. a \in Seq(Senders) /\ Len(a) = (IF 1 <= k - 1 THEN k - 1 - 1 + 1 ELSE 0)
          /\ \A i \in 1 .. k - 1 - 1 + 1 : a[i] = q[1 + i - 1]
      BY <3>1, SubSeqProperties
    <3> HIDE DEF a, n
    <3>3. Len(a) = k - 1
      BY <1>1, <2>1, <3>2
    <3>4. \A i \in 1 .. k - 1 : i \in 1 .. k - 1 - 1 + 1 /\ 1 + i - 1 = i
      BY <1>1, <2>1
    <3> QED BY <3>2, <3>3, <3>4
  <2>5. b \in Seq(Senders) /\ Len(b) = n - k /\ \A i \in 1 .. n - k : b[i] = q[k + i]
    <3>1. k + 1 \in Int /\ n \in Int /\ \A i \in k + 1 .. n : q[i] \in Senders
      BY <1>1, <2>1, <2>3
    <3>2. b \in Seq(Senders) /\ Len(b) = (IF k + 1 <= n THEN n - (k + 1) + 1 ELSE 0)
          /\ \A i \in 1 .. n - (k + 1) + 1 : b[i] = q[k + 1 + i - 1]
      BY <3>1, SubSeqProperties
    <3> HIDE DEF b, n
    <3>3. Len(b) = n - k
      BY <1>1, <2>1, <3>2
    <3>4. \A i \in 1 .. n - k : i \in 1 .. n - (k + 1) + 1 /\ k + 1 + i - 1 = k + i
      BY <1>1, <2>1
    <3> QED BY <3>2, <3>3, <3>4
  <2> HIDE DEF a, b
  <2>6. r \in Seq(Senders) /\ Len(r) = n - 1
        /\ \A i \in 1 .. n - 1 : r[i] = q[IF i < k THEN i ELSE i + 1]
    <3>1. r \in Seq(Senders) /\ Len(r) = Len(a) + Len(b)
          /\ \A i \in 1 .. Len(a) + Len(b) : r[i] = IF i <= Len(a) THEN a[i] ELSE b[i - Len(a)]
      BY <2>4, <2>5, ConcatProperties
    <3> HIDE DEF r, n
    <3>2. Len(a) + Len(b) = n - 1
      BY <1>1, <2>1, <2>4, <2>5
    <3>3. ASSUME NEW i \in 1 .. n - 1 PROVE r[i] = q[IF i < k THEN i ELSE i + 1]
      <4>1. CASE i < k
        <5>1. i \in 1 .. k - 1 /\ i <= k - 1
          BY <1>1, <2>1, <4>1
        <5> QED BY <2>4, <3>1, <3>2, <4>1, <5>1
      <4>2. CASE ~(i < k)
        <5>1. i - (k - 1) \in 1 .. n - k /\ k + (i - (k - 1)) = i + 1 /\ ~(i <= k - 1)
          BY <1>1, <2>1, <4>2
        <5> QED BY <2>4, <2>5, <3>1, <3>2, <4>2, <5>1
      <4> QED BY <4>1, <4>2
    <3> QED BY <3>1, <3>2, <3>3
  <2> HIDE DEF r, n
  <2>7. \A i, j \in 1 .. Len(r) : r[i] = r[j] => i = j
    <3> DEFINE at(i) == IF i < k THEN i ELSE i + 1
    <3>1. \A i \in 1 .. n - 1 : at(i) \in 1 .. n /\ r[i] = q[at(i)]
      BY <1>1, <2>1, <2>6
    <3>2. \A i, j \in 1 .. n - 1 : at(i) = at(j) => i = j
      BY <1>1, <2>1
    <3> HIDE DEF at
    <3>3. \A i, j \in 1 .. n - 1 : r[i] = r[j] => at(i) = at(j)
      BY <1>1, <3>1
    <3> QED BY <2>6, <3>2, <3>3
  <2>8. \A i \in 1 .. Len(r) : r[i] \in S \ {s}
    <3>1. \A i \in 1 .. n - 1 : (IF i < k THEN i ELSE i + 1) \in (1 .. n) \ {k}
      BY <1>1, <2>1
    <3>2. \A i \in (1 .. n) \ {k} : q[i] \in S \ {s}
      BY <1>1, <2>1
    <3> QED BY <2>6, <3>1, <3>2
  <2>9. ASSUME NEW x \in S \ {s} PROVE \E i \in 1 .. Len(r) : r[i] = x
    <3>1. PICK i \in 1 .. n : q[i] = x
      BY <1>1
    <3>2. i # k
      BY <2>1, <2>9, <3>1
    <3>3. CASE i < k
      <4>1. i \in 1 .. n - 1
        BY <1>1, <2>1, <3>3
      <4> QED BY <2>6, <3>1, <3>3, <4>1
    <3>4. CASE i > k
      <4>1. i - 1 \in 1 .. n - 1 /\ ~(i - 1 < k) /\ (i - 1) + 1 = i
        BY <1>1, <2>1, <3>4
      <4> QED BY <2>6, <3>1, <4>1
    <3> QED BY <1>1, <2>1, <3>2, <3>3, <3>4
  <2>10. QueueOf(r, S \ {s})
    BY <2>6, <2>7, <2>8, <2>9, IsQueue
  <2> QED BY <2>2, <2>10
<1> QED BY <1>2, <1>3

-----------------------------------------------------------------------------
(* The limiter, the window and the queue of the connection                   *)

At(p)   == {s \in Senders : phase[s] = p}
Holders == {s \in Senders : phase[s] \in Held}

GateInv ==
  /\ phase \in [Senders -> Phases] /\ free \in 0 .. Window /\ ended \in BOOLEAN
  /\ IsFiniteSet(Holders) /\ Window - free = Cardinality(Holders)
  /\ free > 0 => waiters = <<>>
  /\ QueueOf(line, At("pacing")) /\ QueueOf(waiters, At("waiting"))

(* What a request that began since the last throttling status still owes.    *)
ServesItsPenalty ==
  \A s \in fresh :
    /\ phase[s] = "cooling" => nap[s] = penalty
    /\ phase[s] = "pacing" => penalty = 0

ClockInv ==
  /\ nap \in [Senders -> 0 .. penalty] /\ due \in 0 .. Period /\ penalty \in 0 .. Cooldown
  /\ fresh \subseteq Senders /\ ServesItsPenalty

OutgoingOK == outgoing \in Seq(Senders \cup {None}) /\ Len(outgoing) <= QueueLimit

(* The ring as the history has it: what was crossed since is to be cleared,  *)
(* the rest is where it was written.                                         *)
Slot(offset) == (newest + Buckets + lag - offset) % Buckets
RingInv ==
  /\ sent \in [Offsets -> Nat] /\ newest \in Offsets /\ lag \in 0 .. Buckets
  /\ partial \in 0 .. BucketTicks - 1 /\ made \in [Offsets -> Nat]
  /\ \A offset \in Offsets : made[offset] = IF offset < lag THEN 0 ELSE sent[Slot(offset)]

AllInv == GateInv /\ ClockInv /\ OutgoingOK /\ RingInv

LEMMA AtMoves ==
  ASSUME phase \in [Senders -> Phases], NEW s \in Senders, NEW to \in Phases,
         NEW state, state = [phase EXCEPT ![s] = to]
  PROVE  /\ state \in [Senders -> Phases]
         /\ \A p : {t \in Senders : state[t] = p} = IF p = to THEN At(p) \cup {s} ELSE At(p) \ {s}
         /\ {t \in Senders : state[t] \in Held} = IF to \in Held THEN Holders \cup {s} ELSE Holders \ {s}
<1>1. state \in [Senders -> Phases] /\ state[s] = to /\ \A t \in Senders \ {s} : state[t] = phase[t]
  OBVIOUS
<1>2. ASSUME NEW p PROVE {t \in Senders : state[t] = p} = IF p = to THEN At(p) \cup {s} ELSE At(p) \ {s}
  BY <1>1 DEF At
<1>3. {t \in Senders : state[t] \in Held} = IF to \in Held THEN Holders \cup {s} ELSE Holders \ {s}
  BY <1>1 DEF Holders
<1> QED BY <1>1, <1>2, <1>3

LEMMA PhasesAre ==
  /\ Held \subseteq Phases /\ {"idle", "cooling", "pacing", "waiting"} \subseteq Phases
  /\ {"idle", "cooling", "pacing", "waiting"} \cap Held = {}
  /\ \A p \in Phases : p \in Held \/ p \in {"idle", "cooling", "pacing", "waiting"}
BY DEF Phases, Held

LEMMA InitAll == ASSUME Init PROVE AllInv
<1>1. GateInv
  <2>1. At("pacing") = {} /\ At("waiting") = {} /\ Holders = {}
    BY DEF Init, At, Holders, Held
  <2>2. IsFiniteSet({}) /\ Cardinality({}) = 0
    BY FS_EmptySet
  <2>3. phase \in [Senders -> Phases] /\ free \in 0 .. Window /\ ended = FALSE /\ Window - free = 0
    BY PacingAssumption, PhasesAre DEF Init
  <2>4. line = <<>> /\ waiters = <<>>
    BY DEF Init
  <2> QED BY <2>1, <2>2, <2>3, <2>4, EmptyQueue DEF GateInv
<1>2. ClockInv
  BY PacingAssumption DEF Init, ClockInv, ServesItsPenalty
<1>3. OutgoingOK
  BY EmptySeq, PacingAssumption DEF Init, OutgoingOK
<1>4. RingInv
  <2>1. 0 \in Offsets
    BY PacingAssumption DEF Offsets
  <2>2. \A offset \in Offsets : Slot(offset) \in Offsets
    BY PacingAssumption DEF Init, Slot, Offsets
  <2> QED BY <2>1, <2>2, PacingAssumption DEF Init, RingInv
<1> QED BY <1>1, <1>2, <1>3, <1>4 DEF AllInv

(* A request that keeps its slot as it goes on.                              *)
LEMMA KeepsItsSlot ==
  ASSUME GateInv, NEW s \in Senders, phase[s] \in Held, NEW to \in Held, Moves(s, to),
         UNCHANGED <<line, free, waiters, ended>>
  PROVE  GateInv'
<1>1. phase' = [phase EXCEPT ![s] = to] /\ to \in Phases
  BY PhasesAre DEF Moves
<1>2. /\ phase' \in [Senders -> Phases]
      /\ \A p : At(p)' = IF p = to THEN At(p) \cup {s} ELSE At(p) \ {s}
      /\ Holders' = Holders \cup {s}
  BY <1>1, AtMoves DEF GateInv, At, Holders
<1>3. At("pacing")' = At("pacing") /\ At("waiting")' = At("waiting") /\ Holders' = Holders
  BY <1>2, PhasesAre DEF At, Holders
<1> QED BY <1>2, <1>3 DEF GateInv, QueueOf

(* A request that never had a slot, and joins a queue or leaves them all.    *)
LEMMA HasNoSlot ==
  ASSUME GateInv, NEW s \in Senders, phase[s] \notin Held, NEW to \in {"idle", "cooling", "pacing", "waiting"},
         phase' = [phase EXCEPT ![s] = to]
  PROVE  /\ phase' \in [Senders -> Phases] /\ Holders' = Holders
         /\ to = "pacing" => At("pacing")' = At("pacing") \cup {s}
         /\ to # "pacing" => At("pacing")' = At("pacing") \ {s}
         /\ to = "waiting" => At("waiting")' = At("waiting") \cup {s}
         /\ to # "waiting" => At("waiting")' = At("waiting") \ {s}
<1>1. to \in Phases /\ to \notin Held
  BY PhasesAre
<1>2. /\ phase' \in [Senders -> Phases]
      /\ \A p : At(p)' = IF p = to THEN At(p) \cup {s} ELSE At(p) \ {s}
      /\ Holders' = Holders \ {s}
  BY <1>1, AtMoves DEF GateInv, At, Holders
<1> QED BY <1>2 DEF Holders

LEMMA AskGate == ASSUME GateInv, NEW s \in Senders, Ask(s) \/ Wake(s) PROVE GateInv'
<1>1. /\ phase[s] \in {"idle", "cooling"} /\ UNCHANGED <<free, waiters, ended>>
      /\ \/ phase' = [phase EXCEPT ![s] = "cooling"] /\ line' = line
         \/ phase' = [phase EXCEPT ![s] = "pacing"] /\ line' = Append(line, s)
  BY DEF Ask, Wake, Moves, slots
<1>2. phase[s] \notin Held /\ s \notin At("pacing") /\ s \notin At("waiting")
  BY <1>1, PhasesAre DEF At
<1>3. CASE phase' = [phase EXCEPT ![s] = "cooling"] /\ line' = line
  <2>1. phase' \in [Senders -> Phases] /\ Holders' = Holders /\ At("pacing")' = At("pacing")
        /\ At("waiting")' = At("waiting")
    <3>1. At("pacing") \ {s} = At("pacing") /\ At("waiting") \ {s} = At("waiting")
      BY <1>2
    <3>2. "cooling" # "pacing" /\ "cooling" # "waiting"
      OBVIOUS
    <3> QED BY <1>2, <1>3, <3>1, <3>2, HasNoSlot
  <2> QED BY <1>1, <1>3, <2>1 DEF GateInv, QueueOf
<1>4. CASE phase' = [phase EXCEPT ![s] = "pacing"] /\ line' = Append(line, s)
  <2>1. phase' \in [Senders -> Phases] /\ Holders' = Holders /\ At("pacing")' = At("pacing") \cup {s}
        /\ At("waiting")' = At("waiting")
    <3>1. At("waiting") \ {s} = At("waiting")
      BY <1>2
    <3> QED BY <1>2, <1>4, <3>1, HasNoSlot
  <2>2. QueueOf(line', At("pacing") \cup {s})
    BY <1>2, <1>4, AppendQueue DEF GateInv
  <2> QED BY <1>1, <2>1, <2>2 DEF GateInv, QueueOf
<1> QED BY <1>1, <1>3, <1>4

LEMMA TokenGate == ASSUME GateInv, NEW s \in Senders, TakeToken(s) PROVE GateInv'
<1>1. /\ phase[s] = "pacing" /\ Head(line) = s /\ line' = Tail(line) /\ ended' = ended
      /\ \/ free > 0 /\ phase' = [phase EXCEPT ![s] = "granted"] /\ free' = free - 1 /\ waiters' = waiters
         \/ /\ ~(free > 0) /\ phase' = [phase EXCEPT ![s] = "waiting"]
            /\ waiters' = Append(waiters, s) /\ free' = free
  BY DEF TakeToken, Moves
<1>2. phase[s] \notin Held /\ s \in At("pacing") /\ s \notin At("waiting") /\ s \notin Holders
  BY <1>1, PhasesAre DEF At, Holders
<1>3. QueueOf(line', At("pacing") \ {s})
  <2>1. line # <<>>
    BY <1>2, EmptyQueue DEF GateInv
  <2> QED BY <1>1, <2>1, TailQueue DEF GateInv
<1>5. CASE free > 0 /\ phase' = [phase EXCEPT ![s] = "granted"] /\ free' = free - 1 /\ waiters' = waiters
  <2>1. "granted" \in Held /\ "granted" \in Phases
    BY DEF Held, Phases
  <2>2. /\ phase' \in [Senders -> Phases]
        /\ \A p : At(p)' = IF p = "granted" THEN At(p) \cup {s} ELSE At(p) \ {s}
        /\ Holders' = Holders \cup {s}
    BY <1>5, <2>1, AtMoves DEF GateInv, At, Holders
  <2>3. IsFiniteSet(Holders \cup {s}) /\ Cardinality(Holders \cup {s}) = Cardinality(Holders) + 1
    BY <1>2, FS_AddElement DEF GateInv
  <2>4. free' \in 0 .. Window /\ Window - free' = (Window - free) + 1
    BY <1>5, PacingAssumption DEF GateInv
  <2>5. At("pacing")' = At("pacing") \ {s} /\ At("waiting")' = At("waiting")
    BY <1>2, <2>2
  <2> QED BY <1>1, <1>3, <1>5, <2>2, <2>3, <2>4, <2>5 DEF GateInv, QueueOf
<1>6. CASE /\ ~(free > 0) /\ phase' = [phase EXCEPT ![s] = "waiting"]
           /\ waiters' = Append(waiters, s) /\ free' = free
  <2>1. phase' \in [Senders -> Phases] /\ Holders' = Holders /\ At("pacing")' = At("pacing") \ {s}
        /\ At("waiting")' = At("waiting") \cup {s}
    BY <1>2, <1>6, HasNoSlot
  <2>2. QueueOf(waiters', At("waiting") \cup {s})
    BY <1>2, <1>6, AppendQueue DEF GateInv
  <2> QED BY <1>1, <1>3, <1>6, <2>1, <2>2 DEF GateInv, QueueOf
<1> QED BY <1>1, <1>5, <1>6

(* A slot that comes back is free, or goes to who waited for it.             *)
LEMMA SlotGate ==
  ASSUME GateInv, NEW s \in Senders, phase[s] \in Held, SlotBack([phase EXCEPT ![s] = "idle"]),
         line' \in {line, Without(line, s)}, ended' = ended
  PROVE  GateInv'
<1> DEFINE state == [phase EXCEPT ![s] = "idle"]
<1>1. s \in Holders /\ s \notin At("pacing") /\ s \notin At("waiting")
  BY PhasesAre DEF At, Holders
<1>2. QueueOf(line', At("pacing"))
  <2>1. QueueOf(Without(line, s), At("pacing") \ {s})
    BY WithoutQueue DEF GateInv
  <2>2. At("pacing") \ {s} = At("pacing")
    BY <1>1
  <2> QED BY <2>1, <2>2 DEF GateInv
<1>3. /\ state \in [Senders -> Phases]
      /\ \A p : {t \in Senders : state[t] = p} = IF p = "idle" THEN At(p) \cup {s} ELSE At(p) \ {s}
      /\ {t \in Senders : state[t] \in Held} = Holders \ {s}
  BY AtMoves, PhasesAre DEF GateInv
<1>4. IsFiniteSet(Holders \ {s}) /\ Cardinality(Holders \ {s}) = Cardinality(Holders) - 1
  BY <1>1, FS_RemoveElement DEF GateInv
<1>5. CASE waiters = <<>>
  <2>1. free' = free + 1 /\ phase' = state /\ waiters' = waiters
    BY <1>5 DEF SlotBack
  <2>2. Cardinality(Holders \ {s}) \in Nat
    BY <1>4, FS_CardinalityType
  <2>3. free' \in 0 .. Window /\ Window - free' = (Window - free) - 1
    BY <1>4, <2>1, <2>2, PacingAssumption DEF GateInv
  <2>4. waiters = <<>>
    BY <1>5 DEF GateInv
  <2>5. At("pacing")' = At("pacing") /\ At("waiting")' = At("waiting") /\ Holders' = Holders \ {s}
    <3>1. /\ {t \in Senders : state[t] = "pacing"} = At("pacing")
          /\ {t \in Senders : state[t] = "waiting"} = At("waiting")
      BY <1>1, <1>3
    <3> HIDE DEF state
    <3> QED BY <1>3, <2>1, <3>1 DEF At, Holders
  <2> HIDE DEF state
  <2> QED BY <1>2, <1>3, <1>4, <2>1, <2>3, <2>4, <2>5 DEF GateInv, QueueOf
<1>6. CASE ~(waiters = <<>>)
  <2> DEFINE w == Head(waiters)
  <2>1. waiters' = Tail(waiters) /\ phase' = [state EXCEPT ![w] = "granted"] /\ free' = free
    BY <1>6 DEF SlotBack
  <2>2. w \in At("waiting") /\ w \in Senders /\ QueueOf(waiters', At("waiting") \ {w})
    BY <1>6, <2>1, TailQueue DEF GateInv
  <2>3. w # s /\ w \notin At("pacing") /\ w \notin Holders
    BY <1>1, <2>2, PhasesAre DEF At, Holders
  <2> HIDE DEF state, w
  <2>4. /\ phase' \in [Senders -> Phases] /\ phase'[w] = "granted"
        /\ \A t \in Senders \ {w} : phase'[t] = state[t]
    BY <1>3, <2>1, <2>2, PhasesAre DEF Held
  <2>5. "granted" \in Held /\ "granted" # "pacing" /\ "granted" # "waiting"
    BY DEF Held
  <2>6. At("pacing")' = At("pacing") /\ At("waiting")' = At("waiting") \ {w}
        /\ Holders' = (Holders \ {s}) \cup {w}
    <3>1. {t \in Senders : state[t] = "pacing"} = At("pacing") /\ {t \in Senders : state[t] = "waiting"} = At("waiting")
      BY <1>1, <1>3
    <3>2. At("pacing")' = At("pacing")
      BY <2>3, <2>4, <2>5, <3>1 DEF At
    <3>3. At("waiting")' = At("waiting") \ {w}
      BY <2>4, <2>5, <3>1 DEF At
    <3>4. Holders' = (Holders \ {s}) \cup {w}
      BY <1>3, <2>2, <2>4, <2>5 DEF Holders
    <3> QED BY <3>2, <3>3, <3>4
  <2>7. /\ IsFiniteSet((Holders \ {s}) \cup {w})
        /\ Cardinality((Holders \ {s}) \cup {w}) = Cardinality(Holders \ {s}) + 1
    BY <1>4, <2>3, FS_AddElement
  <2>8. Cardinality(Holders) \in Nat /\ Window - free = Cardinality(Holders)
    BY FS_CardinalityType DEF GateInv
  <2>9. Cardinality((Holders \ {s}) \cup {w}) = Cardinality(Holders)
    BY <1>4, <2>7, <2>8
  <2>10. free = 0
    BY <1>6, PacingAssumption DEF GateInv
  <2> QED BY <1>2, <1>6, <2>1, <2>2, <2>4, <2>6, <2>7, <2>8, <2>9, <2>10 DEF GateInv, QueueOf
<1> QED BY <1>5, <1>6

LEMMA AbandonGate == ASSUME GateInv, NEW s \in Senders, Abandon(s) PROVE GateInv'
<1>1. ended' = ended /\ line' = Without(line, s)
  BY DEF Abandon
<1>2. CASE phase[s] \in Held
  BY <1>1, <1>2, SlotGate DEF Abandon
<1>3. CASE phase[s] \notin Held
  <2>1. phase' = [phase EXCEPT ![s] = "idle"] /\ waiters' = Without(waiters, s) /\ free' = free
    BY <1>3 DEF Abandon, Moves
  <2>2. phase' \in [Senders -> Phases] /\ Holders' = Holders /\ At("pacing")' = At("pacing") \ {s}
        /\ At("waiting")' = At("waiting") \ {s}
    BY <1>3, <2>1, HasNoSlot
  <2>3. QueueOf(line', At("pacing") \ {s}) /\ QueueOf(waiters', At("waiting") \ {s})
    BY <1>1, <2>1, WithoutQueue DEF GateInv
  <2>4. waiters = <<>> => waiters' = <<>>
    BY <2>1 DEF Without, Contains
  <2> QED BY <1>1, <2>1, <2>2, <2>3, <2>4 DEF GateInv, QueueOf
<1> QED BY <1>2, <1>3

(* The end of the session strands what was in flight, with its slot.         *)
LEMMA EndGate == ASSUME GateInv, SessionEnds PROVE GateInv'
<1>1. /\ ended' = TRUE /\ UNCHANGED <<waiters, line, free>>
      /\ phase' = [s \in Senders |-> IF phase[s] = "inflight" THEN "stranded" ELSE phase[s]]
  BY DEF SessionEnds, limiter, slots
<1>2. "stranded" \in Phases /\ "stranded" \in Held /\ "inflight" \in Held
  BY DEF Held, Phases
<1>3. phase' \in [Senders -> Phases]
  BY <1>1, <1>2 DEF GateInv
<1>4. At("pacing")' = At("pacing") /\ At("waiting")' = At("waiting") /\ Holders' = Holders
  BY <1>1, <1>2 DEF At, Holders
<1> QED BY <1>1, <1>3, <1>4 DEF GateInv, QueueOf

(* A step that starts no penalty and ends none.                              *)
LEMMA ClockStands ==
  ASSUME ClockInv, UNCHANGED <<penalty, fresh>>, nap' \in [Senders -> 0 .. penalty], due' \in 0 .. Period,
         \A t \in Senders : (phase'[t] = phase[t] /\ nap'[t] = nap[t]) \/ phase'[t] \notin {"cooling", "pacing"}
  PROVE  ClockInv'
BY DEF ClockInv, ServesItsPenalty

LEMMA LimiterClock ==
  ASSUME GateInv, ClockInv, NEW s \in Senders, Ask(s) \/ Wake(s) \/ TakeToken(s) \/ Settle(s)
  PROVE  ClockInv'
<1>1. /\ phase \in [Senders -> Phases] /\ nap \in [Senders -> 0 .. penalty] /\ due \in 0 .. Period
      /\ penalty \in Nat /\ penalty <= Cooldown /\ Cooldown \in Nat /\ Period \in Nat /\ fresh \subseteq Senders
  BY PacingAssumption DEF GateInv, ClockInv
<1>2. CASE Ask(s)
  <2>1. UNCHANGED <<due, penalty>> /\ fresh' = fresh \cup {s}
    BY <1>2 DEF Ask
  <2>2. CASE penalty > 0
    <3>1. phase' = [phase EXCEPT ![s] = "cooling"] /\ nap' = [nap EXCEPT ![s] = penalty]
      BY <1>2, <2>2 DEF Ask, Moves, PenaltyRead
    <3>2. nap' \in [Senders -> 0 .. penalty]
      BY <1>1, <3>1
    <3>3. /\ phase'[s] = "cooling" /\ nap'[s] = penalty
          /\ \A t \in Senders \ {s} : phase'[t] = phase[t] /\ nap'[t] = nap[t]
      BY <1>1, <3>1
    <3> QED BY <1>1, <2>1, <3>2, <3>3 DEF ClockInv, ServesItsPenalty
  <2>3. CASE ~(penalty > 0)
    <3>1. phase' = [phase EXCEPT ![s] = "pacing"] /\ nap' = nap
      BY <1>2, <2>3 DEF Ask, Moves, PenaltyRead
    <3>2. penalty = 0 /\ phase'[s] = "pacing" /\ \A t \in Senders \ {s} : phase'[t] = phase[t]
      BY <1>1, <2>3, <3>1
    <3> QED BY <1>1, <2>1, <3>1, <3>2 DEF ClockInv, ServesItsPenalty
  <2> QED BY <2>2, <2>3
<1>3. CASE Wake(s)
  <2>1. /\ phase[s] = "cooling" /\ nap[s] = 0 /\ UNCHANGED <<nap, due, penalty, fresh>>
        /\ phase' = [phase EXCEPT ![s] = "pacing"]
    BY <1>3 DEF Wake, Moves
  <2>2. s \in fresh => penalty = 0
    BY <2>1 DEF ClockInv, ServesItsPenalty
  <2>3. phase'[s] = "pacing" /\ \A t \in Senders \ {s} : phase'[t] = phase[t]
    BY <1>1, <2>1
  <2> QED BY <1>1, <2>1, <2>2, <2>3 DEF ClockInv, ServesItsPenalty
<1>4. CASE TakeToken(s)
  <2>1. UNCHANGED <<nap, penalty, fresh>> /\ due' = Period
    BY <1>4 DEF TakeToken
  <2>2. \E to \in {"granted", "waiting"} : phase' = [phase EXCEPT ![s] = to]
    BY <1>4 DEF TakeToken, Moves
  <2>3. \A t \in Senders : phase'[t] = phase[t] \/ phase'[t] \notin {"cooling", "pacing"}
    BY <1>1, <2>2
  <2> QED BY <1>1, <2>1, <2>3, ClockStands
<1>5. CASE Settle(s)
  <2>1. fresh' = {} /\ penalty' = Greatest(penalty, Cooldown) /\ UNCHANGED <<nap, due>>
    BY <1>5 DEF Settle, Penalised
  <2>2. penalty' \in 0 .. Cooldown /\ nap' \in [Senders -> 0 .. penalty']
    <3>1. penalty' = Cooldown
      BY <1>1, <2>1 DEF Greatest
    <3>2. \A t \in Senders : nap[t] \in 0 .. penalty'
      BY <1>1, <3>1
    <3> QED BY <1>1, <2>1, <3>1, <3>2
  <2> QED BY <2>1, <2>2 DEF ClockInv, ServesItsPenalty
<1> QED BY <1>2, <1>3, <1>4, <1>5

(* A request past the limiter, dropped, or stranded.                         *)
LEMMA LaterClock ==
  ASSUME GateInv, ClockInv,
         \/ \E s \in Senders : Submit(s) \/ Enqueue(s) \/ Answer(s) \/ GiveUp(s) \/ Leave(s) \/ Abandon(s)
         \/ SessionEnds \/ Write
  PROVE  ClockInv'
<1>1. phase \in [Senders -> Phases] /\ nap \in [Senders -> 0 .. penalty] /\ due \in 0 .. Period
  BY DEF GateInv, ClockInv
<1>2. UNCHANGED <<due, penalty, fresh>>
  BY DEF Submit, Enqueue, Answer, GiveUp, Leave, Abandon, SessionEnds, Write, limiter
<1>3. CASE \E s \in Senders : Submit(s) \/ Enqueue(s) \/ Answer(s) \/ GiveUp(s)
  <2>1. PICK s \in Senders : Submit(s) \/ Enqueue(s) \/ Answer(s) \/ GiveUp(s)
    BY <1>3
  <2>2. nap' = nap /\ \E to \in {"sending", "inflight", "settled", "throttled", "expired"} :
                       phase' = [phase EXCEPT ![s] = to]
    BY <2>1 DEF Submit, Enqueue, Refused, Answer, GiveUp, Moves, limiter
  <2>3. \A t \in Senders : phase'[t] = phase[t] \/ phase'[t] \notin {"cooling", "pacing"}
    BY <1>1, <2>2
  <2> QED BY <1>1, <1>2, <2>2, <2>3, ClockStands
<1>4. CASE \E s \in Senders : Leave(s) \/ Abandon(s)
  <2>1. PICK s \in Senders : Leave(s) \/ Abandon(s)
    BY <1>4
  <2>2. \A state \in [Senders -> Phases] : SlotBack(state) =>
          \A t \in Senders : phase'[t] = state[t] \/ phase'[t] = "granted"
    BY DEF SlotBack
  <2>3. [phase EXCEPT ![s] = "idle"] \in [Senders -> Phases]
    BY <1>1, PhasesAre
  <2>4. phase' = [phase EXCEPT ![s] = "idle"] \/ SlotBack([phase EXCEPT ![s] = "idle"])
    BY <2>1 DEF Leave, Abandon, Moves
  <2>5. \A t \in Senders : phase'[t] = [phase EXCEPT ![s] = "idle"][t] \/ phase'[t] = "granted"
    BY <2>2, <2>3, <2>4
  <2>6. \A t \in Senders : (phase'[t] = phase[t] /\ t # s) \/ phase'[t] \notin {"cooling", "pacing"}
    BY <1>1, <2>5
  <2>7. nap' \in [Senders -> 0 .. penalty] /\ \A t \in Senders \ {s} : nap'[t] = nap[t]
    <3>1. penalty \in Nat
      BY DEF ClockInv
    <3>2. nap' = nap \/ nap' = [nap EXCEPT ![s] = 0]
      BY <2>1 DEF Leave, Abandon, limiter
    <3> QED BY <1>1, <3>1, <3>2
  <2> QED BY <1>1, <1>2, <2>6, <2>7, ClockStands
<1>5. CASE SessionEnds \/ Write
  <2>1. nap' = nap /\ \A t \in Senders : phase'[t] = phase[t] \/ phase'[t] = "stranded"
    BY <1>1, <1>5 DEF SessionEnds, Write, limiter
  <2> QED BY <1>1, <1>2, <2>1, ClockStands
<1> QED BY <1>3, <1>4, <1>5

LEMMA TickClock == ASSUME ClockInv, Tick PROVE ClockInv'
<1>1. /\ due' = Greatest(due - 1, 0) /\ penalty' = Greatest(penalty - 1, 0)
      /\ nap' = [s \in Senders |-> Greatest(nap[s] - 1, 0)] /\ UNCHANGED <<phase, fresh>>
  BY DEF Tick
<1>2. /\ nap \in [Senders -> 0 .. penalty] /\ due \in 0 .. Period /\ penalty \in 0 .. Cooldown
      /\ fresh \subseteq Senders /\ Period \in Nat /\ Cooldown \in Nat
  BY PacingAssumption DEF ClockInv
<1>3. due' \in 0 .. Period /\ penalty' \in 0 .. Cooldown
  BY <1>1, <1>2 DEF Greatest
<1>4. \A s \in Senders : nap[s] \in 0 .. penalty
  BY <1>2
<1>5. \A s \in Senders : nap'[s] = Greatest(nap[s] - 1, 0) /\ nap'[s] \in 0 .. penalty'
  BY <1>1, <1>2, <1>4 DEF Greatest
<1>6. nap' \in [Senders -> 0 .. penalty']
  BY <1>1, <1>5
<1>7. \A s \in Senders : nap[s] = penalty => nap'[s] = penalty'
  BY <1>1, <1>5
<1>8. penalty = 0 => penalty' = 0
  BY <1>1, <1>2 DEF Greatest
<1> QED BY <1>1, <1>2, <1>3, <1>6, <1>7, <1>8 DEF ClockInv, ServesItsPenalty

LEMMA QueueStep == ASSUME OutgoingOK, Next PROVE OutgoingOK'
<1>1. outgoing \in Seq(Senders \cup {None}) /\ Len(outgoing) <= QueueLimit /\ Len(outgoing) \in Nat
      /\ QueueLimit \in Nat
  BY PacingAssumption DEF OutgoingOK
<1>2. CASE outgoing' = outgoing
  BY <1>1, <1>2 DEF OutgoingOK
<1>7. CASE SessionEnds
  BY <1>1, <1>7, EmptySeq DEF SessionEnds, OutgoingOK
<1>3. ASSUME NEW s \in Senders, Enqueue(s), outgoing' # outgoing PROVE OutgoingOK'
  <2>1. PICK x \in Senders \cup {None} : outgoing' = Append(outgoing, x) /\ Len(outgoing) < QueueLimit
    BY <1>3 DEF Enqueue
  <2>2. outgoing' \in Seq(Senders \cup {None}) /\ Len(outgoing') = Len(outgoing) + 1
    BY <1>1, <2>1, AppendProperties
  <2> QED BY <1>1, <2>1, <2>2 DEF OutgoingOK
<1>4. CASE Write
  <2>1. outgoing # <<>> /\ outgoing' = Tail(outgoing)
    BY <1>4 DEF Write
  <2>2. outgoing' \in Seq(Senders \cup {None}) /\ Len(outgoing') = Len(outgoing) - 1
    BY <1>1, <2>1, HeadTailProperties
  <2> QED BY <1>1, <2>2 DEF OutgoingOK
<1>5. ASSUME NEW s \in Senders, outgoing' = Disowned(s) PROVE OutgoingOK'
  <2>1. outgoing' = [i \in 1 .. Len(outgoing) |-> IF outgoing[i] = s THEN None ELSE outgoing[i]]
    BY <1>1, <1>5 DEF Disowned
  <2>2. \A i \in 1 .. Len(outgoing) : (IF outgoing[i] = s THEN None ELSE outgoing[i]) \in Senders \cup {None}
    BY <1>1
  <2>3. outgoing' \in Seq(Senders \cup {None}) /\ Len(outgoing') = Len(outgoing)
    BY <1>1, <2>1, <2>2
  <2> QED BY <1>1, <2>3 DEF OutgoingOK
<1>6. \/ outgoing' = outgoing \/ Write \/ SessionEnds
      \/ \E s \in Senders : Enqueue(s) \/ outgoing' = Disowned(s)
  BY DEF Next, Works, Ask, Wake, TakeToken, Submit, Answer, GiveUp, Settle, Leave, Abandon, SessionEnds, Tick
<1> QED BY <1>2, <1>3, <1>4, <1>5, <1>6, <1>7

-----------------------------------------------------------------------------
(* The ring                                                                  *)

LEMMA ModIs ==
  ASSUME NEW b \in Nat \ {0}, NEW a \in 0 .. 2 * b - 1
  PROVE  a % b = IF a < b THEN a ELSE a - b
OBVIOUS

(* A reader finds in each bucket what was made in its span of time.          *)
LEMMA ReadIs ==
  ASSUME RingInv, NEW offset \in Offsets
  PROVE  Read(offset) = made[offset]
<1> DEFINE B == Buckets  n == newest  P == Position(lag)  o == offset
           b == (P + B - o) % B
<1>1. B \in Nat \ {0} /\ n \in 0 .. B - 1 /\ lag \in 0 .. B /\ o \in 0 .. B - 1
  BY PacingAssumption DEF RingInv, Offsets
<1>2. Read(o) = Advanced[b]
  BY DEF Read
<1>3. \A f \in 0 .. lag : Position(f) = IF n + f < B THEN n + f ELSE n + f - B
  <2> SUFFICES ASSUME NEW f \in 0 .. lag
               PROVE  Position(f) = IF n + f < B THEN n + f ELSE n + f - B
    OBVIOUS
  <2>1. n + f \in 0 .. 2 * B - 1
    BY <1>1
  <2>2. (n + f) % B = IF n + f < B THEN n + f ELSE (n + f) - B
    BY <1>1, <2>1, ModIs, Zenon
  <2> QED BY <1>1, <2>2 DEF Position
<1>4. P = IF n + lag < B THEN n + lag ELSE n + lag - B
  BY <1>1, <1>3
<1> HIDE DEF P
<1>5. P \in 0 .. B - 1
  BY <1>1, <1>4
<1>6. b = IF P + B - o < B THEN P + B - o ELSE P - o
  <2>1. P + B - o \in 0 .. 2 * B - 1
    BY <1>1, <1>5
  <2>2. b = IF P + B - o < B THEN P + B - o ELSE (P + B - o) - B
    BY <1>1, <2>1, ModIs, Zenon
  <2> HIDE DEF b
  <2> QED BY <1>1, <1>5, <2>2
<1> HIDE DEF b
<1>7. b \in 0 .. B - 1
  BY <1>1, <1>5, <1>6
<1>8. Advanced[b] = IF b \in Cleared THEN 0 ELSE sent[b]
  BY <1>7 DEF Advanced, Offsets
<1>9. Cleared = {Position(f) : f \in 1 .. lag}
  BY DEF Cleared
<1>10. made[o] = IF o < lag THEN 0 ELSE sent[Slot(o)]
  BY DEF RingInv
<1>11. CASE o < lag
  <2>1. lag - o \in 1 .. lag
    BY <1>1, <1>11
  <2>2. Position(lag - o) = b
    BY <1>1, <1>3, <1>4, <1>6, <2>1
  <2> QED BY <1>2, <1>8, <1>9, <1>10, <1>11, <2>1, <2>2
<1>12. CASE ~(o < lag)
  <2>1. \A f \in 1 .. lag : Position(f) # b
    BY <1>1, <1>3, <1>4, <1>6, <1>12
  <2>2. Slot(o) = b
    <3>1. n + B + lag - o \in 0 .. 2 * B - 1
      BY <1>1, <1>12
    <3>2. Slot(o) = IF n + B + lag - o < B THEN n + B + lag - o ELSE n + lag - o
      <4>1. Slot(o) = IF n + B + lag - o < B THEN n + B + lag - o ELSE (n + B + lag - o) - B
        BY <1>1, <3>1, ModIs, Zenon DEF Slot
      <4> QED BY <1>1, <4>1
    <3> QED BY <1>1, <1>4, <1>6, <1>12, <3>2
  <2> QED BY <1>2, <1>8, <1>9, <1>10, <1>12, <2>1, <2>2
<1> QED BY <1>11, <1>12

LEMMA SubmitRing == ASSUME RingInv, NEW s \in Senders, Submit(s) PROVE RingInv'
<1> DEFINE B == Buckets  P == Position(lag)  read == Advanced
<1>1. B \in Nat \ {0} /\ newest \in 0 .. B - 1 /\ lag \in 0 .. B /\ Offsets = 0 .. B - 1
  BY PacingAssumption DEF RingInv, Offsets
<1>2. /\ sent' = [read EXCEPT ![P] = @ + 1] /\ newest' = P /\ lag' = 0
      /\ made' = [made EXCEPT ![0] = @ + 1] /\ partial' = partial
  BY DEF Submit
<1>3. P \in Offsets
  BY <1>1 DEF Position
<1>4. read \in [Offsets -> Nat] /\ made \in [Offsets -> Nat]
  BY DEF Advanced, RingInv
<1>5. \A o \in Offsets : read[(P + B - o) % B] = made[o]
  BY ReadIs DEF Read
<1> HIDE DEF P, read
<1>6. ASSUME NEW o \in Offsets PROVE made'[o] = sent'[Slot(o)']
  <2> DEFINE b == (P + B - o) % B
  <2>1. b = IF P + B - o < B THEN P + B - o ELSE P - o
    <3>1. P + B - o \in 0 .. 2 * B - 1
      BY <1>1, <1>3
    <3>2. b = IF P + B - o < B THEN P + B - o ELSE (P + B - o) - B
      BY <1>1, <3>1, ModIs, Zenon
    <3> HIDE DEF b
    <3> QED BY <1>1, <1>3, <3>2
  <2>2. Slot(o)' = b
    <3>1. Slot(o)' = (P + B + 0 - o) % B
      BY <1>2 DEF Slot
    <3>2. P + B + 0 - o = P + B - o
      BY <1>1, <1>3
    <3> QED BY <3>1, <3>2
  <2> HIDE DEF b
  <2>3. b \in Offsets /\ (b = P <=> o = 0)
    BY <1>1, <1>3, <2>1
  <2>4. read[b] = made[o]
    BY <1>5 DEF b
  <2>5. sent'[b] = (IF b = P THEN read[b] + 1 ELSE read[b]) /\ made'[o] = IF o = 0 THEN made[o] + 1 ELSE made[o]
    BY <1>1, <1>2, <1>3, <1>4, <2>3
  <2> QED BY <2>2, <2>3, <2>4, <2>5
<1>7. sent' \in [Offsets -> Nat] /\ made' \in [Offsets -> Nat]
  BY <1>1, <1>2, <1>3, <1>4
<1>8. \A o \in Offsets : ~(o < lag')
  BY <1>1, <1>2
<1> QED BY SMTT(20), <1>1, <1>2, <1>3, <1>6, <1>7, <1>8 DEF RingInv

LEMMA TickRing == ASSUME RingInv, Tick PROVE RingInv'
<1> DEFINE B == Buckets
<1>1. B \in Nat \ {0} /\ newest \in 0 .. B - 1 /\ lag \in 0 .. B /\ Offsets = 0 .. B - 1
      /\ made \in [Offsets -> Nat] /\ BucketTicks \in Nat \ {0} /\ partial \in 0 .. BucketTicks - 1
  BY PacingAssumption DEF RingInv, Offsets
<1>2. UNCHANGED <<sent, newest>> /\ partial' \in 0 .. BucketTicks - 1
  BY <1>1 DEF Tick
<1>3. CASE partial' # 0
  <2>1. UNCHANGED <<lag, made>>
    BY <1>3 DEF Tick
  <2> QED BY <1>2, <2>1 DEF RingInv, Slot
<1>4. CASE partial' = 0
  <2>1. /\ lag' = IF lag + 1 <= B THEN lag + 1 ELSE B
        /\ made' = [o \in Offsets |-> IF o = 0 THEN 0 ELSE made[o - 1]]
    BY <1>4 DEF Tick, Least
  <2>2. lag' \in 0 .. B /\ lag' > 0
    BY <1>1, <2>1
  <2>3. made' \in [Offsets -> Nat]
    <3>1. \A o \in Offsets : o # 0 => o - 1 \in Offsets
      BY <1>1
    <3> QED BY <1>1, <2>1, <3>1
  <2>4. ASSUME NEW o \in Offsets PROVE made'[o] = IF o < lag' THEN 0 ELSE sent'[Slot(o)']
    <3>1. CASE o = 0
      BY <2>1, <2>2, <3>1
    <3>2. CASE o # 0
      <4>1. o - 1 \in Offsets /\ made'[o] = made[o - 1]
        BY <1>1, <2>1, <3>2
      <4>2. made[o - 1] = IF o - 1 < lag THEN 0 ELSE sent[Slot(o - 1)]
        BY <4>1 DEF RingInv
      <4>3. CASE lag + 1 <= B
        <5>1. lag' = lag + 1 /\ (o - 1 < lag <=> o < lag') /\ newest + B + lag - (o - 1) = newest + B + lag' - o
          BY <1>1, <2>1, <4>3
        <5>2. Slot(o)' = Slot(o - 1)
          BY <1>2, <5>1 DEF Slot
        <5> QED BY <1>2, <4>1, <4>2, <5>1, <5>2
      <4>4. CASE ~(lag + 1 <= B)
        <5>1. lag' = B /\ lag = B /\ o < lag' /\ o - 1 < lag
          BY <1>1, <2>1, <4>4
        <5> QED BY <4>1, <4>2, <5>1
      <4> QED BY <4>3, <4>4
    <3> QED BY <3>1, <3>2
  <2> QED BY <1>1, <1>2, <2>2, <2>3, <2>4 DEF RingInv
<1> QED BY <1>3, <1>4

-----------------------------------------------------------------------------
(* Every step, and the theorems                                              *)

LEMMA NextAll == ASSUME AllInv, [Next]_vars PROVE AllInv'
<1> USE DEF AllInv
<1>1. CASE UNCHANGED vars
  <2>1. UNCHANGED <<phase, nap, line, due, penalty, free, waiters, ended, outgoing, sent, newest, lag, made>>
        /\ UNCHANGED <<partial, fresh>>
    BY <1>1 DEF vars, limiter, slots, meter
  <2>2. GateInv' /\ OutgoingOK'
    BY <2>1 DEF GateInv, OutgoingOK, At, Holders, QueueOf
  <2>3. ClockInv' /\ RingInv'
    BY <2>1 DEF ClockInv, ServesItsPenalty, RingInv, Slot
  <2> QED BY <2>2, <2>3
<1>2. CASE Next
  <2>1. OutgoingOK'
    BY <1>2, QueueStep
  <2>2. RingInv'
    <3>1. CASE UNCHANGED <<meter, partial>>
      BY <3>1 DEF RingInv, Slot, meter
    <3>2. \/ UNCHANGED <<meter, partial>> \/ Tick \/ \E s \in Senders : Submit(s)
      BY <1>2 DEF Next, Works, Ask, Wake, TakeToken, Enqueue, Answer, GiveUp, Settle, Leave, Abandon, SessionEnds, Write
    <3> QED BY <3>1, <3>2, TickRing, SubmitRing
  <2>3. ClockInv'
    BY <1>2, LimiterClock, LaterClock, TickClock DEF Next, Works
  <2>4. GateInv'
    <3>1. ASSUME NEW s \in Senders, Submit(s) \/ Enqueue(s) \/ Answer(s) \/ GiveUp(s) \/ Settle(s)
          PROVE  GateInv'
      <4>1. UNCHANGED <<line, free, waiters, ended>> /\ phase[s] \in Held
        BY <3>1 DEF Submit, Enqueue, Answer, GiveUp, Settle, limiter, slots, Held
      <4>2. \E to \in Held : Moves(s, to)
        BY <3>1 DEF Submit, Enqueue, Refused, Answer, GiveUp, Settle, Held
      <4> QED BY <4>1, <4>2, KeepsItsSlot
    <3>2. ASSUME NEW s \in Senders, Leave(s) PROVE GateInv'
      <4>1. phase[s] \in Held /\ line' = line /\ ended' = ended
        BY <3>2 DEF Leave, Held, limiter
      <4> QED BY <3>2, <4>1, SlotGate DEF Leave
    <3>3. CASE Tick \/ Write
      <4>1. UNCHANGED <<phase, free, ended, line, waiters>>
        BY <3>3 DEF Tick, Write, slots, limiter
      <4> QED BY <4>1 DEF GateInv, At, Holders, QueueOf
    <3> QED BY <1>2, <3>1, <3>2, <3>3, AskGate, TokenGate, AbandonGate, EndGate DEF Next, Works
  <2> QED BY <2>1, <2>2, <2>3, <2>4
<1> QED BY <1>1, <1>2

THEOREM PacingAlways == Spec => []AllInv
<1>1. Init => AllInv
  BY InitAll
<1>2. AllInv /\ [Next]_vars => AllInv'
  BY NextAll
<1> QED BY <1>1, <1>2, PTL DEF Spec

(* The slots that are not free are the requests between their admission and  *)
(* their outcome, each queue is the requests parked on it, and each bucket   *)
(* of the ring is the submissions of its span of time (writer.rs, window.rs, *)
(* limiter.rs, metrics.rs).                                                  *)
THEOREM PacingInvariant == Spec => []PacingInv
<1>1. AllInv => PacingInv
  <2> SUFFICES ASSUME AllInv PROVE PacingInv
    OBVIOUS
  <2> USE DEF AllInv
  <2>1. TypeOK
    BY DEF TypeOK, GateInv, ClockInv, OutgoingOK, RingInv, QueueOf
  <2>2. OccupancyIsExact
    BY DEF OccupancyIsExact, GateInv, Holders
  <2>3. QueuesAreTheParked
    BY DEF QueuesAreTheParked, GateInv, QueueOf, At
  <2>4. RingIsTheWindow
    BY ReadIs DEF RingIsTheWindow
  <2> QED BY <2>1, <2>2, <2>3, <2>4 DEF PacingInv
<1> QED BY <1>1, PacingAlways, PTL

(* A request begun after a throttling status takes no token before the       *)
(* cooling-off period is over (limiter.rs, penalise and serve_penalty).      *)
THEOREM PacingCooldownHolds == Spec => CooldownHolds
<1>1. ASSUME AllInv, [Next]_vars
      PROVE  [\A s \in Senders : TakeToken(s) /\ s \in fresh => penalty = 0]_vars
  BY <1>1 DEF AllInv, ClockInv, ServesItsPenalty, TakeToken
<1> QED BY <1>1, PacingAlways, PTL DEF Spec, CooldownHolds

=============================================================================
