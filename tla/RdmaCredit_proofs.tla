------------------------- MODULE RdmaCredit_proofs -------------------------
(***************************************************************************)
(* The accounts of the ns-3 host, for any senders, messages, losses,       *)
(* bounces and copies: the receiver counts every byte of credit that can   *)
(* still become data, so it grants no sender and no bucket more than its   *)
(* bound; it charges a sender for all that its messages were granted and   *)
(* did not receive; no grant finds its ReceiverState gone; and, where      *)
(* self-allocated messages do not share a pool, no demand is lost.         *)
(***************************************************************************)
EXTENDS RdmaCreditBouncer_proofs, SumTheorems

(***************************************************************************)
(* Hypotheses.  Requests come in the order they are sent and are not lost, *)
(* and a full chunk fills the smallest frame.  Sizes are any, so that the  *)
(* last frame of a portion may be padded, and messages of any class share  *)
(* the pool of their sender.                                               *)
(***************************************************************************)
FramesFit == MinFrame <= MTU + Overhead
OrderedRequests == ~EarlyData /\ "GRANT_REQ" \notin Lossy
Ordinary == OrderedRequests /\ FramesFit

W(x) == AddHeader(x, TRUE)

\* A part of a message that leaves whole chunks behind, or nothing.
Portion(m, own) ==
  /\ own.data \in Nat /\ own.data <= Size[m] /\ own.wire = W(own.data)
  /\ (own.data % MTU = 0 \/ own.data = Size[m])
  /\ W(Size[m]) = W(own.data) + W(Size[m] - own.data)

(***************************************************************************)
(* What holds of the hosts and the packets, besides IInv.                  *)
(***************************************************************************)
Listed(s) == IF s \in DOMAIN senderStates THEN senderStates[s].msgs ELSE {}

SenderInv(m) ==
  /\ Portion(m, self[m])
  /\ class[m] = "unknown" => next[m] = 0 /\ ~announced[m]
  /\ class[m] \in {"unknown", "scheduled"} => self[m] = NoCredit
  /\ class[m] \in {"unscheduled", "unsolicited"} => self[m] # NoCredit
  /\ next[m] > 0 => announced[m]
  /\ state[m] = "new" => class[m] = "unknown"
  /\ state[m] = "active" =>
       Src[m] \in DOMAIN receiverStates /\ m \in receiverStates[Src[m]].msgs
  /\ state[m] = "done" => m \in DOMAIN rxQp /\ rxQp[m].done
  /\ class[m] = "scheduled" /\ announced[m] /\ m \notin DOMAIN rxQp =>
       GrantReq(m) \in DOMAIN net

PeerInv ==
  \A s \in DOMAIN receiverStates :
    receiverStates[s].enabled /\ receiverStates[s].thresh = UnsolThresh

ReceiverInv(m) ==
  m \in DOMAIN rxQp =>
    /\ announced[m] /\ rxQp[m].accounted /\ rxQp[m].pending \in Nat
    /\ rxQp[m].chunks \subseteq First(m)
    /\ rxQp[m].done => state[m] = "done" /\ rxQp[m].chunks = Chunk(m)
    /\ ~rxQp[m].done => Src[m] \in DOMAIN senderStates /\ m \in Listed(Src[m])

CreditPacket(p) ==
  /\ p.msg \in DOMAIN rxQp /\ p.data \in Nat /\ p.data > 0
  /\ p.wire = W(p.data)

DataPacket(p) ==
  /\ p.chunk < next[p.msg] /\ announced[p.msg] /\ p.own \in {self[p.msg], NoCredit}
  /\ p.msg \notin DOMAIN rxQp => p.own = self[p.msg]

PacketInv(p) ==
  /\ p.kind \in {"GRANT", "BOUNCED"} => CreditPacket(p)
  /\ p.kind = "REQUEST" => DataPacket(p)
  /\ p.kind = "GRANT_REQ" => class[p.msg] = "scheduled" /\ announced[p.msg]
  /\ p.kind = "RESEND" => p.msg \in DOMAIN rxQp

HostInv ==
  /\ Ordinary
  /\ \A m \in Message : SenderInv(m) /\ ReceiverInv(m)
  /\ \A s \in Sender : OutData(s) \in Nat /\ IsFiniteSet(InFlight(s))
  /\ PeerInv

NetInv == \A p \in DOMAIN net : PacketInv(p)

(***************************************************************************)
(* Two ledgers of each sender.  The first says where its credit came from: *)
(* what it was granted or gave itself, less what it spent, and less what   *)
(* was lost.  The second is CreditIsCounted.  The first keeps the second   *)
(* when the receiver forgets the sender with its last message.             *)
(*                                                                         *)
(* What a message may still be granted is less than what its demand and    *)
(* its grants on their way would fill as full frames: a grant may come     *)
(* back, be cut, and be granted with other demand, in other frames.  Only  *)
(* the tail of the message is a short frame, once, as long as a part has   *)
(* an end no longer than it.                                               *)
(***************************************************************************)
Grants(m) ==
  {p \in Sent : /\ p.kind \in {"GRANT", "BOUNCED"} /\ p.msg = m
                /\ p.data \in Nat /\ p.wire = W(p.data)}

\* The packets of a bag that are in a set, and the sum of their weights.
InBag(B, K) == DOMAIN B \cap K
WeightIn(B, K, w) == SumFunctionOnSet([p \in InBag(B, K) |-> w[p] * B[p]], InBag(B, K))

Frames(x) == (MTU + Overhead) * Count(x)
Spare(m) == [p \in Grants(m) |-> Frames(p.data) - p.wire]
InTail(m, x) == x % MTU \in 1 .. Size[m] % MTU
Short(m) == (MTU + Overhead) - W(Size[m] % MTU)
Ends(m, x, B) == InTail(m, x) \/ \E p \in InBag(B, Grants(m)) : InTail(m, p.data)

\* What message m may be granted with demand x and packets B on their way.
Reserve(m, x, B) ==
  (Frames(x) + WeightIn(B, Grants(m), Spare(m))) - IF Ends(m, x, B) THEN Short(m) ELSE 0

Spent(m) == SumFunctionOnSet([i \in Chunk(m) |-> Wire(m, i)], First(m))

Paid(m) ==
  IF m \in DOMAIN rxQp THEN W(Size[m]) - Reserve(m, rxQp[m].pending, net)
  ELSE self[m].wire

Slack(m) == Paid(m) - Spent(m)
Due(m) == Lent(m) - Unpaid(m)

Usable(s) == Held(s) + Flying(s)
Ledger(s) ==
  Usable(s) <= SumFunctionOnSet([m \in Messages(s) |-> Slack(m)], Messages(s))
Counted(s) ==
  Usable(s) <= SumFunctionOnSet([m \in Messages(s) |-> Due(m)], Messages(s))
               + OutWire(s)

(***************************************************************************)
(* Two accounts of the global bucket: the credit of all senders is in it,  *)
(* and it holds what is granted and what the announcements brought.        *)
(***************************************************************************)
Brought(m) == IF m \in Known THEN self[m].wire ELSE 0

BucketCovers ==
  SumFunctionOnSet([s \in Sender |-> Usable(s)], Sender)
    <= SumFunctionOnSet([m \in Message |-> Due(m)], Message) + globalOut
BucketHolds ==
  GlobalBucket > 0 =>
    globalOut <= GlobalBucket + SumFunctionOnSet([m \in Message |-> Brought(m)], Message)

CreditInv ==
  /\ IInv /\ HostInv /\ NetInv
  /\ \A s \in Sender : Ledger(s) /\ Counted(s)
  /\ BucketCovers /\ BucketHolds
-----------------------------------------------------------------------------
(* Bytes. *)

\* The bytes on the wire of the part that does not fill a chunk.
Rest(r) == IF r = 0 THEN 0 ELSE Most(r + Overhead, MinFrame)

\* Every payload is full chunks and a rest, in one way.
LEMMA Chunked ==
  ASSUME NEW x \in Nat
  PROVE  \E k \in Nat, r \in 0 .. MTU - 1 : x = k * MTU + r
<1>1. MTU \in Nat \ {0}
  BY FrameAssumption
<1> DEFINE k == x \div MTU
           r == x % MTU
<1>2. k \in Nat /\ r \in 0 .. MTU - 1 /\ x = MTU * k + r
  BY <1>1
<1> HIDE DEF k, r
<1>3. MTU * k = k * MTU
  BY <1>1, <1>2
<1>4. x = k * MTU + r
  BY <1>2, <1>3
<1>5. QED
  BY <1>2, <1>4

LEMMA ChunkedOnce ==
  ASSUME NEW k \in Nat, NEW r \in 0 .. MTU - 1
  PROVE  (k * MTU + r) \div MTU = k /\ (k * MTU + r) % MTU = r
<1> DEFINE x == k * MTU + r
           a == x \div MTU
           b == x % MTU
<1>1. MTU \in Nat \ {0}
  BY FrameAssumption
<1>2. x \in Nat
  <2>1. k * MTU \in Nat
    BY <1>1
  <2>2. QED
    BY <1>1, <2>1
<1> HIDE DEF x
<1>3. a \in Nat /\ b \in 0 .. MTU - 1 /\ x = MTU * a + b
  BY <1>1, <1>2
<1> HIDE DEF a, b
<1>4. MTU * a = a * MTU /\ a * MTU \in Nat /\ k * MTU \in Nat
  BY <1>1, <1>3
<1>5. a * MTU + b = k * MTU + r
  BY <1>3, <1>4 DEF x
<1>6. CASE a < k
  <2>1. (a + 1) * MTU <= k * MTU
    BY <1>1, <1>3, <1>6
  <2>2. (a + 1) * MTU = a * MTU + MTU
    BY <1>1, <1>3
  <2>3. QED
    BY <1>1, <1>3, <1>4, <1>5, <2>1, <2>2
<1>7. CASE k < a
  <2>1. (k + 1) * MTU <= a * MTU
    BY <1>1, <1>3, <1>7
  <2>2. (k + 1) * MTU = k * MTU + MTU
    BY <1>1
  <2>3. QED
    BY <1>1, <1>3, <1>4, <1>5, <2>1, <2>2
<1>8. CASE a = k
  BY <1>3, <1>4, <1>5, <1>8 DEF a, b, x
<1>9. QED
  BY <1>3, <1>6, <1>7, <1>8

LEMMA RestBounds ==
  ASSUME FramesFit
  PROVE  /\ MinFrame <= MTU + Overhead
         /\ \A r \in 0 .. MTU - 1 : Rest(r) \in Nat /\ Rest(r) <= MTU + Overhead
  BY FrameAssumption DEF FramesFit, Rest, Most

\* The bytes on the wire of full chunks and a rest.
LEMMA WireSplit ==
  ASSUME FramesFit, NEW k \in Nat, NEW r \in 0 .. MTU - 1
  PROVE  W(k * MTU + r) = k * (MTU + Overhead) + Rest(r)
<1> DEFINE F == MTU + Overhead
           x == k * MTU + r
<1>1. MTU \in Nat \ {0} /\ F \in Nat \ {0} /\ MinFrame <= F /\ MinFrame \in Nat
  BY RestBounds, FrameAssumption
<1>2. x \div MTU = k /\ x % MTU = r
  BY ChunkedOnce
<1>3. x > 0 <=> k > 0 \/ r > 0
  <2>1. k * MTU \in Nat /\ (k > 0 => k * MTU > 0) /\ (k = 0 => k * MTU = 0)
    BY <1>1
  <2>2. QED
    BY <1>1, <2>1
<1>4. k * F \in Nat /\ (k > 0 => k * F >= F)
  <2> HIDE DEF F
  <2>1. k * F \in Nat
    BY <1>1
  <2>2. ASSUME k > 0 PROVE k * F >= F
    <3>1. k * F >= 1 * F
      BY <1>1, <2>2
    <3>2. QED
      BY <1>1, <3>1
  <2>3. QED
    BY <2>1, <2>2
<1> HIDE DEF x, F
<1>5. W(x) = IF r > 0 THEN k * F + Most(r + Overhead, MinFrame)
             ELSE IF x > 0 THEN Most(k * F, MinFrame) ELSE k * F
  BY <1>2 DEF W, AddHeader, F
<1>6. CASE r > 0
  BY <1>5, <1>6 DEF Rest, x, F
<1>7. CASE r = 0 /\ k > 0
  <2>1. Most(k * F, MinFrame) = k * F
    BY <1>1, <1>4, <1>7 DEF Most
  <2>2. QED
    BY <1>3, <1>4, <1>5, <1>7, <2>1 DEF Rest, x, F
<1>8. CASE r = 0 /\ k = 0
  <2>1. W(x) = k * F
    BY <1>3, <1>5, <1>8
  <2>2. QED
    BY <1>4, <1>8, <2>1 DEF Rest, x, F
<1>9. QED
  BY <1>6, <1>7, <1>8

LEMMA WireNat ==
  ASSUME FramesFit
  PROVE  /\ \A x \in Nat : W(x) \in Nat
         /\ W(0) = 0
         /\ \A x \in Nat \ {0} : W(x) > 0
<1>1. \A x \in Nat : W(x) \in Nat
  BY AddHeaderType DEF W
<1>2. MTU \in Nat \ {0} /\ Overhead \in Nat /\ MinFrame \in Nat \ {0}
  BY FrameAssumption
<1>3. W(0) = 0
  <2>1. 0 \in 0 .. MTU - 1 /\ 0 * MTU + 0 = 0 /\ 0 * (MTU + Overhead) + Rest(0) = 0
    BY <1>2 DEF Rest
  <2>2. W(0 * MTU + 0) = 0 * (MTU + Overhead) + Rest(0)
    BY <2>1, WireSplit
  <2>3. QED
    BY <2>1, <2>2
<1>4. ASSUME NEW x \in Nat \ {0} PROVE W(x) > 0
  <2>1. PICK k \in Nat, r \in 0 .. MTU - 1 : x = k * MTU + r
    BY Chunked
  <2>2. W(x) = k * (MTU + Overhead) + Rest(r)
    BY <2>1, WireSplit
  <2>3. k * (MTU + Overhead) \in Nat /\ Rest(r) \in Nat
    BY <1>2, RestBounds
  <2>4. CASE r > 0
    <3>1. Rest(r) > 0
      BY <1>2, <2>4 DEF Rest, Most
    <3>2. QED
      BY <2>2, <2>3, <3>1
  <2>5. CASE r = 0
    <3>1. k # 0
      <4>1. 0 * MTU = 0
        BY <1>2
      <4>2. QED
        BY <2>1, <2>5, <4>1
    <3>2. k * (MTU + Overhead) > 0
      BY <1>2, <3>1
    <3>3. QED
      BY <2>2, <2>3, <3>2
  <2>6. QED
    BY <2>4, <2>5
<1>5. QED
  BY <1>1, <1>3, <1>4

\* Two payloads, one of full chunks.
LEMMA WireAdd ==
  ASSUME FramesFit,
         NEW x \in Nat, NEW y \in Nat, x % MTU = 0
  PROVE  W(x + y) = W(x) + W(y)
<1> DEFINE F == MTU + Overhead
<1>1. MTU \in Nat \ {0} /\ F \in Nat
  BY FrameAssumption
<1>2. PICK k \in Nat, a \in 0 .. MTU - 1 : x = k * MTU + a
  BY Chunked
<1>3. a = 0
  BY <1>2, ChunkedOnce
<1>4. PICK j \in Nat, r \in 0 .. MTU - 1 : y = j * MTU + r
  BY Chunked
<1>5. x + y = (k + j) * MTU + r
  <2>1. (k + j) * MTU = k * MTU + j * MTU /\ k * MTU \in Nat /\ j * MTU \in Nat
    BY <1>1
  <2>2. QED
    BY <1>1, <1>2, <1>3, <1>4, <2>1
<1>6. /\ W(x) = k * F + Rest(0)
      /\ W(y) = j * F + Rest(r)
      /\ W(x + y) = (k + j) * F + Rest(r)
  <2>1. W(x) = k * F + Rest(0)
    BY <1>2, <1>3, WireSplit
  <2>2. W(y) = j * F + Rest(r)
    BY <1>4, WireSplit
  <2>3. k + j \in Nat
    OBVIOUS
  <2>4. W((k + j) * MTU + r) = (k + j) * F + Rest(r)
    BY <2>3, WireSplit
  <2>5. QED
    BY <1>5, <2>1, <2>2, <2>4
<1>7. Rest(0) = 0 /\ Rest(r) \in Nat
  BY RestBounds DEF Rest
<1> HIDE DEF F
<1>8. (k + j) * F = k * F + j * F /\ k * F \in Nat /\ j * F \in Nat
  BY <1>1
<1>9. QED
  BY <1>6, <1>7, <1>8

\* More payload needs no fewer bytes on the wire.
LEMMA WireMonotone ==
  ASSUME FramesFit, NEW x \in Nat, NEW y \in Nat, x <= y
  PROVE  W(x) <= W(y)
<1> DEFINE F == MTU + Overhead
<1>1. MTU \in Nat \ {0} /\ F \in Nat /\ Overhead \in Nat /\ MinFrame \in Nat
  BY FrameAssumption
<1>2. PICK k \in Nat, a \in 0 .. MTU - 1 : x = k * MTU + a
  BY Chunked
<1>3. PICK j \in Nat, b \in 0 .. MTU - 1 : y = j * MTU + b
  BY Chunked
<1>4. W(x) = k * F + Rest(a) /\ W(y) = j * F + Rest(b)
  BY <1>2, <1>3, WireSplit
<1>5. Rest(a) \in Nat /\ Rest(b) \in Nat /\ Rest(a) <= F
  BY RestBounds
<1>6. CASE k = j
  <2>1. k * MTU \in Nat
    BY <1>1
  <2>2. a <= b
    BY <1>1, <1>2, <1>3, <1>6, <2>1
  <2>3. Rest(a) <= Rest(b)
    BY <1>1, <2>2 DEF Rest, Most
  <2> HIDE DEF F
  <2>4. k * F \in Nat
    BY <1>1
  <2>5. QED
    BY <1>4, <1>5, <1>6, <2>3, <2>4
<1>7. CASE k < j
  <2> HIDE DEF F
  <2>1. (k + 1) * F <= j * F /\ (k + 1) * F = k * F + F /\ k * F \in Nat /\ j * F \in Nat
    BY <1>1, <1>7
  <2>2. QED
    BY <1>1, <1>4, <1>5, <2>1
<1>8. CASE j < k
  <2>1. /\ (j + 1) * MTU <= k * MTU /\ (j + 1) * MTU = j * MTU + MTU
        /\ k * MTU \in Nat /\ j * MTU \in Nat
    BY <1>1, <1>8
  <2>2. QED
    BY <1>1, <1>2, <1>3, <2>1
<1>9. QED
  BY <1>6, <1>7, <1>8

\* Full chunks leave no rest.
LEMMA FullChunks ==
  ASSUME NEW k \in Nat
  PROVE  k * MTU \in Nat /\ (k * MTU) % MTU = 0
<1>1. MTU \in Nat \ {0}
  BY FrameAssumption
<1>2. 0 \in 0 .. MTU - 1 /\ k * MTU \in Nat /\ k * MTU + 0 = k * MTU
  BY <1>1
<1>3. (k * MTU) % MTU = 0
  BY <1>2, ChunkedOnce
<1>4. QED
  BY <1>2, <1>3

LEMMA SizeNat ==
  ASSUME NEW m \in Message
  PROVE  Size[m] \in Nat /\ Size[m] > 0
  BY MessageAssumption

\* What is granted of a payload: whole chunks, or all of it.
LEMMA AlignedPortion ==
  ASSUME FramesFit, NEW bytes \in Nat, NEW whole \in Nat
  PROVE  LET data == AlignChunks(bytes, whole)
         IN /\ data \in Nat /\ data <= whole /\ data <= bytes
            /\ whole - data \in Nat /\ (data % MTU = 0 \/ data = whole)
            /\ W(whole) = W(data) + W(whole - data)
<1> DEFINE data == AlignChunks(bytes, whole)
<1>1. MTU \in Nat \ {0} /\ whole \in Nat
  BY FrameAssumption
<1>2. CASE bytes >= whole
  <2>1. data = whole /\ whole - whole = 0
    BY <1>1, <1>2 DEF AlignChunks
  <2>2. W(0) = 0 /\ W(whole) \in Nat
    BY <1>1, WireNat
  <2>3. QED
    BY <1>1, <1>2, <2>1, <2>2
<1>3. CASE bytes < whole
  <2> DEFINE k == bytes \div MTU
             r == bytes % MTU
  <2>1. data = k * MTU
    BY <1>1, <1>3 DEF AlignChunks
  <2>2. k \in Nat /\ r \in 0 .. MTU - 1 /\ bytes = MTU * k + r
    BY <1>1
  <2> HIDE DEF k, r, data
  <2>3. MTU * k = k * MTU /\ k * MTU \in Nat
    BY <1>1, <2>2
  <2>4. data % MTU = 0 /\ data \in Nat /\ data <= bytes
    BY <1>1, <2>1, <2>2, <2>3, FullChunks
  <2>5. data <= whole /\ whole - data \in Nat /\ data + (whole - data) = whole
    BY <1>1, <1>3, <2>4
  <2>6. W(data + (whole - data)) = W(data) + W(whole - data)
    BY <2>4, <2>5, WireAdd
  <2>7. QED
    BY <2>4, <2>5, <2>6 DEF data
<1>4. QED
  BY <1>1, <1>2, <1>3

\* What a grant asks for: such a portion of the demand of its message.
LEMMA AskPortion ==
  ASSUME FramesFit, NEW st \in SenderStateType, NEW q \in RxQpType
  PROVE  LET data == Ask(st, q)
         IN /\ data \in Nat /\ data <= q.pending /\ q.pending - data \in Nat
            /\ data % MTU = 0 \/ data = q.pending
<1> DEFINE unit == Most(IF st.gran > 0 THEN st.gran ELSE MTU, Least(q.pending, MTU))
           bytes == Least(Least(q.pending, unit), st.pending)
           data == Ask(st, q)
<1>1. st.gran \in Nat /\ q.pending \in Nat /\ st.pending \in Nat /\ MTU \in Nat
  BY FrameAssumption DEF SenderStateType, RxQpType
<1>2. Least(q.pending, MTU) \in Nat
  BY <1>1, LeastMost
<1>3. unit \in Nat
  BY <1>1, <1>2, LeastMost
<1>4. data = AlignChunks(bytes, q.pending)
  BY DEF Ask
<1> HIDE DEF unit
<1>5. Least(q.pending, unit) \in Nat
  BY <1>1, <1>3, LeastMost
<1>6. bytes \in Nat
  BY <1>1, <1>5, LeastMost
<1> HIDE DEF bytes, data
<1>7. /\ data \in Nat /\ data <= q.pending /\ q.pending - data \in Nat
      /\ data % MTU = 0 \/ data = q.pending
  BY <1>1, <1>4, <1>6, AlignedPortion
<1>8. QED
  BY <1>7 DEF data

\* The chunks of a message cut it into payloads.
LEMMA ChunksOf ==
  ASSUME NEW m \in Message
  PROVE  /\ Count(Size[m]) \in Nat
         /\ Count(Size[m]) * MTU >= Size[m]
         /\ \A i \in Chunk(m) : i \in Nat /\ i * MTU \in Nat /\ i * MTU < Size[m]
<1> DEFINE last == Size[m] + MTU - 1
           k == last \div MTU
           r == last % MTU
<1>1. MTU \in Nat \ {0} /\ Size[m] \in Nat \ {0} /\ last \in Nat
  BY FrameAssumption, MessageAssumption
<1>2. Count(Size[m]) = k
  BY DEF Count
<1> HIDE DEF last
<1>3. k \in Nat /\ r \in 0 .. MTU - 1 /\ last = MTU * k + r
  BY <1>1
<1> HIDE DEF k, r
<1>4. MTU * k = k * MTU /\ k * MTU \in Nat
  BY <1>1, <1>3
<1>5. k * MTU >= Size[m]
  BY <1>1, <1>3, <1>4 DEF last
<1>6. ASSUME NEW i \in Chunk(m) PROVE i \in Nat /\ i * MTU \in Nat /\ i * MTU < Size[m]
  <2>1. i \in Nat /\ i + 1 <= k
    BY <1>2, <1>3, <1>6 DEF Chunk
  <2>2. (i + 1) * MTU <= k * MTU /\ (i + 1) * MTU = i * MTU + MTU /\ i * MTU \in Nat
    BY <1>1, <1>3, <2>1
  <2>3. QED
    BY <1>1, <1>3, <1>4, <2>1, <2>2 DEF last
<1>7. QED
  BY <1>2, <1>3, <1>5, <1>6

LEMMA PayloadNat ==
  ASSUME FramesFit, NEW m \in Message, NEW i \in Chunk(m)
  PROVE  /\ Payload(m, i) \in Nat /\ Payload(m, i) > 0
         /\ Wire(m, i) = W(Payload(m, i)) /\ Wire(m, i) \in Nat /\ Wire(m, i) > 0
         /\ Least((i + 1) * MTU, Size[m]) = i * MTU + Payload(m, i)
<1>1. MTU \in Nat \ {0} /\ Size[m] \in Nat
  BY FrameAssumption, SizeNat
<1>2. i \in Nat /\ i * MTU \in Nat /\ i * MTU < Size[m]
  BY ChunksOf
<1>4. Size[m] - i * MTU \in Nat \ {0}
  <2> DEFINE off == i * MTU
  <2>1. off \in Nat /\ off < Size[m]
    BY <1>2
  <2> HIDE DEF off
  <2>2. Size[m] - off \in Nat \ {0}
    BY <1>1, <2>1
  <2>3. QED
    BY <2>2 DEF off
<1>5. Payload(m, i) \in Nat \ {0}
  <2> DEFINE left == Size[m] - i * MTU
  <2>1. Payload(m, i) = Least(MTU, left) /\ left \in Nat \ {0}
    BY <1>4 DEF Payload
  <2> HIDE DEF left
  <2>2. QED
    BY <1>1, <2>1 DEF Least
<1>6. (i + 1) * MTU = i * MTU + MTU
  BY <1>1, <1>2
<1>7. Least((i + 1) * MTU, Size[m]) = i * MTU + Payload(m, i)
  BY <1>1, <1>2, <1>4, <1>6 DEF Payload, Least
<1>8. Wire(m, i) = W(Payload(m, i))
  BY DEF Wire, W
<1>9. W(Payload(m, i)) \in Nat /\ W(Payload(m, i)) > 0
  BY <1>5, WireNat
<1>10. QED
  BY <1>5, <1>7, <1>8, <1>9

\* The frames of all chunks are the frames of the message, and their payloads
\* are its size.
LEMMA WholeMessage ==
  ASSUME FramesFit, NEW m \in Message
  PROVE  /\ IsFiniteSet(Chunk(m))
         /\ SumFunctionOnSet([i \in Chunk(m) |-> Wire(m, i)], Chunk(m)) = W(Size[m])
         /\ SumFunctionOnSet([i \in Chunk(m) |-> Payload(m, i)], Chunk(m)) = Size[m]
<1> DEFINE n == Count(Size[m])
           part == [i \in 0 .. n |-> Least(i * MTU, Size[m])]
           wire == [i \in 0 .. n |-> W(part[i])]
           wires == [i \in Chunk(m) |-> Wire(m, i)]
           loads == [i \in Chunk(m) |-> Payload(m, i)]
<1>1. /\ n \in Nat /\ Chunk(m) = 0 .. n - 1 /\ IsFiniteSet(Chunk(m))
      /\ MTU \in Nat \ {0} /\ Size[m] \in Nat
  <2>1. n \in Nat /\ Chunk(m) = 0 .. n - 1
    BY ChunksOf DEF Chunk
  <2> HIDE DEF n
  <2>2. QED
    BY <2>1, FS_Interval, FrameAssumption, MessageAssumption
<1>2. n * MTU >= Size[m] /\ n * MTU \in Nat
  BY <1>1, ChunksOf
<1> HIDE DEF n
<1>3. part[0] = 0 /\ part[n] = Size[m]
  <2>1. 0 * MTU = 0
    BY <1>1
  <2>2. QED
    BY <1>1, <1>2, <2>1 DEF Least
<1>4. ASSUME NEW i \in 0 .. n - 1
      PROVE  /\ part[i] = i * MTU /\ part[i + 1] = i * MTU + Payload(m, i)
             /\ i \in Chunk(m) /\ i * MTU \in Nat /\ Payload(m, i) \in Nat
  <2>1. i \in Chunk(m)
    BY <1>1
  <2>2. i \in Nat /\ i * MTU \in Nat /\ i * MTU < Size[m]
    BY <2>1, ChunksOf
  <2>3. i \in 0 .. n /\ i + 1 \in 0 .. n
    BY <1>1
  <2>4. part[i + 1] = i * MTU + Payload(m, i) /\ Payload(m, i) \in Nat
    BY <2>1, <2>3, PayloadNat
  <2>5. QED
    BY <1>1, <2>1, <2>2, <2>3, <2>4 DEF Least
<1>5. /\ wire[0] = 0 /\ wire[n] = W(Size[m])
  BY <1>1, <1>3, WireNat
<1>6. ASSUME NEW i \in 0 .. n - 1
      PROVE  /\ wires[i] \in Int /\ wire[i] \in Int
             /\ wire[i + 1] = wire[i] + wires[i]
  <2>1. i \in Chunk(m) /\ i \in 0 .. n /\ i + 1 \in 0 .. n
    BY <1>1
  <2>2. wire[i] = W(i * MTU) /\ wire[i + 1] = W(i * MTU + Payload(m, i))
    BY <1>4, <2>1
  <2>3. wires[i] = W(Payload(m, i)) /\ wires[i] \in Nat
    BY <2>1, PayloadNat
  <2>4. (i * MTU) % MTU = 0
    BY <1>4, FullChunks
  <2>5. W(i * MTU + Payload(m, i)) = W(i * MTU) + W(Payload(m, i))
    BY <1>4, <2>4, WireAdd
  <2>6. W(i * MTU) \in Nat
    BY <1>4, WireNat
  <2> HIDE DEF wire, wires
  <2>7. QED
    BY <2>2, <2>3, <2>5, <2>6
<1>7. ASSUME NEW i \in 0 .. n - 1
      PROVE  /\ loads[i] \in Int /\ part[i] \in Int
             /\ part[i + 1] = part[i] + loads[i]
  <2>1. loads[i] = Payload(m, i)
    BY <1>1
  <2> HIDE DEF part, loads
  <2>2. QED
    BY <1>4, <2>1
<1> HIDE DEF part, wire, wires, loads
<1>8. SumFunctionOnSet(wires, 0 .. n - 1) = W(Size[m])
  <2>1. SumFunctionOnSet(wires, 0 .. n - 1) = wire[n]
    <3>1. wire[0] = 0 /\ n \in Nat
      BY <1>1, <1>5
    <3>2. QED
      BY <1>6, <3>1, SumFirst, ZenonT(30)
  <2>2. QED
    BY <1>5, <2>1
<1>9. SumFunctionOnSet(loads, 0 .. n - 1) = Size[m]
  <2>1. SumFunctionOnSet(loads, 0 .. n - 1) = part[n]
    <3>1. part[0] = 0 /\ n \in Nat
      BY <1>1, <1>3
    <3>2. QED
      BY <1>7, <3>1, SumFirst, ZenonT(30)
  <2>2. QED
    BY <1>3, <2>1
<1>10. QED
  BY <1>1, <1>8, <1>9 DEF wires, loads
-----------------------------------------------------------------------------
(* Frames: what parts of a message fill. *)

LEMMA CountSplit ==
  ASSUME NEW k \in Nat, NEW r \in 0 .. MTU - 1
  PROVE  Count(k * MTU + r) = IF r = 0 THEN k ELSE k + 1
<1>1. MTU \in Nat \ {0} /\ k * MTU \in Nat
  BY FrameAssumption
<1>2. CASE r = 0
  <2>1. MTU - 1 \in 0 .. MTU - 1 /\ k * MTU + r + MTU - 1 = k * MTU + (MTU - 1)
    BY <1>1, <1>2
  <2>2. (k * MTU + (MTU - 1)) \div MTU = k
    BY <2>1, ChunkedOnce
  <2>3. QED
    BY <1>2, <2>1, <2>2 DEF Count
<1>3. CASE r # 0
  <2>1. (k + 1) * MTU = k * MTU + MTU /\ k + 1 \in Nat
    BY <1>1
  <2>2. r - 1 \in 0 .. MTU - 1 /\ k * MTU + r + MTU - 1 = (k + 1) * MTU + (r - 1)
    BY <1>1, <1>3, <2>1
  <2>3. ((k + 1) * MTU + (r - 1)) \div MTU = k + 1
    BY <2>1, <2>2, ChunkedOnce
  <2>4. QED
    BY <1>3, <2>2, <2>3 DEF Count
<1>4. QED
  BY <1>2, <1>3

\* Frames of a payload in chunks and a rest.
LEMMA FramesSplit ==
  ASSUME FramesFit, NEW m \in Message, NEW k \in Nat, NEW r \in 0 .. MTU - 1
  PROVE  LET x == k * MTU + r
         IN /\ Frames(x) = k * (MTU + Overhead) + IF r = 0 THEN 0 ELSE MTU + Overhead
            /\ InTail(m, x) <=> r >= 1 /\ r <= Size[m] % MTU
            /\ Frames(x) \in Nat /\ x \in Nat
<1> DEFINE F == MTU + Overhead
           x == k * MTU + r
<1>1. MTU \in Nat \ {0} /\ F \in Nat /\ k * MTU \in Nat
  BY FrameAssumption
<1>2. Count(x) = IF r = 0 THEN k ELSE k + 1
  BY CountSplit
<1>3. x % MTU = r
  BY ChunkedOnce
<1>4. InTail(m, x) <=> r >= 1 /\ r <= Size[m] % MTU
  <2>1. Size[m] % MTU \in Nat
    BY <1>1, SizeNat
  <2>2. QED
    BY <1>1, <1>3, <2>1 DEF InTail
<1>5. x \in Nat
  BY <1>1
<1>6. Frames(x) = F * (IF r = 0 THEN k ELSE k + 1)
  BY <1>2 DEF Frames
<1> HIDE DEF F, x
<1>7. F * k = k * F /\ F * (k + 1) = k * F + F /\ k * F \in Nat
  BY <1>1
<1>8. Frames(x) = (k * F + IF r = 0 THEN 0 ELSE F) /\ Frames(x) \in Nat
  BY <1>1, <1>6, <1>7
<1>9. QED
  BY <1>4, <1>5, <1>8 DEF F, x

\* A payload fills no more than its frames, and one that ends within the tail
\* of its message leaves as much as the tail does.
LEMMA FramesFill ==
  ASSUME FramesFit, NEW m \in Message, NEW x \in Nat
  PROVE  /\ Frames(x) \in Nat /\ W(x) \in Nat /\ W(x) <= Frames(x)
         /\ x > 0 => Frames(x) >= MTU + Overhead
         /\ Short(m) \in Int /\ Short(m) >= 0
         /\ InTail(m, x) => W(x) + Short(m) <= Frames(x)
         /\ InTail(m, x) => x > 0 /\ Short(m) < MTU + Overhead
         /\ Frames(0) = 0 /\ ~InTail(m, 0)
<1> DEFINE F == MTU + Overhead
           t == Size[m] % MTU
<1>1. MTU \in Nat \ {0} /\ F \in Nat /\ t \in 0 .. MTU - 1 /\ Overhead \in Nat /\ MinFrame \in Nat
  BY FrameAssumption, SizeNat
<1>2. PICK k \in Nat, r \in 0 .. MTU - 1 : x = k * MTU + r
  BY Chunked
<1>3. /\ Frames(x) = k * F + IF r = 0 THEN 0 ELSE F
      /\ InTail(m, x) <=> r >= 1 /\ r <= t
      /\ Frames(x) \in Nat
  BY <1>2, FramesSplit
<1>4. W(x) = k * F + Rest(r)
  BY <1>2, WireSplit
<1>5. W(t) = Rest(t)
  <2>1. 0 * MTU + t = t /\ 0 * F + Rest(t) = Rest(t)
    <3>1. t \in Nat /\ Rest(t) \in Nat
      BY <1>1, RestBounds
    <3> HIDE DEF t, F
    <3>2. QED
      BY <1>1, <3>1
  <2>2. W(0 * MTU + t) = 0 * F + Rest(t)
    BY <1>1, WireSplit
  <2>3. QED
    BY <2>1, <2>2
<1>6. /\ Rest(r) \in Nat /\ Rest(r) <= F /\ Rest(t) \in Nat /\ Rest(t) <= F
  BY <1>1, RestBounds
<1>7. Rest(0) = 0 /\ (r >= 1 /\ r <= t => Rest(r) <= Rest(t) /\ Rest(t) > 0)
  BY <1>1 DEF Rest, Most
<1>8. Short(m) = F - Rest(t)
  <2>1. Short(m) = F - W(t)
    BY DEF Short
  <2>2. QED
    BY <1>5, <2>1
<1>9. Frames(0) = 0 /\ ~InTail(m, 0)
  <2>1. 0 \in 0 .. MTU - 1 /\ 0 * MTU + 0 = 0 /\ 0 * F + 0 = 0
    <3> HIDE DEF F
    <3>1. QED
      BY <1>1
  <2>2. Frames(0 * MTU + 0) = 0 * F + (IF 0 = 0 THEN 0 ELSE F)
        /\ (InTail(m, 0 * MTU + 0) <=> 0 >= 1 /\ 0 <= t)
    BY <2>1, FramesSplit
  <2>3. QED
    BY <2>1, <2>2
<1> HIDE DEF F, t
<1>10. k * F \in Nat /\ (k > 0 => k * F >= F)
  <2>1. k * F \in Nat
    BY <1>1
  <2>2. ASSUME k > 0 PROVE k * F >= F
    <3>1. k * F >= 1 * F /\ 1 * F = F
      BY <1>1, <2>2
    <3>2. QED
      BY <3>1
  <2>3. QED
    BY <2>1, <2>2
<1>11. x > 0 => k > 0 \/ r > 0
  <2>1. 0 * MTU = 0
    BY <1>1
  <2>2. QED
    BY <1>1, <1>2, <2>1
<1>12. Frames(x) \in Nat /\ W(x) \in Nat /\ W(x) <= Frames(x)
  BY <1>1, <1>3, <1>4, <1>6, <1>7, <1>10
<1>13. x > 0 => Frames(x) >= F
  BY <1>1, <1>3, <1>10, <1>11
<1>14. InTail(m, x) => /\ W(x) + Short(m) <= Frames(x) /\ x > 0 /\ Short(m) < F
  <2>1. r >= 1 => x > 0
    <3>1. k * MTU \in Nat
      BY <1>1
    <3>2. QED
      BY <1>2, <3>1
  <2>2. QED
    BY <1>1, <1>3, <1>4, <1>6, <1>7, <1>8, <1>10, <2>1
<1>15. Short(m) \in Int /\ Short(m) >= 0
  BY <1>1, <1>6, <1>8
<1>16. QED
  BY <1>9, <1>12, <1>13, <1>14, <1>15 DEF F

\* Demand that is granted keeps its frames and its end.
LEMMA FramesGranted ==
  ASSUME FramesFit, NEW m \in Message, NEW x \in Nat, NEW d \in Nat,
         d % MTU = 0 \/ x = 0
  PROVE  /\ Frames(x + d) = Frames(x) + Frames(d)
         /\ InTail(m, x + d) <=> InTail(m, x) \/ InTail(m, d)
<1> DEFINE F == MTU + Overhead
<1>1. MTU \in Nat \ {0} /\ F \in Nat
  BY FrameAssumption
<1>2. CASE x = 0
  <2>1. x + d = d /\ Frames(0) = 0 /\ ~InTail(m, 0) /\ Frames(d) \in Nat
    BY <1>2, FramesFill
  <2>2. QED
    BY <1>2, <2>1
<1>3. CASE d % MTU = 0
  <2>1. PICK k \in Nat, a \in 0 .. MTU - 1 : x = k * MTU + a
    BY Chunked
  <2>2. PICK j \in Nat, b \in 0 .. MTU - 1 : d = j * MTU + b
    BY Chunked
  <2>3. b = 0
    BY <1>3, <2>2, ChunkedOnce
  <2>4. (k + j) * MTU = k * MTU + j * MTU /\ k * MTU \in Nat /\ j * MTU \in Nat /\ k + j \in Nat
    BY <1>1
  <2>5. x + d = (k + j) * MTU + a
    BY <1>1, <2>1, <2>2, <2>3, <2>4
  <2>6. /\ Frames(x) = k * F + IF a = 0 THEN 0 ELSE F
        /\ InTail(m, x) <=> a >= 1 /\ a <= Size[m] % MTU
    BY <2>1, FramesSplit
  <2>7. /\ Frames(d) = j * F + IF b = 0 THEN 0 ELSE F
        /\ InTail(m, d) <=> b >= 1 /\ b <= Size[m] % MTU
    BY <2>2, FramesSplit
  <2>8. /\ Frames((k + j) * MTU + a) = (k + j) * F + IF a = 0 THEN 0 ELSE F
        /\ InTail(m, (k + j) * MTU + a) <=> a >= 1 /\ a <= Size[m] % MTU
    BY <2>4, FramesSplit
  <2>9. InTail(m, x + d) <=> InTail(m, x) \/ InTail(m, d)
    BY <2>3, <2>5, <2>6, <2>7, <2>8
  <2>10. Frames(x + d) = (k + j) * F + IF a = 0 THEN 0 ELSE F
    BY <2>5, <2>8
  <2> HIDE DEF F
  <2>11. (k + j) * F = k * F + j * F /\ k * F \in Nat /\ j * F \in Nat
    BY <1>1
  <2>12. Frames(x + d) = Frames(x) + Frames(d)
    BY <1>1, <2>3, <2>6, <2>7, <2>10, <2>11
  <2>13. QED
    BY <2>9, <2>12
<1>4. QED
  BY <1>2, <1>3

\* Credit y that comes back, cut to d, fills no more frames with demand x, and
\* either one frame less or an end that one of them had.
LEMMA FramesReturned ==
  ASSUME FramesFit, NEW m \in Message, NEW x \in Nat, NEW y \in Nat, NEW d \in 0 .. y
  PROVE  \/ Frames(x + d) + MTU + Overhead <= Frames(x) + Frames(y)
         \/ /\ Frames(x + d) = Frames(x) + Frames(y)
            /\ InTail(m, x) \/ InTail(m, y) => InTail(m, x + d)
<1> DEFINE F == MTU + Overhead
           t == Size[m] % MTU
<1>1. MTU \in Nat \ {0} /\ F \in Nat \ {0} /\ t \in Nat /\ d \in Nat
  BY FrameAssumption, SizeNat
<1>2. PICK k \in Nat, a \in 0 .. MTU - 1 : x = k * MTU + a
  BY Chunked
<1>3. PICK i \in Nat, c \in 0 .. MTU - 1 : y = i * MTU + c
  BY Chunked
<1>4. PICK j \in Nat, b \in 0 .. MTU - 1 : d = j * MTU + b
  BY <1>1, Chunked
<1>5. /\ Frames(x) = k * F + IF a = 0 THEN 0 ELSE F
      /\ InTail(m, x) <=> a >= 1 /\ a <= t
  BY <1>2, FramesSplit
<1>6. /\ Frames(y) = i * F + IF c = 0 THEN 0 ELSE F
      /\ InTail(m, y) <=> c >= 1 /\ c <= t
  BY <1>3, FramesSplit
<1>7. i >= j /\ (i = j => b <= c)
  <2>1. i * MTU \in Nat /\ j * MTU \in Nat
    BY <1>1
  <2>2. ASSUME i < j PROVE FALSE
    <3>1. (i + 1) * MTU <= j * MTU /\ (i + 1) * MTU = i * MTU + MTU
      BY <1>1, <2>2
    <3>2. QED
      BY <1>1, <1>3, <1>4, <2>1, <3>1
  <2>3. QED
    BY <1>1, <1>3, <1>4, <2>1, <2>2
<1>8. /\ (k + j) * MTU = k * MTU + j * MTU /\ k * MTU \in Nat /\ j * MTU \in Nat
      /\ (k + j + 1) * MTU = k * MTU + j * MTU + MTU
  BY <1>1
<1>9. i * F >= j * F /\ (i > j => i * F >= j * F + F) /\ i * F \in Nat /\ j * F \in Nat /\ k * F \in Nat
  <2> HIDE DEF F
  <2>1. i * F \in Nat /\ j * F \in Nat /\ k * F \in Nat /\ i * F >= j * F
    BY <1>1, <1>7
  <2>2. ASSUME i > j PROVE i * F >= j * F + F
    <3>1. i * F >= (j + 1) * F /\ (j + 1) * F = j * F + F
      BY <1>1, <2>2
    <3>2. QED
      BY <3>1
  <2>3. QED
    BY <2>1, <2>2
<1> DEFINE Claim == \/ Frames(x + d) + F <= Frames(x) + Frames(y)
                   \/ /\ Frames(x + d) = Frames(x) + Frames(y)
                      /\ InTail(m, x) \/ InTail(m, y) => InTail(m, x + d)
<1>10. ASSUME a + b < MTU PROVE Claim
  <2>1. a + b \in 0 .. MTU - 1 /\ k + j \in Nat /\ x + d = (k + j) * MTU + (a + b)
    BY <1>1, <1>2, <1>4, <1>8, <1>10
  <2>2. /\ Frames(x + d) = (k + j) * F + IF a + b = 0 THEN 0 ELSE F
        /\ InTail(m, x + d) <=> a + b >= 1 /\ a + b <= t
    BY <2>1, FramesSplit
  <2> HIDE DEF F, t
  <2>3. (k + j) * F = k * F + j * F
    BY <1>1
  <2>4. CASE i > j
    BY <1>1, <1>5, <1>6, <1>9, <2>2, <2>3, <2>4
  <2>5. CASE i = j /\ a = 0
    BY <1>1, <1>5, <1>6, <1>7, <1>9, <2>2, <2>3, <2>5
  <2>6. CASE i = j /\ a # 0
    BY <1>1, <1>5, <1>6, <1>7, <1>9, <2>2, <2>3, <2>6
  <2>7. QED
    BY <1>7, <2>4, <2>5, <2>6
<1>11. ASSUME a + b >= MTU PROVE Claim
  <2>1. /\ a + b - MTU \in 0 .. MTU - 1 /\ k + j + 1 \in Nat
        /\ x + d = (k + j + 1) * MTU + (a + b - MTU)
    BY <1>1, <1>2, <1>4, <1>8, <1>11
  <2>2. /\ Frames(x + d) = (k + j + 1) * F + IF a + b - MTU = 0 THEN 0 ELSE F
        /\ InTail(m, x + d) <=> a + b - MTU >= 1 /\ a + b - MTU <= t
    BY <2>1, FramesSplit, ZenonT(30)
  <2> HIDE DEF F, t
  <2>3. (k + j + 1) * F = k * F + j * F + F
    BY <1>1
  <2>4. a > 0 /\ b > 0 /\ a + b - MTU <= a /\ a + b - MTU >= 0
    BY <1>1, <1>11
  <2>5. Frames(x) = k * F + F
    BY <1>1, <1>5, <2>4
  <2>6. Frames(y) >= j * F + F /\ Frames(y) \in Int
    BY <1>1, <1>6, <1>7, <1>9, <2>4
  <2>7. CASE a + b - MTU = 0
    <3>1. Frames(x + d) = k * F + j * F + F
      BY <2>2, <2>3, <2>7, <1>9, <1>1
    <3>2. QED
      BY <1>1, <1>9, <2>5, <2>6, <3>1
  <2>8. CASE a + b - MTU # 0
    <3>1. Frames(x + d) = k * F + j * F + F + F
      BY <2>2, <2>3, <2>8, <1>9, <1>1
    <3>2. CASE Frames(y) >= j * F + F + F
      BY <1>1, <1>9, <2>5, <2>6, <3>1, <3>2
    <3>3. CASE ~(Frames(y) >= j * F + F + F)
      <4>1. Frames(y) = j * F + F /\ (c >= 1 => i = j /\ b <= c)
        BY <1>1, <1>6, <1>7, <1>9, <2>4, <2>6, <3>3
      <4>2. InTail(m, x) \/ InTail(m, y) => InTail(m, x + d)
        BY <1>1, <1>5, <1>6, <2>2, <2>4, <2>8, <4>1
      <4>3. QED
        BY <1>1, <1>9, <2>5, <3>1, <4>1, <4>2
    <3>4. QED
      BY <3>2, <3>3
  <2>9. QED
    BY <2>7, <2>8
<1>12. a + b < MTU \/ a + b >= MTU
  BY <1>1
<1>13. Claim
  BY <1>10, <1>11, <1>12
<1>14. QED
  <2>1. Frames(x + d) \in Nat
    BY <1>1, FramesFill
  <2>2. Frames(x + d) + MTU + Overhead = Frames(x + d) + F
    BY <2>1, FrameAssumption
  <2>3. QED
    BY <1>13, <2>2
-----------------------------------------------------------------------------
(* Credit on its way: a sum over a bag of packets. *)

WeightOf(p, K, w) == IF p \in K THEN w[p] ELSE 0
Copies(p, B) == IF p \in DOMAIN B THEN B[p] ELSE 0
PacketBag(B) == IsABag(B) /\ DOMAIN B \subseteq Sent

LEMMA WeightNat ==
  ASSUME NEW K, NEW w \in [K -> Nat], NEW p
  PROVE  WeightOf(p, K, w) \in Nat /\ (p \in K => w[p] \in Nat)
  BY DEF WeightOf

LEMMA CopiesNat ==
  ASSUME NEW B, PacketBag(B), NEW p
  PROVE  Copies(p, B) \in Nat /\ (Copies(p, B) > 0 <=> p \in DOMAIN B)
  BY DEF PacketBag, IsABag, Copies

LEMMA WeightSumNat ==
  ASSUME NEW B, PacketBag(B), NEW K \in SUBSET Sent, NEW w \in [K -> Nat], IsFiniteSet(InBag(B, K))
  PROVE  /\ WeightIn(B, K, w) \in Nat
         /\ \A p \in InBag(B, K) : w[p] <= WeightIn(B, K, w)
<1> DEFINE S == InBag(B, K)
           f == [p \in S |-> w[p] * B[p]]
<1>1. ASSUME NEW p \in S PROVE f[p] \in Nat /\ w[p] \in Nat /\ w[p] <= f[p]
  <2>1. p \in Sent /\ p \in K /\ B[p] \in Nat /\ B[p] >= 1
    BY <1>1 DEF PacketBag, InBag, IsABag
  <2>2. w[p] \in Nat
    BY <2>1, WeightNat
  <2> DEFINE a == w[p]
             b == B[p]
  <2>3. a \in Nat /\ b \in Nat /\ b >= 1 /\ f[p] = a * b
    BY <2>1, <2>2
  <2> HIDE DEF a, b
  <2>4. a * b \in Nat /\ a * b >= a * 1
    BY <2>3
  <2>5. a * 1 = a
    BY <2>3
  <2>6. f[p] \in Nat /\ a <= f[p]
    BY <2>3, <2>4, <2>5
  <2>7. QED
    BY <2>2, <2>6 DEF a
<1>2. \A p \in S : f[p] \in Nat
  BY <1>1
<1>3. SumFunctionOnSet(f, S) \in Nat /\ \A p \in S : f[p] <= SumFunctionOnSet(f, S)
  <2> HIDE DEF f
  <2>1. QED
    BY <1>2, SumNat
<1>4. WeightIn(B, K, w) = SumFunctionOnSet(f, S)
  BY DEF WeightIn
<1> HIDE DEF f
<1>5. QED
  BY <1>1, <1>3, <1>4

\* Bags that differ in the copies of one packet.
LEMMA OnePacket ==
  ASSUME NEW B, NEW C, PacketBag(B), PacketBag(C), NEW K \in SUBSET Sent, NEW w \in [K -> Nat], NEW p \in Sent,
         IsFiniteSet(InBag(B, K)),
         \A q \in (DOMAIN B \cup DOMAIN C) \ {p} : Copies(q, C) = Copies(q, B)
  PROVE  /\ IsFiniteSet(InBag(C, K))
         /\ WeightIn(C, K, w) = WeightIn(B, K, w)
              + WeightOf(p, K, w) * Copies(p, C) - WeightOf(p, K, w) * Copies(p, B)
<1> DEFINE D == InBag(B, K) \cup {p}
           f == [q \in D |-> WeightOf(q, K, w) * Copies(q, B)]
           g == [q \in D |-> WeightOf(q, K, w) * Copies(q, C)]
           fb == [q \in InBag(B, K) |-> w[q] * B[q]]
           gc == [q \in InBag(C, K) |-> w[q] * C[q]]
<1>1. IsFiniteSet(D)
  BY FS_AddElement
<1>2. InBag(B, K) \subseteq D /\ InBag(C, K) \subseteq D
  <2>1. ASSUME NEW q \in InBag(C, K), q # p PROVE q \in InBag(B, K)
    <3>1. q \in DOMAIN C /\ q \in K
      BY <2>1 DEF InBag
    <3>2. Copies(q, B) = Copies(q, C) /\ Copies(q, C) > 0
      BY <2>1, <3>1, CopiesNat
    <3>3. q \in DOMAIN B
      BY <3>2, CopiesNat
    <3>4. QED
      BY <3>1, <3>3 DEF InBag
  <2>2. QED
    BY <2>1
<1>3. IsFiniteSet(InBag(C, K))
  BY <1>1, <1>2, FS_Subset
<1>4. ASSUME NEW q \in D
      PROVE  f[q] \in Int /\ g[q] \in Int
  <2>1. q \in Sent
    BY DEF InBag, PacketBag
  <2>2. WeightOf(q, K, w) \in Nat /\ Copies(q, B) \in Nat /\ Copies(q, C) \in Nat
    BY <2>1, WeightNat, CopiesNat
  <2>3. WeightOf(q, K, w) * Copies(q, B) \in Int /\ WeightOf(q, K, w) * Copies(q, C) \in Int
    BY <2>2
  <2>4. QED
    BY <2>3
<1>5. \A q \in D \ {p} : g[q] = f[q]
  BY DEF InBag
<1>6. \A q \in D \ InBag(B, K) : f[q] = 0
  <2>1. SUFFICES ASSUME NEW q \in D, q \notin InBag(B, K) PROVE f[q] = 0
    OBVIOUS
  <2>2. q = p /\ WeightOf(p, K, w) \in Nat
    BY <2>1, WeightNat
  <2>3. Copies(p, B) = 0 \/ WeightOf(p, K, w) = 0
    BY <2>1, <2>2 DEF InBag, Copies, WeightOf
  <2>4. WeightOf(p, K, w) * Copies(p, B) = 0
    <3>1. Copies(p, B) \in Nat
      BY CopiesNat
    <3>2. QED
      BY <2>2, <2>3, <3>1
  <2>5. QED
    BY <2>2, <2>4
<1>7. \A q \in D \ InBag(C, K) : g[q] = 0
  <2>1. SUFFICES ASSUME NEW q \in D, q \notin InBag(C, K) PROVE g[q] = 0
    OBVIOUS
  <2>2. q \in Sent
    BY DEF InBag, PacketBag
  <2>3. Copies(q, C) = 0 \/ WeightOf(q, K, w) = 0
    BY <2>1 DEF InBag, Copies, WeightOf
  <2>4. WeightOf(q, K, w) * Copies(q, C) = 0
    <3>1. Copies(q, C) \in Nat /\ WeightOf(q, K, w) \in Nat
      BY <2>2, CopiesNat, WeightNat
    <3>2. QED
      BY <2>3, <3>1
  <2>5. QED
    BY <2>4
<1>8. \A q \in InBag(B, K) : fb[q] = f[q]
  BY <1>2 DEF InBag, WeightOf, Copies
<1>9. \A q \in InBag(C, K) : gc[q] = g[q]
  BY <1>2 DEF InBag, WeightOf, Copies
<1>10. f[p] = WeightOf(p, K, w) * Copies(p, B) /\ g[p] = WeightOf(p, K, w) * Copies(p, C)
  OBVIOUS
<1>11. WeightIn(B, K, w) = SumFunctionOnSet(fb, InBag(B, K))
       /\ WeightIn(C, K, w) = SumFunctionOnSet(gc, InBag(C, K))
  BY DEF WeightIn
<1>12. p \in D
  OBVIOUS
<1> HIDE DEF D, f, g, fb, gc
<1>13. SumFunctionOnSet(fb, InBag(B, K)) = SumFunctionOnSet(f, InBag(B, K))
  BY <1>8, SumCongruent
<1>14. SumFunctionOnSet(gc, InBag(C, K)) = SumFunctionOnSet(g, InBag(C, K))
  BY <1>3, <1>9, SumCongruent
<1>15. SumFunctionOnSet(f, D) = SumFunctionOnSet(f, InBag(B, K))
  BY <1>1, <1>2, <1>4, <1>6, SumSupport
<1>16. SumFunctionOnSet(g, D) = SumFunctionOnSet(g, InBag(C, K))
  BY <1>1, <1>2, <1>4, <1>7, SumSupport
<1>17. SumFunctionOnSet(g, D) = SumFunctionOnSet(f, D) + g[p] - f[p]
  BY <1>1, <1>4, <1>5, <1>12, SumUpdate
<1>18. QED
  BY <1>3, <1>10, <1>11, <1>13, <1>14, <1>15, <1>16, <1>17

\* Bags with the same credit.
LEMMA SameWeight ==
  ASSUME NEW B, NEW C, PacketBag(B), PacketBag(C), NEW K \in SUBSET Sent, NEW w \in [K -> Nat],
         \A q \in DOMAIN B \cup DOMAIN C : q \in K => Copies(q, C) = Copies(q, B)
  PROVE  InBag(C, K) = InBag(B, K) /\ WeightIn(C, K, w) = WeightIn(B, K, w)
<1>1. InBag(C, K) = InBag(B, K)
  <2>1. \A q \in DOMAIN B \cup DOMAIN C : q \in K => (q \in DOMAIN C <=> q \in DOMAIN B)
    BY CopiesNat
  <2>2. QED
    BY <2>1 DEF InBag
<1>2. \A q \in InBag(B, K) : C[q] = B[q]
  BY <1>1 DEF InBag, Copies
<1>3. [p \in InBag(C, K) |-> w[p] * C[p]] = [p \in InBag(B, K) |-> w[p] * B[p]]
  BY <1>1, <1>2
<1>4. QED
  BY <1>1, <1>3 DEF WeightIn

\* A packet more.
LEMMA PacketAdded ==
  ASSUME NEW B, PacketBag(B), NEW g \in Sent, NEW K \in SUBSET Sent, NEW w \in [K -> Nat], IsFiniteSet(InBag(B, K))
  PROVE  LET C == B (+) SetToBag({g})
         IN /\ PacketBag(C) /\ IsFiniteSet(InBag(C, K))
            /\ WeightIn(C, K, w) = WeightIn(B, K, w) + WeightOf(g, K, w)
<1> DEFINE C == B (+) SetToBag({g})
<1>1. PacketBag(C)
  BY DEF PacketBag, IsABag, SetToBag, (+)
<1>2. \A q \in (DOMAIN B \cup DOMAIN C) \ {g} : Copies(q, C) = Copies(q, B)
  BY DEF Copies, SetToBag, (+), PacketBag, IsABag
<1>3. Copies(g, C) = Copies(g, B) + 1
  BY DEF Copies, SetToBag, (+), PacketBag, IsABag
<1> HIDE DEF C
<1>4. /\ IsFiniteSet(InBag(C, K))
      /\ WeightIn(C, K, w) = WeightIn(B, K, w)
           + WeightOf(g, K, w) * Copies(g, C) - WeightOf(g, K, w) * Copies(g, B)
  BY <1>1, <1>2, OnePacket
<1>5. WeightOf(g, K, w) \in Nat /\ Copies(g, B) \in Nat /\ WeightIn(B, K, w) \in Nat
  BY WeightNat, CopiesNat, WeightSumNat
<1> DEFINE a == WeightOf(g, K, w)
           b == Copies(g, B)
<1>6. a \in Nat /\ b \in Nat
  BY <1>5
<1> HIDE DEF a, b
<1>7. a * (b + 1) = a * b + a /\ a * b \in Nat
  BY <1>6
<1>8. WeightIn(C, K, w) = WeightIn(B, K, w) + a
  BY <1>3, <1>4, <1>5, <1>6, <1>7 DEF a, b
<1>9. QED
  BY <1>1, <1>4, <1>8 DEF C, a

\* A packet less.
LEMMA PacketTaken ==
  ASSUME NEW B, PacketBag(B), NEW g \in DOMAIN B, NEW K \in SUBSET Sent, NEW w \in [K -> Nat], IsFiniteSet(InBag(B, K))
  PROVE  LET C == B (-) SetToBag({g})
         IN /\ PacketBag(C) /\ IsFiniteSet(InBag(C, K))
            /\ WeightIn(C, K, w) = WeightIn(B, K, w) - WeightOf(g, K, w)
            /\ DOMAIN C \subseteq DOMAIN B /\ DOMAIN B \ {g} \subseteq DOMAIN C
<1> DEFINE C == B (-) SetToBag({g})
<1>1. PacketBag(C)
  BY DEF PacketBag, IsABag, SetToBag, (-)
<1>2. \A q \in (DOMAIN B \cup DOMAIN C) \ {g} : Copies(q, C) = Copies(q, B)
  BY DEF Copies, SetToBag, (-), PacketBag, IsABag
<1>3. Copies(g, B) = Copies(g, C) + 1 /\ g \in Sent
  BY DEF Copies, SetToBag, (-), PacketBag, IsABag
<1>4. DOMAIN C \subseteq DOMAIN B /\ DOMAIN B \ {g} \subseteq DOMAIN C
  BY DEF SetToBag, (-), PacketBag, IsABag
<1> HIDE DEF C
<1>5. /\ IsFiniteSet(InBag(C, K))
      /\ WeightIn(C, K, w) = WeightIn(B, K, w)
           + WeightOf(g, K, w) * Copies(g, C) - WeightOf(g, K, w) * Copies(g, B)
  BY <1>1, <1>2, <1>3, OnePacket
<1>6. WeightOf(g, K, w) \in Nat /\ Copies(g, C) \in Nat /\ WeightIn(B, K, w) \in Nat
  BY <1>1, <1>3, WeightNat, CopiesNat, WeightSumNat
<1> DEFINE a == WeightOf(g, K, w)
           b == Copies(g, C)
<1>7. a \in Nat /\ b \in Nat
  BY <1>6
<1> HIDE DEF a, b
<1>8. a * (b + 1) = a * b + a /\ a * b \in Nat
  BY <1>7
<1>9. WeightIn(C, K, w) = WeightIn(B, K, w) - a
  BY <1>3, <1>5, <1>6, <1>7, <1>8 DEF a, b
<1>10. QED
  BY <1>1, <1>4, <1>5, <1>9 DEF C, a

\* Packets that are no credit.
LEMMA OthersAdded ==
  ASSUME NEW B, PacketBag(B), NEW ps \in SUBSET Sent, NEW K \in SUBSET Sent, NEW w \in [K -> Nat],
         \A q \in ps : q \notin K
  PROVE  LET C == B (+) SetToBag(ps)
         IN /\ PacketBag(C) /\ InBag(C, K) = InBag(B, K)
            /\ WeightIn(C, K, w) = WeightIn(B, K, w)
<1> DEFINE C == B (+) SetToBag(ps)
<1>1. PacketBag(C)
  BY DEF PacketBag, IsABag, SetToBag, (+)
<1>2. \A q \in DOMAIN B \cup DOMAIN C : q \in K => Copies(q, C) = Copies(q, B)
  BY DEF Copies, SetToBag, (+), PacketBag, IsABag
<1> HIDE DEF C
<1>3. InBag(C, K) = InBag(B, K) /\ WeightIn(C, K, w) = WeightIn(B, K, w)
  BY <1>1, <1>2, SameWeight
<1>4. QED
  BY <1>1, <1>3 DEF C
-----------------------------------------------------------------------------
(* Credit on its way, and what a message may still be granted. *)

IsCredit(p, s) == p.kind \in {"GRANT", "BOUNCED"} /\ Src[p.msg] = s
CreditOf(p, s) == IF IsCredit(p, s) THEN p.wire ELSE 0
Credits(s) == {p \in Sent : IsCredit(p, s)}
CreditWire(s) == [p \in Credits(s) |-> p.wire]

LEMMA CreditNat ==
  ASSUME NEW s
  PROVE  /\ CreditWire(s) \in [Credits(s) -> Nat] /\ Credits(s) \subseteq Sent
         /\ \A p \in Sent : /\ CreditOf(p, s) = WeightOf(p, Credits(s), CreditWire(s))
                            /\ CreditOf(p, s) \in Nat
<1>1. \A p \in Credits(s) : p.wire \in Nat
  BY DEF Sent, Packet, IsCredit, Credits
<1>2. QED
  BY <1>1 DEF CreditWire, Credits, CreditOf, WeightOf

LEMMA FlyingIsIn ==
  ASSUME NEW s
  PROVE  /\ PacketBag(net) =>
              /\ InFlight(s) = InBag(net, Credits(s))
              /\ Flying(s) = WeightIn(net, Credits(s), CreditWire(s))
         /\ PacketBag(net') =>
              /\ InFlight(s)' = InBag(net', Credits(s))
              /\ Flying(s)' = WeightIn(net', Credits(s), CreditWire(s))
<1>1. ASSUME PacketBag(net)
      PROVE  /\ InFlight(s) = InBag(net, Credits(s))
             /\ Flying(s) = WeightIn(net, Credits(s), CreditWire(s))
  <2>1. InFlight(s) = InBag(net, Credits(s))
    BY <1>1 DEF InFlight, InBag, Credits, IsCredit, PacketBag
  <2>2. \A p \in InBag(net, Credits(s)) : CreditWire(s)[p] = p.wire
    BY DEF InBag, CreditWire
  <2>3. [p \in InFlight(s) |-> p.wire * net[p]]
          = [p \in InBag(net, Credits(s)) |-> CreditWire(s)[p] * net[p]]
    BY <2>1, <2>2
  <2>4. QED
    BY <2>1, <2>3 DEF Flying, WeightIn
<1>2. ASSUME PacketBag(net')
      PROVE  /\ InFlight(s)' = InBag(net', Credits(s))
             /\ Flying(s)' = WeightIn(net', Credits(s), CreditWire(s))
  <2>1. InFlight(s)' = InBag(net', Credits(s))
    BY <1>2 DEF InFlight, InBag, Credits, IsCredit, PacketBag
  <2>2. \A p \in InBag(net', Credits(s)) : CreditWire(s)[p] = p.wire
    BY DEF InBag, CreditWire
  <2>3. [p \in InFlight(s)' |-> p.wire * net'[p]]
          = [p \in InBag(net', Credits(s)) |-> CreditWire(s)[p] * net'[p]]
    BY <2>1, <2>2
  <2>4. QED
    BY <2>1, <2>3 DEF Flying, WeightIn, InFlight
<1>3. QED
  BY <1>1, <1>2

LEMMA SpareNat ==
  ASSUME FramesFit, NEW m \in Message
  PROVE  /\ Grants(m) \subseteq Sent /\ Spare(m) \in [Grants(m) -> Nat]
         /\ \A p \in Grants(m) :
              /\ p.data \in Nat /\ p.wire = W(p.data) /\ p.wire \in Nat
              /\ WeightOf(p, Grants(m), Spare(m)) = Spare(m)[p]
              /\ Spare(m)[p] + p.wire = Frames(p.data)
              /\ InTail(m, p.data) => Spare(m)[p] >= Short(m)
<1>1. ASSUME NEW p \in Grants(m)
      PROVE  /\ p.data \in Nat /\ p.wire = W(p.data) /\ p.wire \in Nat
             /\ Frames(p.data) - p.wire \in Nat
             /\ Spare(m)[p] = Frames(p.data) - p.wire
             /\ Spare(m)[p] + p.wire = Frames(p.data)
             /\ InTail(m, p.data) => Spare(m)[p] >= Short(m)
  <2>1. p.data \in Nat /\ p.wire = W(p.data)
    BY DEF Grants
  <2>2. /\ Frames(p.data) \in Nat /\ W(p.data) \in Nat /\ W(p.data) <= Frames(p.data)
        /\ Short(m) \in Int
        /\ InTail(m, p.data) => W(p.data) + Short(m) <= Frames(p.data)
    BY <2>1, FramesFill
  <2>3. Spare(m)[p] = Frames(p.data) - p.wire
    BY DEF Spare
  <2>4. QED
    BY <2>1, <2>2, <2>3
<1>2. Spare(m) \in [Grants(m) -> Nat]
  BY <1>1 DEF Spare
<1>3. Grants(m) \subseteq Sent
  BY DEF Grants
<1>4. QED
  BY <1>1, <1>2, <1>3 DEF WeightOf

LEMMA ReserveNat ==
  ASSUME FramesFit, NEW m \in Message, NEW B, PacketBag(B),
         IsFiniteSet(InBag(B, Grants(m))), NEW x \in Nat
  PROVE  /\ Reserve(m, x, B) \in Nat /\ (x > 0 => Reserve(m, x, B) > 0)
         /\ InBag(B, Grants(m)) = {} =>
              Reserve(m, x, B) = Frames(x) - IF InTail(m, x) THEN Short(m) ELSE 0
<1> DEFINE w == WeightIn(B, Grants(m), Spare(m))
<1>1. w \in Nat /\ \A p \in InBag(B, Grants(m)) : Spare(m)[p] <= w
  BY SpareNat, WeightSumNat
<1>2. /\ Frames(x) \in Nat /\ Short(m) \in Int /\ Short(m) >= 0
      /\ x > 0 => Frames(x) >= MTU + Overhead
      /\ MTU + Overhead \in Nat \ {0}
      /\ InTail(m, x) => x > 0 /\ Short(m) < MTU + Overhead
  BY FramesFill, FrameAssumption
<1>3. Ends(m, x, B) =>
        (w >= Short(m) /\ Short(m) < MTU + Overhead) \/ InTail(m, x)
  <2>1. SUFFICES ASSUME NEW p \in InBag(B, Grants(m)), InTail(m, p.data)
                 PROVE  w >= Short(m) /\ Short(m) < MTU + Overhead
    BY DEF Ends
  <2>2. p \in Grants(m) /\ Spare(m)[p] <= w
    BY <1>1 DEF InBag
  <2>3. p.data \in Nat /\ Spare(m)[p] \in Nat /\ Spare(m)[p] >= Short(m)
    BY <2>1, <2>2, SpareNat
  <2>4. Short(m) < MTU + Overhead
    BY <2>1, <2>3, FramesFill
  <2>5. QED
    BY <1>1, <1>2, <2>2, <2>3, <2>4
<1>4. Reserve(m, x, B) = (Frames(x) + w) - IF Ends(m, x, B) THEN Short(m) ELSE 0
  BY DEF Reserve
<1>5. InBag(B, Grants(m)) = {} => w = 0 /\ (Ends(m, x, B) <=> InTail(m, x))
  <2>1. SUFFICES ASSUME InBag(B, Grants(m)) = {} PROVE w = 0
    BY DEF Ends
  <2> DEFINE f == [p \in InBag(B, Grants(m)) |-> Spare(m)[p] * B[p]]
  <2>2. w = SumFunctionOnSet(f, {})
    BY <2>1 DEF WeightIn
  <2> HIDE DEF f
  <2>3. QED
    BY <2>2, SumEmpty
<1> HIDE DEF w
<1>6. Reserve(m, x, B) \in Nat /\ (x > 0 => Reserve(m, x, B) > 0)
  BY <1>1, <1>2, <1>3, <1>4
<1>7. InBag(B, Grants(m)) = {} =>
        Reserve(m, x, B) = Frames(x) - IF InTail(m, x) THEN Short(m) ELSE 0
  BY <1>2, <1>4, <1>5
<1>8. QED
  BY <1>6, <1>7

\* A grant is sent for a part of the demand.
LEMMA ReserveAdded ==
  ASSUME FramesFit, NEW m \in Message, NEW B, PacketBag(B),
         IsFiniteSet(InBag(B, Grants(m))), NEW g \in Grants(m), NEW x \in Nat
  PROVE  LET C == B (+) SetToBag({g})
         IN /\ PacketBag(C) /\ IsFiniteSet(InBag(C, Grants(m)))
            /\ g.data % MTU = 0 \/ x = 0 =>
                 Reserve(m, x, C) = Reserve(m, x + g.data, B) - g.wire
            /\ WeightIn(C, Grants(m), Spare(m))
                 = WeightIn(B, Grants(m), Spare(m)) + Spare(m)[g]
            /\ InBag(C, Grants(m)) = InBag(B, Grants(m)) \cup {g}
<1> DEFINE C == B (+) SetToBag({g})
           G == Grants(m)
           w == Spare(m)
<1>1. /\ G \in SUBSET Sent /\ w \in [G -> Nat] /\ g \in G /\ g.data \in Nat /\ g.wire \in Nat
      /\ WeightOf(g, G, w) = w[g] /\ w[g] + g.wire = Frames(g.data) /\ w[g] \in Nat
  BY SpareNat
<1>2. InBag(C, G) = InBag(B, G) \cup {g}
  BY <1>1 DEF InBag, SetToBag, (+)
<1> HIDE DEF G, w
<1>3. /\ PacketBag(C) /\ IsFiniteSet(InBag(C, G))
      /\ WeightIn(C, G, w) = WeightIn(B, G, w) + w[g]
  BY <1>1, PacketAdded DEF G
<1> HIDE DEF C
<1>4. WeightIn(B, G, w) \in Nat
  BY <1>1, WeightSumNat DEF G
<1>5. ASSUME g.data % MTU = 0 \/ x = 0
      PROVE  Reserve(m, x, C) = Reserve(m, x + g.data, B) - g.wire
  <2>1. /\ Frames(x + g.data) = Frames(x) + Frames(g.data)
        /\ InTail(m, x + g.data) <=> InTail(m, x) \/ InTail(m, g.data)
    BY <1>1, <1>5, FramesGranted
  <2>2. Ends(m, x, C) <=> Ends(m, x + g.data, B)
    BY <1>2, <2>1 DEF Ends, G
  <2>3. /\ Frames(x) \in Nat /\ Frames(g.data) \in Nat /\ Short(m) \in Int
    BY <1>1, FramesFill
  <2>4. /\ Reserve(m, x, C) =
             (Frames(x) + WeightIn(C, G, w)) - IF Ends(m, x, C) THEN Short(m) ELSE 0
        /\ Reserve(m, x + g.data, B) =
             (Frames(x + g.data) + WeightIn(B, G, w))
               - IF Ends(m, x + g.data, B) THEN Short(m) ELSE 0
    BY DEF Reserve, G, w
  <2>5. QED
    BY <1>1, <1>3, <1>4, <2>1, <2>2, <2>3, <2>4
<1>6. QED
  BY <1>2, <1>3, <1>5 DEF C, G, w

\* A grant arrives, is lost, or comes back and is demand again, cut to d.
LEMMA ReserveTaken ==
  ASSUME FramesFit, NEW m \in Message, NEW B, PacketBag(B),
         IsFiniteSet(InBag(B, Grants(m))), NEW g \in InBag(B, Grants(m)), NEW x \in Nat
  PROVE  LET C == B (-) SetToBag({g})
         IN /\ PacketBag(C) /\ IsFiniteSet(InBag(C, Grants(m)))
            /\ Reserve(m, x, C) <= Reserve(m, x, B)
            /\ \A d \in 0 .. g.data : Reserve(m, x + d, C) <= Reserve(m, x, B) + g.wire
            /\ WeightIn(C, Grants(m), Spare(m))
                 = WeightIn(B, Grants(m), Spare(m)) - Spare(m)[g]
            /\ InBag(B, Grants(m)) \subseteq InBag(C, Grants(m)) \cup {g}
<1> DEFINE C == B (-) SetToBag({g})
           G == Grants(m)
           w == Spare(m)
<1>1. /\ G \in SUBSET Sent /\ w \in [G -> Nat] /\ g \in G /\ g \in DOMAIN B
      /\ g.data \in Nat /\ g.wire \in Nat
      /\ WeightOf(g, G, w) = w[g] /\ w[g] + g.wire = Frames(g.data) /\ w[g] \in Nat
      /\ InTail(m, g.data) => w[g] >= Short(m)
  BY SpareNat DEF InBag
<1> HIDE DEF G, w
<1>2. /\ PacketBag(C) /\ IsFiniteSet(InBag(C, G))
      /\ WeightIn(C, G, w) = WeightIn(B, G, w) - w[g]
      /\ DOMAIN C \subseteq DOMAIN B /\ DOMAIN B \ {g} \subseteq DOMAIN C
  BY <1>1, PacketTaken DEF G
<1> HIDE DEF C
<1>3. InBag(C, G) \subseteq InBag(B, G) /\ InBag(B, G) \subseteq InBag(C, G) \cup {g}
  BY <1>2 DEF InBag
<1>4. WeightIn(B, G, w) \in Nat /\ WeightIn(C, G, w) \in Nat
  BY <1>1, <1>2, WeightSumNat DEF G
<1>5. ASSUME NEW y \in Nat, NEW A
      PROVE  Reserve(m, y, A) =
               (Frames(y) + WeightIn(A, G, w)) - IF Ends(m, y, A) THEN Short(m) ELSE 0
  BY DEF Reserve, G, w
<1>6. Frames(x) \in Nat /\ Short(m) \in Int /\ Short(m) >= 0 /\ Frames(g.data) \in Nat
  BY <1>1, FramesFill
<1>7. /\ Ends(m, x, B) => Ends(m, x, C) \/ InTail(m, g.data)
      /\ Ends(m, x, C) => Ends(m, x, B)
  BY <1>3 DEF Ends, G
<1>8. Reserve(m, x, C) <= Reserve(m, x, B)
  <2>1. /\ Reserve(m, x, C) =
             (Frames(x) + WeightIn(C, G, w)) - IF Ends(m, x, C) THEN Short(m) ELSE 0
        /\ Reserve(m, x, B) =
             (Frames(x) + WeightIn(B, G, w)) - IF Ends(m, x, B) THEN Short(m) ELSE 0
    BY <1>5
  <2>2. CASE Ends(m, x, C)
    BY <1>1, <1>2, <1>4, <1>6, <1>7, <2>1, <2>2
  <2>3. CASE ~Ends(m, x, C)
    BY <1>1, <1>2, <1>4, <1>6, <1>7, <2>1, <2>3
  <2>4. QED
    BY <2>2, <2>3
<1>9. ASSUME NEW d \in 0 .. g.data
      PROVE  Reserve(m, x + d, C) <= Reserve(m, x, B) + g.wire
  <2>1. x + d \in Nat /\ d \in Nat
    BY <1>1
  <2>2. Frames(x + d) \in Nat
    BY <2>1, FramesFill
  <2>3. /\ Reserve(m, x + d, C) =
             (Frames(x + d) + WeightIn(C, G, w)) - IF Ends(m, x + d, C) THEN Short(m) ELSE 0
        /\ Reserve(m, x, B) =
             (Frames(x) + WeightIn(B, G, w)) - IF Ends(m, x, B) THEN Short(m) ELSE 0
    BY <1>5, <2>1
  <2>4. \/ Frames(x + d) + MTU + Overhead <= Frames(x) + Frames(g.data)
        \/ /\ Frames(x + d) = Frames(x) + Frames(g.data)
           /\ InTail(m, x) \/ InTail(m, g.data) => InTail(m, x + d)
    BY <1>1, FramesReturned
  <2>5. CASE Frames(x + d) + MTU + Overhead <= Frames(x) + Frames(g.data)
    <3>1. Ends(m, x, B) => Short(m) < MTU + Overhead
      <4>1. SUFFICES ASSUME NEW y \in Nat, InTail(m, y) PROVE Short(m) < MTU + Overhead
        <5>1. \A p \in InBag(B, G) : p.data \in Nat
          BY SpareNat DEF InBag, G
        <5>2. QED
          BY <4>1, <5>1 DEF Ends, G
      <4>2. QED
        BY <4>1, FramesFill
    <3>2. MTU + Overhead \in Nat
      BY FrameAssumption
    <3>3. Frames(x + d) + (MTU + Overhead) <= Frames(x) + Frames(g.data)
      BY <2>2, <2>5, FrameAssumption
    <3>4. QED
      BY <1>1, <1>2, <1>4, <1>6, <2>2, <2>3, <3>1, <3>2, <3>3
  <2>6. CASE /\ Frames(x + d) = Frames(x) + Frames(g.data)
             /\ InTail(m, x) \/ InTail(m, g.data) => InTail(m, x + d)
    <3>1. Ends(m, x, B) => Ends(m, x + d, C)
      BY <1>3, <2>6 DEF Ends, G
    <3>2. QED
      BY <1>1, <1>2, <1>4, <1>6, <2>2, <2>3, <2>6, <3>1
  <2>7. QED
    BY <2>4, <2>5, <2>6
<1>10. QED
  BY <1>2, <1>3, <1>8, <1>9 DEF C, G, w
\* What is sent and taken, and the credit on its way.
LEMMA NetMembers ==
  ASSUME NetOK, NEW p, NEW ps
  PROVE  /\ Sends(ps) => DOMAIN net' = DOMAIN net \cup ps
         /\ Replaces(p, ps) => /\ DOMAIN net' \subseteq DOMAIN net \cup ps
                               /\ (DOMAIN net \ {p}) \cup ps \subseteq DOMAIN net'
<1>1. Sends(ps) => DOMAIN net' = DOMAIN net \cup ps
  BY DEF Sends, SetToBag, (+)
<1>2. ASSUME Replaces(p, ps)
      PROVE  /\ DOMAIN net' \subseteq DOMAIN net \cup ps
             /\ (DOMAIN net \ {p}) \cup ps \subseteq DOMAIN net'
  <2> DEFINE rest == net (-) SetToBag({p})
  <2>1. DOMAIN rest \subseteq DOMAIN net /\ DOMAIN net \ {p} \subseteq DOMAIN rest
    BY DEF SetToBag, (-), NetOK, IsABag
  <2>2. net' = rest (+) SetToBag(ps)
    BY <1>2 DEF Replaces
  <2> HIDE DEF rest
  <2>3. DOMAIN net' = DOMAIN rest \cup ps
    BY <2>2 DEF SetToBag, (+)
  <2>4. QED
    BY <2>1, <2>3
<1>3. QED
  BY <1>1, <1>2

LEMMA SendsFlying ==
  ASSUME NetOK, NEW ps \in SUBSET Sent, Sends(ps), NEW s, IsFiniteSet(InFlight(s))
  PROVE  /\ (\A q \in ps : ~IsCredit(q, s)) =>
              IsFiniteSet(InFlight(s)') /\ Flying(s)' = Flying(s)
         /\ \A g \in Sent : ps = {g} =>
              IsFiniteSet(InFlight(s)') /\ Flying(s)' = Flying(s) + CreditOf(g, s)
<1> DEFINE K == Credits(s)
           w == CreditWire(s)
<1>1. /\ PacketBag(net) /\ net' = net (+) SetToBag(ps)
      /\ K \in SUBSET Sent /\ w \in [K -> Nat]
  BY CreditNat DEF NetOK, PacketBag, Sends
<1>2. /\ IsFiniteSet(InBag(net, K)) /\ Flying(s) = WeightIn(net, K, w)
      /\ PacketBag(net') => InFlight(s)' = InBag(net', K) /\ Flying(s)' = WeightIn(net', K, w)
  BY <1>1, FlyingIsIn
<1>3. \A q \in Sent : /\ CreditOf(q, s) = WeightOf(q, K, w)
                      /\ ~IsCredit(q, s) => q \notin K
  BY CreditNat DEF Credits
<1> HIDE DEF K, w
<1>4. ASSUME \A q \in ps : ~IsCredit(q, s)
      PROVE  IsFiniteSet(InFlight(s)') /\ Flying(s)' = Flying(s)
  <2>1. \A q \in ps : q \notin K
    BY <1>3, <1>4
  <2>2. PacketBag(net') /\ InBag(net', K) = InBag(net, K) /\ WeightIn(net', K, w) = WeightIn(net, K, w)
    BY <1>1, <2>1, OthersAdded
  <2>3. QED
    BY <1>2, <2>2
<1>5. ASSUME NEW g \in Sent, ps = {g}
      PROVE  IsFiniteSet(InFlight(s)') /\ Flying(s)' = Flying(s) + CreditOf(g, s)
  <2>1. /\ PacketBag(net') /\ IsFiniteSet(InBag(net', K))
        /\ WeightIn(net', K, w) = WeightIn(net, K, w) + WeightOf(g, K, w)
    BY <1>1, <1>2, <1>5, PacketAdded
  <2>2. QED
    BY <1>2, <1>3, <2>1
<1>6. QED
  BY <1>4, <1>5

LEMMA ReplacesFlying ==
  ASSUME NetOK, NEW p \in DOMAIN net, NEW ps \in SUBSET Sent, Replaces(p, ps),
         NEW s, IsFiniteSet(InFlight(s))
  PROVE  /\ (\A q \in ps : ~IsCredit(q, s)) =>
              IsFiniteSet(InFlight(s)') /\ Flying(s)' = Flying(s) - CreditOf(p, s)
         /\ \A g \in Sent : ps = {g} =>
              /\ IsFiniteSet(InFlight(s)')
              /\ Flying(s)' = Flying(s) - CreditOf(p, s) + CreditOf(g, s)
<1> DEFINE rest == net (-) SetToBag({p})
           K == Credits(s)
           w == CreditWire(s)
<1>1. /\ PacketBag(net) /\ net' = rest (+) SetToBag(ps) /\ p \in Sent
      /\ K \in SUBSET Sent /\ w \in [K -> Nat]
  BY CreditNat DEF NetOK, PacketBag, Replaces
<1>2. /\ IsFiniteSet(InBag(net, K)) /\ Flying(s) = WeightIn(net, K, w)
      /\ PacketBag(net') => InFlight(s)' = InBag(net', K) /\ Flying(s)' = WeightIn(net', K, w)
  BY <1>1, FlyingIsIn
<1>3. \A q \in Sent : /\ CreditOf(q, s) = WeightOf(q, K, w)
                      /\ ~IsCredit(q, s) => q \notin K
  BY CreditNat DEF Credits
<1> HIDE DEF K, w
<1>4. /\ PacketBag(rest) /\ IsFiniteSet(InBag(rest, K))
      /\ WeightIn(rest, K, w) = WeightIn(net, K, w) - WeightOf(p, K, w)
  BY <1>1, <1>2, PacketTaken
<1> HIDE DEF rest
<1>5. ASSUME \A q \in ps : ~IsCredit(q, s)
      PROVE  IsFiniteSet(InFlight(s)') /\ Flying(s)' = Flying(s) - CreditOf(p, s)
  <2>1. \A q \in ps : q \notin K
    BY <1>3, <1>5
  <2>2. /\ PacketBag(net') /\ InBag(net', K) = InBag(rest, K)
        /\ WeightIn(net', K, w) = WeightIn(rest, K, w)
    BY <1>1, <1>4, <2>1, OthersAdded
  <2>3. QED
    BY <1>1, <1>2, <1>3, <1>4, <2>2
<1>6. ASSUME NEW g \in Sent, ps = {g}
      PROVE  /\ IsFiniteSet(InFlight(s)')
             /\ Flying(s)' = Flying(s) - CreditOf(p, s) + CreditOf(g, s)
  <2>1. /\ PacketBag(net') /\ IsFiniteSet(InBag(net', K))
        /\ WeightIn(net', K, w) = WeightIn(rest, K, w) + WeightOf(g, K, w)
    BY <1>1, <1>4, <1>6, PacketAdded
  <2>2. QED
    BY <1>1, <1>2, <1>3, <1>4, <2>1
<1>7. QED
  BY <1>5, <1>6

\* The grants of a message on their way are credit of its sender.
LEMMA GrantsFly ==
  ASSUME PacketBag(net), NEW m \in Message, IsFiniteSet(InFlight(Src[m]))
  PROVE  IsFiniteSet(InBag(net, Grants(m))) /\ InBag(net, Grants(m)) \subseteq InFlight(Src[m])
<1>1. InBag(net, Grants(m)) \subseteq InFlight(Src[m])
  BY DEF InBag, Grants, InFlight
<1>2. QED
  BY <1>1, FS_Subset

\* Packets that are no grants of a message do not change what it may be granted.
LEMMA ReserveSame ==
  ASSUME NEW m \in Message, NEW B, NEW C,
         InBag(C, Grants(m)) = InBag(B, Grants(m)),
         WeightIn(C, Grants(m), Spare(m)) = WeightIn(B, Grants(m), Spare(m))
  PROVE  \A x : Reserve(m, x, C) = Reserve(m, x, B)
  BY DEF Reserve, Ends

LEMMA SendsReserve ==
  ASSUME NetOK, FramesFit, NEW ps \in SUBSET Sent, Sends(ps),
         NEW m \in Message, IsFiniteSet(InFlight(Src[m]))
  PROVE  /\ (\A q \in ps : q \notin Grants(m)) =>
              \A x : Reserve(m, x, net') = Reserve(m, x, net)
         /\ \A g \in Grants(m) : ps = {g} =>
              \A x \in Nat : g.data % MTU = 0 \/ x = 0 =>
                Reserve(m, x, net') = Reserve(m, x + g.data, net) - g.wire
<1>1. /\ PacketBag(net) /\ net' = net (+) SetToBag(ps)
      /\ Grants(m) \in SUBSET Sent /\ Spare(m) \in [Grants(m) -> Nat]
  BY SpareNat DEF NetOK, PacketBag, Sends
<1>2. IsFiniteSet(InBag(net, Grants(m)))
  BY <1>1, GrantsFly
<1>3. ASSUME \A q \in ps : q \notin Grants(m)
      PROVE  \A x : Reserve(m, x, net') = Reserve(m, x, net)
  BY <1>1, <1>3, OthersAdded, ReserveSame
<1>4. ASSUME NEW g \in Grants(m), ps = {g}, NEW x \in Nat, g.data % MTU = 0 \/ x = 0
      PROVE  Reserve(m, x, net') = Reserve(m, x + g.data, net) - g.wire
  BY <1>1, <1>2, <1>4, ReserveAdded
<1>5. QED
  BY <1>3, <1>4

LEMMA ReplacesReserve ==
  ASSUME NetOK, FramesFit, NEW p \in DOMAIN net, NEW ps \in SUBSET Sent, Replaces(p, ps),
         NEW m \in Message, IsFiniteSet(InFlight(Src[m])),
         (\A q \in ps : q \notin Grants(m))
           \/ (p \in Grants(m) /\ \E g \in Grants(m) : ps = {g} /\ g.data = p.data)
  PROVE  /\ \A x \in Nat : Reserve(m, x, net') <= Reserve(m, x, net)
         /\ p \in Grants(m) /\ (\A q \in ps : q \notin Grants(m)) =>
              \A x \in Nat, d \in 0 .. p.data :
                Reserve(m, x + d, net') <= Reserve(m, x, net) + p.wire
<1> DEFINE rest == net (-) SetToBag({p})
<1>1. /\ PacketBag(net) /\ net' = rest (+) SetToBag(ps)
      /\ Grants(m) \in SUBSET Sent /\ Spare(m) \in [Grants(m) -> Nat]
  BY SpareNat DEF NetOK, PacketBag, Replaces
<1>2. IsFiniteSet(InBag(net, Grants(m)))
  BY <1>1, GrantsFly
<1>3. \A x \in Nat : Reserve(m, x, net) \in Nat
  BY <1>1, <1>2, ReserveNat
<1>4. /\ PacketBag(rest) /\ IsFiniteSet(InBag(rest, Grants(m)))
      /\ \A x \in Nat : Reserve(m, x, rest) <= Reserve(m, x, net)
      /\ p \in Grants(m) => \A x \in Nat, d \in 0 .. p.data :
           Reserve(m, x + d, rest) <= Reserve(m, x, net) + p.wire
      /\ p \in Grants(m) =>
           WeightIn(rest, Grants(m), Spare(m)) = WeightIn(net, Grants(m), Spare(m)) - Spare(m)[p]
      /\ InBag(net, Grants(m)) \subseteq InBag(rest, Grants(m)) \cup {p}
      /\ InBag(rest, Grants(m)) \subseteq InBag(net, Grants(m))
  <2>1. CASE p \in Grants(m)
    <3>1. p \in InBag(net, Grants(m))
      BY <2>1 DEF InBag
    <3>2. DOMAIN rest \subseteq DOMAIN net
      BY <1>1, <1>2, PacketTaken
    <3> HIDE DEF rest
    <3>3. InBag(rest, Grants(m)) \subseteq InBag(net, Grants(m))
      BY <3>2 DEF InBag
    <3> USE DEF rest
    <3>4. QED
      BY <1>1, <1>2, <3>1, <3>3, ReserveTaken
  <2>2. CASE p \notin Grants(m)
    <3>1. /\ PacketBag(rest) /\ IsFiniteSet(InBag(rest, Grants(m)))
          /\ WeightIn(rest, Grants(m), Spare(m))
               = WeightIn(net, Grants(m), Spare(m)) - WeightOf(p, Grants(m), Spare(m))
          /\ DOMAIN rest \subseteq DOMAIN net /\ DOMAIN net \ {p} \subseteq DOMAIN rest
      BY <1>1, <1>2, PacketTaken
    <3> HIDE DEF rest
    <3>2. WeightOf(p, Grants(m), Spare(m)) = 0 /\ WeightIn(net, Grants(m), Spare(m)) \in Nat
      BY <1>1, <1>2, <2>2, WeightSumNat DEF WeightOf
    <3>3. InBag(rest, Grants(m)) = InBag(net, Grants(m))
      BY <2>2, <3>1 DEF InBag
    <3>4. \A x : Reserve(m, x, rest) = Reserve(m, x, net)
      BY <3>1, <3>2, <3>3, ReserveSame
    <3>5. \A x \in Nat : Reserve(m, x, rest) <= Reserve(m, x, net)
      BY <1>3, <3>4
    <3>6. QED
      BY <2>2, <3>1, <3>3, <3>5
  <2>3. QED
    BY <2>1, <2>2
<1> HIDE DEF rest
<1>5. CASE \A q \in ps : q \notin Grants(m)
  <2>1. \A x : Reserve(m, x, net') = Reserve(m, x, rest)
    BY <1>1, <1>4, <1>5, OthersAdded, ReserveSame
  <2>2. QED
    BY <1>4, <2>1
<1>6. CASE p \in Grants(m) /\ \E g \in Grants(m) : ps = {g} /\ g.data = p.data
  <2>1. PICK g \in Grants(m) : ps = {g} /\ g.data = p.data
    BY <1>6
  <2>2. /\ WeightIn(net', Grants(m), Spare(m)) = WeightIn(rest, Grants(m), Spare(m)) + Spare(m)[g]
        /\ InBag(net', Grants(m)) = InBag(rest, Grants(m)) \cup {g}
    BY <1>1, <1>4, <2>1, ReserveAdded
  <2>3. Spare(m)[g] = Spare(m)[p] /\ Spare(m)[p] \in Nat
    <3>1. g.wire = W(g.data) /\ p.wire = W(p.data)
      BY <1>6 DEF Grants
    <3>2. QED
      BY <1>6, <2>1, <3>1, SpareNat DEF Spare
  <2>4. /\ WeightIn(net, Grants(m), Spare(m)) \in Nat
        /\ WeightIn(net', Grants(m), Spare(m)) = WeightIn(net, Grants(m), Spare(m))
    <3>1. WeightIn(net, Grants(m), Spare(m)) \in Nat
      BY <1>1, <1>2, WeightSumNat
    <3>2. QED
      BY <1>4, <1>6, <2>2, <2>3, <3>1
  <2>5. ASSUME NEW x \in Nat PROVE Reserve(m, x, net') <= Reserve(m, x, net)
    <3>1. Ends(m, x, net) <=> Ends(m, x, net')
      <4>1. p \in InBag(net, Grants(m))
        BY <1>6 DEF InBag
      <4>2. QED
        BY <1>4, <2>1, <2>2, <4>1 DEF Ends
    <3>2. Reserve(m, x, net') = Reserve(m, x, net)
      BY <2>4, <3>1 DEF Reserve
    <3>3. QED
      BY <1>3, <3>2
  <2>6. QED
    BY <2>1, <2>5
<1>7. QED
  BY <1>5, <1>6

-----------------------------------------------------------------------------
(* The ledgers. *)

\* Sums over the messages of a sender change with one message.
LEMMA SumStep ==
  ASSUME NEW f, NEW g, NEW m \in Message, NEW s,
         \A x \in Message : f[x] \in Int /\ g[x] \in Int,
         \A x \in Message \ {m} : g[x] = f[x]
  PROVE  /\ SumFunctionOnSet(f, Messages(s)) \in Int
         /\ SumFunctionOnSet(g, Messages(s)) =
              SumFunctionOnSet(f, Messages(s)) + (IF s = Src[m] THEN g[m] - f[m] ELSE 0)
<1>1. IsFiniteSet(Messages(s)) /\ Messages(s) \subseteq Message
  BY MessageAssumption, FS_Subset DEF Messages
<1>2. SumFunctionOnSet(f, Messages(s)) \in Int
  BY <1>1, SumInt
<1>3. CASE s = Src[m]
  <2>1. m \in Messages(s)
    BY <1>3 DEF Messages
  <2>2. SumFunctionOnSet(g, Messages(s)) = SumFunctionOnSet(f, Messages(s)) + g[m] - f[m]
    BY <1>1, <2>1, SumUpdate
  <2>3. f[m] \in Int /\ g[m] \in Int
    OBVIOUS
  <2>4. QED
    BY <1>2, <1>3, <2>2, <2>3
<1>4. CASE s # Src[m]
  <2>1. \A x \in Messages(s) : g[x] = f[x]
    BY <1>4 DEF Messages
  <2>2. SumFunctionOnSet(g, Messages(s)) = SumFunctionOnSet(f, Messages(s))
    BY <1>1, <2>1, SumCongruent
  <2>3. QED
    BY <1>2, <1>4, <2>2
<1>5. QED
  BY <1>2, <1>3, <1>4

\* The terms of the ledgers are numbers.
TermsOK ==
  /\ \A m \in Message : /\ Slack(m) \in Int /\ Due(m) \in Int
                        /\ Unpaid(m) \in Nat /\ Spent(m) \in Nat /\ Lent(m) \in Nat
                        /\ Paid(m) \in Int /\ W(Size[m]) \in Nat /\ Brought(m) \in Nat
                        /\ m \in DOMAIN rxQp =>
                             /\ rxQp[m].pending \in Nat
                             /\ Reserve(m, rxQp[m].pending, net) \in Nat
  /\ \A s \in Sender : /\ Held(s) \in Nat /\ Flying(s) \in Nat
                       /\ OutWire(s) \in Nat /\ OutData(s) \in Nat
  /\ globalOut \in Nat

LEMMA Terms == IInv /\ HostInv => TermsOK
<1> SUFFICES ASSUME IInv, HostInv PROVE TermsOK
  OBVIOUS
<1>0. FramesFit
  BY DEF HostInv, Ordinary
<1>1. ASSUME NEW m \in Message
      PROVE  /\ Slack(m) \in Int /\ Due(m) \in Int
             /\ Unpaid(m) \in Nat /\ Spent(m) \in Nat /\ Lent(m) \in Nat
             /\ Paid(m) \in Int /\ W(Size[m]) \in Nat /\ Brought(m) \in Nat
             /\ m \in DOMAIN rxQp => /\ rxQp[m].pending \in Nat
                                     /\ Reserve(m, rxQp[m].pending, net) \in Nat
  <2> DEFINE wires == [i \in Chunk(m) |-> Wire(m, i)]
  <2>1. ASSUME NEW S \in SUBSET Chunk(m) PROVE SumFunctionOnSet(wires, S) \in Nat
    <3>1. IsFiniteSet(S)
      BY <1>0, WholeMessage, FS_Subset
    <3>2. \A i \in S : wires[i] \in Nat
      BY <1>0, PayloadNat
    <3> HIDE DEF wires
    <3>3. QED
      BY <3>1, <3>2, SumNat
  <2>2. Unpaid(m) \in Nat /\ Spent(m) \in Nat
    BY <2>1 DEF Unpaid, Spent, First
  <2>3. self[m].wire \in Nat
    BY DEF IInv, SendOK, Credited
  <2>4. Lent(m) \in Nat /\ Brought(m) \in Nat
    BY <2>3 DEF Lent, Brought
  <2>5. m \in DOMAIN rxQp => rxQp[m].pending \in Nat
    BY DEF IInv, RecvOK, RxQpOK, RxQpType
  <2>6. m \in DOMAIN rxQp => Reserve(m, rxQp[m].pending, net) \in Nat
    <3>1. PacketBag(net) /\ Src[m] \in Sender /\ IsFiniteSet(InFlight(Src[m]))
      BY MessageAssumption DEF HostInv, IInv, NetOK, PacketBag
    <3>2. IsFiniteSet(InBag(net, Grants(m)))
      BY <3>1, GrantsFly
    <3>3. QED
      BY <1>0, <2>5, <3>1, <3>2, ReserveNat
  <2>7. W(Size[m]) \in Nat
    BY <1>0, SizeNat, WireNat
  <2>8. Paid(m) \in Int
    BY <2>3, <2>6, <2>7 DEF Paid
  <2>9. QED
    BY <2>2, <2>4, <2>5, <2>6, <2>7, <2>8 DEF Slack, Due
<1>2. ASSUME NEW s \in Sender
      PROVE  /\ Held(s) \in Nat /\ Flying(s) \in Nat
             /\ OutWire(s) \in Nat /\ OutData(s) \in Nat
  <2>1. Held(s) \in Nat
    BY DEF Held, IInv, SendOK, ReceiverStatesOK, ReceiverStateType
  <2>2. OutWire(s) \in Nat /\ OutData(s) \in Nat
    BY DEF OutWire, OutData, IInv, RecvOK, SenderStatesOK, SoundState, SenderStateType
  <2>3. Flying(s) \in Nat
    <3>1. IsFiniteSet(InFlight(s)) /\ PacketBag(net)
      BY DEF HostInv, IInv, NetOK, PacketBag
    <3>2. QED
      BY <3>1, CreditNat, WeightSumNat, FlyingIsIn
  <2>4. QED
    BY <2>1, <2>2, <2>3
<1>3. globalOut \in Nat
  BY DEF IInv, RecvOK
<1>4. QED
  BY <1>1, <1>2, <1>3 DEF TermsOK

LEMMA TermsNext == IInv' /\ HostInv' => TermsOK'
  BY Terms, PTL

\* A step that adds nothing to what a message may be granted.
Quiet(x) == \A y \in Nat : Reserve(x, y, net') <= Reserve(x, y, net)

LEMMA QuietNet ==
  ASSUME IInv, HostInv, NEW x \in Message
  PROVE  /\ net' = net => Quiet(x)
         /\ \A ps \in SUBSET Sent :
              Sends(ps) /\ (\A q \in ps : q \notin Grants(x)) => Quiet(x)
         /\ \A p \in DOMAIN net, ps \in SUBSET Sent :
              Replaces(p, ps) /\ (\A q \in ps : q \notin Grants(x)) => Quiet(x)
<1>1. NetOK /\ FramesFit /\ PacketBag(net) /\ IsFiniteSet(InFlight(Src[x]))
  BY MessageAssumption DEF IInv, HostInv, Ordinary, NetOK, PacketBag
<1>2. \A y \in Nat : Reserve(x, y, net) \in Nat
  BY <1>1, GrantsFly, ReserveNat
<1>3. net' = net => Quiet(x)
  BY <1>2 DEF Quiet
<1>4. ASSUME NEW ps \in SUBSET Sent, Sends(ps), \A q \in ps : q \notin Grants(x)
      PROVE  Quiet(x)
  <2>1. \A y : Reserve(x, y, net') = Reserve(x, y, net)
    BY <1>1, <1>4, SendsReserve
  <2>2. QED
    BY <1>2, <2>1 DEF Quiet
<1>5. ASSUME NEW p \in DOMAIN net, NEW ps \in SUBSET Sent, Replaces(p, ps),
             \A q \in ps : q \notin Grants(x)
      PROVE  Quiet(x)
  BY <1>1, <1>5, ReplacesReserve DEF Quiet
<1>6. QED
  BY <1>3, <1>4, <1>5

\* A step that changes the ledger of one message.
LEMMA LedgerKeeps ==
  ASSUME TermsOK, TermsOK', NEW m \in Message, NEW s \in Sender, Ledger(s),
         \A x \in Message \ {m} : Slack(x) <= Slack(x)',
         Usable(s)' <= Usable(s) + (IF s = Src[m] THEN Slack(m)' - Slack(m) ELSE 0)
  PROVE  Ledger(s)'
<1> DEFINE f == [x \in Message |-> Slack(x)]
           g == [x \in Message |-> IF x = m THEN Slack(x)' ELSE Slack(x)]
           fs == [x \in Messages(s) |-> Slack(x)]
           gs == [x \in Messages(s) |-> Slack(x)']
<1>1. IsFiniteSet(Messages(s)) /\ Messages(s) \subseteq Message
  BY MessageAssumption, FS_Subset DEF Messages
<1>2. /\ \A x \in Message : f[x] \in Int /\ g[x] \in Int /\ (x # m => g[x] = f[x])
      /\ f[m] = Slack(m) /\ g[m] = Slack(m)'
  BY DEF TermsOK
<1>3. \A x \in Messages(s) : /\ fs[x] = f[x] /\ g[x] <= gs[x]
                             /\ gs[x] \in Int /\ g[x] \in Int
  BY <1>1 DEF TermsOK
<1>4. Usable(s) \in Int /\ Usable(s)' \in Int
  BY DEF TermsOK, Usable
<1>5. /\ Usable(s) <= SumFunctionOnSet(fs, Messages(s))
      /\ Ledger(s)' <=> Usable(s)' <= SumFunctionOnSet(gs, Messages(s))
  BY DEF Ledger, Messages
<1> HIDE DEF f, g, fs, gs
<1>6. /\ SumFunctionOnSet(fs, Messages(s)) = SumFunctionOnSet(f, Messages(s))
      /\ SumFunctionOnSet(g, Messages(s)) <= SumFunctionOnSet(gs, Messages(s))
      /\ SumFunctionOnSet(gs, Messages(s)) \in Int
  BY <1>1, <1>3, SumCongruent, SumMonotone, SumInt
<1>7. /\ SumFunctionOnSet(f, Messages(s)) \in Int
      /\ SumFunctionOnSet(g, Messages(s)) =
           SumFunctionOnSet(f, Messages(s)) + (IF s = Src[m] THEN g[m] - f[m] ELSE 0)
  <2>1. /\ \A x \in Message : f[x] \in Int /\ g[x] \in Int
        /\ \A x \in Message \ {m} : g[x] = f[x]
    BY <1>2
  <2>2. QED
    BY <2>1, SumStep
<1>8. (IF s = Src[m] THEN g[m] - f[m] ELSE 0) = (IF s = Src[m] THEN Slack(m)' - Slack(m) ELSE 0)
  BY <1>2
<1>9. (IF s = Src[m] THEN Slack(m)' - Slack(m) ELSE 0) \in Int
  BY DEF TermsOK
<1>10. QED
  BY <1>4, <1>5, <1>6, <1>7, <1>8, <1>9

LEMMA CountedKeeps ==
  ASSUME TermsOK, TermsOK', NEW m \in Message, NEW s \in Sender, Counted(s),
         \A x \in Message \ {m} : Due(x)' = Due(x),
         Usable(s)' <= Usable(s) + (IF s = Src[m] THEN Due(m)' - Due(m) ELSE 0)
                       + OutWire(s)' - OutWire(s)
  PROVE  Counted(s)'
<1> DEFINE f == [x \in Message |-> Due(x)]
           g == [x \in Message |-> Due(x)']
           fs == [x \in Messages(s) |-> Due(x)]
           gs == [x \in Messages(s) |-> Due(x)']
<1>1. IsFiniteSet(Messages(s)) /\ Messages(s) \subseteq Message
  BY MessageAssumption, FS_Subset DEF Messages
<1>2. \A x \in Message : f[x] = Due(x) /\ g[x] = Due(x)' /\ f[x] \in Int /\ g[x] \in Int
  BY DEF TermsOK
<1>3. \A x \in Messages(s) : fs[x] = f[x] /\ gs[x] = g[x]
  BY <1>1
<1>4. Usable(s) \in Int /\ Usable(s)' \in Int /\ OutWire(s) \in Int /\ OutWire(s)' \in Int
  BY DEF TermsOK, Usable
<1>5. /\ Usable(s) <= SumFunctionOnSet(fs, Messages(s)) + OutWire(s)
      /\ Counted(s)' <=> Usable(s)' <= SumFunctionOnSet(gs, Messages(s)) + OutWire(s)'
  BY DEF Counted, Messages
<1> HIDE DEF f, g, fs, gs
<1>6. /\ SumFunctionOnSet(fs, Messages(s)) = SumFunctionOnSet(f, Messages(s))
      /\ SumFunctionOnSet(gs, Messages(s)) = SumFunctionOnSet(g, Messages(s))
  BY <1>1, <1>3, SumCongruent
<1>7. /\ SumFunctionOnSet(f, Messages(s)) \in Int
      /\ SumFunctionOnSet(g, Messages(s)) =
           SumFunctionOnSet(f, Messages(s)) + (IF s = Src[m] THEN g[m] - f[m] ELSE 0)
  BY <1>2, SumStep
<1>8. (IF s = Src[m] THEN g[m] - f[m] ELSE 0) = (IF s = Src[m] THEN Due(m)' - Due(m) ELSE 0)
  BY <1>2
<1>9. (IF s = Src[m] THEN Due(m)' - Due(m) ELSE 0) \in Int
  BY DEF TermsOK
<1>10. QED
  BY <1>4, <1>5, <1>6, <1>7, <1>8, <1>9

\* Where no message has slack left that is not due, nothing need be outstanding.
LEMMA LedgerCounts ==
  ASSUME TermsOK', NEW s \in Sender, Ledger(s)',
         \A x \in Messages(s) : Slack(x)' <= Due(x)'
  PROVE  Counted(s)'
<1> DEFINE f == [x \in Messages(s) |-> Slack(x)']
           g == [x \in Messages(s) |-> Due(x)']
<1>1. IsFiniteSet(Messages(s)) /\ Messages(s) \subseteq Message
  BY MessageAssumption, FS_Subset DEF Messages
<1>2. \A x \in Messages(s) : f[x] \in Int /\ g[x] \in Int /\ f[x] <= g[x]
  BY <1>1 DEF TermsOK
<1>3. Usable(s)' \in Int /\ OutWire(s)' \in Nat
  BY DEF TermsOK, Usable
<1>4. /\ Usable(s)' <= SumFunctionOnSet(f, Messages(s))
      /\ Counted(s)' <=> Usable(s)' <= SumFunctionOnSet(g, Messages(s)) + OutWire(s)'
  BY DEF Ledger, Counted, Messages
<1> HIDE DEF f, g
<1>5. SumFunctionOnSet(f, Messages(s)) <= SumFunctionOnSet(g, Messages(s))
  BY <1>1, <1>2, SumMonotone
<1>6. SumFunctionOnSet(f, Messages(s)) \in Int /\ SumFunctionOnSet(g, Messages(s)) \in Int
  BY <1>1, <1>2, SumInt
<1>7. QED
  BY <1>3, <1>4, <1>5, <1>6

\* A step that changes the ledger of one message and what it has in the bucket.
LEMMA BucketKeeps ==
  ASSUME TermsOK, TermsOK', NEW m \in Message, BucketCovers, BucketHolds,
         \A x \in Message \ {m} : Due(x)' = Due(x) /\ Brought(x)' = Brought(x),
         \A s \in Sender : Usable(s)' <= Usable(s)
            + (IF s = Src[m] THEN Due(m)' - Due(m) + globalOut' - globalOut ELSE 0),
         \/ globalOut' <= globalOut + Brought(m)' - Brought(m)
         \/ GlobalBucket > 0 => globalOut' <= GlobalBucket
  PROVE  BucketCovers' /\ BucketHolds'
<1> DEFINE d == [x \in Message |-> Due(x)]
           dd == [x \in Message |-> Due(x)']
           b == [x \in Message |-> Brought(x)]
           bb == [x \in Message |-> Brought(x)']
           u == [s \in Sender |-> Usable(s)]
           uu == [s \in Sender |-> Usable(s)']
           g == [s \in Sender |-> IF s = Src[m] THEN
                    u[s] + (Due(m)' - Due(m) + globalOut' - globalOut) ELSE u[s]]
<1>1. /\ IsFiniteSet(Message) /\ IsFiniteSet(Sender) /\ Src[m] \in Sender
      /\ GlobalBucket \in Nat
  BY MessageAssumption, CreditAssumption
<1>2. /\ globalOut \in Nat /\ globalOut' \in Nat /\ Due(m) \in Int /\ Due(m)' \in Int
      /\ Brought(m) \in Nat /\ Brought(m)' \in Nat
  BY DEF TermsOK
<1>3. ASSUME NEW s \in Sender
      PROVE  /\ u[s] \in Int /\ uu[s] \in Int /\ g[s] \in Int /\ uu[s] <= g[s]
             /\ s # Src[m] => g[s] = u[s]
             /\ s = Src[m] => g[s] = u[s] + (Due(m)' - Due(m) + globalOut' - globalOut)
  <2>1. u[s] = Usable(s) /\ uu[s] = Usable(s)'
    OBVIOUS
  <2>2. Usable(s) \in Int /\ Usable(s)' \in Int
    BY DEF TermsOK, Usable
  <2>3. Usable(s)' <= Usable(s)
          + (IF s = Src[m] THEN Due(m)' - Due(m) + globalOut' - globalOut ELSE 0)
    OBVIOUS
  <2> HIDE DEF u, uu
  <2>4. g[s] = IF s = Src[m] THEN u[s] + (Due(m)' - Due(m) + globalOut' - globalOut) ELSE u[s]
    OBVIOUS
  <2> HIDE DEF g
  <2>5. QED
    BY <1>2, <2>1, <2>2, <2>3, <2>4
<1>4. \A x \in Message : /\ d[x] \in Int /\ dd[x] \in Int /\ b[x] \in Nat /\ bb[x] \in Nat
                         /\ d[x] = Due(x) /\ dd[x] = Due(x)'
                         /\ b[x] = Brought(x) /\ bb[x] = Brought(x)'
                         /\ x # m => dd[x] = d[x] /\ bb[x] = b[x]
  BY DEF TermsOK
<1>5. /\ BucketCovers <=> SumFunctionOnSet(u, Sender) <= SumFunctionOnSet(d, Message) + globalOut
      /\ BucketCovers' <=>
           SumFunctionOnSet(uu, Sender) <= SumFunctionOnSet(dd, Message) + globalOut'
      /\ BucketHolds <=>
           (GlobalBucket > 0 => globalOut <= GlobalBucket + SumFunctionOnSet(b, Message))
      /\ BucketHolds' <=>
           (GlobalBucket > 0 => globalOut' <= GlobalBucket + SumFunctionOnSet(bb, Message))
  BY DEF BucketCovers, BucketHolds
<1> HIDE DEF d, dd, b, bb, u, uu, g
<1>6. /\ SumFunctionOnSet(d, Message) \in Int /\ SumFunctionOnSet(b, Message) \in Nat
      /\ SumFunctionOnSet(bb, Message) \in Nat /\ SumFunctionOnSet(u, Sender) \in Int
      /\ SumFunctionOnSet(uu, Sender) \in Int /\ SumFunctionOnSet(g, Sender) \in Int
  BY <1>1, <1>3, <1>4, SumInt, SumNat
<1>7. SumFunctionOnSet(dd, Message) = SumFunctionOnSet(d, Message) + dd[m] - d[m]
  BY <1>1, <1>4, SumUpdate
<1>8. SumFunctionOnSet(bb, Message) = SumFunctionOnSet(b, Message) + bb[m] - b[m]
  <2>1. \A x \in Message : b[x] \in Int /\ bb[x] \in Int
    BY <1>4
  <2>2. \A x \in Message \ {m} : bb[x] = b[x]
    BY <1>4
  <2>3. QED
    BY <1>1, <2>1, <2>2, SumUpdate
<1>9. SumFunctionOnSet(g, Sender) = SumFunctionOnSet(u, Sender) + g[Src[m]] - u[Src[m]]
  BY <1>1, <1>3, SumUpdate
<1>10. SumFunctionOnSet(uu, Sender) <= SumFunctionOnSet(g, Sender)
  BY <1>1, <1>3, SumMonotone
<1>11. BucketCovers'
  <2>1. /\ g[Src[m]] = u[Src[m]] + (Due(m)' - Due(m) + globalOut' - globalOut)
        /\ u[Src[m]] \in Int /\ d[m] = Due(m) /\ dd[m] = Due(m)'
    BY <1>1, <1>3, <1>4
  <2>2. SumFunctionOnSet(u, Sender) <= SumFunctionOnSet(d, Message) + globalOut
    BY <1>5
  <2>3. SumFunctionOnSet(uu, Sender) <= SumFunctionOnSet(dd, Message) + globalOut'
    BY <1>2, <1>6, <1>7, <1>9, <1>10, <2>1, <2>2
  <2>4. QED
    BY <1>5, <2>3
<1>12. BucketHolds'
  <2>1. b[m] = Brought(m) /\ bb[m] = Brought(m)'
    BY <1>4
  <2>2. /\ GlobalBucket \in Nat
        /\ GlobalBucket > 0 => globalOut <= GlobalBucket + SumFunctionOnSet(b, Message)
    BY <1>1, <1>5
  <2>3. GlobalBucket > 0 => globalOut' <= GlobalBucket + SumFunctionOnSet(bb, Message)
    <3>1. CASE globalOut' <= globalOut + Brought(m)' - Brought(m)
      BY <1>2, <1>6, <1>8, <2>1, <2>2, <3>1
    <3>2. CASE GlobalBucket > 0 => globalOut' <= GlobalBucket
      BY <1>2, <1>6, <2>2, <3>2
    <3>3. QED
      BY <3>1, <3>2
  <2>4. QED
    BY <1>5, <2>3
<1>13. QED
  BY <1>11, <1>12
-----------------------------------------------------------------------------
(* What the handlers change. *)

\* A message the step does not touch keeps its ledgers.
LEMMA Untouched ==
  ASSUME NEW x, next'[x] = next[x], self'[x] = self[x],
         x \in DOMAIN rxQp' <=> x \in DOMAIN rxQp,
         x \in DOMAIN rxQp => rxQp'[x] = rxQp[x]
  PROVE  /\ Due(x)' = Due(x) /\ First(x)' = First(x) /\ Spent(x)' = Spent(x)
         /\ Brought(x)' = Brought(x)
         /\ x \in Message /\ TermsOK /\ TermsOK' /\ Quiet(x) => Slack(x) <= Slack(x)'
<1>1. First(x)' = First(x)
  BY DEF First
<1>2. Got(x)' = Got(x)
  BY DEF Got
<1>3. Known' = {y \in DOMAIN rxQp' : rxQp'[y].accounted}
  BY DEF Known
<1>4. Lent(x)' = Lent(x) /\ Brought(x)' = Brought(x)
  BY <1>3 DEF Lent, Brought, Known
<1>5. Unpaid(x)' = Unpaid(x)
  BY <1>1, <1>2 DEF Unpaid
<1>6. Spent(x)' = Spent(x)
  BY <1>1 DEF Spent
<1>7. ASSUME x \in Message, TermsOK, TermsOK', Quiet(x) PROVE Slack(x) <= Slack(x)'
  <2>1. /\ Paid(x) \in Int /\ Paid(x)' \in Int /\ Spent(x) \in Nat
        /\ W(Size[x]) \in Nat
    BY <1>7 DEF TermsOK
  <2>2. CASE x \in DOMAIN rxQp
    <3>1. Reserve(x, rxQp[x].pending, net) \in Nat /\ Reserve(x, rxQp'[x].pending, net') \in Nat
      BY <1>7, <2>2 DEF TermsOK
    <3>2. rxQp[x].pending \in Nat
      BY <1>7, <2>2, <3>1 DEF TermsOK
    <3>3. QED
      BY <1>6, <1>7, <2>1, <2>2, <3>1, <3>2 DEF Slack, Paid, Quiet
  <2>3. CASE x \notin DOMAIN rxQp
    BY <1>6, <2>1, <2>3 DEF Slack, Paid
  <2>4. QED
    BY <2>2, <2>3
<1>8. QED
  BY <1>1, <1>4, <1>5, <1>6, <1>7 DEF Due

\* The ReceiverState a sender opens.
LEMMA PeerOpens ==
  ASSUME SendOK, PeerInv, NEW m \in Message
  PROVE  LET st == GetReceiverState(m)
         IN /\ st \in ReceiverStateType /\ st.avail = Held(Src[m]) /\ m \in st.msgs
            /\ Src[m] \in DOMAIN receiverStates =>
                 /\ st.enabled /\ st.thresh = UnsolThresh
                 /\ receiverStates[Src[m]].msgs \subseteq st.msgs
            /\ Src[m] \notin DOMAIN receiverStates => ~st.enabled
<1>1. GetReceiverState(m) \in ReceiverStateType
  BY ReceiverStateOpens
<1>2. CASE Src[m] \in DOMAIN receiverStates
  <2>1. GetReceiverState(m) = [receiverStates[Src[m]] EXCEPT !.msgs = @ \cup {m}]
    BY <1>2 DEF GetReceiverState
  <2>2. receiverStates[Src[m]] \in ReceiverStateType
    BY <1>2 DEF SendOK, ReceiverStatesOK
  <2>3. QED
    BY <1>1, <1>2, <2>1, <2>2 DEF Held, PeerInv, ReceiverStateType
<1>3. CASE Src[m] \notin DOMAIN receiverStates
  <2>1. GetReceiverState(m) = [NewReceiverState EXCEPT !.msgs = @ \cup {m}]
    BY <1>3 DEF GetReceiverState
  <2>2. QED
    BY <1>1, <1>3, <2>1 DEF Held, NewReceiverState
<1>4. QED
  BY <1>2, <1>3

\* The ReceiverState a sender stores.
LEMMA PeerStored ==
  ASSUME SendOK, PeerInv, NEW m \in Message, NEW v \in ReceiverStateType,
         receiverStates' = Put(receiverStates, Src[m], v),
         v.enabled, v.thresh = UnsolThresh, v.msgs = GetReceiverState(m).msgs
  PROVE  /\ PeerInv' /\ Held(Src[m])' = v.avail
         /\ \A s \in Sender \ {Src[m]} : Held(s)' = Held(s)
         /\ \A x \in Message :
              x = m \/ (/\ Src[x] \in DOMAIN receiverStates
                        /\ x \in receiverStates[Src[x]].msgs)
                => Src[x] \in DOMAIN receiverStates' /\ x \in receiverStates'[Src[x]].msgs
<1>1. /\ DOMAIN receiverStates' = DOMAIN receiverStates \cup {Src[m]}
      /\ receiverStates'[Src[m]] = v
      /\ \A s \in DOMAIN receiverStates \ {Src[m]} : receiverStates'[s] = receiverStates[s]
  BY DEF Put
<1>2. m \in v.msgs /\ (Src[m] \in DOMAIN receiverStates =>
                         receiverStates[Src[m]].msgs \subseteq v.msgs)
  BY PeerOpens
<1>3. PeerInv'
  BY <1>1 DEF PeerInv
<1>4. Held(Src[m])' = v.avail /\ \A s \in Sender \ {Src[m]} : Held(s)' = Held(s)
  BY <1>1 DEF Held
<1>5. ASSUME NEW x \in Message,
             x = m \/ (/\ Src[x] \in DOMAIN receiverStates
                       /\ x \in receiverStates[Src[x]].msgs)
      PROVE  Src[x] \in DOMAIN receiverStates' /\ x \in receiverStates'[Src[x]].msgs
  BY <1>1, <1>2, <1>5
<1>6. QED
  BY <1>3, <1>4, <1>5

\* Steps that leave the ledgers of all messages.
LEMMA LedgersRest ==
  ASSUME CreditInv, IInv', HostInv', globalOut' = globalOut,
         \A x \in Message : /\ Slack(x) <= Slack(x)' /\ Due(x)' = Due(x)
                            /\ Brought(x)' = Brought(x),
         \A s \in Sender : Usable(s)' <= Usable(s) /\ OutWire(s)' = OutWire(s)
  PROVE  /\ \A s \in Sender : Ledger(s)' /\ Counted(s)'
         /\ BucketCovers' /\ BucketHolds'
<1>1. TermsOK /\ TermsOK'
  BY Terms, TermsNext DEF CreditInv
<1>2. ASSUME NEW s \in Sender
      PROVE Usable(s) \in Int /\ Usable(s)' \in Int /\ OutWire(s) \in Int
  BY <1>1 DEF TermsOK, Usable
<1>3. CASE Message = {}
  <2>1. \A s : Messages(s) = {}
    BY <1>3 DEF Messages
  <2>2. \A f, s : SumFunctionOnSet(f, Messages(s)) = 0 /\ SumFunctionOnSet(f, Message) = 0
    BY <1>3, <2>1, SumEmpty
  <2>3. ASSUME NEW s \in Sender PROVE Ledger(s)' /\ Counted(s)'
    <3>1. (Ledger(s)' <=> Usable(s)' <= 0) /\ (Ledger(s) <=> Usable(s) <= 0)
      BY <2>2 DEF Ledger, Messages
    <3>2. /\ Counted(s)' <=> Usable(s)' <= 0 + OutWire(s)'
          /\ Counted(s) <=> Usable(s) <= 0 + OutWire(s)
      BY <2>2 DEF Counted, Messages
    <3>3. QED
      BY <1>2, <3>1, <3>2 DEF CreditInv
  <2>4. BucketHolds'
    BY <2>2 DEF CreditInv, BucketHolds
  <2>5. BucketCovers'
    <3> DEFINE u == [s \in Sender |-> Usable(s)]
               uu == [s \in Sender |-> Usable(s)']
    <3>1. \A s \in Sender : u[s] \in Int /\ uu[s] \in Int /\ uu[s] <= u[s]
      BY <1>2
    <3>2. /\ BucketCovers <=> SumFunctionOnSet(u, Sender) <= 0 + globalOut
          /\ BucketCovers' <=> SumFunctionOnSet(uu, Sender) <= 0 + globalOut
      BY <2>2 DEF BucketCovers
    <3>3. IsFiniteSet(Sender) /\ globalOut \in Nat
      BY <1>1, MessageAssumption DEF TermsOK
    <3> HIDE DEF u, uu
    <3>4. /\ SumFunctionOnSet(uu, Sender) <= SumFunctionOnSet(u, Sender)
          /\ SumFunctionOnSet(uu, Sender) \in Int /\ SumFunctionOnSet(u, Sender) \in Int
      BY <3>1, <3>3, SumMonotone, SumInt
    <3>5. QED
      BY <3>2, <3>3, <3>4 DEF CreditInv
  <2>6. QED
    BY <2>3, <2>4, <2>5
<1>4. CASE Message # {}
  <2>1. PICK m \in Message : TRUE
    BY <1>4
  <2>2. /\ Slack(m) \in Int /\ Slack(m)' \in Int /\ Due(m) \in Int /\ globalOut \in Nat
        /\ Brought(m) \in Nat
    BY <1>1 DEF TermsOK
  <2>3. ASSUME NEW s \in Sender PROVE Ledger(s)' /\ Counted(s)'
    <3>1. Usable(s)' <= Usable(s) + (IF s = Src[m] THEN Slack(m)' - Slack(m) ELSE 0)
      BY <1>2, <2>2
    <3>2. Usable(s)' <= Usable(s) + (IF s = Src[m] THEN Due(m)' - Due(m) ELSE 0)
                        + OutWire(s)' - OutWire(s)
      BY <1>2, <2>2
    <3>3. Ledger(s)'
      BY <1>1, <3>1, LedgerKeeps DEF CreditInv
    <3>4. Counted(s)'
      BY <1>1, <3>2, CountedKeeps DEF CreditInv
    <3>5. QED
      BY <3>3, <3>4
  <2>4. ASSUME NEW s \in Sender
        PROVE  Usable(s)' <= Usable(s)
                 + (IF s = Src[m] THEN Due(m)' - Due(m) + globalOut' - globalOut ELSE 0)
    BY <1>2, <2>2
  <2>5. globalOut' <= globalOut + Brought(m)' - Brought(m)
    BY <2>2
  <2>6. BucketCovers' /\ BucketHolds'
    BY <1>1, <2>4, <2>5, BucketKeeps DEF CreditInv
  <2>7. QED
    BY <2>3, <2>6
<1>5. QED
  BY <1>3, <1>4

LEMMA AddQueuePairInv ==
  ASSUME CreditInv, IInv', NEW m \in Message, AddQueuePair(m)
  PROVE  CreditInv'
<1> DEFINE st == GetReceiverState(m)
           ready == IF st.enabled THEN st
                    ELSE [st EXCEPT !.enabled = TRUE, !.thresh = UnsolThresh]
<1>1. /\ state[m] = "new" /\ state' = [state EXCEPT ![m] = "active"]
      /\ receiverStates' = Put(receiverStates, Src[m], ready)
      /\ UNCHANGED <<class, self, announced, next, rxQp, senderStates, globalOut, net>>
  BY DEF AddQueuePair, recvVars, netVars
<1>2. SendOK /\ PeerInv /\ SenderInv(m) /\ ReceiverInv(m)
  BY DEF CreditInv, IInv, HostInv
<1>3. /\ st \in ReceiverStateType /\ st.avail = Held(Src[m])
      /\ st.enabled => st.thresh = UnsolThresh
  BY <1>2, PeerOpens
<1> HIDE DEF st
<1>4. /\ ready \in ReceiverStateType /\ ready.enabled /\ ready.thresh = UnsolThresh
      /\ ready.msgs = st.msgs /\ ready.avail = st.avail
  BY <1>3, CreditAssumption DEF ReceiverStateType
<1> HIDE DEF ready
<1>5. /\ PeerInv' /\ Held(Src[m])' = Held(Src[m])
      /\ \A s \in Sender \ {Src[m]} : Held(s)' = Held(s)
      /\ \A x \in Message :
           x = m \/ (/\ Src[x] \in DOMAIN receiverStates
                     /\ x \in receiverStates[Src[x]].msgs)
             => Src[x] \in DOMAIN receiverStates' /\ x \in receiverStates'[Src[x]].msgs
  <2>1. ready.msgs = GetReceiverState(m).msgs
    BY <1>4 DEF st
  <2>2. QED
    BY <1>1, <1>2, <1>3, <1>4, <2>1, PeerStored
<1>6. ASSUME NEW x \in Message PROVE SenderInv(x)' /\ ReceiverInv(x)'
  <2>1. SenderInv(x) /\ ReceiverInv(x)
    BY DEF CreditInv, HostInv
  <2>2. state'[x] = IF x = m THEN "active" ELSE state[x]
    BY <1>1, <1>2 DEF SendOK
  <2>3. m \notin DOMAIN rxQp
    BY <1>1, <1>2 DEF SenderInv, ReceiverInv
  <2>4. SenderInv(x)'
    <3>1. Portion(x, self[x])' <=> Portion(x, self[x])
      BY <1>1 DEF Portion
    <3>2. QED
      BY <1>1, <1>5, <2>1, <2>2, <3>1 DEF SenderInv
  <2>5. ReceiverInv(x)'
    BY <1>1, <2>1, <2>2, <2>3 DEF ReceiverInv, First, Listed
  <2>6. QED
    BY <2>4, <2>5
<1>7. HostInv'
  <2>1. \A s \in Sender : OutData(s)' = OutData(s) /\ InFlight(s)' = InFlight(s)
    BY <1>1 DEF OutData, InFlight
  <2>2. QED
    BY <1>5, <1>6, <2>1 DEF CreditInv, HostInv
<1>8. NetInv'
  BY <1>1 DEF CreditInv, NetInv, PacketInv, CreditPacket, DataPacket
<1>9. \A x \in Message : /\ Slack(x) <= Slack(x)' /\ Due(x)' = Due(x)
                         /\ Brought(x)' = Brought(x)
  BY <1>1, <1>7, QuietNet, Terms, TermsNext, Untouched DEF CreditInv
<1>10. ASSUME NEW s \in Sender PROVE Usable(s)' <= Usable(s) /\ OutWire(s)' = OutWire(s)
  <2>1. Flying(s)' = Flying(s) /\ OutWire(s)' = OutWire(s)
    BY <1>1 DEF Flying, InFlight, OutWire
  <2>2. Held(s)' = Held(s)
    BY <1>5
  <2>3. Held(s) \in Nat /\ Flying(s) \in Nat
    BY Terms DEF CreditInv, TermsOK
  <2>4. QED
    BY <2>1, <2>2, <2>3 DEF Usable
<1>11. /\ \A s \in Sender : Ledger(s)' /\ Counted(s)'
       /\ BucketCovers' /\ BucketHolds'
  BY <1>1, <1>7, <1>9, <1>10, LedgersRest
<1>12. QED
  BY <1>7, <1>8, <1>11 DEF CreditInv

\* Steps of the network that leave the hosts alone and make no credit.
LEMMA NetworkOnly ==
  ASSUME CreditInv, IInv', NEW p \in DOMAIN net, NEW ps \in SUBSET Sent,
         Replaces(p, ps), UNCHANGED <<sendVars, recvVars>>,
         \A q \in ps : PacketInv(q)', p.kind # "GRANT_REQ",
         \A s \in Sender : IsFiniteSet(InFlight(s)') /\ Flying(s)' <= Flying(s),
         \A x \in Message : Quiet(x)
  PROVE  CreditInv'
<1>1. /\ UNCHANGED <<state, class, self, announced, next, receiverStates>>
      /\ UNCHANGED <<rxQp, senderStates, globalOut>>
  BY DEF sendVars, recvVars
<1>2. /\ DOMAIN net' \subseteq DOMAIN net \cup ps
      /\ (DOMAIN net \ {p}) \cup ps \subseteq DOMAIN net'
  BY NetMembers DEF CreditInv, IInv
<1>3. ASSUME NEW x \in Message PROVE SenderInv(x)' /\ ReceiverInv(x)'
  <2>1. SenderInv(x) /\ ReceiverInv(x)
    BY DEF CreditInv, HostInv
  <2>2. GrantReq(x) \in DOMAIN net => GrantReq(x) \in DOMAIN net'
    BY <1>2 DEF GrantReq
  <2>3. SenderInv(x)'
    BY <1>1, <2>1, <2>2 DEF SenderInv, Portion
  <2>4. ReceiverInv(x)'
    BY <1>1, <2>1 DEF ReceiverInv, First, Listed
  <2>5. QED
    BY <2>3, <2>4
<1>4. HostInv'
  <2>1. \A s \in Sender : OutData(s)' = OutData(s)
    BY <1>1 DEF OutData
  <2>2. PeerInv'
    BY <1>1 DEF CreditInv, HostInv, PeerInv
  <2>3. QED
    BY <1>3, <2>1, <2>2 DEF CreditInv, HostInv
<1>5. NetInv'
  <2>1. \A q \in DOMAIN net : PacketInv(q)'
    BY <1>1 DEF CreditInv, NetInv, PacketInv, CreditPacket, DataPacket
  <2>2. QED
    BY <1>2, <2>1 DEF NetInv
<1>6. \A x \in Message : /\ Slack(x) <= Slack(x)' /\ Due(x)' = Due(x)
                         /\ Brought(x)' = Brought(x)
  BY <1>1, <1>4, Terms, TermsNext, Untouched DEF CreditInv
<1>7. ASSUME NEW s \in Sender PROVE Usable(s)' <= Usable(s) /\ OutWire(s)' = OutWire(s)
  <2>1. Held(s)' = Held(s) /\ OutWire(s)' = OutWire(s)
    BY <1>1 DEF Held, OutWire
  <2>2. Held(s) \in Nat /\ Flying(s) \in Nat /\ Flying(s)' \in Nat
    BY <1>4, Terms, TermsNext DEF CreditInv, TermsOK
  <2>3. QED
    BY <2>1, <2>2 DEF Usable
<1>8. /\ \A s \in Sender : Ledger(s)' /\ Counted(s)'
      /\ BucketCovers' /\ BucketHolds'
  BY <1>1, <1>4, <1>6, <1>7, LedgersRest
<1>9. QED
  BY <1>4, <1>5, <1>8 DEF CreditInv

LEMMA ReceiveResendInv ==
  ASSUME CreditInv, IInv', NEW p \in DOMAIN net, p.kind = "RESEND", ReceiveResend(p)
  PROVE  CreditInv'
<1> DEFINE m == p.msg
           again == {i \in p.range : i < next[m]}
           ps == {Data(m, i, NoCredit) : i \in again}
<1>1. p \in Sent /\ m \in Message /\ p.range \subseteq Nat
  BY DEF CreditInv, IInv, NetOK, Sent, Packet
<1>2. m \in DOMAIN rxQp /\ announced[m]
  BY <1>1 DEF CreditInv, NetInv, PacketInv, HostInv, ReceiverInv
<1>3. Replaces(p, ps) /\ UNCHANGED <<sendVars, recvVars>>
  BY DEF ReceiveResend
<1>4. UNCHANGED <<self, announced, next, rxQp>>
  BY <1>3 DEF sendVars, recvVars
<1>5. ASSUME NEW q \in ps
      PROVE  /\ q \in Sent /\ q.kind = "REQUEST" /\ PacketInv(q)'
  <2>1. PICK i \in again : q = Data(m, i, NoCredit)
    OBVIOUS
  <2>2. i \in Nat /\ i < next[m]
    BY <1>1
  <2>3. i \in Chunk(m)
    <3>1. next[m] \in Nat /\ next[m] <= Count(Size[m]) /\ Count(Size[m]) \in Nat
      BY <1>1, ChunksOf DEF CreditInv, IInv, SendOK
    <3>2. QED
      BY <2>2, <3>1 DEF Chunk
  <2>4. q \in Sent
    BY <1>1, <2>1, <2>2, <2>3 DEF Data, NoCredit, Sent, Packet
  <2>5. /\ q.kind = "REQUEST" /\ q.msg = m /\ q.chunk = i /\ q.own = NoCredit
    BY <2>1 DEF Data
  <2> HIDE DEF m
  <2>6. PacketInv(q)'
    BY <1>2, <1>4, <2>2, <2>5 DEF PacketInv, DataPacket
  <2>7. QED
    BY <2>4, <2>5, <2>6
<1> HIDE DEF ps
<1>6. ASSUME NEW s \in Sender
      PROVE  IsFiniteSet(InFlight(s)') /\ Flying(s)' <= Flying(s)
  <2>1. NetOK /\ IsFiniteSet(InFlight(s)) /\ ps \in SUBSET Sent
    BY <1>5 DEF CreditInv, IInv, HostInv
  <2>2. \A q \in ps : ~IsCredit(q, s)
    BY <1>5 DEF IsCredit
  <2>3. IsFiniteSet(InFlight(s)') /\ Flying(s)' = Flying(s) - CreditOf(p, s)
    BY <1>3, <2>1, <2>2, ReplacesFlying
  <2>4. CreditOf(p, s) \in Nat /\ Flying(s) \in Nat
    BY <1>1, CreditNat, Terms DEF CreditInv, TermsOK
  <2>5. QED
    BY <2>3, <2>4
<1>7. ps \in SUBSET Sent /\ \A q \in ps : PacketInv(q)'
  BY <1>5
<1>8. ASSUME NEW x \in Message PROVE Quiet(x)
  <2>1. \A q \in ps : q \notin Grants(x)
    BY <1>5 DEF Grants
  <2>2. QED
    BY <1>3, <1>7, <2>1, QuietNet DEF CreditInv
<1>9. QED
  BY <1>3, <1>6, <1>7, <1>8, NetworkOnly

LEMMA BounceInv ==
  ASSUME CreditInv, IInv', NEW p \in DOMAIN net, Bounce(p)
  PROVE  CreditInv'
<1> DEFINE g == Bounced(p)
<1>1. /\ p \in Sent /\ p.kind = "GRANT" /\ Replaces(p, {g})
      /\ UNCHANGED <<sendVars, recvVars>>
  BY DEF Bounce, CreditInv, IInv, NetOK
<1>2. p \in [kind : {"GRANT", "BOUNCED"}, msg : Message, data : Nat, wire : Nat]
  BY <1>1 DEF Sent, Packet
<1>3. /\ g \in [kind : {"GRANT", "BOUNCED"}, msg : Message, data : Nat, wire : Nat]
      /\ g.kind = "BOUNCED" /\ g.msg = p.msg /\ g.data = p.data /\ g.wire = p.wire
  BY <1>2 DEF Bounced
<1> HIDE DEF g
<1>4. g \in Sent
  BY <1>3 DEF Sent, Packet
<1>5. CreditPacket(p) /\ UNCHANGED rxQp
  BY <1>1 DEF CreditInv, NetInv, PacketInv, recvVars
<1>6. PacketInv(g)'
  BY <1>3, <1>5 DEF PacketInv, CreditPacket
<1>7. ASSUME NEW s \in Sender
      PROVE  IsFiniteSet(InFlight(s)') /\ Flying(s)' <= Flying(s)
  <2>1. NetOK /\ IsFiniteSet(InFlight(s)) /\ {g} \in SUBSET Sent
    BY <1>4 DEF CreditInv, IInv, HostInv
  <2>2. IsFiniteSet(InFlight(s)') /\ Flying(s)' = Flying(s) - CreditOf(p, s) + CreditOf(g, s)
    BY <1>1, <1>4, <2>1, ReplacesFlying
  <2>3. CreditOf(g, s) = CreditOf(p, s)
    BY <1>1, <1>3 DEF CreditOf, IsCredit
  <2>4. CreditOf(p, s) \in Nat /\ Flying(s) \in Nat
    BY <1>1, CreditNat, Terms DEF CreditInv, TermsOK
  <2>5. QED
    BY <2>2, <2>3, <2>4
<1>8. {g} \in SUBSET Sent /\ \A q \in {g} : PacketInv(q)'
  BY <1>4, <1>6
<1>9. p.kind # "GRANT_REQ"
  BY <1>1
<1>10. ASSUME NEW x \in Message PROVE Quiet(x)
  <2>1. /\ NetOK /\ FramesFit /\ {g} \in SUBSET Sent /\ IsFiniteSet(InFlight(Src[x]))
    BY <1>4, MessageAssumption DEF CreditInv, IInv, HostInv, Ordinary
  <2>2. CASE g \notin Grants(x)
    BY <1>1, <2>1, <2>2, QuietNet DEF CreditInv
  <2>3. CASE g \in Grants(x)
    <3>1. p \in Grants(x)
      BY <1>1, <1>3, <2>3 DEF Grants
    <3>2. QED
      BY <1>1, <1>3, <2>1, <2>3, <3>1, ReplacesReserve DEF Quiet
  <2>4. QED
    BY <2>2, <2>3
<1>11. QED
  BY <1>1, <1>7, <1>8, <1>9, <1>10, NetworkOnly

LEMMA LoseInv ==
  ASSUME CreditInv, IInv', NEW p \in DOMAIN net, Lose(p)
  PROVE  CreditInv'
<1>1. p \in Sent /\ p.kind \in Lossy /\ Replaces(p, {}) /\ UNCHANGED <<sendVars, recvVars>>
  BY DEF Lose, CreditInv, IInv, NetOK
<1>2. p.kind # "GRANT_REQ"
  BY <1>1 DEF CreditInv, HostInv, Ordinary, OrderedRequests
<1>3. ASSUME NEW s \in Sender
      PROVE  IsFiniteSet(InFlight(s)') /\ Flying(s)' <= Flying(s)
  <2>1. NetOK /\ IsFiniteSet(InFlight(s)) /\ {} \in SUBSET Sent
    BY DEF CreditInv, IInv, HostInv
  <2>2. IsFiniteSet(InFlight(s)') /\ Flying(s)' = Flying(s) - CreditOf(p, s)
    BY <1>1, <2>1, ReplacesFlying
  <2>3. CreditOf(p, s) \in Nat /\ Flying(s) \in Nat
    BY <1>1, CreditNat, Terms DEF CreditInv, TermsOK
  <2>4. QED
    BY <2>2, <2>3
<1>4. {} \in SUBSET Sent /\ \A q \in {} : PacketInv(q)'
  OBVIOUS
<1>5. \A x \in Message : Quiet(x)
  BY <1>1, <1>4, QuietNet DEF CreditInv
<1>6. QED
  BY <1>1, <1>2, <1>3, <1>4, <1>5, NetworkOnly

\* A message all of whose chunks came has no slack left; one that the receiver
\* does not know yet owes what it has lent.
SettledOK ==
  \A m \in Message :
    /\ m \in DOMAIN rxQp /\ rxQp[m].chunks = Chunk(m) => Slack(m) <= 0 /\ Due(m) = 0
    /\ m \notin DOMAIN rxQp => Slack(m) = Due(m)

LEMMA Settled == IInv /\ HostInv => SettledOK
<1> SUFFICES ASSUME IInv, HostInv, NEW m \in Message
             PROVE  /\ m \in DOMAIN rxQp /\ rxQp[m].chunks = Chunk(m) =>
                         Slack(m) <= 0 /\ Due(m) = 0
                    /\ m \notin DOMAIN rxQp => Slack(m) = Due(m)
  BY DEF SettledOK
<1>0. FramesFit
  BY DEF HostInv, Ordinary
<1>1. ASSUME m \in DOMAIN rxQp, rxQp[m].chunks = Chunk(m)
      PROVE  Slack(m) <= 0 /\ Due(m) = 0
  <2>1. rxQp[m].accounted /\ rxQp[m].chunks \subseteq First(m) /\ rxQp[m].pending \in Nat
    BY <1>1 DEF HostInv, ReceiverInv, IInv, RecvOK, RxQpOK, RxQpType
  <2>2. First(m) = Chunk(m) /\ First(m) \ Got(m) = {}
    BY <1>1, <2>1 DEF First, Got
  <2>3. Spent(m) = W(Size[m])
    BY <1>0, <2>2, WholeMessage DEF Spent
  <2>4. Unpaid(m) = 0
    BY <2>2, SumEmpty DEF Unpaid
  <2>5. Lent(m) = 0
    BY <1>1, <2>1 DEF Lent, Known
  <2>6. W(Size[m]) \in Nat /\ Reserve(m, rxQp[m].pending, net) \in Nat
    BY <1>1, Terms DEF TermsOK
  <2>7. QED
    BY <1>1, <2>3, <2>4, <2>5, <2>6 DEF Slack, Due, Paid
<1>2. ASSUME m \notin DOMAIN rxQp PROVE Slack(m) = Due(m)
  <2>1. First(m) \ Got(m) = First(m)
    BY <1>2 DEF Got
  <2>2. Unpaid(m) = Spent(m)
    BY <2>1 DEF Unpaid, Spent
  <2>3. QED
    BY <1>2, <2>2 DEF Slack, Due, Paid, Lent, Known
<1>3. QED
  BY <1>1, <1>2

LEMMA SettledNext == IInv' /\ HostInv' => SettledOK'
  BY Settled, PTL

\* A grant finds the ReceiverState of its sender: with it goes the last
\* message, and the ledger holds no credit for messages that are done.
LEMMA GrantFindsState ==
  ASSUME CreditInv, NEW p \in DOMAIN net, p.kind = "GRANT"
  PROVE  Src[p.msg] \in DOMAIN receiverStates
<1> SUFFICES ASSUME Src[p.msg] \notin DOMAIN receiverStates PROVE FALSE
  OBVIOUS
<1> DEFINE s == Src[p.msg]
           f == [x \in Messages(s) |-> Slack(x)]
           zero == [x \in Messages(s) |-> 0]
<1>1. p \in Sent /\ p.msg \in Message /\ s \in Sender
  BY MessageAssumption DEF CreditInv, IInv, NetOK, Sent, Packet
<1>2. TermsOK /\ SettledOK
  BY Terms, Settled DEF CreditInv
<1>3. ASSUME NEW x \in Messages(s) PROVE Slack(x) \in Int /\ Slack(x) <= 0
  <2>1. x \in Message /\ Src[x] = s
    BY <1>3 DEF Messages
  <2>2. SenderInv(x) /\ ReceiverInv(x)
    BY <2>1 DEF CreditInv, HostInv
  <2>3. state[x] \in {"new", "done"}
    BY <2>1, <2>2 DEF SenderInv, CreditInv, IInv, SendOK
  <2>4. CASE state[x] = "new"
    <3>1. /\ x \notin DOMAIN rxQp /\ self[x] = NoCredit /\ next[x] = 0
      BY <2>2, <2>4 DEF SenderInv, ReceiverInv
    <3>2. First(x) = {}
      BY <2>1, <3>1, ChunksOf DEF First
    <3>3. Spent(x) = 0
      BY <3>2, SumEmpty DEF Spent
    <3>4. Paid(x) = 0
      BY <3>1 DEF Paid, NoCredit
    <3>5. QED
      BY <3>3, <3>4 DEF Slack
  <2>5. CASE state[x] = "done"
    <3>1. x \in DOMAIN rxQp /\ rxQp[x].chunks = Chunk(x)
      BY <2>2, <2>5 DEF SenderInv, ReceiverInv
    <3>2. QED
      BY <1>2, <2>1, <3>1 DEF SettledOK, TermsOK
  <2>6. QED
    BY <2>3, <2>4, <2>5
<1>4. IsFiniteSet(Messages(s))
  BY MessageAssumption, FS_Subset DEF Messages
<1>5. SumFunctionOnSet(f, Messages(s)) <= 0
  <2>1. \A x \in Messages(s) : /\ f[x] \in Int /\ zero[x] \in Int /\ f[x] <= zero[x]
                               /\ zero[x] = 0
    BY <1>3
  <2> HIDE DEF f, zero
  <2>2. SumFunctionOnSet(zero, Messages(s)) = 0
    BY <1>4, <2>1, SumZero
  <2>3. SumFunctionOnSet(f, Messages(s)) <= SumFunctionOnSet(zero, Messages(s))
    BY <1>4, <2>1, SumMonotone
  <2>4. QED
    BY <2>2, <2>3
<1>6. SumFunctionOnSet(f, Messages(s)) \in Int
  <2>1. \A x \in Messages(s) : f[x] \in Int
    BY <1>3
  <2> HIDE DEF f
  <2>2. QED
    BY <1>4, <2>1, SumInt
<1>7. Usable(s) <= SumFunctionOnSet(f, Messages(s))
  BY <1>1 DEF CreditInv, Ledger
<1> HIDE DEF f
<1>8. Held(s) \in Nat /\ Flying(s) \in Nat
  BY <1>1, <1>2 DEF TermsOK
<1>9. p.wire <= Flying(s)
  <2>1. PacketBag(net) /\ IsFiniteSet(InFlight(s))
    BY <1>1 DEF CreditInv, HostInv, IInv, NetOK, PacketBag
  <2>2. p \in InBag(net, Credits(s)) /\ CreditWire(s)[p] = p.wire
    BY <1>1 DEF InBag, Credits, CreditWire, IsCredit
  <2>3. QED
    BY <2>1, <2>2, CreditNat, WeightSumNat, FlyingIsIn
<1>10. p.wire \in Nat /\ p.wire > 0
  <2>1. p.data \in Nat \ {0} /\ p.wire = W(p.data)
    BY DEF CreditInv, NetInv, PacketInv, CreditPacket
  <2>2. QED
    BY <2>1, WireNat DEF CreditInv, HostInv, Ordinary
<1>11. QED
  BY <1>5, <1>6, <1>7, <1>8, <1>9, <1>10 DEF Usable

\* A grant moves from the network to the pool.
LEMMA ReceiveGrantInv ==
  ASSUME CreditInv, IInv', NEW p \in DOMAIN net, p.kind = "GRANT", ReceiveGrant(p)
  PROVE  CreditInv'
<1> DEFINE m == p.msg
           st == GetReceiverState(m)
           new == [st EXCEPT !.enabled = TRUE, !.avail = @ + p.wire]
<1>1. p \in Sent /\ m \in Message /\ p.wire \in Nat
  BY DEF CreditInv, IInv, NetOK, Sent, Packet
<1>2. /\ receiverStates' = Put(receiverStates, Src[m], new) /\ Replaces(p, {})
      /\ UNCHANGED <<state, class, self, announced, next, rxQp, senderStates, globalOut>>
  BY DEF ReceiveGrant, recvVars
<1>3. SendOK /\ PeerInv /\ NetOK
  BY DEF CreditInv, IInv, HostInv
<1>4. /\ st \in ReceiverStateType /\ st.avail = Held(Src[m])
      /\ st.enabled /\ st.thresh = UnsolThresh
  BY <1>1, <1>3, PeerOpens, GrantFindsState
<1>5. /\ new \in ReceiverStateType /\ new.enabled /\ new.thresh = UnsolThresh
      /\ new.msgs = GetReceiverState(m).msgs /\ new.avail = Held(Src[m]) + p.wire
  <2>1. st.msgs = GetReceiverState(m).msgs
    OBVIOUS
  <2> HIDE DEF st
  <2>2. st.avail + p.wire \in Nat
    BY <1>1, <1>4 DEF ReceiverStateType
  <2>3. QED
    BY <1>4, <2>1, <2>2 DEF ReceiverStateType
<1> HIDE DEF st, new
<1>6. /\ PeerInv' /\ Held(Src[m])' = Held(Src[m]) + p.wire
      /\ \A s \in Sender \ {Src[m]} : Held(s)' = Held(s)
      /\ \A x \in Message :
           x = m \/ (/\ Src[x] \in DOMAIN receiverStates
                     /\ x \in receiverStates[Src[x]].msgs)
             => Src[x] \in DOMAIN receiverStates' /\ x \in receiverStates'[Src[x]].msgs
  BY <1>1, <1>2, <1>3, <1>5, PeerStored
<1>7. /\ DOMAIN net' \subseteq DOMAIN net /\ DOMAIN net \ {p} \subseteq DOMAIN net'
  <2>1. /\ DOMAIN net' \subseteq DOMAIN net \cup {}
        /\ (DOMAIN net \ {p}) \cup {} \subseteq DOMAIN net'
    <3>1. Replaces(p, {}) /\ NetOK
      BY <1>2, <1>3
    <3> HIDE DEF m, st, new
    <3>2. QED
      BY <3>1, NetMembers
  <2>2. QED
    BY <2>1
<1>8. ASSUME NEW x \in Message PROVE SenderInv(x)' /\ ReceiverInv(x)'
  <2>1. SenderInv(x) /\ ReceiverInv(x)
    BY DEF CreditInv, HostInv
  <2>2. GrantReq(x) \in DOMAIN net => GrantReq(x) \in DOMAIN net'
    BY <1>7 DEF GrantReq
  <2>3. SenderInv(x)'
    BY <1>2, <1>6, <2>1, <2>2 DEF SenderInv, Portion
  <2>4. ReceiverInv(x)'
    BY <1>2, <2>1 DEF ReceiverInv, First, Listed
  <2>5. QED
    BY <2>3, <2>4
<1>9. ASSUME NEW s \in Sender
      PROVE  IsFiniteSet(InFlight(s)') /\ Flying(s)' = Flying(s) - CreditOf(p, s)
  <2>1. IsFiniteSet(InFlight(s)) /\ {} \in SUBSET Sent
    BY DEF CreditInv, HostInv
  <2>2. \A q \in {} : ~IsCredit(q, s)
    OBVIOUS
  <2>3. QED
    BY <1>2, <1>3, <2>1, <2>2, ReplacesFlying
<1>10. HostInv'
  <2>1. \A s \in Sender : OutData(s)' = OutData(s)
    BY <1>2 DEF OutData
  <2>2. QED
    BY <1>6, <1>8, <1>9, <2>1 DEF CreditInv, HostInv
<1>11. NetInv'
  BY <1>2, <1>7 DEF CreditInv, NetInv, PacketInv, CreditPacket, DataPacket
<1>12. ASSUME NEW x \in Message
       PROVE  Slack(x) <= Slack(x)' /\ Due(x)' = Due(x) /\ Brought(x)' = Brought(x)
  <2>1. Quiet(x)
    <3>1. {} \in SUBSET Sent /\ \A q \in {} : q \notin Grants(x)
      OBVIOUS
    <3>2. QED
      BY <1>2, <3>1, QuietNet DEF CreditInv
  <2>2. TermsOK /\ TermsOK'
    BY <1>10, Terms, TermsNext DEF CreditInv
  <2>3. QED
    BY <1>2, <2>1, <2>2, Untouched
<1>13. ASSUME NEW s \in Sender PROVE Usable(s)' <= Usable(s) /\ OutWire(s)' = OutWire(s)
  <2>1. OutWire(s)' = OutWire(s)
    BY <1>2 DEF OutWire
  <2>2. Held(s)' = Held(s) + CreditOf(p, s)
    <3>1. CreditOf(p, s) = IF s = Src[m] THEN p.wire ELSE 0
      BY DEF CreditOf, IsCredit
    <3>2. Held(s) \in Nat
      BY Terms DEF CreditInv, TermsOK
    <3> HIDE DEF m
    <3>3. QED
      BY <1>6, <3>1, <3>2
  <2>3. Held(s) \in Nat /\ Flying(s) \in Nat /\ CreditOf(p, s) \in Nat
    BY <1>1, CreditNat, Terms DEF CreditInv, TermsOK
  <2>4. QED
    BY <1>9, <2>1, <2>2, <2>3 DEF Usable
<1>14. /\ \A s \in Sender : Ledger(s)' /\ Counted(s)'
       /\ BucketCovers' /\ BucketHolds'
  BY <1>2, <1>10, <1>12, <1>13, LedgersRest
<1>15. QED
  BY <1>10, <1>11, <1>14 DEF CreditInv

\* What a short message gives itself is a part of it.
LEMMA SelfGrant ==
  ASSUME FramesFit, NEW m \in Message, NEW st \in ReceiverStateType
  PROVE  /\ SelfAllocation(m, st) \in Credited /\ Portion(m, SelfAllocation(m, st))
         /\ SelfAllocation(m, st).data = 0 => SelfAllocation(m, st) = NoCredit
         /\ Portion(m, NoCredit)
<1> DEFINE size == Size[m]
           wire == AddHeader(size, FALSE)
           room == Most(Minus(MaxSrpb, st.avail), AddHeader(Least(size, MTU), TRUE))
           first == IF wire > MaxSrpb THEN RemoveHeader(MaxSrpb) ELSE size
           capped == IF (IF wire > MaxSrpb THEN AddHeader(first, TRUE) ELSE wire) > room
                     THEN RemoveHeader(room) ELSE first
           bytes == Least(capped, size)
           data == AlignChunks(bytes, size)
<1>1. size \in Nat /\ st.avail \in Nat /\ MTU \in Nat /\ MaxSrpb \in Nat
  BY SizeNat, MessageAssumption, FrameAssumption, CreditAssumption DEF ReceiverStateType
<1>2. bytes \in Nat
  <2>1. first \in Nat
    BY <1>1, RemoveHeaderType
  <2>2. Least(size, MTU) \in Nat /\ Minus(MaxSrpb, st.avail) \in Nat
    BY <1>1, LeastMost
  <2>3. room \in Nat
    BY <2>2, AddHeaderType, LeastMost
  <2> HIDE DEF room, first, wire
  <2>4. capped \in Nat
    BY <2>1, <2>3, RemoveHeaderType
  <2> HIDE DEF capped
  <2>5. QED
    BY <1>1, <2>4, LeastMost
<1>3. SelfAllocation(m, st) =
        IF wire > st.thresh THEN NoCredit ELSE [data |-> data, wire |-> W(data)]
  BY DEF SelfAllocation, W
<1> HIDE DEF bytes, wire
<1>4. /\ data \in Nat /\ data <= size /\ W(size) = W(data) + W(size - data)
      /\ data % MTU = 0 \/ data = size
  BY <1>1, <1>2, AlignedPortion
<1> HIDE DEF data
<1>5. W(0) = 0 /\ W(size) \in Nat /\ size - 0 = size /\ 0 % MTU = 0
  <2>1. 0 % MTU = 0
    BY <1>1, FrameAssumption
  <2>2. QED
    BY <1>1, <2>1, WireNat
<1>6. Portion(m, NoCredit)
  BY <1>1, <1>5 DEF Portion, NoCredit
<1>7. Portion(m, [data |-> data, wire |-> W(data)])
  BY <1>4 DEF Portion
<1>8. data = 0 => [data |-> data, wire |-> W(data)] = NoCredit
  BY <1>5 DEF NoCredit
<1>9. QED
  BY <1>3, <1>6, <1>7, <1>8, SelfAllocationType

\* What the NIC does when it serves a queue pair: the pool gets what the
\* message gives itself and pays for the chunk.
LEMMA Served ==
  ASSUME CreditInv, NEW m \in Message, GetNxtPacket(m)
  PROVE  \E own \in Credited, cls \in {"scheduled", "unscheduled", "unsolicited"},
            spent \in Nat :
           /\ Portion(m, own) /\ (cls = "scheduled" <=> own = NoCredit)
           /\ class[m] # "unknown" => cls = class[m] /\ own = self[m]
           /\ class' = [class EXCEPT ![m] = cls] /\ self' = [self EXCEPT ![m] = own]
           /\ announced' = [announced EXCEPT ![m] = TRUE]
           /\ UNCHANGED <<state, rxQp, senderStates, globalOut>>
           /\ PeerInv'
           /\ Held(Src[m])' = Held(Src[m]) + own.wire - self[m].wire - spent
           /\ \A s \in Sender \ {Src[m]} : Held(s)' = Held(s)
           /\ \A x \in Message :
                /\ Src[x] \in DOMAIN receiverStates
                /\ x \in receiverStates[Src[x]].msgs
                => Src[x] \in DOMAIN receiverStates' /\ x \in receiverStates'[Src[x]].msgs
           /\ \/ /\ cls = "scheduled" /\ ~announced[m] /\ spent = 0
                 /\ next' = next /\ Sends({GrantReq(m)})
              \/ /\ cls # "scheduled" \/ announced[m]
                 /\ spent = Wire(m, next[m]) /\ next' = [next EXCEPT ![m] = @ + 1]
                 /\ Sends({Data(m, next[m], own)})
<1> DEFINE st == [GetReceiverState(m) EXCEPT !.enabled = TRUE]
           c == Classify(m, st)
           avail == IF class[m] = "unknown" THEN st.avail + c.self.wire ELSE st.avail
           spent == IF c.class = "scheduled" /\ ~announced[m] THEN 0
                    ELSE Wire(m, next[m])
           new == [st EXCEPT !.avail = avail - spent]
<1>0. FramesFit
  BY DEF CreditInv, HostInv, Ordinary
<1>1. SendOK /\ PeerInv /\ SenderInv(m) /\ self[m] \in Credited /\ SendOK'
  BY SenderKeeps DEF CreditInv, IInv, HostInv, SendOK
<1>2. /\ state[m] = "active" /\ next[m] < Count(Size[m])
      /\ SendGrantReq(m, c) \/ SendData(m, c, avail)
      /\ class' = [class EXCEPT ![m] = c.class]
      /\ self' = [self EXCEPT ![m] = c.self]
      /\ receiverStates' = Put(receiverStates, Src[m], new)
      /\ UNCHANGED <<state, rxQp, senderStates, globalOut>>
  BY DEF GetNxtPacket, recvVars
<1>3. Src[m] \in DOMAIN receiverStates
  BY <1>1, <1>2 DEF SenderInv
<1>4. /\ st \in ReceiverStateType /\ st.avail = Held(Src[m])
      /\ st.enabled /\ st.thresh = UnsolThresh /\ st.msgs = GetReceiverState(m).msgs
  <2>1. /\ GetReceiverState(m) \in ReceiverStateType
        /\ GetReceiverState(m).avail = Held(Src[m])
        /\ GetReceiverState(m).thresh = UnsolThresh
    BY <1>1, <1>3, PeerOpens
  <2>2. QED
    BY <2>1 DEF ReceiverStateType
<1> HIDE DEF st
<1>5. /\ c.self \in Credited /\ Portion(m, c.self)
      /\ c.class \in {"scheduled", "unscheduled", "unsolicited"}
      /\ c.class = "scheduled" <=> c.self = NoCredit
      /\ class[m] # "unknown" => c.class = class[m] /\ c.self = self[m]
  <2>1. CASE class[m] # "unknown"
    <3>1. c = [class |-> class[m], self |-> self[m]]
      BY <2>1 DEF Classify
    <3>2. class[m] \in {"scheduled", "unscheduled", "unsolicited"}
      BY <1>1, <2>1 DEF SendOK
    <3>3. QED
      BY <1>1, <3>1, <3>2 DEF SenderInv
  <2>2. CASE class[m] = "unknown"
    <3> DEFINE own == SelfAllocation(m, st)
    <3>1. c = [self |-> own, class |-> CASE own.data = 0 -> "scheduled"
                                         [] own.data = Size[m] -> "unsolicited"
                                         [] OTHER -> "unscheduled"]
      BY <2>2 DEF Classify
    <3>2. own \in Credited /\ Portion(m, own) /\ (own.data = 0 => own = NoCredit)
      BY <1>0, <1>4, SelfGrant
    <3>3. own = NoCredit => own.data = 0
      BY DEF NoCredit
    <3> HIDE DEF own
    <3>4. c.self = own /\ c.class \in {"scheduled", "unscheduled", "unsolicited"}
      BY <3>1
    <3>5. c.class = "scheduled" <=> own.data = 0
      <4>1. Size[m] # 0
        BY MessageAssumption
      <4>2. QED
        BY <3>1, <4>1
    <3>6. QED
      BY <2>2, <3>2, <3>3, <3>4, <3>5
  <2>3. QED
    BY <2>1, <2>2
<1> HIDE DEF c
<1>6. avail = Held(Src[m]) + c.self.wire - self[m].wire
  <2>1. c.self.wire \in Nat /\ self[m].wire \in Nat /\ Held(Src[m]) \in Nat
    BY <1>1, <1>4, <1>5 DEF Credited, ReceiverStateType
  <2>2. class[m] = "unknown" => self[m].wire = 0
    BY <1>1 DEF SenderInv, NoCredit
  <2>3. QED
    BY <1>4, <1>5, <2>1, <2>2
<1>7. /\ spent \in Nat /\ avail - spent \in Nat
      /\ announced' = [announced EXCEPT ![m] = TRUE]
      /\ \/ /\ c.class = "scheduled" /\ ~announced[m] /\ spent = 0
            /\ next' = next /\ Sends({GrantReq(m)})
         \/ /\ c.class # "scheduled" \/ announced[m]
            /\ spent = Wire(m, next[m]) /\ next' = [next EXCEPT ![m] = @ + 1]
            /\ Sends({Data(m, next[m], c.self)})
  <2>1. next[m] \in Chunk(m)
    <3>1. next[m] \in Nat /\ Count(Size[m]) \in Nat
      BY <1>1, ChunksOf DEF SendOK
    <3>2. QED
      BY <1>2, <3>1 DEF Chunk
  <2>2. Wire(m, next[m]) \in Nat
    BY <2>1, PayloadType
  <2>3. avail \in Nat
    <3>1. c.self.wire \in Nat /\ st.avail \in Nat
      BY <1>4, <1>5 DEF Credited, ReceiverStateType
    <3>2. QED
      BY <3>1
  <2> HIDE DEF avail
  <2>4. QED
    BY <1>2, <2>2, <2>3 DEF SendGrantReq, SendData
<1> HIDE DEF avail, spent
<1>8. /\ new \in ReceiverStateType /\ new.enabled /\ new.thresh = UnsolThresh
      /\ new.msgs = GetReceiverState(m).msgs /\ new.avail = avail - spent
  BY <1>4, <1>7 DEF ReceiverStateType
<1> HIDE DEF new
<1>9. /\ PeerInv' /\ Held(Src[m])' = avail - spent
      /\ \A s \in Sender \ {Src[m]} : Held(s)' = Held(s)
      /\ \A x \in Message :
           /\ Src[x] \in DOMAIN receiverStates
           /\ x \in receiverStates[Src[x]].msgs
           => Src[x] \in DOMAIN receiverStates' /\ x \in receiverStates'[Src[x]].msgs
  <2>1. receiverStates' = Put(receiverStates, Src[m], new)
    BY <1>2
  <2>2. QED
    BY <1>1, <1>8, <2>1, PeerStored
<1>10. Held(Src[m])' = Held(Src[m]) + c.self.wire - self[m].wire - spent
  <2>1. Held(Src[m])' = avail - spent
    BY <1>9
  <2>2. /\ Held(Src[m]) \in Nat /\ c.self.wire \in Nat /\ self[m].wire \in Nat
        /\ spent \in Nat
    BY <1>1, <1>4, <1>5, <1>7 DEF Credited, ReceiverStateType
  <2>3. QED
    BY <1>6, <2>1, <2>2
<1> DEFINE own == c.self
           cls == c.class
<1>11. QED
  <2>1. own \in Credited /\ cls \in {"scheduled", "unscheduled", "unsolicited"} /\ spent \in Nat
    BY <1>5, <1>7
  <2>2. /\ Portion(m, own) /\ (cls = "scheduled" <=> own = NoCredit)
        /\ class[m] # "unknown" => cls = class[m] /\ own = self[m]
        /\ class' = [class EXCEPT ![m] = cls] /\ self' = [self EXCEPT ![m] = own]
        /\ UNCHANGED <<state, rxQp, senderStates, globalOut>>
    BY <1>2, <1>5
  <2>3. /\ announced' = [announced EXCEPT ![m] = TRUE]
        /\ \/ /\ cls = "scheduled" /\ ~announced[m] /\ spent = 0
              /\ next' = next /\ Sends({GrantReq(m)})
           \/ /\ cls # "scheduled" \/ announced[m]
              /\ spent = Wire(m, next[m]) /\ next' = [next EXCEPT ![m] = @ + 1]
              /\ Sends({Data(m, next[m], own)})
    BY <1>7
  <2>4. Held(Src[m])' = Held(Src[m]) + own.wire - self[m].wire - spent
    BY <1>10
  <2> HIDE DEF own, cls
  <2>5. QED
    BY <1>9, <2>1, <2>2, <2>3, <2>4

\* A chunk more is spent, and not yet paid back.
LEMMA FirstGrows ==
  ASSUME IInv, HostInv, NEW m \in Message, next[m] \in Chunk(m),
         next' = [next EXCEPT ![m] = @ + 1], rxQp' = rxQp
  PROVE  /\ First(m) \subseteq First(m)'
         /\ Spent(m)' = Spent(m) + Wire(m, next[m])
         /\ Unpaid(m)' = Unpaid(m) + Wire(m, next[m])
<1> DEFINE i == next[m]
           wires == [c \in Chunk(m) |-> Wire(m, c)]
<1>0. FramesFit
  BY DEF HostInv, Ordinary
<1>1. i \in Nat /\ next'[m] = i + 1
  BY DEF IInv, SendOK
<1>2. First(m)' = First(m) \cup {i} /\ i \notin First(m)
  <2>1. \A c \in Chunk(m) : c \in Nat
    BY ChunksOf
  <2>2. First(m)' = {c \in Chunk(m) : c < i + 1}
    BY <1>1 DEF First
  <2>3. QED
    BY <1>1, <2>1, <2>2 DEF First
<1>3. Got(m)' = Got(m) /\ Got(m) \subseteq First(m)
  BY DEF Got, HostInv, ReceiverInv
<1>4. /\ (First(m) \ Got(m))' = (First(m) \ Got(m)) \cup {i}
      /\ i \notin First(m) \ Got(m)
  BY <1>2, <1>3
<1>5. \A c \in Chunk(m) : wires[c] \in Int
  BY <1>0, PayloadNat
<1>6. wires[i] = Wire(m, i)
  OBVIOUS
<1>7. /\ Spent(m) = SumFunctionOnSet(wires, First(m))
      /\ Spent(m)' = SumFunctionOnSet(wires, First(m)')
      /\ Unpaid(m) = SumFunctionOnSet(wires, First(m) \ Got(m))
      /\ Unpaid(m)' = SumFunctionOnSet(wires, (First(m) \ Got(m))')
  BY DEF Spent, Unpaid
<1>8. IsFiniteSet(Chunk(m)) /\ First(m) \subseteq Chunk(m)
  BY <1>0, WholeMessage DEF First
<1> HIDE DEF wires, i
<1>9. ASSUME NEW S \in SUBSET Chunk(m), i \notin S
      PROVE  SumFunctionOnSet(wires, S \cup {i}) = SumFunctionOnSet(wires, S) + Wire(m, i)
  <2> DEFINE T == S \cup {i}
  <2>1. T \subseteq Chunk(m) /\ i \in T /\ T \ {i} = S
    BY <1>9 DEF i
  <2>2. IsFiniteSet(T) /\ IsFiniteSet(S)
    BY <1>8, <2>1, FS_Subset
  <2>3. \A x \in T : wires[x] \in Int
    BY <1>5, <2>1
  <2> HIDE DEF T
  <2>4. SumFunctionOnSet(wires, T) = wires[i] + SumFunctionOnSet(wires, S)
    BY <2>1, <2>2, <2>3, SumElement
  <2>5. SumFunctionOnSet(wires, S) \in Int /\ wires[i] \in Int
    BY <1>5, <2>1, <2>2, SumInt
  <2>6. QED
    BY <1>6, <2>4, <2>5 DEF T
<1>10. Spent(m)' = Spent(m) + Wire(m, i)
  BY <1>2, <1>7, <1>8, <1>9
<1>11. Unpaid(m)' = Unpaid(m) + Wire(m, i)
  BY <1>4, <1>7, <1>8, <1>9
<1>12. QED
  BY <1>2, <1>10, <1>11 DEF i

\* A chunk moves from the pool to the network.
LEMMA GetNxtPacketInv ==
  ASSUME CreditInv, IInv', NEW m \in Message, GetNxtPacket(m)
  PROVE  CreditInv'
<1>1. PICK own \in Credited, cls \in {"scheduled", "unscheduled", "unsolicited"},
           spent \in Nat :
         /\ Portion(m, own) /\ (cls = "scheduled" <=> own = NoCredit)
         /\ class[m] # "unknown" => cls = class[m] /\ own = self[m]
         /\ class' = [class EXCEPT ![m] = cls] /\ self' = [self EXCEPT ![m] = own]
         /\ announced' = [announced EXCEPT ![m] = TRUE]
         /\ UNCHANGED <<state, rxQp, senderStates, globalOut>>
         /\ PeerInv'
         /\ Held(Src[m])' = Held(Src[m]) + own.wire - self[m].wire - spent
         /\ \A s \in Sender \ {Src[m]} : Held(s)' = Held(s)
         /\ \A x \in Message :
              /\ Src[x] \in DOMAIN receiverStates
              /\ x \in receiverStates[Src[x]].msgs
              => Src[x] \in DOMAIN receiverStates' /\ x \in receiverStates'[Src[x]].msgs
         /\ \/ /\ cls = "scheduled" /\ ~announced[m] /\ spent = 0
               /\ next' = next /\ Sends({GrantReq(m)})
            \/ /\ cls # "scheduled" \/ announced[m]
               /\ spent = Wire(m, next[m]) /\ next' = [next EXCEPT ![m] = @ + 1]
               /\ Sends({Data(m, next[m], own)})
  BY Served
<1>2. SendOK /\ NetOK /\ TermsOK /\ SenderInv(m) /\ ReceiverInv(m)
  BY Terms DEF CreditInv, IInv, HostInv
<1>3. state[m] = "active" /\ next[m] \in Chunk(m) /\ next[m] \in Nat
  <2>1. state[m] = "active" /\ next[m] < Count(Size[m])
    BY DEF GetNxtPacket
  <2>2. next[m] \in Nat /\ Count(Size[m]) \in Nat
    BY <1>2, ChunksOf DEF SendOK
  <2>3. QED
    BY <2>1, <2>2 DEF Chunk
<1>4. /\ self'[m] = own /\ class'[m] = cls /\ announced'[m]
      /\ \A x \in Message \ {m} : /\ self'[x] = self[x] /\ class'[x] = class[x]
                                  /\ announced'[x] = announced[x] /\ next'[x] = next[x]
      /\ next[m] <= next'[m] /\ (next'[m] # next[m] => announced[m] \/ cls # "scheduled")
  BY <1>1, <1>2, <1>3 DEF SendOK
<1>5. PICK g \in Sent : /\ Sends({g}) /\ g.kind \in {"GRANT_REQ", "REQUEST"} /\ g.msg = m
                        /\ PacketInv(g)'
                        /\ cls = "scheduled" /\ ~announced[m] => g = GrantReq(m)
  <2>1. CASE cls = "scheduled" /\ ~announced[m]
    <3> DEFINE g == GrantReq(m)
    <3>1. g \in Sent /\ g.kind = "GRANT_REQ" /\ g.msg = m /\ Sends({g})
      BY <1>1, <2>1 DEF GrantReq, Sent, Packet
    <3> HIDE DEF g
    <3>2. PacketInv(g)'
      BY <1>4, <2>1, <3>1 DEF PacketInv
    <3>3. QED
      BY <3>1, <3>2 DEF g
  <2>2. CASE ~(cls = "scheduled" /\ ~announced[m])
    <3>0. Data(m, next[m], own) \in Sent
      BY <1>1, <1>3 DEF Data, Sent, Packet, Credited
    <3> PICK g \in Sent : g = Data(m, next[m], own)
      BY <3>0
    <3>1. /\ g \in Sent /\ g.kind = "REQUEST" /\ g.msg = m /\ g.chunk = next[m]
          /\ g.own = own /\ Sends({g})
      BY <1>1, <2>2 DEF Data
    <3>2. next'[m] = next[m] + 1
      BY <1>1, <1>2, <2>2 DEF SendOK
    <3>3. g.chunk < next'[g.msg] /\ announced'[g.msg] /\ g.own = self'[g.msg]
      BY <1>3, <1>4, <3>1, <3>2
    <3>4. PacketInv(g)'
      BY <3>1, <3>3 DEF PacketInv, DataPacket
    <3>5. cls = "scheduled" /\ ~announced[m] => g = GrantReq(m)
      BY <2>2
    <3>6. g.kind \in {"GRANT_REQ", "REQUEST"}
      BY <3>1
    <3>7. QED
      BY <3>1, <3>4, <3>5, <3>6
  <2>3. QED
    BY <2>1, <2>2
<1>6. DOMAIN net' = DOMAIN net \cup {g}
  BY <1>2, <1>5, NetMembers
<1>7. ASSUME NEW s \in Sender PROVE IsFiniteSet(InFlight(s)') /\ Flying(s)' = Flying(s)
  <2>1. IsFiniteSet(InFlight(s)) /\ {g} \in SUBSET Sent /\ \A q \in {g} : ~IsCredit(q, s)
    BY <1>5 DEF CreditInv, HostInv, IsCredit
  <2>2. QED
    BY <1>2, <1>5, <2>1, SendsFlying
<1>8. First(m) \subseteq First(m)'
  <2>1. next'[m] \in Nat /\ \A c \in Chunk(m) : c \in Nat
    BY ChunksOf DEF IInv, SendOK
  <2>2. QED
    BY <1>3, <1>4, <2>1 DEF First
<1>9. ASSUME NEW x \in Message PROVE SenderInv(x)' /\ ReceiverInv(x)'
  <2>1. SenderInv(x) /\ ReceiverInv(x)
    BY DEF CreditInv, HostInv
  <2>2. DOMAIN net \subseteq DOMAIN net'
    BY <1>6
  <2>3. CASE x # m
    <3>1. First(x)' = First(x)
      BY <1>4, <2>3 DEF First
    <3>2. Portion(x, self[x])'
      BY <1>4, <2>1, <2>3 DEF SenderInv, Portion
    <3>3. SenderInv(x)'
      BY <1>1, <1>4, <2>1, <2>2, <2>3, <3>2 DEF SenderInv
    <3>4. ReceiverInv(x)'
      BY <1>1, <1>4, <2>1, <2>3, <3>1 DEF ReceiverInv, Listed
    <3>5. QED
      BY <3>3, <3>4
  <2>4. CASE x = m
    <3>1. Portion(m, self[m])'
      BY <1>1, <1>4 DEF Portion
    <3>2. cls = "scheduled" /\ m \notin DOMAIN rxQp => GrantReq(m) \in DOMAIN net'
      <4>1. CASE ~announced[m]
        BY <1>5, <1>6, <4>1
      <4>2. CASE announced[m]
        BY <1>1, <1>2, <2>2, <4>2 DEF SenderInv
      <4>3. QED
        BY <4>1, <4>2
    <3>3. SenderInv(m)'
      BY <1>1, <1>2, <1>3, <1>4, <3>1, <3>2 DEF SenderInv
    <3>4. ReceiverInv(m)'
      BY <1>1, <1>2, <1>3, <1>4, <1>8 DEF ReceiverInv, Listed
    <3>5. QED
      BY <2>4, <3>3, <3>4
  <2>5. QED
    BY <2>3, <2>4
<1>10. HostInv'
  <2>1. \A s \in Sender : OutData(s)' = OutData(s)
    BY <1>1 DEF OutData
  <2>2. QED
    BY <1>1, <1>7, <1>9, <2>1 DEF CreditInv, HostInv
<1>11. NetInv'
  <2>1. ASSUME NEW q \in DOMAIN net PROVE PacketInv(q)'
    <3>1. PacketInv(q) /\ q \in Sent /\ q.msg \in Message
      BY <1>2 DEF CreditInv, NetInv, NetOK, Sent, Packet
    <3>2. CASE q.msg # m
      BY <1>1, <1>4, <3>1, <3>2 DEF PacketInv, CreditPacket, DataPacket
    <3>3. CASE q.msg = m /\ q.kind = "REQUEST"
      <4>1. /\ q.chunk < next[m] /\ announced[m] /\ q.own \in {self[m], NoCredit}
            /\ m \notin DOMAIN rxQp => q.own = self[m]
        BY <3>1, <3>3 DEF PacketInv, DataPacket
      <4>2. self'[m] = self[m]
        BY <1>1, <1>2, <1>4, <4>1 DEF SenderInv
      <4>3. q.chunk < next'[m]
        <5>1. q.chunk \in Nat
          BY <3>1, <3>3 DEF Sent, Packet
        <5>2. next'[m] \in Nat
          BY DEF IInv, SendOK
        <5>3. QED
          BY <1>3, <1>4, <4>1, <5>1, <5>2
      <4>4. QED
        BY <1>1, <1>4, <3>3, <4>1, <4>2, <4>3 DEF PacketInv, DataPacket
    <3>4. CASE q.msg = m /\ q.kind # "REQUEST"
      <4>1. q.kind = "GRANT_REQ" => cls = "scheduled"
        BY <1>1, <1>2, <3>1, <3>4 DEF PacketInv, SenderInv
      <4>2. QED
        BY <1>1, <1>4, <3>1, <3>4, <4>1 DEF PacketInv, CreditPacket
    <3>5. QED
      BY <3>2, <3>3, <3>4
  <2>2. QED
    BY <1>5, <1>6, <2>1 DEF NetInv
<1>12. TermsOK'
  BY <1>10, TermsNext
<1>13. /\ \A x \in Message \ {m} : /\ Slack(x) <= Slack(x)' /\ Due(x)' = Due(x)
                                   /\ Brought(x)' = Brought(x)
       /\ Brought(m)' = Brought(m)
       /\ Slack(m)' - Slack(m) = own.wire - self[m].wire - spent
       /\ Due(m)' - Due(m) = own.wire - self[m].wire - spent
  <2>0. {g} \in SUBSET Sent /\ \A x \in Message : \A q \in {g} : q \notin Grants(x)
    BY <1>5 DEF Grants
  <2>1. \A x \in Message \ {m} : /\ Slack(x) <= Slack(x)' /\ Due(x)' = Due(x)
                                  /\ Brought(x)' = Brought(x)
    <3>1. \A x \in Message : Quiet(x)
      BY <1>5, <2>0, QuietNet DEF CreditInv
    <3>2. QED
      BY <1>1, <1>2, <1>4, <1>12, <3>1, Untouched
  <2>2. own.wire \in Nat /\ self[m].wire \in Nat
    BY <1>2 DEF Credited, SendOK
  <2>3. m \in DOMAIN rxQp => own = self[m]
    BY <1>1, <1>2 DEF SenderInv, ReceiverInv
  <2>4. Spent(m)' = Spent(m) + spent /\ Unpaid(m)' = Unpaid(m) + spent
    <3>1. CASE next' = next /\ spent = 0
      <4>1. Spent(m)' = Spent(m)
        BY <3>1 DEF Spent, First
      <4>2. Unpaid(m)' = Unpaid(m)
        BY <1>1, <3>1 DEF Unpaid, First, Got
      <4>3. QED
        BY <1>2, <3>1, <4>1, <4>2 DEF TermsOK
    <3>2. CASE next' = [next EXCEPT ![m] = @ + 1] /\ spent = Wire(m, next[m])
      BY <1>1, <1>3, <3>2, FirstGrows DEF CreditInv
    <3>3. QED
      BY <1>1, <3>1, <3>2
  <2>5. /\ Known' = Known /\ (m \in Known => m \in DOMAIN rxQp)
        /\ m \in DOMAIN rxQp => m \in Known
    BY <1>1, <1>2 DEF Known, ReceiverInv
  <2>6. Lent(m)' = Lent(m) + own.wire - self[m].wire
    BY <1>4, <2>2, <2>3, <2>5 DEF Lent
  <2>10. Brought(m)' = Brought(m)
    BY <1>4, <2>3, <2>5 DEF Brought
  <2>7. Paid(m)' = Paid(m) + own.wire - self[m].wire /\ Paid(m) \in Int
    <3>1. m \in DOMAIN rxQp => Paid(m)' = Paid(m)
      <4>1. FramesFit /\ IsFiniteSet(InFlight(Src[m]))
        BY MessageAssumption DEF CreditInv, HostInv, Ordinary
      <4>2. \A x : Reserve(m, x, net') = Reserve(m, x, net)
        BY <1>2, <1>5, <2>0, <4>1, SendsReserve
      <4>3. QED
        BY <1>1, <4>2 DEF Paid
    <3>2. Paid(m) \in Int
      BY <1>2 DEF TermsOK
    <3>3. QED
      BY <1>1, <1>4, <2>2, <2>3, <3>1, <3>2 DEF Paid
  <2>8. /\ Spent(m) \in Nat /\ Unpaid(m) \in Nat /\ Lent(m) \in Nat
    BY <1>2 DEF TermsOK
  <2>9. QED
    BY <2>1, <2>2, <2>4, <2>6, <2>7, <2>8, <2>10 DEF Slack, Due
<1>14. ASSUME NEW s \in Sender PROVE Ledger(s)' /\ Counted(s)'
  <2>1. OutWire(s)' = OutWire(s) /\ OutWire(s) \in Nat
    BY <1>1, <1>2 DEF OutWire, TermsOK
  <2>2. Usable(s)' = Usable(s)
          + (IF s = Src[m] THEN own.wire - self[m].wire - spent ELSE 0)
    <3>1. own.wire \in Nat /\ self[m].wire \in Nat /\ Held(s) \in Nat /\ Flying(s) \in Nat
      BY <1>2 DEF Credited, SendOK, TermsOK
    <3>2. Held(s)' = Held(s) + (IF s = Src[m] THEN own.wire - self[m].wire - spent ELSE 0)
      BY <1>1, <3>1
    <3>3. QED
      BY <1>7, <3>1, <3>2 DEF Usable
  <2>3. Usable(s)' \in Int /\ Usable(s) \in Int
    BY <1>2, <1>12 DEF TermsOK, Usable
  <2>4. Ledger(s)'
    <3>1. Usable(s)' <= Usable(s) + (IF s = Src[m] THEN Slack(m)' - Slack(m) ELSE 0)
      BY <1>13, <2>2, <2>3
    <3>2. QED
      BY <1>2, <1>12, <1>13, <3>1, LedgerKeeps DEF CreditInv
  <2>5. Counted(s)'
    <3>1. Usable(s)' <= Usable(s) + (IF s = Src[m] THEN Due(m)' - Due(m) ELSE 0)
                        + OutWire(s)' - OutWire(s)
      <4>1. Due(m)' \in Int /\ Due(m) \in Int
        BY <1>2, <1>12 DEF TermsOK
      <4>2. QED
        BY <1>13, <2>1, <2>2, <2>3, <4>1
    <3>2. QED
      BY <1>2, <1>12, <1>13, <3>1, CountedKeeps DEF CreditInv
  <2>6. QED
    BY <2>4, <2>5
<1>15. BucketCovers' /\ BucketHolds'
  <2>1. globalOut' = globalOut /\ globalOut \in Nat /\ Brought(m) \in Nat
    BY <1>1, <1>2 DEF TermsOK
  <2>2. ASSUME NEW s \in Sender
        PROVE  Usable(s)' <= Usable(s)
                 + (IF s = Src[m] THEN Due(m)' - Due(m) + globalOut' - globalOut ELSE 0)
    <3>1. /\ own.wire \in Nat /\ self[m].wire \in Nat /\ Held(s) \in Nat /\ Flying(s) \in Nat
          /\ Due(m)' \in Int /\ Due(m) \in Int
      BY <1>2, <1>12 DEF Credited, SendOK, TermsOK
    <3>2. Held(s)' = Held(s) + (IF s = Src[m] THEN own.wire - self[m].wire - spent ELSE 0)
      BY <1>1, <3>1
    <3>3. QED
      BY <1>7, <1>13, <2>1, <3>1, <3>2 DEF Usable
  <2>3. globalOut' <= globalOut + Brought(m)' - Brought(m)
    BY <1>13, <2>1
  <2>4. QED
    BY <1>2, <1>12, <1>13, <2>2, <2>3, BucketKeeps DEF CreditInv
<1>16. QED
  BY <1>10, <1>11, <1>14, <1>15 DEF CreditInv
-----------------------------------------------------------------------------
(* Accounts: what the handlers of the receiver read and store. *)

\* The account of a message as a handler finds it.
LEMMA AccountOpens ==
  ASSUME RecvOK, NEW m \in Message
  PROVE  /\ Open(m).q = IF m \in DOMAIN rxQp THEN rxQp[m] ELSE NewRxQp
         /\ Open(m).out = globalOut
         /\ Open(m).st.outWire = OutWire(Src[m]) /\ Open(m).st.outData = OutData(Src[m])
         /\ Open(m).st.msgs = Listed(Src[m]) \cup {m}
<1> DEFINE st == GetSenderState(m)
<1>1. /\ st \in SenderStateType /\ st.outWire = OutWire(Src[m])
      /\ st.outData = OutData(Src[m]) /\ st.msgs = Listed(Src[m]) \cup {m}
  <2>1. CASE Src[m] \in DOMAIN senderStates
    <3>1. senderStates[Src[m]] \in SenderStateType
      BY <2>1 DEF RecvOK, SenderStatesOK, SoundState
    <3>2. st = [senderStates[Src[m]] EXCEPT !.msgs = @ \cup {m}]
      BY <2>1 DEF GetSenderState
    <3> HIDE DEF st
    <3>3. QED
      BY <2>1, <3>1, <3>2 DEF SenderStateType, OutWire, OutData, Listed
  <2>2. CASE Src[m] \notin DOMAIN senderStates
    <3>1. st = [NewSenderState EXCEPT !.msgs = @ \cup {m}]
      BY <2>2 DEF GetSenderState
    <3> HIDE DEF st
    <3>2. QED
      BY <2>2, <3>1 DEF NewSenderState, SenderStateType, OutWire, OutData, Listed
  <2>3. QED
    BY <2>1, <2>2
<1>2. Open(m) = IF m \in DOMAIN rxQp THEN [st |-> st, q |-> rxQp[m], out |-> globalOut]
                ELSE [st |-> InitialisedSenderState(st), q |-> NewRxQp, out |-> globalOut]
  BY DEF Open
<1> HIDE DEF st
<1>3. /\ InitialisedSenderState(st).outWire = st.outWire
      /\ InitialisedSenderState(st).outData = st.outData
      /\ InitialisedSenderState(st).msgs = st.msgs
  BY <1>1 DEF InitialisedSenderState, SenderStateType
<1>4. QED
  BY <1>1, <1>2, <1>3

\* Enabling a state and moving its cap leave what is outstanding.
LEMMA SameAccount ==
  ASSUME NEW a \in Account
  PROVE  /\ Enable(a).q = a.q /\ Enable(a).out = a.out
         /\ Enable(a).st.outWire = a.st.outWire /\ Enable(a).st.outData = a.st.outData
         /\ Enable(a).st.msgs = a.st.msgs
         /\ \A value \in Caps :
              LET b == UpdateSenderStateAimd(a, value)
              IN /\ b.q = a.q /\ b.out = a.out
                 /\ b.st.outWire = a.st.outWire /\ b.st.outData = a.st.outData
                 /\ b.st.msgs = a.st.msgs
<1>1. a \in [st : SenderStateType, q : RxQpType, out : Nat]
  BY AccountParts DEF Account
<1>2. /\ Enable(a).q = a.q /\ Enable(a).out = a.out
      /\ Enable(a).st.outWire = a.st.outWire /\ Enable(a).st.outData = a.st.outData
      /\ Enable(a).st.msgs = a.st.msgs
  BY <1>1 DEF Enable, SenderStateType
<1>3. ASSUME NEW value \in Caps
      PROVE  LET b == UpdateSenderStateAimd(a, value)
             IN /\ b.q = a.q /\ b.out = a.out
                /\ b.st.outWire = a.st.outWire /\ b.st.outData = a.st.outData
                /\ b.st.msgs = a.st.msgs
  <2>1. PICK cap : UpdateSenderStateAimd(a, value) =
                     [a EXCEPT !.st.cap = cap, !.st.srpb = Least(@, cap)]
    BY DEF UpdateSenderStateAimd
  <2> DEFINE b == [a EXCEPT !.st.cap = cap, !.st.srpb = Least(@, cap)]
  <2>2. b.q = a.q /\ b.out = a.out
    BY <1>1
  <2>3. b.st.outWire = a.st.outWire /\ b.st.outData = a.st.outData
    BY <1>1 DEF SenderStateType
  <2>4. b.st.msgs = a.st.msgs
    BY <1>1 DEF SenderStateType
  <2> HIDE DEF b
  <2>5. UpdateSenderStateAimd(a, value) = b
    BY <2>1 DEF b
  <2>6. QED
    BY <2>2, <2>3, <2>4, <2>5
<1>4. QED
  BY <1>2, <1>3

\* What a grant and what credit given back do to an account.
LEMMA ChargeParts ==
  ASSUME NEW a \in Account, NEW data \in Nat, NEW wire \in Nat
  PROVE  LET b == Charge(a, data, wire)
         IN /\ b.q = [a.q EXCEPT !.pending = Minus(@, data)]
            /\ b.st.outWire = a.st.outWire + wire /\ b.st.outData = a.st.outData + data
            /\ b.st.msgs = a.st.msgs /\ b.out = a.out + wire
<1>1. a \in [st : SenderStateType, q : RxQpType, out : Nat]
  BY AccountParts DEF Account
<1>2. QED
  BY <1>1 DEF Charge, SenderStateType, RxQpType

LEMMA ReclaimParts ==
  ASSUME NEW a \in Account, NEW data \in Nat, NEW wire \in Nat
  PROVE  LET b == Reclaim(a, data, wire)
         IN /\ b.q = a.q
            /\ b.st.outWire = Minus(a.st.outWire, wire) /\ b.st.outData = a.st.outData - data
            /\ b.st.msgs = a.st.msgs /\ b.out = Minus(a.out, wire)
            /\ b.st.pending = a.st.pending
<1>1. a \in [st : SenderStateType, q : RxQpType, out : Nat]
  BY AccountParts DEF Account
<1>2. QED
  BY <1>1 DEF Reclaim, SenderStateType, RxQpType

\* A chunk that is new pays back what it brings, as far as it is outstanding.
LEMMA ChunkParts ==
  ASSUME NEW a \in Account, NEW m \in Message, NEW i \in Chunk(m), a.q.accounted
  PROVE  LET b == ReceiveChunk(a, m, i)
             used == Least(Payload(m, i), a.st.outData)
         IN /\ b \in Account /\ b.st.msgs = a.st.msgs
            /\ i \in a.q.chunks => b = a
            /\ i \notin a.q.chunks =>
                 /\ b.q = [a.q EXCEPT !.chunks = @ \cup {i}]
                 /\ b.st.outData = a.st.outData - used
                 /\ b.st.outWire = Minus(a.st.outWire, W(used))
                 /\ b.out = Minus(a.out, W(used))
<1> DEFINE b == ReceiveChunk(a, m, i)
           used == Least(Payload(m, i), a.st.outData)
           counted == [a EXCEPT !.q.chunks = IF a.q.accounted THEN @ \cup {i} ELSE @]
<1>1. b \in Account
  BY ChunkSound
<1>2. CASE i \in a.q.chunks
  <2>1. b = a
    BY <1>2 DEF ReceiveChunk
  <2>2. QED
    BY <1>1, <1>2, <2>1
<1>3. CASE i \notin a.q.chunks
  <2>1. used \in Nat
    BY PayloadType, AccountParts, LeastMost
  <2>2. b = Reclaim(counted, used, W(used))
    BY <1>3 DEF ReceiveChunk, W
  <2>3. W(used) \in Nat
    BY <2>1, AddHeaderType DEF W
  <2>4. /\ counted \in Account /\ counted.st = a.st /\ counted.out = a.out
        /\ counted.q = [a.q EXCEPT !.chunks = @ \cup {i}]
    <3>1. a \in [st : SoundState, q : RxQpType, out : Nat] /\ i \in Nat
      BY PayloadType DEF Account, Chunk
    <3>2. counted \in [st : SoundState, q : RxQpType, out : Nat]
      BY <3>1 DEF RxQpType
    <3>3. QED
      BY <3>1, <3>2 DEF Account
  <2> HIDE DEF b, used, counted
  <2>5. QED
    BY <1>1, <1>3, <2>1, <2>2, <2>3, <2>4, ReclaimParts DEF b, used
<1>4. QED
  BY <1>2, <1>3

\* The first announcement brings the size of the message, less what the sender
\* gave itself.
LEMMA AnnouncementParts ==
  ASSUME NEW a \in Account, NEW m \in Message, NEW own \in Credited, own.data <= Size[m]
  PROVE  LET b == ApplyNewAnnouncement(a, m, own)
         IN /\ b \in Account /\ b.st.msgs = a.st.msgs
            /\ a.q.accounted => b = a
            /\ a.q = NewRxQp =>
                 /\ b.q.accounted /\ b.q.chunks = {} /\ ~b.q.done
                 /\ b.q.pending = Size[m] - own.data
                 /\ b.st.outData = a.st.outData + own.data
                 /\ b.st.outWire = a.st.outWire + own.wire /\ b.out = a.out + own.wire
<1> DEFINE known == [a EXCEPT
        !.q.accounted = TRUE, !.q.timer = TRUE, !.q.chunks = {}, !.q.done = FALSE,
        !.q.pending = @ + Size[m], !.st.pending = @ + Size[m]]
           b == ApplyNewAnnouncement(a, m, own)
           data == Least(own.data, known.st.pending)
<1>0. own \in [data : Nat, wire : Nat]
  BY DEF Credited
<1>1. b \in Account
  BY <1>0, AnnouncementSound
<1>2. CASE a.q.accounted
  <2>1. b = a
    BY <1>2 DEF ApplyNewAnnouncement
  <2>2. a.q # NewRxQp
    BY <1>2 DEF NewRxQp
  <2> HIDE DEF b
  <2>3. QED
    BY <1>1, <2>1, <2>2 DEF b
<1>3. CASE ~a.q.accounted
  <2>1. a \in [st : SenderStateType, q : RxQpType, out : Nat]
    BY AccountParts DEF Account
  <2>2. /\ Size[m] \in Nat /\ a.q.pending + Size[m] \in Nat /\ a.st.pending + Size[m] \in Nat
        /\ a.st.pending \in Nat
    BY AccountParts, MessageAssumption
  <2>3. known \in [st : SenderStateType, q : RxQpType, out : Nat]
    BY <2>1, <2>2, ZenonT(40) DEF SenderStateType, RxQpType
  <2>4. known.st = [a.st EXCEPT !.pending = @ + Size[m]] /\ known.out = a.out
    BY <2>1 DEF SenderStateType, RxQpType
  <2>5. /\ known.q.accounted /\ known.q.chunks = {} /\ ~known.q.done
        /\ known.q.pending = a.q.pending + Size[m]
    BY <2>1 DEF SenderStateType, RxQpType
  <2> HIDE DEF known
  <2>6. known \in Account
    <3>1. Floor(known.st)
      BY <2>4, AccountParts DEF Floor, SenderStateType
    <3>2. QED
      BY <2>3, <3>1 DEF Account, SoundState
  <2>7. /\ known.st.outData = a.st.outData /\ known.st.outWire = a.st.outWire
        /\ known.st.msgs = a.st.msgs /\ known.st.pending = a.st.pending + Size[m]
    BY <2>1, <2>4 DEF SenderStateType
  <2>8. own.data \in Nat /\ own.wire \in Nat
    BY DEF Credited
  <2>9. data = own.data
    BY <2>2, <2>7, <2>8 DEF Least
  <2>10. b = Charge(known, own.data, own.wire)
    BY <1>3, <2>9 DEF ApplyNewAnnouncement, known
  <2> HIDE DEF b, data
  <2>11. /\ b.q = [known.q EXCEPT !.pending = Minus(@, own.data)]
         /\ b.st.outWire = known.st.outWire + own.wire
         /\ b.st.outData = known.st.outData + own.data
         /\ b.st.msgs = known.st.msgs /\ b.out = known.out + own.wire
    BY <2>6, <2>8, <2>10, ChargeParts
  <2>12. known.q \in RxQpType
    BY <2>3
  <2>13. /\ b.q.accounted /\ b.q.chunks = {} /\ ~b.q.done
         /\ b.q.pending = Minus(a.q.pending + Size[m], own.data)
    BY <2>5, <2>11, <2>12 DEF RxQpType
  <2>14. a.q = NewRxQp => Minus(a.q.pending + Size[m], own.data) = Size[m] - own.data
    BY <2>2, <2>8 DEF NewRxQp, Minus
  <2>15. QED
    BY <1>1, <1>3, <2>4, <2>7, <2>11, <2>13, <2>14 DEF b
<1>4. QED
  BY <1>2, <1>3

\* The ledgers of a message whose state is stored.
LEMMA MessageStored ==
  ASSUME TermsOK', NEW m \in Message, UNCHANGED sendVars, m \in DOMAIN rxQp',
         rxQp'[m].accounted
  PROVE  /\ Slack(m)' = W(Size[m]) - Reserve(m, rxQp'[m].pending, net') - Spent(m)
         /\ Brought(m)' = self[m].wire
         /\ Due(m)' = 0 - SumFunctionOnSet([i \in Chunk(m) |-> Wire(m, i)],
                                           First(m) \ rxQp'[m].chunks)
         /\ SumFunctionOnSet([i \in Chunk(m) |-> Wire(m, i)],
                             First(m) \ rxQp'[m].chunks) \in Nat
         /\ First(m)' = First(m)
<1>1. next' = next /\ self' = self
  BY DEF sendVars
<1>2. First(m)' = First(m) /\ Spent(m)' = Spent(m)
  BY <1>1 DEF First, Spent
<1>3. Paid(m)' = W(Size[m]) - Reserve(m, rxQp'[m].pending, net')
  BY DEF Paid
<1>4. Lent(m)' = 0 /\ Brought(m)' = self[m].wire
  BY <1>1 DEF Lent, Brought, Known
<1>5. Unpaid(m)' = SumFunctionOnSet([i \in Chunk(m) |-> Wire(m, i)],
                                    First(m) \ rxQp'[m].chunks)
  BY <1>2 DEF Unpaid, Got
<1>6. Slack(m)' = Paid(m)' - Spent(m)'
  BY DEF Slack
<1>7. Due(m)' = Lent(m)' - Unpaid(m)' /\ Unpaid(m)' \in Nat
  BY DEF Due, TermsOK
<1>8. QED
  BY <1>2, <1>3, <1>4, <1>5, <1>6, <1>7

\* A handler that stores the account of one message keeps the invariant if the
\* ledgers of that message pay for the credit it makes.
LEMMA AccountKeeps ==
  ASSUME CreditInv, IInv', NEW m \in Message, NEW a \in Account, Store(a, m),
         UNCHANGED sendVars, announced[m],
         a.q.accounted, a.q.pending \in Nat, a.q.chunks \subseteq First(m),
         a.st.outData \in Nat, a.st.msgs = Listed(Src[m]) \cup {m},
         a.q.done <=> m \in DOMAIN rxQp /\ rxQp[m].done,
         a.q.done => a.q.chunks = Chunk(m),
         \A q \in DOMAIN net' : q \in DOMAIN net \/ PacketInv(q)',
         \A x \in Message \ {m} : GrantReq(x) \in DOMAIN net => GrantReq(x) \in DOMAIN net',
         \A s \in Sender : IsFiniteSet(InFlight(s)'),
         \A s \in Sender \ {Src[m]} : Flying(s)' <= Flying(s),
         \A x \in Message \ {m} : Quiet(x),
         Flying(Src[m])' <= Flying(Src[m])
           + (W(Size[m]) - Reserve(m, a.q.pending, net') - Spent(m) - Slack(m)),
         Flying(Src[m])' <= Flying(Src[m]) + (a.st.outWire - OutWire(Src[m]))
           - (SumFunctionOnSet([i \in Chunk(m) |-> Wire(m, i)], First(m) \ a.q.chunks)
              + Due(m)),
         Flying(Src[m])' <= Flying(Src[m]) + (a.out - globalOut)
           - (SumFunctionOnSet([i \in Chunk(m) |-> Wire(m, i)], First(m) \ a.q.chunks)
              + Due(m)),
         \/ a.out <= globalOut + Lent(m)
         \/ GlobalBucket > 0 => a.out <= GlobalBucket
  PROVE  CreditInv'
<1>1. /\ UNCHANGED <<state, class, self, announced, next, receiverStates>>
  BY DEF sendVars
<1>2. /\ DOMAIN rxQp' = DOMAIN rxQp \cup {m} /\ rxQp'[m] = a.q
      /\ \A x \in DOMAIN rxQp \ {m} : rxQp'[x] = rxQp[x]
      /\ DOMAIN senderStates' = DOMAIN senderStates \cup {Src[m]}
      /\ senderStates'[Src[m]] = a.st
      /\ \A s \in DOMAIN senderStates \ {Src[m]} : senderStates'[s] = senderStates[s]
      /\ globalOut' = a.out
  BY DEF Store, Put
<1>3. /\ OutWire(Src[m])' = a.st.outWire /\ OutData(Src[m])' = a.st.outData
      /\ Listed(Src[m])' = Listed(Src[m]) \cup {m}
      /\ \A s \in Sender \ {Src[m]} : /\ OutWire(s)' = OutWire(s) /\ OutData(s)' = OutData(s)
                                      /\ Listed(s)' = Listed(s)
  BY <1>2 DEF OutWire, OutData, Listed
<1>4. ASSUME NEW x \in Message PROVE SenderInv(x)' /\ ReceiverInv(x)'
  <2>1. SenderInv(x) /\ ReceiverInv(x)
    BY DEF CreditInv, HostInv
  <2>2. Portion(x, self[x])' /\ First(x)' = First(x)
    BY <1>1, <2>1 DEF SenderInv, Portion, First
  <2>3. SenderInv(x)'
    <3>1. state[x] = "done" => x \in DOMAIN rxQp' /\ rxQp'[x].done
      BY <1>2, <2>1 DEF SenderInv
    <3>2. class[x] = "scheduled" /\ announced[x] /\ x \notin DOMAIN rxQp' =>
            GrantReq(x) \in DOMAIN net'
      BY <1>2, <2>1 DEF SenderInv
    <3>3. QED
      BY <1>1, <2>1, <2>2, <3>1, <3>2 DEF SenderInv
  <2>4. ReceiverInv(x)'
    <3>1. CASE x = m
      <4>1. a.q.done => state[m] = "done"
        BY <2>1, <3>1 DEF ReceiverInv
      <4>2. Src[m] \in DOMAIN senderStates' /\ m \in Listed(Src[m])'
        BY <1>2, <1>3
      <4>3. QED
        BY <1>1, <1>2, <2>2, <3>1, <4>1, <4>2 DEF ReceiverInv
    <3>2. CASE x # m
      <4>1. Src[x] \in Sender
        BY MessageAssumption
      <4>2. x \in Listed(Src[x]) => x \in Listed(Src[x])'
        BY <1>3, <4>1
      <4>3. QED
        BY <1>1, <1>2, <2>1, <2>2, <3>2, <4>2 DEF ReceiverInv
    <3>3. QED
      BY <3>1, <3>2
  <2>5. QED
    BY <2>3, <2>4
<1>5. HostInv'
  <2>1. \A s \in Sender : OutData(s)' \in Nat
    BY <1>3 DEF CreditInv, HostInv
  <2>2. PeerInv'
    BY <1>1 DEF CreditInv, HostInv, PeerInv
  <2>3. QED
    BY <1>4, <2>1, <2>2 DEF CreditInv, HostInv
<1>6. NetInv'
  <2>1. ASSUME NEW q \in DOMAIN net PROVE PacketInv(q)'
    <3>1. PacketInv(q)
      BY DEF CreditInv, NetInv
    <3>2. QED
      BY <1>1, <1>2, <3>1 DEF PacketInv, CreditPacket, DataPacket
  <2>2. QED
    BY <2>1 DEF NetInv
<1>7. TermsOK /\ TermsOK'
  BY <1>5, Terms, TermsNext DEF CreditInv
<1> DEFINE unpaid == SumFunctionOnSet([i \in Chunk(m) |-> Wire(m, i)],
                                      First(m) \ a.q.chunks)
<1>8. /\ Slack(m)' = W(Size[m]) - Reserve(m, a.q.pending, net') - Spent(m)
      /\ Brought(m)' = self[m].wire
      /\ Due(m)' = 0 - unpaid /\ unpaid \in Nat
  BY <1>2, <1>7, MessageStored
<1> HIDE DEF unpaid
<1>9. \A x \in Message \ {m} : /\ Slack(x) <= Slack(x)' /\ Due(x)' = Due(x)
                              /\ Brought(x)' = Brought(x)
  BY <1>1, <1>2, <1>7, Untouched
<1>10. ASSUME NEW s \in Sender PROVE Ledger(s)' /\ Counted(s)'
  <2>1. /\ Held(s)' = Held(s) /\ Held(s) \in Nat /\ Flying(s) \in Nat /\ Flying(s)' \in Nat
        /\ OutWire(s) \in Nat /\ OutWire(s)' \in Nat
        /\ Slack(m) \in Int /\ Slack(m)' \in Int /\ Due(m) \in Int /\ Due(m)' \in Int
    BY <1>1, <1>7 DEF TermsOK, Held
  <2>2. CASE s # Src[m]
    <3>1. OutWire(s)' = OutWire(s) /\ Flying(s)' <= Flying(s)
      BY <1>3, <2>2
    <3>2. Usable(s)' <= Usable(s) + 0
      BY <2>1, <3>1 DEF Usable
    <3>3. Usable(s)' <= Usable(s) + 0 + OutWire(s)' - OutWire(s)
      BY <2>1, <3>1, <3>2 DEF Usable
    <3>4. QED
      BY <1>7, <1>9, <2>2, <3>2, <3>3, LedgerKeeps, CountedKeeps DEF CreditInv
  <2>3. CASE s = Src[m]
    <3>1. Usable(s)' <= Usable(s) + (Slack(m)' - Slack(m))
      <4>1. Flying(s)' <= Flying(s) + (Slack(m)' - Slack(m))
        BY <1>8, <2>1, <2>3
      <4>2. QED
        BY <2>1, <4>1 DEF Usable
    <3>2. Usable(s)' <= Usable(s) + (Due(m)' - Due(m)) + OutWire(s)' - OutWire(s)
      <4>1. unpaid \in Int
        BY <1>8
      <4>2. Flying(s)' <= Flying(s) + (OutWire(s)' - OutWire(s)) - (unpaid + Due(m))
        BY <1>3, <2>3 DEF unpaid
      <4>3. QED
        BY <1>8, <2>1, <4>1, <4>2 DEF Usable
    <3>3. QED
      BY <1>7, <1>9, <2>3, <3>1, <3>2, LedgerKeeps, CountedKeeps DEF CreditInv
  <2>4. QED
    BY <2>2, <2>3
<1>11. ASSUME NEW s \in Sender
       PROVE  Usable(s)' <= Usable(s)
                + (IF s = Src[m] THEN Due(m)' - Due(m) + globalOut' - globalOut ELSE 0)
  <2>1. /\ Held(s)' = Held(s) /\ Held(s) \in Nat /\ Flying(s) \in Nat /\ Flying(s)' \in Nat
        /\ Due(m) \in Int /\ Due(m)' \in Int /\ globalOut \in Nat /\ globalOut' \in Nat
    BY <1>1, <1>7 DEF TermsOK, Held
  <2>2. CASE s # Src[m]
    BY <2>1, <2>2 DEF Usable
  <2>3. CASE s = Src[m]
    <3>1. unpaid \in Int /\ globalOut' = a.out
      BY <1>2, <1>8
    <3>2. Flying(s)' <= Flying(s) + (globalOut' - globalOut) - (unpaid + Due(m))
      BY <2>3, <3>1 DEF unpaid
    <3>3. QED
      BY <1>8, <2>1, <2>3, <3>1, <3>2 DEF Usable
  <2>4. QED
    BY <2>2, <2>3
<1>12. \/ globalOut' <= globalOut + Brought(m)' - Brought(m)
       \/ GlobalBucket > 0 => globalOut' <= GlobalBucket
  <2>1. CASE a.out <= globalOut + Lent(m)
    <3>1. Lent(m) \in Nat /\ Brought(m) \in Nat /\ Lent(m) = self[m].wire - Brought(m)
      BY <1>7 DEF CreditInv, IInv, SendOK, Credited, TermsOK, Lent, Brought
    <3>2. QED
      BY <1>2, <1>7, <1>8, <2>1, <3>1 DEF TermsOK
  <2>2. CASE GlobalBucket > 0 => a.out <= GlobalBucket
    BY <1>2, <2>2
  <2>3. QED
    BY <2>1, <2>2
<1>13. BucketCovers' /\ BucketHolds'
  BY <1>7, <1>9, <1>11, <1>12, BucketKeeps DEF CreditInv
<1>14. QED
  BY <1>5, <1>6, <1>10, <1>13 DEF CreditInv

\* What is left of a message that has a whole number of chunks behind it takes
\* full frames and the tail of the message.
LEMMA ReserveOfUnknown ==
  ASSUME CreditInv, NEW m \in Message, m \notin DOMAIN rxQp, NEW d \in Nat, d <= Size[m],
         d % MTU = 0 \/ d = Size[m]
  PROVE  Reserve(m, Size[m] - d, net) = W(Size[m] - d)
<1> DEFINE x == Size[m] - d
<1>1. /\ FramesFit /\ PacketBag(net) /\ IsFiniteSet(InFlight(Src[m]))
      /\ MTU \in Nat \ {0} /\ Overhead \in Nat /\ Size[m] \in Nat /\ x \in Nat
  BY MessageAssumption, FrameAssumption DEF CreditInv, HostInv, Ordinary, IInv, NetOK, PacketBag
<1>2. InBag(net, Grants(m)) = {}
  <2>1. ASSUME NEW p \in DOMAIN net, p \in Grants(m) PROVE FALSE
    BY <2>1 DEF Grants, CreditInv, NetInv, PacketInv, CreditPacket
  <2>2. QED
    BY <2>1 DEF InBag
<1>3. Reserve(m, x, net) = Frames(x) - IF InTail(m, x) THEN Short(m) ELSE 0
  <2>1. IsFiniteSet(InBag(net, Grants(m)))
    BY <1>1, GrantsFly
  <2>2. QED
    BY <1>1, <1>2, <2>1, ReserveNat
<1>4. Frames(0) = 0 /\ ~InTail(m, 0) /\ W(0) = 0
  BY <1>1, FramesFill, WireNat
<1>5. CASE d = Size[m]
  <2>1. x = 0
    BY <1>1, <1>5
  <2>2. QED
    BY <1>3, <1>4, <2>1
<1>6. CASE d % MTU = 0
  <2>1. PICK k \in Nat, r \in 0 .. MTU - 1 : x = k * MTU + r
    BY <1>1, Chunked
  <2>2. Size[m] % MTU = r
    <3>1. PICK j \in Nat, e \in 0 .. MTU - 1 : d = j * MTU + e
      BY Chunked
    <3>2. e = 0
      BY <1>6, <3>1, ChunkedOnce
    <3>3. Size[m] = (j + k) * MTU + r
      <4>1. (j + k) * MTU = j * MTU + k * MTU /\ j * MTU \in Nat /\ k * MTU \in Nat
        BY <1>1
      <4>2. d = j * MTU /\ Size[m] = x + d
        BY <1>1, <3>1, <3>2
      <4> HIDE DEF x
      <4>3. QED
        BY <1>1, <2>1, <4>1, <4>2
    <3>4. j + k \in Nat
      OBVIOUS
    <3>5. QED
      BY <3>3, <3>4, ChunkedOnce
  <2> HIDE DEF x
  <2>3. /\ Frames(x) = k * (MTU + Overhead) + IF r = 0 THEN 0 ELSE MTU + Overhead
        /\ InTail(m, x) <=> r >= 1 /\ r <= r
    BY <1>1, <2>1, <2>2, FramesSplit
  <2>4. W(x) = k * (MTU + Overhead) + Rest(r) /\ k * (MTU + Overhead) \in Nat
    BY <1>1, <2>1, WireSplit
  <2>5. Short(m) = (MTU + Overhead) - Rest(r) /\ Rest(r) \in Nat
    <3>1. W(r) = Rest(r)
      <4>1. W(0 * MTU + r) = 0 * (MTU + Overhead) + Rest(r)
        BY <1>1, WireSplit
      <4>2. 0 * MTU + r = r /\ 0 * (MTU + Overhead) + Rest(r) = Rest(r) /\ Rest(r) \in Nat
        BY <1>1, RestBounds
      <4>3. QED
        BY <4>1, <4>2
    <3>2. QED
      BY <1>1, <2>2, <3>1, RestBounds DEF Short
  <2>6. r = 0 => Rest(r) = 0
    BY DEF Rest
  <2>7. QED
    BY <1>1, <1>3, <2>3, <2>4, <2>5, <2>6 DEF x
<1>7. QED
  BY <1>5, <1>6

\* The account after the announcement of a message, its first or a later one.
LEMMA Announces ==
  ASSUME CreditInv, NEW m \in Message, NEW value \in Caps, NEW own \in Credited,
         m \in DOMAIN rxQp \/ own = self[m]
  PROVE  LET b == ApplyNewAnnouncement(
                    UpdateSenderStateAimd(Enable(Open(m)), value), m, own)
         IN /\ b \in Account /\ b.st.msgs = Listed(Src[m]) \cup {m}
            /\ b.q.accounted /\ b.q.pending \in Nat /\ b.q.chunks = Got(m)
            /\ b.q.done <=> m \in DOMAIN rxQp /\ rxQp[m].done
            /\ b.st.outData \in Nat
            /\ W(Size[m]) - Reserve(m, b.q.pending, net) = Paid(m)
            /\ b.st.outWire = OutWire(Src[m]) + Lent(m)
            /\ b.out = globalOut + Lent(m)
            /\ m \in DOMAIN rxQp => /\ b.st.outData = OutData(Src[m]) /\ b.out = globalOut
                                    /\ b.q = rxQp[m] /\ Lent(m) = 0
            /\ m \notin DOMAIN rxQp => /\ b.st.outData = OutData(Src[m]) + own.data
                                       /\ b.out = globalOut + own.wire
                                       /\ b.q.pending = Size[m] - own.data
<1> DEFINE a == UpdateSenderStateAimd(Enable(Open(m)), value)
           b == ApplyNewAnnouncement(a, m, own)
<1>0. RecvOK /\ ReceiverInv(m) /\ SenderInv(m) /\ FramesFit /\ Src[m] \in Sender
  BY MessageAssumption DEF CreditInv, IInv, HostInv, Ordinary
<1>1. /\ Open(m) \in Account /\ Enable(Open(m)) \in Account
  BY <1>0, OpenSound
<1>2. /\ a \in Account /\ a.q = IF m \in DOMAIN rxQp THEN rxQp[m] ELSE NewRxQp
      /\ a.out = globalOut /\ a.st.outWire = OutWire(Src[m])
      /\ a.st.outData = OutData(Src[m]) /\ a.st.msgs = Listed(Src[m]) \cup {m}
  <2>1. a \in Account
    BY <1>1, AimdSound
  <2>2. /\ a.q = Open(m).q /\ a.out = Open(m).out
        /\ a.st.outWire = Open(m).st.outWire /\ a.st.outData = Open(m).st.outData
        /\ a.st.msgs = Open(m).st.msgs
    BY <1>1, SameAccount
  <2> HIDE DEF a
  <2>3. QED
    BY <1>0, <2>1, <2>2, AccountOpens
<1> HIDE DEF a
<1>3. OutData(Src[m]) \in Nat /\ OutWire(Src[m]) \in Nat /\ Size[m] \in Nat
      /\ globalOut \in Nat
  BY <1>0, SizeNat, Terms DEF CreditInv, HostInv, TermsOK
<1>4. CASE m \in DOMAIN rxQp
  <2>1. a.q = rxQp[m] /\ a.q.accounted /\ a.q.pending \in Nat
    BY <1>0, <1>2, <1>4 DEF ReceiverInv
  <2>2. b = a
    BY <2>1 DEF ApplyNewAnnouncement
  <2> HIDE DEF b
  <2>3. /\ Got(m) = rxQp[m].chunks /\ Lent(m) = 0
        /\ Paid(m) = W(Size[m]) - Reserve(m, rxQp[m].pending, net)
    BY <1>4, <2>1 DEF Got, Paid, Lent, Known
  <2>4. QED
    BY <1>2, <1>3, <1>4, <2>1, <2>2, <2>3 DEF a, b
<1>5. CASE m \notin DOMAIN rxQp
  <2>1. own = self[m] /\ Portion(m, own)
    BY <1>0, <1>5 DEF SenderInv
  <2>2. /\ own.data \in Nat /\ own.data <= Size[m] /\ own.wire = W(own.data)
        /\ W(Size[m]) = W(own.data) + W(Size[m] - own.data)
    BY <2>1 DEF Portion
  <2>3. a.q = NewRxQp
    BY <1>2, <1>5
  <2>4. /\ b \in Account /\ b.st.msgs = a.st.msgs
        /\ b.q.accounted /\ b.q.chunks = {} /\ ~b.q.done
        /\ b.q.pending = Size[m] - own.data
        /\ b.st.outData = a.st.outData + own.data
        /\ b.st.outWire = a.st.outWire + own.wire /\ b.out = a.out + own.wire
    BY <1>2, <2>2, <2>3, AnnouncementParts
  <2> HIDE DEF b
  <2>5. Size[m] - own.data \in Nat /\ OutData(Src[m]) + own.data \in Nat
    <3>1. own.data \in Nat /\ Size[m] \in Nat
      BY <1>3, <2>2
    <3>2. Size[m] >= own.data
      BY <2>2, <3>1
    <3>3. QED
      BY <1>3, <2>2, <3>2, LeastMost
  <2>6. Got(m) = {} /\ Paid(m) = own.wire /\ Lent(m) = own.wire
    BY <1>5, <2>1 DEF Got, Paid, Lent, Known
  <2>7. W(Size[m]) - Reserve(m, Size[m] - own.data, net) = own.wire
    <3>1. W(own.data) \in Nat /\ W(Size[m] - own.data) \in Nat
      BY <1>0, <2>2, <2>5, WireNat
    <3>2. Reserve(m, Size[m] - own.data, net) = W(Size[m] - own.data)
      BY <1>0, <1>5, <2>1, <2>5, ReserveOfUnknown DEF Portion
    <3>3. QED
      BY <2>2, <3>1, <3>2
  <2>8. QED
    BY <1>2, <1>3, <1>5, <2>4, <2>5, <2>6, <2>7 DEF a, b
<1>6. QED
  BY <1>4, <1>5 DEF a

\* A packet that is received or lost adds nothing to what a message may be
\* granted.
LEMMA QuietTaken ==
  ASSUME CreditInv, NEW m \in Message, NEW x \in Nat, NEW p \in DOMAIN net, Replaces(p, {})
  PROVE  /\ \A y \in Message : Quiet(y)
         /\ Reserve(m, x, net) \in Nat /\ Reserve(m, x, net') \in Nat
         /\ p \in Grants(m) => \A d \in 0 .. p.data :
              Reserve(m, x + d, net') <= Reserve(m, x, net) + p.wire
<1>1. /\ NetOK /\ FramesFit /\ {} \in SUBSET Sent /\ PacketBag(net)
      /\ \A y \in Message : IsFiniteSet(InFlight(Src[y]))
      /\ \A y : \A q \in {} : q \notin Grants(y)
  BY MessageAssumption DEF CreditInv, IInv, HostInv, Ordinary, NetOK, PacketBag
<1>2. \A y \in Message : Quiet(y)
  BY <1>1, QuietNet DEF CreditInv
<1>3. p \in Grants(m) => \A d \in 0 .. p.data :
        Reserve(m, x + d, net') <= Reserve(m, x, net) + p.wire
  BY <1>1, ReplacesReserve
<1>4. IsFiniteSet(InBag(net, Grants(m)))
  BY <1>1, GrantsFly
<1>5. PacketBag(net') /\ IsFiniteSet(InBag(net', Grants(m)))
  <2>1. net' = net (-) SetToBag({p}) (+) SetToBag({})
    BY DEF Replaces
  <2>2. QED
    BY <1>1, <1>4, <2>1, SpareNat, PacketTaken, OthersAdded
<1>6. QED
  BY <1>1, <1>2, <1>3, <1>4, <1>5, ReserveNat

\* The announcement of a scheduled message.
LEMMA ReceiveGrantReqInv ==
  ASSUME CreditInv, IInv', NEW p \in DOMAIN net, p.kind = "GRANT_REQ", ReceiveGrantReq(p)
  PROVE  CreditInv'
<1> DEFINE m == p.msg
<1>1. p \in Sent /\ m \in Message
  BY DEF CreditInv, IInv, NetOK, Sent, Packet
<1>2. class[m] = "scheduled" /\ announced[m] /\ self[m] = NoCredit
  BY <1>1 DEF CreditInv, NetInv, PacketInv, HostInv, SenderInv
<1>3. /\ Replaces(p, {}) /\ UNCHANGED sendVars
      /\ \E value \in Caps : Store(ApplyNewAnnouncement(
           UpdateSenderStateAimd(Enable(Open(m)), value), m, NoCredit), m)
  BY DEF ReceiveGrantReq
<1>4. PICK value \in Caps : Store(ApplyNewAnnouncement(
        UpdateSenderStateAimd(Enable(Open(m)), value), m, NoCredit), m)
  BY <1>3
<1> DEFINE a == ApplyNewAnnouncement(
                  UpdateSenderStateAimd(Enable(Open(m)), value), m, NoCredit)
<1>5. NoCredit \in Credited
  BY DEF NoCredit, Credited
<1>6. /\ a \in Account /\ a.st.msgs = Listed(Src[m]) \cup {m}
      /\ a.q.accounted /\ a.q.pending \in Nat /\ a.q.chunks = Got(m)
      /\ a.q.done <=> m \in DOMAIN rxQp /\ rxQp[m].done
      /\ a.st.outData \in Nat
      /\ W(Size[m]) - Reserve(m, a.q.pending, net) = Paid(m)
      /\ a.st.outWire = OutWire(Src[m]) + Lent(m) /\ a.out = globalOut + Lent(m)
  BY <1>1, <1>2, <1>5, Announces
<1>7. Store(a, m)
  BY <1>4
<1> HIDE DEF a
<1>8. TermsOK /\ Src[m] \in Sender /\ ReceiverInv(m) /\ NetOK
  BY <1>1, Terms, MessageAssumption DEF CreditInv, HostInv, IInv
<1> HIDE DEF m
<1>9. a.q.chunks \subseteq First(m) /\ (a.q.done => a.q.chunks = Chunk(m))
  BY <1>6, <1>8 DEF ReceiverInv, Got
<1>10. DOMAIN net' \subseteq DOMAIN net /\ DOMAIN net \ {p} \subseteq DOMAIN net'
  <2>1. /\ DOMAIN net' \subseteq DOMAIN net \cup {}
        /\ (DOMAIN net \ {p}) \cup {} \subseteq DOMAIN net'
    BY <1>3, <1>8, NetMembers
  <2>2. QED
    BY <2>1
<1>11. \A x \in Message \ {m} : GrantReq(x) \in DOMAIN net => GrantReq(x) \in DOMAIN net'
  BY <1>10 DEF GrantReq, m
<1>12. ASSUME NEW s \in Sender PROVE IsFiniteSet(InFlight(s)') /\ Flying(s)' = Flying(s)
  <2>1. IsFiniteSet(InFlight(s)) /\ {} \in SUBSET Sent /\ \A q \in {} : ~IsCredit(q, s)
    BY DEF CreditInv, HostInv
  <2>2. IsFiniteSet(InFlight(s)') /\ Flying(s)' = Flying(s) - CreditOf(p, s)
    BY <1>3, <1>8, <2>1, ReplacesFlying
  <2>3. CreditOf(p, s) = 0 /\ Flying(s) \in Nat
    BY <1>8 DEF CreditOf, IsCredit, TermsOK
  <2>4. QED
    BY <2>2, <2>3
<1>18. /\ \A x \in Message : Quiet(x)
       /\ Reserve(m, a.q.pending, net) \in Nat /\ Reserve(m, a.q.pending, net') \in Nat
  <2>1. m \in Message
    BY <1>1 DEF m
  <2>2. QED
    BY <1>3, <1>6, <2>1, QuietTaken
<1>13. Flying(Src[m])' <= Flying(Src[m])
         + (W(Size[m]) - Reserve(m, a.q.pending, net') - Spent(m) - Slack(m))
  <2>1. W(Size[m]) - Reserve(m, a.q.pending, net) - Spent(m) = Slack(m)
    BY <1>6 DEF Slack
  <2>2. /\ Flying(Src[m])' = Flying(Src[m]) /\ Flying(Src[m]) \in Nat /\ Slack(m) \in Int
        /\ W(Size[m]) \in Nat /\ Spent(m) \in Nat
    BY <1>8, <1>12, <1>1 DEF TermsOK, m
  <2>3. Reserve(m, a.q.pending, net') <= Reserve(m, a.q.pending, net)
    BY <1>1, <1>6, <1>18 DEF Quiet, m
  <2>4. QED
    BY <1>18, <2>1, <2>2, <2>3
<1>14. /\ Flying(Src[m])' <= Flying(Src[m]) + (a.st.outWire - OutWire(Src[m]))
            - (SumFunctionOnSet([i \in Chunk(m) |-> Wire(m, i)], First(m) \ a.q.chunks)
               + Due(m))
       /\ Flying(Src[m])' <= Flying(Src[m]) + (a.out - globalOut)
            - (SumFunctionOnSet([i \in Chunk(m) |-> Wire(m, i)], First(m) \ a.q.chunks)
               + Due(m))
       /\ a.out <= globalOut + Lent(m)
  <2>1. SumFunctionOnSet([i \in Chunk(m) |-> Wire(m, i)], First(m) \ a.q.chunks) = Unpaid(m)
    BY <1>6 DEF Unpaid
  <2>2. Due(m) = Lent(m) - Unpaid(m)
    BY DEF Due
  <2>3. /\ Flying(Src[m])' = Flying(Src[m]) /\ Flying(Src[m]) \in Nat
        /\ Lent(m) \in Nat /\ Unpaid(m) \in Nat /\ OutWire(Src[m]) \in Nat
        /\ globalOut \in Nat
    BY <1>8, <1>12, <1>1 DEF TermsOK, m
  <2>4. QED
    BY <1>6, <2>1, <2>2, <2>3
<1>15. \A q \in DOMAIN net' : q \in DOMAIN net \/ PacketInv(q)'
  BY <1>10
<1>16. \A s \in Sender \ {Src[m]} : Flying(s)' <= Flying(s)
  BY <1>8, <1>12 DEF TermsOK
<1>17. m \in Message /\ announced[m] /\ \A s \in Sender : IsFiniteSet(InFlight(s)')
  BY <1>1, <1>2, <1>12 DEF m
<1>19. QED
  BY <1>3, <1>6, <1>7, <1>9, <1>11, <1>13, <1>14, <1>15, <1>16, <1>17, <1>18, AccountKeeps

\* A bounced grant becomes demand again, which costs no more than it brought.
LEMMA ReceiveBouncedInv ==
  ASSUME CreditInv, IInv', NEW p \in DOMAIN net, p.kind = "BOUNCED", ReceiveBounced(p)
  PROVE  CreditInv'
<1> DEFINE m == p.msg
           open == Enable(Open(m))
           data == Least(p.data, open.st.outData)
           wire == Least(p.wire, open.st.outWire)
           back == Reclaim(open, data, wire)
           a == [back EXCEPT
                   !.st.pending = @ + data,
                   !.q.pending = @ + data,
                   !.q.timer = @ \/ (open.q.accounted /\ ~open.q.done)]
<1>1. /\ p \in Sent /\ m \in Message /\ Src[m] \in Sender /\ p.wire \in Nat
      /\ m \in DOMAIN rxQp /\ p.data \in Nat /\ p.wire = W(p.data)
  <2>1. p \in Sent /\ m \in Message /\ p.wire \in Nat
    BY DEF CreditInv, IInv, NetOK, Sent, Packet
  <2>2. CreditPacket(p)
    BY DEF CreditInv, NetInv, PacketInv
  <2>3. QED
    BY <2>1, <2>2, MessageAssumption DEF CreditPacket
<1>2. /\ RecvOK /\ NetOK /\ TermsOK /\ ReceiverInv(m) /\ OutData(Src[m]) \in Nat
      /\ FramesFit
  BY <1>1, Terms DEF CreditInv, HostInv, IInv, Ordinary
<1>3. /\ rxQp[m] \in RxQpType /\ rxQp[m].accounted /\ rxQp[m].pending \in Nat
      /\ announced[m] /\ rxQp[m].chunks \subseteq First(m)
      /\ rxQp[m].done => rxQp[m].chunks = Chunk(m)
  BY <1>1, <1>2 DEF ReceiverInv, RecvOK, RxQpOK
<1>4. /\ Replaces(p, {}) /\ UNCHANGED sendVars /\ Store(a, m)
  BY <1>1 DEF ReceiveBounced
<1>5. /\ open \in Account /\ open.q = rxQp[m]
      /\ open.st.outWire = OutWire(Src[m]) /\ open.st.outData = OutData(Src[m])
      /\ open.st.msgs = Listed(Src[m]) \cup {m} /\ open.out = globalOut
  <2>1. Open(m) \in Account /\ open \in Account
    BY <1>1, <1>2, OpenSound
  <2>2. /\ open.q = Open(m).q
        /\ open.st.outWire = Open(m).st.outWire /\ open.st.outData = Open(m).st.outData
        /\ open.st.msgs = Open(m).st.msgs /\ open.out = Open(m).out
    BY <2>1, SameAccount
  <2> HIDE DEF open
  <2>3. QED
    BY <1>1, <1>2, <2>1, <2>2, AccountOpens
<1> HIDE DEF open, m
<1>6. /\ data \in Nat /\ data <= p.data /\ data <= OutData(Src[m])
      /\ wire \in Nat /\ wire <= p.wire /\ wire <= OutWire(Src[m])
      /\ OutWire(Src[m]) \in Nat /\ OutData(Src[m]) \in Nat /\ data \in Nat
  <2>1. OutWire(Src[m]) \in Nat /\ OutData(Src[m]) \in Nat /\ p.data \in Nat
    BY <1>1, <1>2 DEF TermsOK
  <2>2. data = Least(p.data, OutData(Src[m])) /\ wire = Least(p.wire, OutWire(Src[m]))
    BY <1>5
  <2> HIDE DEF data, wire
  <2>3. data \in Nat
    BY <1>1, <1>2, <2>2, LeastMost
  <2>4. QED
    BY <1>1, <2>1, <2>2, <2>3 DEF Least
<1>7. data <= open.st.outData
  BY <1>5, <1>6
<1> HIDE DEF data, wire
<1>8. /\ back \in Account /\ back.q = rxQp[m]
      /\ back.st.outWire = OutWire(Src[m]) - wire
      /\ back.st.outData = OutData(Src[m]) - data
      /\ back.st.msgs = Listed(Src[m]) \cup {m} /\ back.out = Minus(globalOut, wire)
  <2>1. back \in Account
    BY <1>5, <1>6, <1>7, ReclaimSound
  <2>2. /\ back.q = open.q /\ back.st.outWire = Minus(open.st.outWire, wire)
        /\ back.st.outData = open.st.outData - data /\ back.st.msgs = open.st.msgs
        /\ back.out = Minus(open.out, wire)
    BY <1>5, <1>6, ReclaimParts
  <2> HIDE DEF back
  <2>3. Minus(open.st.outWire, wire) = OutWire(Src[m]) - wire
    BY <1>5, <1>6 DEF Minus
  <2>4. QED
    BY <1>5, <2>1, <2>2, <2>3
<1> HIDE DEF back
<1>9. /\ a \in Account /\ a.q = [rxQp[m] EXCEPT !.pending = @ + data, !.timer = a.q.timer]
      /\ a.st.outWire = OutWire(Src[m]) - wire /\ a.st.outData = OutData(Src[m]) - data
      /\ a.st.msgs = Listed(Src[m]) \cup {m} /\ a.out = Minus(globalOut, wire)
  <2>1. back.st.pending + data \in Nat /\ back.q.pending + data \in Nat
    BY <1>6, <1>8, AccountParts
  <2>2. back \in [st : SenderStateType, q : RxQpType, out : Nat] /\ Floor(back.st)
    BY <1>8, AccountParts DEF Account
  <2>3. back.q.timer \in BOOLEAN
    BY <2>2 DEF RxQpType
  <2>4. a \in [st : SenderStateType, q : RxQpType, out : Nat]
    BY <2>1, <2>2, <2>3 DEF SenderStateType, RxQpType
  <2>5. a.st = [back.st EXCEPT !.pending = @ + data]
    BY <2>2 DEF SenderStateType, RxQpType
  <2>6. a.q = [back.q EXCEPT !.pending = @ + data, !.timer = a.q.timer] /\ a.out = back.out
    BY <2>2 DEF SenderStateType, RxQpType
  <2> HIDE DEF a
  <2>7. /\ Floor(a.st) /\ a.st.outWire = back.st.outWire
        /\ a.st.outData = back.st.outData /\ a.st.msgs = back.st.msgs
    BY <2>2, <2>5 DEF Floor, SenderStateType
  <2>8. QED
    BY <1>8, <2>4, <2>6, <2>7 DEF Account, SoundState
<1> HIDE DEF a
<1>10. /\ a.q.accounted /\ a.q.pending = rxQp[m].pending + data
       /\ a.q.chunks = rxQp[m].chunks /\ a.q.done = rxQp[m].done
  BY <1>3, <1>9 DEF RxQpType
<1>11. a.q.pending \in Nat /\ a.st.outData \in Nat
  <2>1. OutData(Src[m]) >= data
    BY <1>6
  <2>2. QED
    BY <1>2, <1>3, <1>6, <1>9, <1>10, <2>1, LeastMost
<1>12. /\ Reserve(m, a.q.pending, net') <= Reserve(m, rxQp[m].pending, net) + p.wire
       /\ Reserve(m, a.q.pending, net') \in Nat /\ Reserve(m, rxQp[m].pending, net) \in Nat
       /\ \A x \in Message : Quiet(x)
  <2>1. p \in Grants(m)
    BY <1>1 DEF Grants, m
  <2>2. data \in 0 .. p.data
    BY <1>1, <1>6
  <2>3. /\ Reserve(m, rxQp[m].pending + data, net') <= Reserve(m, rxQp[m].pending, net) + p.wire
        /\ Reserve(m, rxQp[m].pending, net) \in Nat /\ \A x \in Message : Quiet(x)
    BY <1>1, <1>3, <1>4, <2>1, <2>2, QuietTaken
  <2>4. Reserve(m, a.q.pending, net') \in Nat
    BY <1>1, <1>4, <1>11, QuietTaken
  <2>5. QED
    BY <1>10, <2>3, <2>4
<1>13. DOMAIN net' \subseteq DOMAIN net /\ DOMAIN net \ {p} \subseteq DOMAIN net'
  <2>1. /\ DOMAIN net' \subseteq DOMAIN net \cup {}
        /\ (DOMAIN net \ {p}) \cup {} \subseteq DOMAIN net'
    BY <1>2, <1>4, NetMembers
  <2>2. QED
    BY <2>1
<1>14. ASSUME NEW s \in Sender
       PROVE  /\ IsFiniteSet(InFlight(s)')
              /\ Flying(s)' = Flying(s) - (IF s = Src[m] THEN p.wire ELSE 0)
  <2>1. IsFiniteSet(InFlight(s)) /\ {} \in SUBSET Sent /\ \A q \in {} : ~IsCredit(q, s)
    BY DEF CreditInv, HostInv
  <2>2. IsFiniteSet(InFlight(s)') /\ Flying(s)' = Flying(s) - CreditOf(p, s)
    BY <1>2, <1>4, <2>1, ReplacesFlying
  <2>3. CreditOf(p, s) = IF s = Src[m] THEN p.wire ELSE 0
    BY DEF CreditOf, IsCredit, m
  <2>4. QED
    BY <2>2, <2>3
<1>15. /\ Paid(m) = W(Size[m]) - Reserve(m, rxQp[m].pending, net)
       /\ Got(m) = rxQp[m].chunks /\ Lent(m) = 0
  BY <1>1, <1>3 DEF Paid, Got, Lent, Known
<1>16. /\ Flying(Src[m])' = Flying(Src[m]) - p.wire /\ Flying(Src[m]) \in Nat
       /\ Spent(m) \in Nat /\ Unpaid(m) \in Nat
  BY <1>1, <1>2, <1>14 DEF TermsOK
<1>17. Flying(Src[m])' <= Flying(Src[m])
         + (W(Size[m]) - Reserve(m, a.q.pending, net') - Spent(m) - Slack(m))
  <2>1. Slack(m) = W(Size[m]) - Reserve(m, rxQp[m].pending, net) - Spent(m)
    BY <1>15 DEF Slack
  <2>2. W(Size[m]) \in Nat
    BY <1>1, <1>2 DEF TermsOK
  <2>3. QED
    BY <1>1, <1>12, <1>16, <2>1, <2>2
<1>18. /\ Flying(Src[m])' <= Flying(Src[m]) + (a.st.outWire - OutWire(Src[m]))
            - (SumFunctionOnSet([i \in Chunk(m) |-> Wire(m, i)], First(m) \ a.q.chunks)
               + Due(m))
       /\ Flying(Src[m])' <= Flying(Src[m]) + (a.out - globalOut)
            - (SumFunctionOnSet([i \in Chunk(m) |-> Wire(m, i)], First(m) \ a.q.chunks)
               + Due(m))
       /\ a.out <= globalOut + Lent(m)
  <2>1. SumFunctionOnSet([i \in Chunk(m) |-> Wire(m, i)], First(m) \ a.q.chunks) = Unpaid(m)
    BY <1>10, <1>15 DEF Unpaid
  <2>2. Due(m) = 0 - Unpaid(m)
    BY <1>15 DEF Due
  <2>3. globalOut \in Nat /\ a.out <= globalOut /\ globalOut - wire <= a.out /\ a.out \in Nat
    <3>1. globalOut \in Nat
      BY <1>2 DEF TermsOK
    <3>2. QED
      BY <1>6, <1>9, <3>1 DEF Minus
  <2>4. QED
    BY <1>1, <1>6, <1>9, <1>15, <1>16, <2>1, <2>2, <2>3
<1>19. \A x \in Message \ {m} : GrantReq(x) \in DOMAIN net => GrantReq(x) \in DOMAIN net'
  BY <1>13 DEF GrantReq, m
<1>20. \A q \in DOMAIN net' : q \in DOMAIN net \/ PacketInv(q)'
  BY <1>13
<1>21. /\ \A s \in Sender \ {Src[m]} : Flying(s)' <= Flying(s)
       /\ \A s \in Sender : IsFiniteSet(InFlight(s)')
  BY <1>2, <1>14 DEF TermsOK
<1>22. /\ a.q.done <=> m \in DOMAIN rxQp /\ rxQp[m].done
       /\ a.q.chunks \subseteq First(m) /\ (a.q.done => a.q.chunks = Chunk(m))
  BY <1>1, <1>3, <1>10
<1>23. QED
  BY <1>1, <1>3, <1>4, <1>9, <1>10, <1>11, <1>12, <1>17, <1>18, <1>19, <1>20, <1>21, <1>22,
     AccountKeeps

\* A step that leaves the hosts and the network leaves the invariant.
LEMMA CreditRests ==
  ASSUME CreditInv, IInv', UNCHANGED <<sendVars, rxQp, senderStates, globalOut, net>>
  PROVE  CreditInv'
<1>1. UNCHANGED <<state, class, self, announced, next, receiverStates, rxQp, senderStates, net>>
  BY DEF sendVars
<1>2. \A x \in Message : SenderInv(x)' /\ ReceiverInv(x)'
  BY <1>1 DEF CreditInv, HostInv, SenderInv, ReceiverInv, Portion, First, Listed
<1>3. \A s \in Sender : /\ OutData(s)' = OutData(s) /\ InFlight(s)' = InFlight(s)
                        /\ OutWire(s)' = OutWire(s) /\ Held(s)' = Held(s)
                        /\ Flying(s)' = Flying(s)
  BY <1>1 DEF OutData, OutWire, InFlight, Held, Flying
<1>4. HostInv'
  BY <1>1, <1>2, <1>3 DEF CreditInv, HostInv, PeerInv
<1>5. NetInv'
  BY <1>1 DEF CreditInv, NetInv, PacketInv, CreditPacket, DataPacket
<1>6. \A x \in Message : /\ Slack(x) <= Slack(x)' /\ Due(x)' = Due(x)
                         /\ Brought(x)' = Brought(x)
  <2>1. TermsOK /\ TermsOK' /\ \A x \in Message : Quiet(x)
    BY <1>1, <1>4, Terms, TermsNext, QuietNet DEF CreditInv
  <2>2. QED
    BY <1>1, <2>1, Untouched
<1>7. ASSUME NEW s \in Sender PROVE Usable(s)' <= Usable(s) /\ OutWire(s)' = OutWire(s)
  <2>1. Held(s) \in Nat /\ Flying(s) \in Nat
    BY Terms DEF CreditInv, TermsOK
  <2>2. QED
    BY <1>3, <2>1 DEF Usable
<1>8. /\ \A s \in Sender : Ledger(s)' /\ Counted(s)'
      /\ BucketCovers' /\ BucketHolds'
  BY <1>4, <1>6, <1>7, LedgersRest
<1>9. QED
  BY <1>4, <1>5, <1>8 DEF CreditInv

\* A grant charges its frames, and the demand that is left needs as many fewer.
LEMMA IssueCreditGrantInv ==
  ASSUME CreditInv, IInv', NEW m \in Grantable, IssueCreditGrant(m), UNCHANGED sendVars
  PROVE  CreditInv'
<1> DEFINE o == Open(m)
           data == Ask(o.st, o.q)
           wire == W(data)
           g == Grant(m, data)
           a == Charge(o, data, wire)
<1>1. /\ m \in Message /\ Src[m] \in Sender /\ m \in DOMAIN rxQp
  BY MessageAssumption DEF Grantable, CreditInv, IInv, RecvOK, RxQpOK
<1>2. /\ RecvOK /\ NetOK /\ TermsOK /\ ReceiverInv(m) /\ OutData(Src[m]) \in Nat
      /\ FramesFit
  BY <1>1, Terms DEF CreditInv, HostInv, IInv, Ordinary
<1>3. /\ rxQp[m] \in RxQpType /\ rxQp[m].accounted /\ rxQp[m].pending \in Nat
      /\ announced[m] /\ rxQp[m].chunks \subseteq First(m)
      /\ rxQp[m].done => rxQp[m].chunks = Chunk(m)
  BY <1>1, <1>2 DEF ReceiverInv, RecvOK, RxQpOK
<1>4. /\ o \in Account /\ o.q = rxQp[m]
      /\ o.st.outWire = OutWire(Src[m]) /\ o.st.outData = OutData(Src[m])
      /\ o.st.msgs = Listed(Src[m]) \cup {m} /\ o.out = globalOut
  BY <1>1, <1>2, OpenSound, AccountOpens
<1>5. data > 0 /\ (GlobalBucket > 0 => globalOut + wire <= GlobalBucket)
  <2>1. o.st = [senderStates[Src[m]] EXCEPT !.msgs = @ \cup {m}]
    BY <1>1 DEF Open, GetSenderState, Grantable
  <2>2. senderStates[Src[m]] \in SenderStateType
    BY <1>1, <1>2 DEF Grantable, RecvOK, SenderStatesOK, SoundState
  <2>3. o.st.gran = senderStates[Src[m]].gran /\ o.st.pending = senderStates[Src[m]].pending
    BY <2>1, <2>2 DEF SenderStateType
  <2>4. LET ask == Ask(senderStates[Src[m]], rxQp[m])
        IN ask > 0 /\ (GlobalBucket > 0 => globalOut + W(ask) <= GlobalBucket)
    BY DEF Grantable, W
  <2> HIDE DEF o
  <2>5. data = Ask(senderStates[Src[m]], rxQp[m])
    BY <1>4, <2>3 DEF Ask
  <2>6. QED
    BY <2>4, <2>5
<1>6. Store(a, m) /\ Sends({g})
  BY DEF IssueCreditGrant, W
<1> HIDE DEF o
<1>7. /\ data \in Nat /\ data <= rxQp[m].pending
      /\ rxQp[m].pending - data \in Nat
      /\ data % MTU = 0 \/ rxQp[m].pending - data = 0
  <2>1. o.st \in SenderStateType /\ o.q \in RxQpType
    BY <1>4, AccountParts
  <2> HIDE DEF data
  <2>2. /\ data \in Nat /\ data <= o.q.pending /\ o.q.pending - data \in Nat
        /\ data % MTU = 0 \/ data = o.q.pending
    BY <1>2, <2>1, AskPortion DEF data
  <2>3. QED
    BY <1>3, <1>4, <2>2
<1> HIDE DEF data
<1>8. data \in Nat /\ wire \in Nat /\ rxQp[m].pending \in Nat
  BY <1>2, <1>3, <1>7, WireNat
<1>9. /\ g \in Sent /\ g.kind = "GRANT" /\ g.msg = m /\ g.data = data /\ g.wire = wire
  BY <1>1, <1>8 DEF Grant, Sent, Packet, W
<1> HIDE DEF g, wire
<1>10. /\ a \in Account /\ a.q = [rxQp[m] EXCEPT !.pending = Minus(@, data)]
       /\ a.st.outWire = OutWire(Src[m]) + wire /\ a.st.outData = OutData(Src[m]) + data
       /\ a.st.msgs = Listed(Src[m]) \cup {m} /\ a.out = globalOut + wire
  <2>1. a \in Account
    BY <1>4, <1>8, ChargeSound
  <2>2. /\ a.q = [o.q EXCEPT !.pending = Minus(@, data)]
        /\ a.st.outWire = o.st.outWire + wire /\ a.st.outData = o.st.outData + data
        /\ a.st.msgs = o.st.msgs /\ a.out = o.out + wire
    BY <1>4, <1>8, ChargeParts
  <2> HIDE DEF a
  <2>3. QED
    BY <1>4, <2>1, <2>2
<1> HIDE DEF a
<1>11. /\ a.q.accounted /\ a.q.pending = rxQp[m].pending - data
       /\ a.q.chunks = rxQp[m].chunks /\ a.q.done = rxQp[m].done
  <2>1. Minus(rxQp[m].pending, data) = rxQp[m].pending - data
    BY <1>7, <1>8 DEF Minus
  <2>2. QED
    BY <1>3, <1>10, <2>1 DEF RxQpType
<1>12. a.q.pending \in Nat /\ a.st.outData \in Nat
  BY <1>2, <1>7, <1>10, <1>11, LeastMost
<1>13. DOMAIN net' = DOMAIN net \cup {g}
  BY <1>2, <1>6, NetMembers
<1>14. ASSUME NEW s \in Sender
       PROVE  /\ IsFiniteSet(InFlight(s)')
              /\ Flying(s)' = Flying(s) + (IF s = Src[m] THEN wire ELSE 0)
  <2>1. IsFiniteSet(InFlight(s)) /\ {g} \in SUBSET Sent
    BY <1>9 DEF CreditInv, HostInv
  <2>2. IsFiniteSet(InFlight(s)') /\ Flying(s)' = Flying(s) + CreditOf(g, s)
    BY <1>2, <1>6, <1>9, <2>1, SendsFlying
  <2>3. CreditOf(g, s) = IF s = Src[m] THEN wire ELSE 0
    BY <1>9 DEF CreditOf, IsCredit
  <2>4. QED
    BY <2>2, <2>3
<1>15. ASSUME NEW q \in DOMAIN net', q \notin DOMAIN net PROVE PacketInv(q)'
  <2>1. /\ q.kind = "GRANT" /\ q.msg = m /\ q.data = data /\ q.wire = W(data)
    BY <1>9, <1>13, <1>15 DEF wire
  <2>2. m \in DOMAIN rxQp'
    BY <1>6 DEF Store, Put
  <2>3. q.data \in Nat /\ q.data > 0 /\ q.wire = W(q.data) /\ q.msg \in DOMAIN rxQp'
    BY <1>5, <1>7, <2>1, <2>2
  <2>4. QED
    BY <2>1, <2>3 DEF PacketInv, CreditPacket
<1>16. /\ Paid(m) = W(Size[m]) - Reserve(m, rxQp[m].pending, net)
       /\ Got(m) = rxQp[m].chunks /\ Lent(m) = 0
  BY <1>1, <1>3 DEF Paid, Got, Lent, Known
<1>17. /\ Flying(Src[m])' = Flying(Src[m]) + wire /\ Flying(Src[m]) \in Nat
       /\ Spent(m) \in Nat /\ Unpaid(m) \in Nat /\ OutWire(Src[m]) \in Nat
       /\ globalOut \in Nat /\ W(Size[m]) \in Nat
       /\ Reserve(m, rxQp[m].pending, net) \in Nat
  BY <1>1, <1>2, <1>14 DEF TermsOK
<1>18. Flying(Src[m])' <= Flying(Src[m])
         + (W(Size[m]) - Reserve(m, a.q.pending, net') - Spent(m) - Slack(m))
  <2>1. Slack(m) = W(Size[m]) - Reserve(m, rxQp[m].pending, net) - Spent(m)
    BY <1>16 DEF Slack
  <2>2. Reserve(m, a.q.pending, net') = Reserve(m, rxQp[m].pending, net) - wire
    <3>1. g \in Grants(m) /\ {g} \in SUBSET Sent /\ IsFiniteSet(InFlight(Src[m]))
      BY <1>1, <1>8, <1>9 DEF Grants, wire, CreditInv, HostInv
    <3>2. g.data % MTU = 0 \/ a.q.pending = 0
      BY <1>7, <1>9, <1>11
    <3>3. Reserve(m, a.q.pending, net') = Reserve(m, a.q.pending + g.data, net) - g.wire
      BY <1>1, <1>2, <1>6, <1>12, <3>1, <3>2, SendsReserve
    <3>4. a.q.pending + g.data = rxQp[m].pending
      BY <1>7, <1>8, <1>9, <1>11
    <3>5. QED
      BY <1>9, <3>3, <3>4
  <2>3. QED
    BY <1>8, <1>17, <2>1, <2>2
<1>19. /\ Flying(Src[m])' <= Flying(Src[m]) + (a.st.outWire - OutWire(Src[m]))
            - (SumFunctionOnSet([i \in Chunk(m) |-> Wire(m, i)], First(m) \ a.q.chunks)
               + Due(m))
       /\ Flying(Src[m])' <= Flying(Src[m]) + (a.out - globalOut)
            - (SumFunctionOnSet([i \in Chunk(m) |-> Wire(m, i)], First(m) \ a.q.chunks)
               + Due(m))
       /\ GlobalBucket > 0 => a.out <= GlobalBucket
  <2>1. SumFunctionOnSet([i \in Chunk(m) |-> Wire(m, i)], First(m) \ a.q.chunks) = Unpaid(m)
    BY <1>11, <1>16 DEF Unpaid
  <2>2. Due(m) = 0 - Unpaid(m)
    BY <1>16 DEF Due
  <2>3. GlobalBucket > 0 => a.out <= GlobalBucket
    BY <1>5, <1>10 DEF wire
  <2>4. QED
    BY <1>8, <1>10, <1>17, <2>1, <2>2, <2>3
<1>20. \A x \in Message \ {m} : GrantReq(x) \in DOMAIN net => GrantReq(x) \in DOMAIN net'
  BY <1>13
<1>21. \A q \in DOMAIN net' : q \in DOMAIN net \/ PacketInv(q)'
  BY <1>15
<1>22. /\ \A s \in Sender \ {Src[m]} : Flying(s)' <= Flying(s)
       /\ \A s \in Sender : IsFiniteSet(InFlight(s)')
  BY <1>2, <1>14 DEF TermsOK
<1>23. /\ a.q.done <=> m \in DOMAIN rxQp /\ rxQp[m].done
       /\ a.q.chunks \subseteq First(m) /\ (a.q.done => a.q.chunks = Chunk(m))
  BY <1>1, <1>3, <1>11
<1>24. \A x \in Message \ {m} : Quiet(x)
  <2>1. \A x \in Message \ {m} : g \notin Grants(x)
    BY <1>9 DEF Grants
  <2>2. QED
    BY <1>6, <1>9, <2>1, QuietNet DEF CreditInv
<1>25. QED
  BY <1>1, <1>3, <1>6, <1>10, <1>11, <1>12, <1>18, <1>19, <1>20, <1>21, <1>22, <1>23,
     <1>24, AccountKeeps

LEMMA CreditGrantTickInv ==
  ASSUME CreditInv, IInv', CreditGrantTick
  PROVE  CreditInv'
<1>1. UNCHANGED sendVars
  BY DEF CreditGrantTick
<1>2. CASE UNCHANGED <<senderStates, rxQp, globalOut, net>>
  BY <1>1, <1>2, CreditRests
<1>3. CASE \E m \in Grantable : IssueCreditGrant(m)
  BY <1>1, <1>3, IssueCreditGrantInv
<1>4. QED
  BY <1>2, <1>3 DEF CreditGrantTick

\* A resend timeout asks for chunks that are paid for.
LEMMA ResendTimeoutInv ==
  ASSUME CreditInv, IInv', NEW m \in Message, HandleCreditBouncerResendTimeout(m)
  PROVE  CreditInv'
<1> DEFINE ps == {Resend(m, r) : r \in MissingRanges(m)}
<1>1. PICK again \in BOOLEAN :
        /\ m \in DOMAIN rxQp /\ rxQp' = [rxQp EXCEPT ![m].timer = again]
        /\ senderStates' = Put(senderStates, Src[m], GetSenderState(m))
        /\ Sends(ps) /\ UNCHANGED <<sendVars, globalOut>>
  BY DEF HandleCreditBouncerResendTimeout
<1> DEFINE a == [st |-> GetSenderState(m), q |-> [rxQp[m] EXCEPT !.timer = again],
                 out |-> globalOut]
<1>2. /\ RecvOK /\ NetOK /\ TermsOK /\ ReceiverInv(m) /\ Src[m] \in Sender
      /\ OutData(Src[m]) \in Nat
  BY Terms, MessageAssumption DEF CreditInv, HostInv, IInv
<1>3. /\ rxQp[m] \in RxQpType /\ rxQp[m].accounted /\ rxQp[m].pending \in Nat
      /\ announced[m] /\ rxQp[m].chunks \subseteq First(m)
      /\ rxQp[m].done => rxQp[m].chunks = Chunk(m)
  BY <1>1, <1>2 DEF ReceiverInv, RecvOK, RxQpOK
<1>4. /\ a.st \in SoundState /\ a.st.outWire = OutWire(Src[m])
      /\ a.st.outData = OutData(Src[m]) /\ a.st.msgs = Listed(Src[m]) \cup {m}
  <2>1. a.st = Open(m).st
    BY <1>1 DEF Open
  <2>2. a.st \in SoundState
    BY <1>2, OpenSound
  <2> HIDE DEF a
  <2>3. QED
    BY <1>2, <2>1, <2>2, AccountOpens
<1>5. /\ a \in Account /\ a.q.accounted /\ a.q.pending = rxQp[m].pending
      /\ a.q.chunks = rxQp[m].chunks /\ a.q.done = rxQp[m].done
  <2>1. a.q \in RxQpType /\ a.out \in Nat
    BY <1>2, <1>3 DEF RecvOK, RxQpType
  <2>2. QED
    BY <1>3, <1>4, <2>1 DEF Account, RxQpType
<1>6. Store(a, m) /\ a.out = globalOut
  <2>1. Put(rxQp, m, a.q) = [rxQp EXCEPT ![m].timer = again]
    BY <1>1 DEF Put
  <2>2. QED
    BY <1>1, <2>1 DEF Store
<1> HIDE DEF a
<1>7. \A q \in ps : q \in Sent /\ q.kind = "RESEND" /\ q.msg = m
  <2>1. ASSUME NEW r \in MissingRanges(m) PROVE Resend(m, r) \in Sent
    <3>1. r \subseteq Nat
      BY DEF MissingRanges
    <3>2. QED
      BY <3>1 DEF Resend, Sent, Packet
  <2>2. QED
    BY <2>1 DEF Resend
<1> HIDE DEF ps
<1>8. DOMAIN net' = DOMAIN net \cup ps
  BY <1>1, <1>2, NetMembers
<1>9. ASSUME NEW s \in Sender PROVE IsFiniteSet(InFlight(s)') /\ Flying(s)' = Flying(s)
  <2>1. IsFiniteSet(InFlight(s)) /\ ps \in SUBSET Sent
    BY <1>7 DEF CreditInv, HostInv
  <2>2. \A q \in ps : ~IsCredit(q, s)
    BY <1>7 DEF IsCredit
  <2>3. QED
    BY <1>1, <1>2, <2>1, <2>2, SendsFlying
<1>10. \A q \in DOMAIN net' : q \in DOMAIN net \/ PacketInv(q)'
  <2>1. m \in DOMAIN rxQp'
    BY <1>1
  <2>2. QED
    BY <1>7, <1>8, <2>1 DEF PacketInv
<1>11. /\ Paid(m) = W(Size[m]) - Reserve(m, rxQp[m].pending, net)
       /\ Got(m) = rxQp[m].chunks /\ Lent(m) = 0
  BY <1>1, <1>3 DEF Paid, Got, Lent, Known
<1>12. /\ Flying(Src[m])' = Flying(Src[m]) /\ Flying(Src[m]) \in Nat /\ Slack(m) \in Int
       /\ Unpaid(m) \in Nat /\ OutWire(Src[m]) \in Nat /\ globalOut \in Nat
  BY <1>2, <1>9 DEF TermsOK
<1>13. /\ Flying(Src[m])' <= Flying(Src[m])
            + (W(Size[m]) - Reserve(m, a.q.pending, net') - Spent(m) - Slack(m))
       /\ \A x \in Message : Quiet(x)
  <2>1. ps \in SUBSET Sent /\ \A x \in Message : \A q \in ps : q \notin Grants(x)
    BY <1>7 DEF Grants
  <2>2. Reserve(m, a.q.pending, net') = Reserve(m, rxQp[m].pending, net)
    <3>1. IsFiniteSet(InFlight(Src[m])) /\ FramesFit
      BY <1>2 DEF CreditInv, HostInv, Ordinary
    <3>2. QED
      BY <1>1, <1>2, <1>5, <2>1, <3>1, SendsReserve
  <2>3. W(Size[m]) - Reserve(m, a.q.pending, net') - Spent(m) = Slack(m)
    BY <1>11, <2>2 DEF Slack
  <2>4. \A x \in Message : Quiet(x)
    BY <1>1, <2>1, QuietNet DEF CreditInv
  <2>5. QED
    BY <1>12, <2>3, <2>4
<1>14. /\ Flying(Src[m])' <= Flying(Src[m]) + (a.st.outWire - OutWire(Src[m]))
            - (SumFunctionOnSet([i \in Chunk(m) |-> Wire(m, i)], First(m) \ a.q.chunks)
               + Due(m))
       /\ Flying(Src[m])' <= Flying(Src[m]) + (a.out - globalOut)
            - (SumFunctionOnSet([i \in Chunk(m) |-> Wire(m, i)], First(m) \ a.q.chunks)
               + Due(m))
       /\ a.out <= globalOut + Lent(m)
  <2>1. SumFunctionOnSet([i \in Chunk(m) |-> Wire(m, i)], First(m) \ a.q.chunks) = Unpaid(m)
    BY <1>5, <1>11 DEF Unpaid
  <2>2. Due(m) = 0 - Unpaid(m)
    BY <1>11 DEF Due
  <2>3. QED
    BY <1>4, <1>6, <1>11, <1>12, <2>1, <2>2
<1>15. \A x \in Message \ {m} : GrantReq(x) \in DOMAIN net => GrantReq(x) \in DOMAIN net'
  BY <1>8
<1>16. /\ \A s \in Sender \ {Src[m]} : Flying(s)' <= Flying(s)
       /\ \A s \in Sender : IsFiniteSet(InFlight(s)')
  BY <1>2, <1>9 DEF TermsOK
<1>17. /\ a.q.done <=> m \in DOMAIN rxQp /\ rxQp[m].done
       /\ a.q.chunks \subseteq First(m) /\ (a.q.done => a.q.chunks = Chunk(m))
       /\ a.q.pending \in Nat /\ a.st.outData \in Nat
  BY <1>1, <1>2, <1>3, <1>4, <1>5
<1>18. QED
  BY <1>1, <1>3, <1>4, <1>5, <1>6, <1>10, <1>13, <1>14, <1>15, <1>16, <1>17, AccountKeeps

\* A chunk brings back no more than it cost: what is outstanding covers the
\* chunks that are still to come.
LEMMA ChunkPays ==
  ASSUME FramesFit, NEW b \in Account, NEW m \in Message,
         NEW first \in SUBSET Chunk(m), NEW i \in first,
         b.q.accounted, b.q.chunks \subseteq first, b.st.outData \in Nat
  PROVE  LET c == ReceiveChunk(b, m, i)
             unpaid(S) == SumFunctionOnSet([j \in Chunk(m) |-> Wire(m, j)], S)
         IN /\ c \in Account /\ c.st.msgs = b.st.msgs /\ c.st.outData \in Nat
            /\ c.q.accounted /\ c.q.pending = b.q.pending /\ c.q.done = b.q.done
            /\ c.q.chunks = b.q.chunks \cup {i}
            /\ unpaid(first \ c.q.chunks) \in Nat
            /\ unpaid(first \ c.q.chunks) + b.st.outWire
                 <= unpaid(first \ b.q.chunks) + c.st.outWire
            /\ unpaid(first \ c.q.chunks) + b.out <= unpaid(first \ b.q.chunks) + c.out
            /\ c.out <= b.out
<1> DEFINE c == ReceiveChunk(b, m, i)
           wires == [j \in Chunk(m) |-> Wire(m, j)]
           used == Least(Payload(m, i), b.st.outData)
           L == first \ b.q.chunks
           R == first \ c.q.chunks
<1>1. /\ c \in Account /\ c.st.msgs = b.st.msgs
      /\ i \in b.q.chunks => c = b
      /\ i \notin b.q.chunks =>
           /\ c.q = [b.q EXCEPT !.chunks = @ \cup {i}]
           /\ c.st.outData = b.st.outData - used
           /\ c.st.outWire = Minus(b.st.outWire, W(used))
           /\ c.out = Minus(b.out, W(used))
  BY ChunkParts
<1>2. /\ b.st \in SenderStateType /\ b.q \in RxQpType
      /\ b.st.outWire \in Nat /\ b.st.outData \in Nat /\ b.out \in Nat
  BY AccountParts DEF SenderStateType
<1>3. IsFiniteSet(Chunk(m)) /\ \A j \in Chunk(m) : wires[j] \in Nat
  BY WholeMessage, PayloadNat
<1>4. L \subseteq Chunk(m) /\ R \subseteq Chunk(m)
  OBVIOUS
<1>5. wires[i] = Wire(m, i)
  OBVIOUS
<1> HIDE DEF c, wires, used, L, R
<1>6. ASSUME NEW S \in SUBSET Chunk(m) PROVE SumFunctionOnSet(wires, S) \in Nat
  <2>1. IsFiniteSet(S) /\ \A j \in S : wires[j] \in Nat
    BY <1>3, FS_Subset
  <2>2. QED
    BY <2>1, SumNat
<1>7. CASE i \in b.q.chunks
  <2>1. c = b /\ R = L /\ b.q.chunks \cup {i} = b.q.chunks
    BY <1>1, <1>7 DEF L, R
  <2>2. SumFunctionOnSet(wires, R) \in Nat
    BY <1>4, <1>6
  <2>3. QED
    BY <1>1, <1>2, <2>1, <2>2 DEF c, wires, L, R
<1>8. CASE i \notin b.q.chunks
  <2>1. /\ c.q.accounted /\ c.q.pending = b.q.pending /\ c.q.done = b.q.done
        /\ c.q.chunks = b.q.chunks \cup {i}
    BY <1>1, <1>2, <1>8 DEF RxQpType
  <2>2. i \in L /\ R = L \ {i}
    BY <1>8, <2>1 DEF L, R
  <2>3. SumFunctionOnSet(wires, L) = wires[i] + SumFunctionOnSet(wires, L \ {i})
    <3>1. IsFiniteSet(L) /\ \A j \in L : wires[j] \in Int
      BY <1>3, <1>4, FS_Subset
    <3>2. QED
      BY <2>2, <3>1, SumElement
  <2>4. SumFunctionOnSet(wires, L) \in Nat /\ SumFunctionOnSet(wires, R) \in Nat
    BY <1>4, <1>6
  <2>5. Payload(m, i) \in Nat /\ Payload(m, i) \in Nat /\ Wire(m, i) = W(Payload(m, i))
    BY PayloadNat DEF Wire, W
  <2>6. /\ used \in Nat /\ used \in Nat /\ used <= Payload(m, i)
        /\ used <= b.st.outData
    <3>1. used \in Nat
      BY <2>5, LeastMost DEF used
    <3>2. QED
      BY <1>2, <2>5, <3>1, LeastMost DEF used
  <2>7. W(used) <= Wire(m, i) /\ W(used) \in Nat /\ Wire(m, i) \in Nat
    BY <2>5, <2>6, WireMonotone, WireNat
  <2>8. b.st.outWire <= Minus(b.st.outWire, W(used)) + Wire(m, i)
        /\ Minus(b.st.outWire, W(used)) \in Nat
        /\ b.out <= Minus(b.out, W(used)) + Wire(m, i)
        /\ Minus(b.out, W(used)) \in Nat /\ Minus(b.out, W(used)) <= b.out
    BY <1>2, <2>7 DEF Minus
  <2>9. c.st.outData \in Nat
    <3>1. b.st.outData >= used
      BY <1>2, <2>6
    <3>2. b.st.outData - used \in Nat
      BY <1>2, <2>6, <3>1
    <3>3. QED
      BY <1>1, <1>8, <3>2
  <2>10. /\ SumFunctionOnSet(wires, R) + b.st.outWire
              <= SumFunctionOnSet(wires, L) + c.st.outWire
         /\ SumFunctionOnSet(wires, R) + b.out <= SumFunctionOnSet(wires, L) + c.out
         /\ c.out <= b.out
    <3>1. /\ c.st.outWire = Minus(b.st.outWire, W(used))
          /\ c.out = Minus(b.out, W(used))
      BY <1>1, <1>8
    <3>2. SumFunctionOnSet(wires, L) = Wire(m, i) + SumFunctionOnSet(wires, R)
      BY <1>5, <2>2, <2>3
    <3>3. QED
      BY <1>2, <2>4, <2>7, <2>8, <3>1, <3>2
  <2>11. QED
    BY <1>1, <2>1, <2>4, <2>9, <2>10 DEF c, wires, L, R
<1>9. QED
  BY <1>7, <1>8

\* The account after a chunk came, with or without the announcement in it.
DataAccount(p, value) ==
  LET m == p.msg
      announce(a) == IF p.own = NoCredit THEN a ELSE ApplyNewAnnouncement(a, m, p.own)
  IN ReceiveChunk(announce(UpdateSenderStateAimd(Enable(Open(m)), value)), m, p.chunk)

LEMMA DataAnnounces ==
  ASSUME CreditInv, NEW p \in DOMAIN net, p.kind = "REQUEST", NEW value \in Caps,
         EarlyData \/ ~InNet(GrantReq(p.msg))
  PROVE  /\ p.own \in Credited
         /\ p.msg \in DOMAIN rxQp \/ p.own = self[p.msg]
         /\ DataAccount(p, value) =
              ReceiveChunk(ApplyNewAnnouncement(UpdateSenderStateAimd(
                Enable(Open(p.msg)), value), p.msg, p.own), p.msg, p.chunk)
<1> DEFINE m == p.msg
           a == UpdateSenderStateAimd(Enable(Open(m)), value)
<1>1. p \in Sent /\ m \in Message /\ p.own \in Credited /\ p.chunk \in Nat
  BY DEF CreditInv, IInv, NetOK, Sent, Packet, Credited
<1>2. DataPacket(p)
  BY DEF CreditInv, NetInv, PacketInv
<1>3. CASE p.own # NoCredit
  BY <1>1, <1>2, <1>3 DEF DataAccount, DataPacket
<1>4. CASE p.own = NoCredit /\ m \in DOMAIN rxQp
  <2>1. a.q.accounted
    <3>1. Open(m) \in Account /\ Enable(Open(m)) \in Account
      BY <1>1, OpenSound DEF CreditInv, IInv
    <3>2. a.q = Open(m).q
      BY <3>1, SameAccount
    <3>3. Open(m).q = rxQp[m]
      BY <1>4 DEF Open
    <3>4. ReceiverInv(m)
      BY <1>1 DEF CreditInv, HostInv
    <3> HIDE DEF a
    <3>5. QED
      BY <1>4, <3>2, <3>3, <3>4 DEF ReceiverInv
  <2> HIDE DEF a
  <2>2. ApplyNewAnnouncement(a, m, p.own) = a
    BY <2>1 DEF ApplyNewAnnouncement
  <2>3. QED
    BY <1>1, <1>4, <2>2 DEF DataAccount, a
<1>5. CASE p.own = NoCredit /\ m \notin DOMAIN rxQp
  <2>1. self[m] = NoCredit /\ next[m] > 0 /\ announced[m]
    <3>1. next[m] \in Nat
      BY <1>1 DEF CreditInv, IInv, SendOK
    <3>2. QED
      BY <1>1, <1>2, <1>5, <3>1 DEF DataPacket
  <2>2. SenderInv(m)
    BY <1>1 DEF CreditInv, HostInv
  <2>3. class[m] \in {"unknown", "scheduled", "unscheduled", "unsolicited"}
    BY <1>1 DEF CreditInv, IInv, SendOK
  <2>4. class[m] = "scheduled"
    BY <2>1, <2>2, <2>3 DEF SenderInv
  <2>5. GrantReq(m) \in DOMAIN net
    BY <1>5, <2>1, <2>2, <2>4 DEF SenderInv
  <2>6. ~EarlyData
    BY DEF CreditInv, HostInv, Ordinary, OrderedRequests
  <2>7. QED
    BY <2>5, <2>6 DEF InNet, BagIn, BagToSet
<1>6. QED
  BY <1>3, <1>4, <1>5

\* What the account is after a chunk, and what it still covers.
LEMMA DataParts ==
  ASSUME CreditInv, NEW p \in DOMAIN net, p.kind = "REQUEST", NEW value \in Caps,
         EarlyData \/ ~InNet(GrantReq(p.msg))
  PROVE  LET m == p.msg
             a == DataAccount(p, value)
             unpaid == SumFunctionOnSet([j \in Chunk(m) |-> Wire(m, j)], First(m) \ a.q.chunks)
         IN /\ a \in Account /\ a.st.msgs = Listed(Src[m]) \cup {m}
            /\ a.q.accounted /\ a.q.pending \in Nat /\ a.st.outData \in Nat
            /\ a.q.chunks \subseteq First(m)
            /\ a.q.done <=> m \in DOMAIN rxQp /\ rxQp[m].done
            /\ a.q.done => a.q.chunks = Chunk(m)
            /\ W(Size[m]) - Reserve(m, a.q.pending, net) = Paid(m)
            /\ unpaid \in Nat
            /\ unpaid + OutWire(Src[m]) + Lent(m) <= Unpaid(m) + a.st.outWire
            /\ unpaid + globalOut + Lent(m) <= Unpaid(m) + a.out
            /\ a.out <= globalOut + Lent(m)
            /\ announced[m]
<1> DEFINE m == p.msg
           b == ApplyNewAnnouncement(UpdateSenderStateAimd(
                  Enable(Open(m)), value), m, p.own)
           a == DataAccount(p, value)
           i == p.chunk
           unpaid(S) == SumFunctionOnSet([j \in Chunk(m) |-> Wire(m, j)], S)
<1>1. p \in Sent /\ m \in Message /\ i \in Chunk(m)
  BY DEF CreditInv, IInv, NetOK, Sent, Packet
<1>2. DataPacket(p) /\ ReceiverInv(m) /\ FramesFit /\ TermsOK
      /\ Src[m] \in Sender
  BY <1>1, Terms, MessageAssumption DEF CreditInv, NetInv, PacketInv, HostInv, Ordinary
<1>3. i \in First(m) /\ First(m) \in SUBSET Chunk(m)
  BY <1>1, <1>2 DEF First, DataPacket
<1>4. /\ p.own \in Credited /\ (m \in DOMAIN rxQp \/ p.own = self[m])
      /\ a = ReceiveChunk(b, m, i)
  BY DataAnnounces
<1> HIDE DEF a, i, b
<1>5. /\ b \in Account /\ b.st.msgs = Listed(Src[m]) \cup {m}
      /\ b.q.accounted /\ b.q.pending \in Nat /\ b.q.chunks = Got(m)
      /\ b.q.done <=> m \in DOMAIN rxQp /\ rxQp[m].done
      /\ b.st.outData \in Nat
      /\ W(Size[m]) - Reserve(m, b.q.pending, net) = Paid(m)
      /\ b.st.outWire = OutWire(Src[m]) + Lent(m)
      /\ b.out = globalOut + Lent(m)
  BY <1>1, <1>4, Announces DEF b
<1>6. b.q.chunks \subseteq First(m) /\ (b.q.done => b.q.chunks = Chunk(m))
  BY <1>2, <1>5 DEF ReceiverInv, Got
<1>7. /\ a \in Account /\ a.st.msgs = b.st.msgs /\ a.st.outData \in Nat
      /\ a.q.accounted /\ a.q.pending = b.q.pending /\ a.q.done = b.q.done
      /\ a.q.chunks = b.q.chunks \cup {i}
      /\ unpaid(First(m) \ a.q.chunks) \in Nat
      /\ unpaid(First(m) \ a.q.chunks) + b.st.outWire
           <= unpaid(First(m) \ b.q.chunks) + a.st.outWire
      /\ unpaid(First(m) \ a.q.chunks) + b.out <= unpaid(First(m) \ b.q.chunks) + a.out
      /\ a.out <= b.out
  <2> HIDE DEF m
  <2>1. m \in Message
    BY <1>1
  <2>2. b.q.chunks \subseteq First(m) /\ b.q.accounted /\ b.st.outData \in Nat
    BY <1>5, <1>6
  <2> HIDE DEF unpaid
  <2>3. LET c == ReceiveChunk(b, m, i)
        IN /\ c \in Account /\ c.st.msgs = b.st.msgs /\ c.st.outData \in Nat
           /\ c.q.accounted /\ c.q.pending = b.q.pending /\ c.q.done = b.q.done
           /\ c.q.chunks = b.q.chunks \cup {i}
           /\ unpaid(First(m) \ c.q.chunks) \in Nat
           /\ unpaid(First(m) \ c.q.chunks) + b.st.outWire
                <= unpaid(First(m) \ b.q.chunks) + c.st.outWire
           /\ unpaid(First(m) \ c.q.chunks) + b.out
                <= unpaid(First(m) \ b.q.chunks) + c.out
           /\ c.out <= b.out
    BY <1>2, <1>3, <1>5, <2>1, <2>2, ChunkPays DEF unpaid
  <2>4. QED
    BY <1>4, <2>3
<1>8. unpaid(First(m) \ b.q.chunks) = Unpaid(m)
  BY <1>5 DEF Unpaid
<1>9. i \in Chunk(m) /\ announced[m]
  BY <1>2, <1>3 DEF DataPacket
<1>10. a.q.chunks \subseteq First(m) /\ (a.q.done => a.q.chunks = Chunk(m))
  BY <1>3, <1>6, <1>7, <1>9
<1>11. /\ a.st.outWire \in Nat /\ OutWire(Src[m]) \in Nat
       /\ Lent(m) \in Nat /\ Unpaid(m) \in Nat /\ globalOut \in Nat /\ a.out \in Nat
  BY <1>1, <1>2, <1>7, AccountParts DEF SenderStateType, TermsOK
<1> DEFINE left == unpaid(First(m) \ a.q.chunks)
<1>12. /\ left + OutWire(Src[m]) + Lent(m) <= Unpaid(m) + a.st.outWire
       /\ left + globalOut + Lent(m) <= Unpaid(m) + a.out
       /\ a.out <= globalOut + Lent(m)
  <2>1. /\ left \in Nat /\ left + b.st.outWire <= Unpaid(m) + a.st.outWire
        /\ left + b.out <= Unpaid(m) + a.out /\ a.out <= b.out
    BY <1>7, <1>8
  <2> HIDE DEF left
  <2>2. QED
    BY <1>5, <1>11, <2>1
<1>13. left \in Nat
  BY <1>7
<1>14. QED
  BY <1>5, <1>7, <1>9, <1>10, <1>12, <1>13 DEF a

\* A chunk that does not complete its message.
LEMMA WaitingInv ==
  ASSUME CreditInv, IInv', NEW p \in DOMAIN net, p.kind = "REQUEST", NEW value \in Caps,
         EarlyData \/ ~InNet(GrantReq(p.msg)), Replaces(p, {}), UNCHANGED sendVars,
         Store([DataAccount(p, value) EXCEPT !.q.timer =
                  DataAccount(p, value).q.accounted /\ ~DataAccount(p, value).q.done], p.msg)
  PROVE  CreditInv'
<1> DEFINE m == p.msg
           c == DataAccount(p, value)
           a == [c EXCEPT !.q.timer = c.q.accounted /\ ~c.q.done]
<1>1. /\ c \in Account /\ c.st.msgs = Listed(Src[m]) \cup {m}
      /\ c.q.accounted /\ c.q.pending \in Nat /\ c.st.outData \in Nat
      /\ c.q.chunks \subseteq First(m)
      /\ c.q.done <=> m \in DOMAIN rxQp /\ rxQp[m].done
      /\ c.q.done => c.q.chunks = Chunk(m)
      /\ W(Size[m]) - Reserve(m, c.q.pending, net) = Paid(m)
      /\ SumFunctionOnSet([j \in Chunk(m) |-> Wire(m, j)], First(m) \ c.q.chunks) \in Nat
      /\ SumFunctionOnSet([j \in Chunk(m) |-> Wire(m, j)], First(m) \ c.q.chunks)
           + OutWire(Src[m]) + Lent(m) <= Unpaid(m) + c.st.outWire
      /\ SumFunctionOnSet([j \in Chunk(m) |-> Wire(m, j)], First(m) \ c.q.chunks)
           + globalOut + Lent(m) <= Unpaid(m) + c.out
      /\ c.out <= globalOut + Lent(m)
      /\ announced[m]
  BY DataParts
<1>2. Store(a, m)
  OBVIOUS
<1> HIDE DEF c
<1>3. /\ a \in Account /\ a.st = c.st /\ a.out = c.out
      /\ a.q.accounted /\ a.q.pending = c.q.pending /\ a.q.chunks = c.q.chunks
      /\ a.q.done = c.q.done
  <2>1. c \in [st : SoundState, q : RxQpType, out : Nat]
    BY <1>1 DEF Account
  <2>2. a \in [st : SoundState, q : RxQpType, out : Nat]
    BY <2>1 DEF RxQpType
  <2>3. a.st = c.st /\ a.out = c.out /\ a.q = [c.q EXCEPT !.timer = c.q.accounted /\ ~c.q.done]
    BY <2>1
  <2>4. c.q \in RxQpType
    BY <2>1
  <2> HIDE DEF a
  <2>5. QED
    BY <1>1, <2>2, <2>3, <2>4 DEF Account, RxQpType
<1> HIDE DEF a
<1>4. /\ m \in Message /\ Src[m] \in Sender /\ NetOK /\ TermsOK
  BY Terms, MessageAssumption DEF CreditInv, IInv, NetOK, Sent, Packet
<1> HIDE DEF m
<1>5. DOMAIN net' \subseteq DOMAIN net /\ DOMAIN net \ {p} \subseteq DOMAIN net'
  <2>1. /\ DOMAIN net' \subseteq DOMAIN net \cup {}
        /\ (DOMAIN net \ {p}) \cup {} \subseteq DOMAIN net'
    BY <1>4, NetMembers
  <2>2. QED
    BY <2>1
<1>6. \A x \in Message \ {m} : GrantReq(x) \in DOMAIN net => GrantReq(x) \in DOMAIN net'
  BY <1>5 DEF GrantReq
<1>7. ASSUME NEW s \in Sender PROVE IsFiniteSet(InFlight(s)') /\ Flying(s)' = Flying(s)
  <2>1. IsFiniteSet(InFlight(s)) /\ {} \in SUBSET Sent /\ \A q \in {} : ~IsCredit(q, s)
    BY DEF CreditInv, HostInv
  <2>2. IsFiniteSet(InFlight(s)') /\ Flying(s)' = Flying(s) - CreditOf(p, s)
    BY <1>4, <2>1, ReplacesFlying
  <2>3. CreditOf(p, s) = 0 /\ Flying(s) \in Nat
    BY <1>4 DEF CreditOf, IsCredit, TermsOK
  <2>4. QED
    BY <2>2, <2>3
<1>8. /\ Flying(Src[m])' = Flying(Src[m]) /\ Flying(Src[m]) \in Nat /\ Slack(m) \in Int
      /\ Unpaid(m) \in Nat /\ Lent(m) \in Nat /\ OutWire(Src[m]) \in Nat
      /\ a.st.outWire \in Nat /\ globalOut \in Nat /\ a.out \in Nat
      /\ W(Size[m]) \in Nat /\ Spent(m) \in Nat
  BY <1>3, <1>4, <1>7, AccountParts DEF TermsOK, SenderStateType
<1>9. /\ Flying(Src[m])' <= Flying(Src[m])
           + (W(Size[m]) - Reserve(m, a.q.pending, net') - Spent(m) - Slack(m))
      /\ \A x \in Message : Quiet(x)
  <2>1. /\ \A x \in Message : Quiet(x)
        /\ Reserve(m, a.q.pending, net) \in Nat /\ Reserve(m, a.q.pending, net') \in Nat
    BY <1>1, <1>3, <1>4, QuietTaken
  <2>2. W(Size[m]) - Reserve(m, a.q.pending, net) - Spent(m) = Slack(m)
    BY <1>1, <1>3 DEF Slack
  <2>3. Reserve(m, a.q.pending, net') <= Reserve(m, a.q.pending, net)
    BY <1>1, <1>3, <1>4, <2>1 DEF Quiet
  <2>4. QED
    BY <1>8, <2>1, <2>2, <2>3
<1>10. /\ Flying(Src[m])' <= Flying(Src[m]) + (a.st.outWire - OutWire(Src[m]))
            - (SumFunctionOnSet([i \in Chunk(m) |-> Wire(m, i)], First(m) \ a.q.chunks)
               + Due(m))
       /\ Flying(Src[m])' <= Flying(Src[m]) + (a.out - globalOut)
            - (SumFunctionOnSet([i \in Chunk(m) |-> Wire(m, i)], First(m) \ a.q.chunks)
               + Due(m))
  <2> DEFINE left == SumFunctionOnSet([i \in Chunk(m) |-> Wire(m, i)], First(m) \ a.q.chunks)
  <2>1. /\ left \in Nat /\ left + OutWire(Src[m]) + Lent(m) <= Unpaid(m) + a.st.outWire
        /\ left + globalOut + Lent(m) <= Unpaid(m) + a.out
    BY <1>1, <1>3
  <2> HIDE DEF left
  <2>2. Due(m) = Lent(m) - Unpaid(m)
    BY DEF Due
  <2>3. /\ Flying(Src[m])' <= Flying(Src[m]) + (a.st.outWire - OutWire(Src[m])) - (left + Due(m))
        /\ Flying(Src[m])' <= Flying(Src[m]) + (a.out - globalOut) - (left + Due(m))
    BY <1>8, <2>1, <2>2
  <2>4. QED
    BY <2>3 DEF left
<1>11. \A q \in DOMAIN net' : q \in DOMAIN net \/ PacketInv(q)'
  BY <1>5
<1>12. /\ \A s \in Sender \ {Src[m]} : Flying(s)' <= Flying(s)
       /\ \A s \in Sender : IsFiniteSet(InFlight(s)')
  BY <1>4, <1>7 DEF TermsOK
<1>13. /\ a.q.accounted /\ a.q.pending \in Nat /\ a.q.chunks \subseteq First(m)
       /\ a.st.outData \in Nat /\ a.st.msgs = Listed(Src[m]) \cup {m}
       /\ a.q.done <=> m \in DOMAIN rxQp /\ rxQp[m].done
       /\ a.q.done => a.q.chunks = Chunk(m)
       /\ announced[m] /\ a.out <= globalOut + Lent(m)
  BY <1>1, <1>3
<1>14. QED
  BY <1>2, <1>3, <1>4, <1>6, <1>9, <1>10, <1>11, <1>12, <1>13, AccountKeeps

\* What the sender keeps of its state when a message is done.
LEMMA SenderForgets ==
  ASSUME SendOK, PeerInv, NEW m \in Message, CompleteCreditBouncerSenderQp(m)
  PROVE  /\ PeerInv' /\ \A s \in Sender : Held(s)' <= Held(s)
         /\ \A x \in Message \ {m} :
              Src[x] \in DOMAIN receiverStates /\ x \in receiverStates[Src[x]].msgs
                => Src[x] \in DOMAIN receiverStates' /\ x \in receiverStates'[Src[x]].msgs
<1> DEFINE s == Src[m]
<1>1. \A y \in DOMAIN receiverStates : receiverStates[y] \in ReceiverStateType
  BY DEF SendOK, ReceiverStatesOK
<1>2. CASE receiverStates' = receiverStates
  <2>1. \A y \in Sender : Held(y)' = Held(y) /\ Held(y) \in Nat
    BY <1>1, <1>2 DEF Held, ReceiverStateType
  <2>2. QED
    BY <1>2, <2>1 DEF PeerInv
<1>3. CASE receiverStates' # receiverStates
  <2>1. s \in DOMAIN receiverStates /\ receiverStates' = Forget(receiverStates, m)
    BY <1>3 DEF CompleteCreditBouncerSenderQp
  <2> DEFINE rest == receiverStates[s].msgs \ {m}
  <2>2. CASE rest = {}
    <3>1. /\ DOMAIN receiverStates' = DOMAIN receiverStates \ {s}
          /\ \A y \in DOMAIN receiverStates' : receiverStates'[y] = receiverStates[y]
      BY <2>1, <2>2 DEF Forget
    <3>2. \A y \in Sender : Held(y)' <= Held(y)
      BY <1>1, <3>1 DEF Held, ReceiverStateType
    <3>3. PeerInv'
      BY <3>1 DEF PeerInv
    <3>4. QED
      BY <2>2, <3>1, <3>2, <3>3
  <2>3. CASE rest # {}
    <3>1. /\ DOMAIN receiverStates' = DOMAIN receiverStates
          /\ receiverStates'[s] = [receiverStates[s] EXCEPT !.msgs = rest]
          /\ \A y \in DOMAIN receiverStates' \ {s} : receiverStates'[y] = receiverStates[y]
      BY <2>1, <2>3 DEF Forget
    <3>2. receiverStates[s] \in ReceiverStateType
      BY <1>1, <2>1
    <3> DEFINE v == receiverStates'[s]
    <3>3. /\ v.enabled = receiverStates[s].enabled /\ v.thresh = receiverStates[s].thresh
          /\ v.avail = receiverStates[s].avail /\ v.msgs = receiverStates[s].msgs \ {m}
      BY <3>1, <3>2 DEF ReceiverStateType
    <3> HIDE DEF rest, v
    <3>4. PeerInv'
      BY <2>1, <3>1, <3>3 DEF PeerInv, v
    <3>5. \A y \in Sender : Held(y)' <= Held(y)
      <4>1. \A y \in Sender : Held(y)' = Held(y) /\ Held(y) \in Nat
        BY <1>1, <2>1, <3>1, <3>3 DEF Held, ReceiverStateType, v
      <4>2. QED
        BY <4>1
    <3>6. QED
      BY <3>1, <3>3, <3>4, <3>5 DEF v
  <2>4. QED
    BY <2>2, <2>3
<1>4. QED
  BY <1>2, <1>3

\* What the receiver keeps of the state of the sender.
LEMMA ReceiverForgets ==
  ASSUME NEW m \in Message, NEW st \in SenderStateType, st.msgs = Listed(Src[m]) \cup {m},
         senderStates' = Forget(Put(senderStates, Src[m], st), m)
  PROVE  /\ \A s \in Sender \ {Src[m]} : /\ OutWire(s)' = OutWire(s)
                                         /\ OutData(s)' = OutData(s)
         /\ \A x \in Message \ {m} :
              Src[x] \in DOMAIN senderStates /\ x \in Listed(Src[x])
                => Src[x] \in DOMAIN senderStates' /\ x \in Listed(Src[x])'
         /\ Src[m] \in DOMAIN senderStates' =>
              OutWire(Src[m])' = st.outWire /\ OutData(Src[m])' = st.outData
         /\ Src[m] \notin DOMAIN senderStates' =>
              OutWire(Src[m])' = 0 /\ OutData(Src[m])' = 0
<1> DEFINE s == Src[m]
           states == Put(senderStates, s, st)
           rest == st.msgs \ {m}
<1>1. /\ DOMAIN states = DOMAIN senderStates \cup {s} /\ states[s] = st
      /\ \A y \in DOMAIN senderStates \ {s} : states[y] = senderStates[y]
  BY DEF Put
<1>2. senderStates' = Forget(states, m)
  OBVIOUS
<1> HIDE DEF states
<1>3. CASE rest = {}
  <2>1. /\ DOMAIN senderStates' = DOMAIN senderStates \ {s}
        /\ \A y \in DOMAIN senderStates' : senderStates'[y] = senderStates[y]
    <3>1. /\ DOMAIN senderStates' = DOMAIN states \ {s}
          /\ \A y \in DOMAIN senderStates' : senderStates'[y] = states[y]
      BY <1>1, <1>2, <1>3 DEF Forget
    <3>2. QED
      BY <1>1, <3>1
  <2>2. \A y \in Sender \ {s} : OutWire(y)' = OutWire(y) /\ OutData(y)' = OutData(y)
                                /\ Listed(y)' = Listed(y)
    BY <2>1 DEF OutWire, OutData, Listed
  <2>3. \A x \in Message \ {m} : x \notin Listed(s)
    BY <1>3
  <2>4. OutWire(s)' = 0 /\ OutData(s)' = 0
    BY <2>1 DEF OutWire, OutData
  <2>5. ASSUME NEW x \in Message \ {m}, Src[x] \in DOMAIN senderStates, x \in Listed(Src[x])
        PROVE  Src[x] \in DOMAIN senderStates' /\ x \in Listed(Src[x])'
    BY <2>1, <2>2, <2>3, <2>5, MessageAssumption
  <2>6. QED
    BY <2>1, <2>2, <2>4, <2>5
<1>4. CASE rest # {}
  <2>1. /\ DOMAIN senderStates' = DOMAIN senderStates \cup {s}
        /\ senderStates'[s] = [st EXCEPT !.msgs = rest]
        /\ \A y \in DOMAIN senderStates' \ {s} : senderStates'[y] = senderStates[y]
    <3>1. /\ DOMAIN senderStates' = DOMAIN states
          /\ senderStates'[s] = [states[s] EXCEPT !.msgs = states[s].msgs \ {m}]
          /\ \A y \in DOMAIN senderStates' \ {s} : senderStates'[y] = states[y]
      BY <1>1, <1>2, <1>4 DEF Forget
    <3>2. QED
      BY <1>1, <3>1
  <2>2. \A y \in Sender \ {s} : OutWire(y)' = OutWire(y) /\ OutData(y)' = OutData(y)
                                /\ Listed(y)' = Listed(y)
    BY <2>1 DEF OutWire, OutData, Listed
  <2>3. /\ senderStates'[s].outWire = st.outWire /\ senderStates'[s].outData = st.outData
        /\ senderStates'[s].msgs = rest
    BY <2>1 DEF SenderStateType
  <2>4. OutWire(s)' = st.outWire /\ OutData(s)' = st.outData /\ Listed(s)' = rest
    BY <2>1, <2>3 DEF OutWire, OutData, Listed
  <2>5. ASSUME NEW x \in Message \ {m}, Src[x] \in DOMAIN senderStates, x \in Listed(Src[x])
        PROVE  Src[x] \in DOMAIN senderStates' /\ x \in Listed(Src[x])'
    <3>1. CASE Src[x] = s
      <4>1. x \in rest
        BY <2>5, <3>1
      <4>2. QED
        BY <2>1, <2>4, <3>1, <4>1
    <3>2. CASE Src[x] # s
      BY <2>1, <2>2, <2>5, <3>2, MessageAssumption
    <3>3. QED
      BY <3>1, <3>2
  <2>6. QED
    BY <2>1, <2>2, <2>4, <2>5
<1>5. QED
  BY <1>3, <1>4

\* The last chunk of a message: both hosts forget it, and a sender whose last
\* message it was, whatever is still outstanding for it.
LEMMA CompletedInv ==
  ASSUME CreditInv, IInv', NEW p \in DOMAIN net, p.kind = "REQUEST", NEW value \in Caps,
         EarlyData \/ ~InNet(GrantReq(p.msg)), Replaces(p, {}),
         Complete(DataAccount(p, value).q, p.msg),
         rxQp' = Put(rxQp, p.msg,
                     [DataAccount(p, value) EXCEPT !.q.done = TRUE, !.q.timer = FALSE].q),
         senderStates' = Forget(Put(senderStates, Src[p.msg], DataAccount(p, value).st), p.msg),
         globalOut' = DataAccount(p, value).out,
         CompleteCreditBouncerSenderQp(p.msg), UNCHANGED <<class, self, announced>>
  PROVE  CreditInv'
<1> DEFINE m == p.msg
           a == DataAccount(p, value)
           q == [a EXCEPT !.q.done = TRUE, !.q.timer = FALSE].q
<1>1. /\ a \in Account /\ a.st.msgs = Listed(Src[m]) \cup {m}
      /\ a.q.accounted /\ a.q.pending \in Nat /\ a.st.outData \in Nat
      /\ a.q.chunks \subseteq First(m)
      /\ W(Size[m]) - Reserve(m, a.q.pending, net) = Paid(m)
      /\ SumFunctionOnSet([j \in Chunk(m) |-> Wire(m, j)], First(m) \ a.q.chunks) \in Nat
      /\ SumFunctionOnSet([j \in Chunk(m) |-> Wire(m, j)], First(m) \ a.q.chunks)
           + OutWire(Src[m]) + Lent(m) <= Unpaid(m) + a.st.outWire
      /\ SumFunctionOnSet([j \in Chunk(m) |-> Wire(m, j)], First(m) \ a.q.chunks)
           + globalOut + Lent(m) <= Unpaid(m) + a.out
      /\ a.out <= globalOut + Lent(m)
      /\ announced[m]
  BY DataParts
<1>2. /\ Complete(a.q, m) /\ rxQp' = Put(rxQp, m, q)
      /\ senderStates' = Forget(Put(senderStates, Src[m], a.st), m)
      /\ globalOut' = a.out
  OBVIOUS
<1> HIDE DEF a
<1>3. /\ q.accounted /\ q.pending = a.q.pending /\ q.chunks = a.q.chunks /\ q.done
  <2>1. a \in [st : SoundState, q : RxQpType, out : Nat]
    BY <1>1 DEF Account
  <2>2. q = [a.q EXCEPT !.done = TRUE, !.timer = FALSE]
    BY <2>1
  <2>3. a.q \in RxQpType
    BY <2>1
  <2> HIDE DEF q
  <2>4. QED
    BY <1>1, <2>2, <2>3 DEF RxQpType
<1> HIDE DEF q
<1>4. /\ m \in Message /\ Src[m] \in Sender /\ NetOK /\ TermsOK /\ SendOK /\ PeerInv
      /\ SenderInv(m) /\ a.st \in SenderStateType /\ a.st.outWire \in Nat
      /\ a.out \in Nat
  <2>1. p \in Sent
    BY DEF CreditInv, IInv, NetOK
  <2>2. m \in Message
    BY <2>1 DEF Sent, Packet
  <2>3. QED
    BY <1>1, <2>2, Terms, MessageAssumption, AccountParts
       DEF CreditInv, IInv, HostInv, SenderStateType
<1>5. CompleteCreditBouncerSenderQp(m) /\ UNCHANGED <<class, self, announced>>
      /\ Replaces(p, {})
  OBVIOUS
<1> HIDE DEF m
<1>6. /\ state' = [state EXCEPT ![m] = "done"] /\ next' = [next EXCEPT ![m] = Count(Size[m])]
  BY <1>5 DEF CompleteCreditBouncerSenderQp
<1>7. /\ PeerInv' /\ \A s \in Sender : Held(s)' <= Held(s)
      /\ \A x \in Message \ {m} :
           Src[x] \in DOMAIN receiverStates /\ x \in receiverStates[Src[x]].msgs
             => Src[x] \in DOMAIN receiverStates' /\ x \in receiverStates'[Src[x]].msgs
  BY <1>4, <1>5, SenderForgets
<1>8. /\ \A s \in Sender \ {Src[m]} : /\ OutWire(s)' = OutWire(s)
                                      /\ OutData(s)' = OutData(s)
      /\ \A x \in Message \ {m} :
           Src[x] \in DOMAIN senderStates /\ x \in Listed(Src[x])
             => Src[x] \in DOMAIN senderStates' /\ x \in Listed(Src[x])'
      /\ Src[m] \in DOMAIN senderStates' =>
           OutWire(Src[m])' = a.st.outWire /\ OutData(Src[m])' = a.st.outData
      /\ Src[m] \notin DOMAIN senderStates' =>
           OutWire(Src[m])' = 0 /\ OutData(Src[m])' = 0
  BY <1>1, <1>2, <1>4, ReceiverForgets
<1>9. /\ DOMAIN rxQp' = DOMAIN rxQp \cup {m} /\ rxQp'[m] = q
      /\ \A x \in DOMAIN rxQp \ {m} : rxQp'[x] = rxQp[x]
  BY <1>2 DEF Put
<1>10. a.q.chunks = Chunk(m) /\ First(m) = Chunk(m) /\ First(m)' = Chunk(m)
  <2>1. a.q.chunks = Chunk(m) /\ First(m) = Chunk(m)
    BY <1>1, <1>2 DEF Complete, First
  <2>2. next'[m] = Count(Size[m])
    BY <1>4, <1>6 DEF SendOK
  <2>3. Count(Size[m]) \in Nat /\ \A i \in Chunk(m) : i < Count(Size[m])
    BY <1>4, ChunksOf DEF Chunk
  <2>4. First(m)' = Chunk(m)
    BY <2>2, <2>3 DEF First
  <2>5. QED
    BY <2>1, <2>4
<1>11. \A x \in Message \ {m} : next'[x] = next[x] /\ state'[x] = state[x] /\ First(x)' = First(x)
  <2>1. \A x \in Message \ {m} : next'[x] = next[x] /\ state'[x] = state[x]
    BY <1>6 DEF SendOK
  <2>2. QED
    BY <2>1 DEF First
<1>12. DOMAIN net' \subseteq DOMAIN net /\ DOMAIN net \ {p} \subseteq DOMAIN net'
  <2>1. /\ DOMAIN net' \subseteq DOMAIN net \cup {}
        /\ (DOMAIN net \ {p}) \cup {} \subseteq DOMAIN net'
    BY <1>4, <1>5, NetMembers
  <2>2. QED
    BY <2>1
<1>13. ASSUME NEW s \in Sender PROVE IsFiniteSet(InFlight(s)') /\ Flying(s)' = Flying(s)
  <2>1. IsFiniteSet(InFlight(s)) /\ {} \in SUBSET Sent /\ \A x \in {} : ~IsCredit(x, s)
    BY DEF CreditInv, HostInv
  <2>2. IsFiniteSet(InFlight(s)') /\ Flying(s)' = Flying(s) - CreditOf(p, s)
    BY <1>4, <1>5, <2>1, ReplacesFlying
  <2>3. CreditOf(p, s) = 0 /\ Flying(s) \in Nat
    BY <1>4 DEF CreditOf, IsCredit, TermsOK
  <2>4. QED
    BY <2>2, <2>3
<1>14. ASSUME NEW x \in Message PROVE SenderInv(x)' /\ ReceiverInv(x)'
  <2>1. SenderInv(x) /\ ReceiverInv(x)
    BY DEF CreditInv, HostInv
  <2>2. Portion(x, self'[x])
    BY <1>5, <2>1 DEF SenderInv
  <2>3. CASE x = m
    <3>1. state'[m] = "done" /\ m \in DOMAIN rxQp' /\ rxQp'[m].done
      BY <1>3, <1>4, <1>6, <1>9 DEF SendOK
    <3>2. class[m] # "unknown"
      BY <1>1, <1>4 DEF SenderInv
    <3>3. SenderInv(m)'
      BY <1>1, <1>4, <1>5, <2>2, <2>3, <3>1, <3>2 DEF SenderInv, Portion
    <3>4. ReceiverInv(m)'
      BY <1>1, <1>3, <1>5, <1>9, <1>10, <3>1 DEF ReceiverInv
    <3>5. QED
      BY <2>3, <3>3, <3>4
  <2>4. CASE x # m
    <3>1. GrantReq(x) \in DOMAIN net => GrantReq(x) \in DOMAIN net'
      BY <1>12 DEF GrantReq
    <3>2. /\ x \in DOMAIN rxQp' <=> x \in DOMAIN rxQp
          /\ x \in DOMAIN rxQp => rxQp'[x] = rxQp[x]
          /\ next'[x] = next[x] /\ state'[x] = state[x] /\ First(x)' = First(x)
      BY <1>9, <1>11, <2>4
    <3>3. SenderInv(x)'
      BY <1>5, <1>7, <2>1, <2>2, <2>4, <3>1, <3>2 DEF SenderInv, Portion
    <3>4. ReceiverInv(x)'
      BY <1>5, <1>8, <2>1, <2>4, <3>2 DEF ReceiverInv
    <3>5. QED
      BY <3>3, <3>4
  <2>5. QED
    BY <2>3, <2>4
<1>15. HostInv'
  <2>1. 0 \in Nat
    BY FrameAssumption
  <2>2. \A s \in Sender : OutData(s)' \in Nat
    BY <1>1, <1>8, <2>1 DEF CreditInv, HostInv
  <2>3. QED
    BY <1>7, <1>13, <1>14, <2>2 DEF CreditInv, HostInv
<1>16. NetInv'
  <2>1. ASSUME NEW r \in DOMAIN net PROVE PacketInv(r)'
    <3>1. PacketInv(r) /\ r \in Sent
      BY DEF CreditInv, NetInv, IInv, NetOK
    <3>2. r.kind = "REQUEST" => r.chunk < next'[r.msg]
      <4>1. ASSUME r.kind = "REQUEST" PROVE r.chunk < next'[r.msg]
        <5>1. r.msg \in Message /\ r.chunk \in Chunk(r.msg) /\ r.chunk < next[r.msg]
          BY <3>1, <4>1 DEF Sent, Packet, PacketInv, DataPacket
        <5>2. next'[m] = Count(Size[m]) /\ \A i \in Chunk(m) : i < Count(Size[m])
          BY <1>4, <1>6, ChunksOf DEF SendOK, Chunk
        <5>3. QED
          BY <1>11, <5>1, <5>2
      <4>2. QED
        BY <4>1
    <3>3. QED
      BY <1>5, <1>9, <3>1, <3>2 DEF PacketInv, CreditPacket, DataPacket
  <2>2. QED
    BY <1>12, <2>1 DEF NetInv
<1>17. TermsOK' /\ SettledOK'
  BY <1>15, TermsNext, SettledNext
<1>18. \A x \in Message \ {m} : /\ Slack(x) <= Slack(x)' /\ Due(x)' = Due(x)
                               /\ Brought(x)' = Brought(x)
  <2>1. \A x \in Message : Quiet(x)
    BY <1>1, <1>4, <1>5, QuietTaken
  <2>2. QED
    BY <1>4, <1>5, <1>9, <1>11, <1>17, <2>1, Untouched
<1>19. Slack(m) <= Slack(m)' /\ Slack(m) \in Int /\ Slack(m)' \in Int
  <2>1. Spent(m)' = Spent(m) /\ Spent(m) \in Nat
    BY <1>4, <1>10 DEF Spent, TermsOK
  <2>2. Paid(m)' = W(Size[m]) - Reserve(m, a.q.pending, net')
    BY <1>3, <1>9 DEF Paid
  <2>3. /\ Reserve(m, a.q.pending, net) \in Nat /\ Reserve(m, a.q.pending, net') \in Nat
        /\ Quiet(m)
    BY <1>1, <1>4, <1>5, QuietTaken
  <2>4. Reserve(m, a.q.pending, net') <= Reserve(m, a.q.pending, net)
    BY <1>1, <2>3 DEF Quiet
  <2>5. W(Size[m]) \in Nat /\ Slack(m) \in Int /\ Slack(m)' \in Int
    BY <1>4, <1>17 DEF TermsOK
  <2>6. Paid(m) <= Paid(m)' /\ Paid(m) \in Int /\ Paid(m)' \in Int
    BY <1>1, <2>2, <2>3, <2>4, <2>5
  <2>7. Slack(m) = Paid(m) - Spent(m) /\ Slack(m)' = Paid(m)' - Spent(m)'
    BY DEF Slack
  <2>8. QED
    BY <2>1, <2>5, <2>6, <2>7
<1>20. /\ Due(m)' = 0 /\ OutWire(Src[m]) <= a.st.outWire - Due(m) /\ Due(m) \in Int
       /\ globalOut <= a.out - Due(m) /\ a.out <= globalOut + Lent(m)
       /\ globalOut \in Nat
  <2>1. m \in Message /\ m \in DOMAIN rxQp' /\ rxQp'[m].chunks = Chunk(m)
    BY <1>3, <1>4, <1>9, <1>10
  <2>2. Due(m)' = 0
    BY <1>17, <2>1 DEF SettledOK
  <2>3. First(m) \ a.q.chunks = {}
    BY <1>10
  <2>4. SumFunctionOnSet([j \in Chunk(m) |-> Wire(m, j)], First(m) \ a.q.chunks) = 0
    BY <2>3, SumEmpty
  <2>5. Due(m) = Lent(m) - Unpaid(m)
    BY DEF Due
  <2>6. /\ 0 + OutWire(Src[m]) + Lent(m) <= Unpaid(m) + a.st.outWire
        /\ 0 + globalOut + Lent(m) <= Unpaid(m) + a.out
    BY <1>1, <2>4
  <2>7. /\ OutWire(Src[m]) \in Nat /\ Lent(m) \in Nat /\ Unpaid(m) \in Nat
        /\ globalOut \in Nat
    BY <1>4 DEF TermsOK
  <2>8. QED
    BY <1>1, <1>4, <2>2, <2>5, <2>6, <2>7
<1>21. ASSUME NEW s \in Sender PROVE Ledger(s)' /\ Counted(s)'
  <2>1. /\ Held(s)' \in Nat /\ Held(s) \in Nat /\ Flying(s) \in Nat /\ Flying(s)' = Flying(s)
        /\ OutWire(s) \in Nat /\ OutWire(s)' \in Nat /\ Held(s)' <= Held(s)
    BY <1>4, <1>7, <1>13, <1>17 DEF TermsOK
  <2>2. Usable(s)' <= Usable(s) /\ Usable(s) \in Nat /\ Usable(s)' \in Nat
    BY <2>1 DEF Usable
  <2>3. Ledger(s)'
    <3>1. Usable(s)' <= Usable(s) + (IF s = Src[m] THEN Slack(m)' - Slack(m) ELSE 0)
      BY <1>19, <2>2
    <3>2. \A x \in Message \ {m} : Slack(x) <= Slack(x)'
      BY <1>18
    <3>3. QED
      BY <1>4, <1>17, <3>1, <3>2, LedgerKeeps DEF CreditInv
  <2>4. CASE s # Src[m] \/ Src[m] \in DOMAIN senderStates'
    <3>1. Usable(s)' <= Usable(s) + (IF s = Src[m] THEN Due(m)' - Due(m) ELSE 0)
                        + OutWire(s)' - OutWire(s)
      <4>1. CASE s # Src[m]
        <5>1. OutWire(s)' = OutWire(s)
          BY <1>8, <4>1
        <5>2. QED
          BY <2>1, <2>2, <4>1, <5>1
      <4>2. CASE s = Src[m]
        <5>1. OutWire(s)' = a.st.outWire
          BY <1>8, <2>4, <4>2
        <5>2. OutWire(s) <= OutWire(s)' - Due(m)
          BY <1>20, <4>2, <5>1
        <5>3. QED
          BY <1>20, <2>1, <2>2, <4>2, <5>2
      <4>3. QED
        BY <4>1, <4>2
    <3>2. TermsOK /\ Counted(s) /\ TermsOK' /\ m \in Message
      BY <1>4, <1>17 DEF CreditInv
    <3>3. \A x \in Message \ {m} : Due(x)' = Due(x)
      BY <1>18
    <3>4. Counted(s)'
      BY <3>1, <3>2, <3>3, CountedKeeps
    <3>5. QED
      BY <2>3, <3>4
  <2>5. CASE s = Src[m] /\ Src[m] \notin DOMAIN senderStates'
    <3>1. ASSUME NEW x \in Messages(s) PROVE Slack(x)' <= Due(x)'
      <4>1. x \in Message /\ Src[x] = s
        BY DEF Messages
      <4>2. ReceiverInv(x)'
        BY <1>14, <4>1
      <4>3. x \in DOMAIN rxQp' => rxQp'[x].chunks = Chunk(x)
        BY <2>5, <4>1, <4>2 DEF ReceiverInv
      <4>4. Slack(x)' \in Int /\ Due(x)' \in Int
        BY <1>17, <4>1 DEF TermsOK
      <4>5. QED
        BY <1>17, <4>1, <4>3, <4>4 DEF SettledOK
    <3>2. QED
      BY <1>17, <2>3, <3>1, LedgerCounts
  <2>6. QED
    BY <2>3, <2>4, <2>5
<1>22. BucketCovers' /\ BucketHolds'
  <2>1. ASSUME NEW s \in Sender
        PROVE  Usable(s)' <= Usable(s)
                 + (IF s = Src[m] THEN Due(m)' - Due(m) + globalOut' - globalOut ELSE 0)
    <3>1. /\ Held(s)' \in Nat /\ Held(s) \in Nat /\ Flying(s) \in Nat
          /\ Flying(s)' = Flying(s) /\ Held(s)' <= Held(s)
      BY <1>4, <1>7, <1>13, <1>17 DEF TermsOK
    <3>2. Usable(s)' <= Usable(s) /\ Usable(s) \in Nat /\ Usable(s)' \in Nat
      BY <3>1 DEF Usable
    <3>3. 0 <= Due(m)' - Due(m) + globalOut' - globalOut
          /\ Due(m)' - Due(m) + globalOut' - globalOut \in Int
      BY <1>2, <1>4, <1>20
    <3>4. QED
      BY <3>2, <3>3
  <2>2. globalOut' <= globalOut + Brought(m)' - Brought(m)
    <3>1. Brought(m)' = self[m].wire
      BY <1>3, <1>5, <1>9 DEF Brought, Known
    <3>2. Lent(m) = self[m].wire - Brought(m)
      <4>1. self[m].wire \in Nat
        BY <1>4 DEF SendOK, Credited
      <4>2. QED
        BY <4>1 DEF Lent, Brought
    <3>3. Brought(m) \in Nat /\ self[m].wire \in Nat
      BY <1>4 DEF TermsOK, SendOK, Credited
    <3>4. QED
      BY <1>2, <1>4, <1>20, <3>1, <3>2, <3>3
  <2>3. \A x \in Message \ {m} : Due(x)' = Due(x) /\ Brought(x)' = Brought(x)
    BY <1>18
  <2>4. QED
    BY <1>4, <1>17, <2>1, <2>2, <2>3, BucketKeeps DEF CreditInv
<1>23. QED
  BY <1>15, <1>16, <1>21, <1>22 DEF CreditInv

LEMMA ReceiveDataInv ==
  ASSUME CreditInv, IInv', NEW p \in DOMAIN net, p.kind = "REQUEST", ReceiveData(p)
  PROVE  CreditInv'
<1> DEFINE m == p.msg
<1>1. /\ EarlyData \/ ~InNet(GrantReq(m))
      /\ Replaces(p, {})
  BY DEF ReceiveData
<1>2. PICK value \in Caps :
        LET a == DataAccount(p, value)
            finished == [a EXCEPT !.q.done = TRUE, !.q.timer = FALSE]
            waiting == [a EXCEPT !.q.timer = a.q.accounted /\ ~a.q.done]
        IN \/ Store(waiting, m) /\ UNCHANGED sendVars
           \/ /\ Complete(a.q, m)
              /\ rxQp' = Put(rxQp, m, finished.q)
              /\ senderStates' = Forget(Put(senderStates, Src[m], a.st), m)
              /\ globalOut' = a.out
              /\ CompleteCreditBouncerSenderQp(m)
              /\ UNCHANGED <<class, self, announced>>
  BY DEF ReceiveData, DataAccount
<1>3. QED
  BY <1>1, <1>2, WaitingInv, CompletedInv

\* At the start nothing is owed.
LEMMA InitCredit == Ordinary /\ Init => CreditInv
<1> SUFFICES ASSUME Ordinary, Init PROVE CreditInv
  OBVIOUS
<1>1. IInv /\ FramesFit /\ 0 \in Nat
  BY InitKeeps, FrameAssumption DEF Ordinary
<1>2. /\ DOMAIN receiverStates = {} /\ DOMAIN senderStates = {} /\ DOMAIN rxQp = {}
      /\ DOMAIN net = {}
  BY DEF Init, EmptyBag, SetToBag
<1>3. ASSUME NEW x \in Message PROVE SenderInv(x) /\ ReceiverInv(x)
  <2>1. self[x] = NoCredit /\ state[x] = "new" /\ class[x] = "unknown" /\ next[x] = 0
        /\ ~announced[x]
    BY DEF Init
  <2>2. Portion(x, NoCredit)
    <3>1. Size[x] \in Nat /\ W(Size[x]) \in Nat
      BY <1>1, MessageAssumption, WireNat
    <3>2. W(0) = 0 /\ 0 % MTU = 0
      BY FrameAssumption DEF W, AddHeader
    <3>3. Size[x] - 0 = Size[x] /\ 0 <= Size[x] /\ W(Size[x]) = 0 + W(Size[x])
      BY <3>1
    <3>4. QED
      BY <1>1, <3>2, <3>3 DEF Portion, NoCredit
  <2>3. SenderInv(x)
    BY <2>1, <2>2 DEF SenderInv
  <2>4. QED
    BY <1>2, <2>3 DEF ReceiverInv
<1>4. \A s \in Sender : InFlight(s) = {} /\ OutData(s) = 0
  BY <1>2 DEF InFlight, OutData
<1>5. HostInv
  BY <1>1, <1>2, <1>3, <1>4, FS_EmptySet DEF HostInv, PeerInv
<1>6. NetInv
  BY <1>2 DEF NetInv
<1>7. ASSUME NEW s \in Sender
      PROVE  Held(s) = 0 /\ OutWire(s) = 0 /\ Flying(s) = 0 /\ Usable(s) = 0
  <2>1. Held(s) = 0 /\ OutWire(s) = 0
    BY <1>2 DEF Held, OutWire
  <2>2. Flying(s) = 0
    BY <1>4, SumEmpty DEF Flying
  <2>3. QED
    BY <2>1, <2>2 DEF Usable
<1>8. ASSUME NEW x \in Message PROVE Slack(x) = 0 /\ Due(x) = 0 /\ Brought(x) = 0
  <2>1. First(x) = {}
    BY ChunksOf DEF First, Init
  <2>2. Spent(x) = 0
    BY <2>1, SumEmpty DEF Spent
  <2>3. First(x) \ Got(x) = {}
    BY <2>1
  <2>4. Unpaid(x) = 0
    BY <2>3, SumEmpty DEF Unpaid
  <2>5. Paid(x) = 0 /\ Lent(x) = 0 /\ Brought(x) = 0
    BY <1>2 DEF Paid, Lent, Brought, Known, Init, NoCredit
  <2>6. QED
    BY <2>2, <2>4, <2>5 DEF Slack, Due
<1>9. ASSUME NEW s \in Sender PROVE Ledger(s) /\ Counted(s)
  <2>1. IsFiniteSet(Messages(s)) /\ Messages(s) \subseteq Message
    BY MessageAssumption, FS_Subset DEF Messages
  <2> DEFINE f == [x \in Messages(s) |-> Slack(x)]
             g == [x \in Messages(s) |-> Due(x)]
  <2>2. \A x \in Messages(s) : f[x] = 0 /\ g[x] = 0
    BY <1>8, <2>1
  <2>3. /\ Ledger(s) <=> Usable(s) <= SumFunctionOnSet(f, Messages(s))
        /\ Counted(s) <=> Usable(s) <= SumFunctionOnSet(g, Messages(s)) + OutWire(s)
    BY DEF Ledger, Counted
  <2> HIDE DEF f, g
  <2>4. SumFunctionOnSet(f, Messages(s)) = 0 /\ SumFunctionOnSet(g, Messages(s)) = 0
    BY <2>1, <2>2, SumZero
  <2>5. QED
    BY <1>7, <2>3, <2>4
<1>10. BucketCovers /\ BucketHolds
  <2> DEFINE u == [s \in Sender |-> Usable(s)]
             d == [x \in Message |-> Due(x)]
             b == [x \in Message |-> Brought(x)]
  <2>1. (\A s \in Sender : u[s] = 0) /\ (\A x \in Message : d[x] = 0 /\ b[x] = 0)
    BY <1>7, <1>8
  <2>2. /\ BucketCovers <=> SumFunctionOnSet(u, Sender) <= SumFunctionOnSet(d, Message) + globalOut
        /\ BucketHolds <=> (GlobalBucket > 0 =>
             globalOut <= GlobalBucket + SumFunctionOnSet(b, Message))
    BY DEF BucketCovers, BucketHolds
  <2> HIDE DEF u, d, b
  <2>3. /\ SumFunctionOnSet(u, Sender) = 0 /\ SumFunctionOnSet(d, Message) = 0
        /\ SumFunctionOnSet(b, Message) = 0
    BY <2>1, MessageAssumption, SumZero
  <2>4. globalOut = 0 /\ GlobalBucket \in Nat
    BY CreditAssumption DEF Init
  <2>5. QED
    BY <2>2, <2>3, <2>4
<1>11. QED
  BY <1>1, <1>5, <1>6, <1>9, <1>10 DEF CreditInv

LEMMA NextCredit == CreditInv /\ [Next]_vars => CreditInv'
<1> SUFFICES ASSUME CreditInv, [Next]_vars PROVE CreditInv'
  OBVIOUS
<1>1. IInv'
  BY NextKeeps DEF CreditInv
<1>2. ASSUME NEW m \in Message, AddQueuePair(m) PROVE CreditInv'
  BY <1>1, <1>2, AddQueuePairInv
<1>3. ASSUME NEW m \in Message, GetNxtPacket(m) PROVE CreditInv'
  BY <1>1, <1>3, GetNxtPacketInv
<1>4. ASSUME NEW m \in Message, HandleCreditBouncerResendTimeout(m) PROVE CreditInv'
  BY <1>1, <1>4, ResendTimeoutInv
<1>5. CASE CreditGrantTick
  BY <1>1, <1>5, CreditGrantTickInv
<1>6. ASSUME NEW p \in DOMAIN net, p.kind = "GRANT_REQ", ReceiveGrantReq(p)
      PROVE  CreditInv'
  BY <1>1, <1>6, ReceiveGrantReqInv
<1>7. ASSUME NEW p \in DOMAIN net, p.kind = "REQUEST", ReceiveData(p) PROVE CreditInv'
  BY <1>1, <1>7, ReceiveDataInv
<1>8. ASSUME NEW p \in DOMAIN net, p.kind = "GRANT", ReceiveGrant(p) PROVE CreditInv'
  BY <1>1, <1>8, ReceiveGrantInv
<1>9. ASSUME NEW p \in DOMAIN net, p.kind = "BOUNCED", ReceiveBounced(p) PROVE CreditInv'
  BY <1>1, <1>9, ReceiveBouncedInv
<1>10. ASSUME NEW p \in DOMAIN net, p.kind = "RESEND", ReceiveResend(p) PROVE CreditInv'
  BY <1>1, <1>10, ReceiveResendInv
<1>11. ASSUME NEW p \in DOMAIN net, Bounce(p) PROVE CreditInv'
  BY <1>1, <1>11, BounceInv
<1>12. ASSUME NEW p \in DOMAIN net, Lose(p) PROVE CreditInv'
  BY <1>1, <1>12, LoseInv
<1>13. CASE UNCHANGED vars
  <2>1. UNCHANGED <<sendVars, rxQp, senderStates, globalOut, net>>
    BY <1>13 DEF vars, recvVars, netVars
  <2>2. QED
    BY <1>1, <2>1, CreditRests
<1>14. QED
  BY <1>2, <1>3, <1>4, <1>5, <1>6, <1>7, <1>8, <1>9, <1>10, <1>11, <1>12, <1>13
     DEF Next, ReceiveCreditBouncer

\* The second ledger, in the terms of the property.
LEMMA CountedMeans == CreditInv => CreditIsCounted
<1> SUFFICES ASSUME CreditInv, NEW s \in Sender
             PROVE  Live(s) <= Unannounced(s) + OutWire(s)
  BY DEF CreditIsCounted
<1>1. TermsOK /\ Counted(s)
  BY Terms DEF CreditInv
<1>2. IsFiniteSet(Messages(s)) /\ Messages(s) \subseteq Message
  BY MessageAssumption, FS_Subset DEF Messages
<1> DEFINE due == [x \in Messages(s) |-> Due(x)]
           unpaid == [x \in Messages(s) |-> Unpaid(x)]
           lent == [x \in Messages(s) |-> Lent(x)]
<1>3. \A x \in Messages(s) : /\ due[x] \in Int /\ unpaid[x] \in Int /\ lent[x] \in Int
                             /\ lent[x] = due[x] + unpaid[x]
  <2>1. \A x \in Message : Lent(x) = Due(x) + Unpaid(x) /\ Due(x) \in Int
                           /\ Unpaid(x) \in Int /\ Lent(x) \in Int
    BY <1>1 DEF TermsOK, Due
  <2>2. QED
    BY <1>2, <2>1
<1>4. /\ Held(s) + Flying(s) <= SumFunctionOnSet(due, Messages(s)) + OutWire(s)
      /\ Unannounced(s) = SumFunctionOnSet(lent, Messages(s))
      /\ Live(s) = Held(s) + Flying(s) + SumFunctionOnSet(unpaid, Messages(s))
  BY <1>1 DEF Counted, Usable, Unannounced, Live
<1> HIDE DEF due, unpaid, lent
<1>5. SumFunctionOnSet(lent, Messages(s))
        = SumFunctionOnSet(due, Messages(s)) + SumFunctionOnSet(unpaid, Messages(s))
  BY <1>2, <1>3, SumPlus
<1>6. SumFunctionOnSet(due, Messages(s)) \in Int /\ SumFunctionOnSet(unpaid, Messages(s)) \in Int
  BY <1>2, <1>3, SumInt
<1>7. Held(s) \in Nat /\ Flying(s) \in Nat /\ OutWire(s) \in Nat
  BY <1>1 DEF TermsOK
<1>8. QED
  BY <1>4, <1>5, <1>6, <1>7

\* The two accounts of the bucket, in the terms of the property.
LEMMA BucketMeans == CreditInv => CreditFitsBucket
<1> SUFFICES ASSUME CreditInv, GlobalBucket > 0
             PROVE  SumFunctionOnSet([s \in Sender |-> Live(s)], Sender)
                      <= GlobalBucket + SumFunctionOnSet([m \in Message |-> self[m].wire], Message)
  BY DEF CreditFitsBucket
<1> DEFINE due == [x \in Message |-> Due(x)]
           unpaid == [x \in Message |-> Unpaid(x)]
           lent == [x \in Message |-> Lent(x)]
           brought == [x \in Message |-> Brought(x)]
           own == [x \in Message |-> self[x].wire]
           live == [s \in Sender |-> Live(s)]
           usable == [s \in Sender |-> Usable(s)]
           owed == [s \in Sender |-> SumFunctionOnSet(unpaid, {x \in Message : Src[x] = s})]
<1>1. /\ TermsOK /\ IsFiniteSet(Message) /\ IsFiniteSet(Sender) /\ GlobalBucket \in Nat
      /\ \A x \in Message : Src[x] \in Sender /\ self[x].wire \in Nat
  BY Terms, MessageAssumption, CreditAssumption DEF CreditInv, IInv, SendOK, Credited
<1>2. ASSUME NEW x \in Message
      PROVE  /\ due[x] \in Int /\ unpaid[x] \in Int /\ lent[x] \in Int
             /\ brought[x] \in Int /\ own[x] \in Int
             /\ lent[x] = due[x] + unpaid[x] /\ own[x] = lent[x] + brought[x]
  <2>1. /\ Due(x) \in Int /\ Unpaid(x) \in Int /\ Lent(x) \in Int /\ Brought(x) \in Int
        /\ self[x].wire \in Int /\ Lent(x) = Due(x) + Unpaid(x)
    BY <1>1 DEF TermsOK, Due
  <2>2. self[x].wire = Lent(x) + Brought(x)
    BY <2>1 DEF Lent, Brought
  <2>3. QED
    BY <2>1, <2>2
<1>3. ASSUME NEW s \in Sender
      PROVE  usable[s] \in Int /\ owed[s] \in Int /\ live[s] = usable[s] + owed[s]
  <2>1. Messages(s) = {x \in Message : Src[x] = s} /\ IsFiniteSet(Messages(s))
    BY <1>1, FS_Subset DEF Messages
  <2> DEFINE f == [x \in Messages(s) |-> Unpaid(x)]
  <2>2. \A x \in Messages(s) : f[x] = unpaid[x] /\ unpaid[x] \in Int
    BY <1>2, <2>1
  <2>3. live[s] = Held(s) + Flying(s) + SumFunctionOnSet(f, Messages(s))
    BY DEF Live
  <2>4. owed[s] = SumFunctionOnSet(unpaid, Messages(s)) /\ usable[s] = Held(s) + Flying(s)
    BY <2>1 DEF Usable
  <2> HIDE DEF f, unpaid, live, owed, usable
  <2>5. /\ SumFunctionOnSet(f, Messages(s)) = SumFunctionOnSet(unpaid, Messages(s))
        /\ SumFunctionOnSet(unpaid, Messages(s)) \in Int
    BY <2>1, <2>2, SumCongruent, SumInt
  <2>6. QED
    BY <1>1, <2>3, <2>4, <2>5 DEF TermsOK
<1>4. SumFunctionOnSet(owed, Sender) = SumFunctionOnSet(unpaid, Message)
  <2>1. \A x \in Message : unpaid[x] \in Int /\ Src[x] \in Sender
    BY <1>1, <1>2
  <2> HIDE DEF unpaid
  <2>2. QED
    BY <1>1, <2>1, SumByParts
<1>5. /\ SumFunctionOnSet(usable, Sender) <= SumFunctionOnSet(due, Message) + globalOut
      /\ globalOut <= GlobalBucket + SumFunctionOnSet(brought, Message)
      /\ globalOut \in Nat
  BY <1>1 DEF CreditInv, BucketCovers, BucketHolds, TermsOK
<1> HIDE DEF due, unpaid, lent, brought, own, live, usable, owed
<1>6. /\ SumFunctionOnSet(lent, Message)
           = SumFunctionOnSet(due, Message) + SumFunctionOnSet(unpaid, Message)
      /\ SumFunctionOnSet(own, Message)
           = SumFunctionOnSet(lent, Message) + SumFunctionOnSet(brought, Message)
      /\ SumFunctionOnSet(live, Sender)
           = SumFunctionOnSet(usable, Sender) + SumFunctionOnSet(owed, Sender)
  BY <1>1, <1>2, <1>3, SumPlus
<1>7. /\ SumFunctionOnSet(due, Message) \in Int /\ SumFunctionOnSet(unpaid, Message) \in Int
      /\ SumFunctionOnSet(brought, Message) \in Int /\ SumFunctionOnSet(usable, Sender) \in Int
  BY <1>1, <1>2, <1>3, SumInt
<1>8. SumFunctionOnSet(live, Sender) <= GlobalBucket + SumFunctionOnSet(own, Message)
  BY <1>1, <1>4, <1>5, <1>6, <1>7
<1>9. QED
  BY <1>8 DEF live, own

(***************************************************************************)
(* The theorems.                                                           *)
(***************************************************************************)

\* Whatever is lost or bounced, in whatever order grants and data come, and
\* also when a message of a sender is done and forgotten: the receiver counts
\* as outstanding every byte of credit that a sender holds, has on its way to
\* it or back, or has spent on data that did not come yet.
THEOREM OutstandingCoversCredit == Ordinary => (Spec => []CreditIsCounted)
<1>1. ASSUME Ordinary PROVE Spec => []CreditIsCounted
  <2>1. Init => CreditInv
    BY <1>1, InitCredit
  <2>2. CreditInv => CreditIsCounted
    BY CountedMeans
  <2>3. QED
    BY <2>1, <2>2, NextCredit, PTL DEF Spec
<1>2. QED
  BY <1>1

\* A grant never finds the state of its receiver gone, so no ReceiverState is
\* opened that is enabled but not initialised.
THEOREM NoGrantComesLate == Ordinary => (Spec => []ReceiverEnabledMeansInitialised)
<1>1. ASSUME Ordinary PROVE Spec => []ReceiverEnabledMeansInitialised
  <2>1. Init => CreditInv
    BY <1>1, InitCredit
  <2>2. CreditInv => ReceiverEnabledMeansInitialised
    BY DEF CreditInv, HostInv, PeerInv, ReceiverEnabledMeansInitialised
  <2>3. QED
    BY <2>1, <2>2, NextCredit, PTL DEF Spec
<1>2. QED
  BY <1>1

\* The global bucket bounds what all senders can have on its way to the
\* receiver, above what they granted themselves: a grant is issued within it,
\* what is announced later was spent or is still to be spent, and no loss, no
\* bounce and no forgotten sender takes from it credit that can become data.
THEOREM BucketBoundsCredit == Ordinary => (Spec => []CreditFitsBucket)
<1>1. ASSUME Ordinary PROVE Spec => []CreditFitsBucket
  <2>1. Init => CreditInv
    BY <1>1, InitCredit
  <2>2. CreditInv => CreditFitsBucket
    BY BucketMeans
  <2>3. QED
    BY <2>1, <2>2, NextCredit, PTL DEF Spec
<1>2. QED
  BY <1>1

(***************************************************************************)
(* Granted payload.  Where credit a message gave itself is spent by        *)
(* another message of the sender, or a short chunk is paid with what was   *)
(* charged for a full one, the payload counted for a sender is not what    *)
(* its messages were granted and did not receive; but it is never less.    *)
(***************************************************************************)
Loads(m, S) == SumFunctionOnSet([i \in Chunk(m) |-> Payload(m, i)], S)

\* What of a message is granted and not received, by the message's own state.
Owed(q, m) ==
  IF q.accounted THEN (Size[m] - q.pending) - Loads(m, q.chunks) ELSE 0

GrantedTo(s) ==
  SumFunctionOnSet([m \in Messages(s) |-> Outstanding(m)], Messages(s)) <= OutData(s)

GrantedInv == CreditInv /\ \A s \in Sender : GrantedTo(s)

\* An account of a handler that adds to what its sender is charged no less than
\* to what its message owes.
Charged(a, m) ==
  /\ a \in Account /\ a.q.chunks \subseteq Chunk(m)
  /\ OutData(Src[m]) + Owed(a.q, m) <= a.st.outData + Outstanding(m)

\* The payload of some chunks.
LEMMA LoadsNat ==
  ASSUME FramesFit, NEW m \in Message, NEW S \in SUBSET Chunk(m)
  PROVE  Loads(m, S) \in Nat /\ IsFiniteSet(S)
<1> DEFINE f == [i \in Chunk(m) |-> Payload(m, i)]
<1>1. IsFiniteSet(S)
  BY WholeMessage, FS_Subset
<1>2. \A i \in S : f[i] \in Nat
  BY PayloadType
<1> HIDE DEF f
<1>3. SumFunctionOnSet(f, S) \in Nat
  BY <1>1, <1>2, SumNat
<1>4. QED
  BY <1>1, <1>3 DEF Loads, f

LEMMA OwedInt ==
  ASSUME FramesFit, NEW m \in Message, NEW q,
         q.pending \in Nat, q.chunks \subseteq Chunk(m)
  PROVE  Owed(q, m) \in Int
<1>1. Loads(m, q.chunks) \in Nat /\ Size[m] \in Nat
  BY LoadsNat, MessageAssumption
<1>2. QED
  BY <1>1 DEF Owed

\* What the invariant says of one message.
LEMMA GrantedTerms ==
  ASSUME CreditInv, NEW m \in Message
  PROVE  /\ FramesFit /\ RecvOK /\ Outstanding(m) \in Int
         /\ Got(m) \subseteq First(m) /\ First(m) \subseteq Chunk(m)
         /\ Outstanding(m) = Owed(Open(m).q, m)
         /\ Src[m] \in Sender /\ OutData(Src[m]) \in Nat
<1>1. FramesFit /\ RecvOK /\ Src[m] \in Sender /\ OutData(Src[m]) \in Nat
  BY MessageAssumption DEF CreditInv, HostInv, Ordinary, IInv
<1>2. Got(m) \subseteq First(m) /\ First(m) \subseteq Chunk(m)
  BY DEF Got, CreditInv, HostInv, ReceiverInv, First
<1>3. CASE m \in DOMAIN rxQp
  <2>1. Open(m).q = rxQp[m]
    BY <1>3 DEF Open
  <2>2. rxQp[m].accounted /\ rxQp[m].pending \in Nat
    BY <1>3 DEF CreditInv, HostInv, ReceiverInv
  <2>3. Got(m) = rxQp[m].chunks
    BY <1>3 DEF Got
  <2>4. Outstanding(m) = Owed(rxQp[m], m)
    BY <1>3, <2>2, <2>3 DEF Outstanding, Known, Received, Owed, Loads
  <2>5. Outstanding(m) \in Int
    BY <1>1, <1>2, <2>2, <2>3, <2>4, OwedInt
  <2>6. QED
    BY <1>1, <1>2, <2>1, <2>4, <2>5
<1>4. CASE m \notin DOMAIN rxQp
  <2>1. Open(m).q = NewRxQp
    BY <1>4 DEF Open
  <2>2. Outstanding(m) = 0
    BY <1>4 DEF Outstanding, Known
  <2>3. Owed(NewRxQp, m) = 0
    BY DEF Owed, NewRxQp
  <2>4. QED
    BY <1>1, <1>2, <2>1, <2>2, <2>3
<1>5. QED
  BY <1>3, <1>4

\* The numbers of a charged account.
LEMMA ChargedNat ==
  ASSUME CreditInv, NEW m \in Message, NEW a \in Account, a.q.chunks \subseteq Chunk(m)
  PROVE  a.st.outData \in Nat /\ a.q.pending \in Nat /\ Owed(a.q, m) \in Int
<1>1. a.st.outData \in Nat /\ a.q.pending \in Nat
  BY AccountParts
<1>2. QED
  BY <1>1, GrantedTerms, OwedInt

\* A step of an account that charges at least as much as it makes the message
\* owe.
LEMMA ChargedMoves ==
  ASSUME CreditInv, NEW m \in Message, NEW a, Charged(a, m),
         NEW b \in Account, b.q.chunks \subseteq Chunk(m),
         a.st.outData + Owed(b.q, m) <= b.st.outData + Owed(a.q, m)
  PROVE  Charged(b, m)
<1>1. OutData(Src[m]) \in Nat /\ Outstanding(m) \in Int
  BY GrantedTerms
<1>2. a.st.outData \in Nat /\ Owed(a.q, m) \in Int
  BY ChargedNat DEF Charged
<1>3. b.st.outData \in Nat /\ Owed(b.q, m) \in Int
  BY ChargedNat
<1>4. OutData(Src[m]) + Owed(a.q, m) <= a.st.outData + Outstanding(m)
  BY DEF Charged
<1>5. OutData(Src[m]) + Owed(b.q, m) <= b.st.outData + Outstanding(m)
  BY <1>1, <1>2, <1>3, <1>4
<1>6. QED
  BY <1>5 DEF Charged

\* An account that is opened owes what is stored.
LEMMA ChargedOpens ==
  ASSUME CreditInv, NEW m \in Message
  PROVE  Charged(Open(m), m)
<1>1. /\ Outstanding(m) = Owed(Open(m).q, m) /\ Outstanding(m) \in Int
      /\ Got(m) \subseteq Chunk(m) /\ RecvOK /\ OutData(Src[m]) \in Nat
  BY GrantedTerms
<1>2. /\ Open(m) \in Account /\ Open(m).st.outData = OutData(Src[m])
      /\ Open(m).q = IF m \in DOMAIN rxQp THEN rxQp[m] ELSE NewRxQp
  BY <1>1, OpenSound, AccountOpens
<1>3. Open(m).q.chunks = Got(m)
  BY <1>2 DEF Got, NewRxQp
<1>4. QED
  BY <1>1, <1>2, <1>3 DEF Charged

\* So does one with the same numbers.
LEMMA ChargedSame ==
  ASSUME NEW m \in Message, NEW a, Charged(a, m), NEW b \in Account,
         b.q.accounted = a.q.accounted, b.q.pending = a.q.pending, b.q.chunks = a.q.chunks,
         b.st.outData = a.st.outData
  PROVE  Charged(b, m)
<1>1. Owed(b.q, m) = Owed(a.q, m)
  BY DEF Owed
<1>2. QED
  BY <1>1 DEF Charged

\* The account after the sender is enabled and AIMD moved its cap.
LEMMA ChargedUpdated ==
  ASSUME CreditInv, NEW m \in Message, NEW value \in Caps
  PROVE  LET a == UpdateSenderStateAimd(Enable(Open(m)), value)
         IN /\ Charged(Enable(Open(m)), m) /\ Charged(a, m)
            /\ Enable(Open(m)).q = Open(m).q /\ a.q = Open(m).q
<1> DEFINE e == Enable(Open(m))
           a == UpdateSenderStateAimd(e, value)
<1>1. Open(m) \in Account /\ e \in Account
  BY OpenSound, GrantedTerms
<1>2. a \in Account
  BY <1>1, AimdSound
<1>3. e.q = Open(m).q /\ e.st.outData = Open(m).st.outData
  BY <1>1, SameAccount
<1>4. a.q = e.q /\ a.st.outData = e.st.outData
  BY <1>1, SameAccount
<1> HIDE DEF a, e
<1>5. Charged(e, m) /\ Charged(a, m)
  BY <1>1, <1>2, <1>3, <1>4, ChargedOpens, ChargedSame
<1>6. QED
  BY <1>3, <1>4, <1>5 DEF a, e

\* An announcement charges what the sender gave itself.
LEMMA ChargedAnnounced ==
  ASSUME CreditInv, NEW m \in Message, NEW a, Charged(a, m),
         a.q.accounted \/ a.q = NewRxQp,
         NEW own \in Credited, own.data \in Nat, own.data <= Size[m]
  PROVE  Charged(ApplyNewAnnouncement(a, m, own), m)
<1> DEFINE b == ApplyNewAnnouncement(a, m, own)
<1>1. /\ b \in Account
      /\ a.q.accounted => b = a
      /\ a.q = NewRxQp =>
           /\ b.q.accounted /\ b.q.chunks = {} /\ b.q.pending = Size[m] - own.data
           /\ b.st.outData = a.st.outData + own.data
  BY AnnouncementParts DEF Charged
<1> HIDE DEF b
<1>2. CASE a.q.accounted
  <2>1. b = a
    BY <1>1, <1>2
  <2>2. QED
    BY <2>1 DEF b
<1>3. CASE a.q = NewRxQp
  <2>1. a.st.outData \in Nat /\ Size[m] \in Nat
    BY AccountParts, MessageAssumption DEF Charged
  <2>2. Owed(a.q, m) = 0
    BY <1>3 DEF Owed, NewRxQp
  <2>3. Owed(b.q, m) = own.data
    <3>1. Loads(m, {}) = 0
      BY SumEmpty DEF Loads
    <3>2. Owed(b.q, m) = (Size[m] - (Size[m] - own.data)) - 0
      BY <1>1, <1>3, <3>1 DEF Owed
    <3>3. QED
      BY <2>1, <3>2
  <2>4. b.q.chunks \subseteq Chunk(m)
    BY <1>1, <1>3
  <2>5. a.st.outData + Owed(b.q, m) <= b.st.outData + Owed(a.q, m)
    BY <1>1, <1>3, <2>1, <2>2, <2>3
  <2>6. Charged(b, m)
    BY <1>1, <2>4, <2>5, ChargedMoves
  <2>7. QED
    BY <2>6 DEF b
<1>4. QED
  BY <1>2, <1>3

\* A chunk that comes is received whole, and its sender is charged for as much
\* less, or for nothing more where less was charged.
LEMMA ChargedReceived ==
  ASSUME CreditInv, NEW m \in Message, NEW a, Charged(a, m), a.q.accounted,
         NEW i \in Chunk(m)
  PROVE  Charged(ReceiveChunk(a, m, i), m)
<1> DEFINE c == ReceiveChunk(a, m, i)
           used == Least(Payload(m, i), a.st.outData)
<1>1. a \in Account /\ a.q.chunks \subseteq Chunk(m) /\ FramesFit
  BY GrantedTerms DEF Charged
<1>2. /\ c \in Account
      /\ i \in a.q.chunks => c = a
      /\ i \notin a.q.chunks =>
           /\ c.q = [a.q EXCEPT !.chunks = @ \cup {i}]
           /\ c.st.outData = a.st.outData - used
  BY <1>1, ChunkParts
<1> HIDE DEF c
<1>3. CASE i \in a.q.chunks
  <2>1. c = a
    BY <1>2, <1>3
  <2>2. QED
    BY <2>1 DEF c
<1>4. CASE i \notin a.q.chunks
  <2>1. a.st.outData \in Nat /\ a.q \in RxQpType /\ a.q.pending \in Nat
    BY <1>1, AccountParts
  <2>2. Payload(m, i) \in Nat
    BY <1>1, PayloadNat
  <2>3. used \in Nat /\ used <= Payload(m, i)
    BY <2>1, <2>2, LeastMost
  <2> HIDE DEF used
  <2>4. /\ c.q.accounted /\ c.q.pending = a.q.pending
        /\ c.q.chunks = a.q.chunks \cup {i} /\ c.q.chunks \subseteq Chunk(m)
    BY <1>1, <1>2, <1>4, <2>1 DEF RxQpType
  <2>5. Loads(m, c.q.chunks) = Loads(m, a.q.chunks) + Payload(m, i)
    <3> DEFINE f == [j \in Chunk(m) |-> Payload(m, j)]
    <3>1. IsFiniteSet(c.q.chunks)
      BY <1>1, <2>4, LoadsNat
    <3>2. \A j \in c.q.chunks : f[j] \in Int
      BY <2>4, PayloadType
    <3>3. f[i] = Payload(m, i) /\ c.q.chunks \ {i} = a.q.chunks /\ i \in c.q.chunks
      BY <1>4, <2>4
    <3> HIDE DEF f
    <3>4. SumFunctionOnSet(f, c.q.chunks) = f[i] + SumFunctionOnSet(f, a.q.chunks)
      BY <3>1, <3>2, <3>3, SumElement
    <3>5. Loads(m, a.q.chunks) \in Nat
      BY <1>1, LoadsNat
    <3>6. QED
      BY <2>2, <3>3, <3>4, <3>5 DEF Loads, f
  <2>6. a.st.outData + Owed(c.q, m) <= c.st.outData + Owed(a.q, m)
    <3>1. Loads(m, a.q.chunks) \in Nat /\ Size[m] \in Nat
      BY <1>1, LoadsNat, MessageAssumption
    <3>2. c.st.outData = a.st.outData - used
      BY <1>2, <1>4
    <3>3. Owed(a.q, m) = (Size[m] - a.q.pending) - Loads(m, a.q.chunks)
      BY DEF Owed
    <3>4. Owed(c.q, m) = (Size[m] - a.q.pending) - (Loads(m, a.q.chunks) + Payload(m, i))
      BY <2>4, <2>5 DEF Owed
    <3>5. QED
      BY <2>1, <2>2, <2>3, <3>1, <3>2, <3>3, <3>4
  <2>7. Charged(c, m)
    BY <1>2, <2>4, <2>6, ChargedMoves
  <2>8. QED
    BY <2>7 DEF c
<1>5. QED
  BY <1>3, <1>4

\* A message whose state stays is as much outstanding as before.
LEMMA OutstandingSame ==
  ASSUME NEW x,
         x \in DOMAIN rxQp' <=> x \in DOMAIN rxQp,
         x \in DOMAIN rxQp =>
           /\ rxQp'[x].accounted = rxQp[x].accounted /\ rxQp'[x].pending = rxQp[x].pending
           /\ rxQp'[x].chunks = rxQp[x].chunks
  PROVE  Outstanding(x)' = Outstanding(x)
<1>1. Known' = {y \in DOMAIN rxQp' : rxQp'[y].accounted}
  BY DEF Known
<1>2. x \in Known' <=> x \in Known
  BY <1>1 DEF Known
<1>3. Got(x)' = Got(x)
  BY DEF Got
<1>4. Received(x)' = Received(x)
  BY <1>3 DEF Received
<1>5. x \in Known => rxQp'[x].pending = rxQp[x].pending
  BY DEF Known
<1>6. QED
  BY <1>2, <1>4, <1>5 DEF Outstanding

\* So a sender whose messages stay is charged for them.
LEMMA GrantedSame ==
  ASSUME NEW s \in Sender, GrantedTo(s), OutData(s)' = OutData(s),
         \A x \in Messages(s) : Outstanding(x)' = Outstanding(x)
  PROVE  GrantedTo(s)'
<1>1. [x \in Messages(s) |-> Outstanding(x)'] = [x \in Messages(s) |-> Outstanding(x)]
  OBVIOUS
<1>2. Messages(s)' = Messages(s)
  BY DEF Messages
<1>3. QED
  BY <1>1, <1>2 DEF GrantedTo

\* The messages of the other senders stay when one is stored.
LEMMA OthersGranted ==
  ASSUME NEW m \in Message, NEW q, rxQp' = Put(rxQp, m, q),
         NEW s \in Sender \ {Src[m]}, GrantedTo(s), OutData(s)' = OutData(s)
  PROVE  GrantedTo(s)'
<1>1. /\ DOMAIN rxQp' = DOMAIN rxQp \cup {m}
      /\ \A x \in DOMAIN rxQp \ {m} : rxQp'[x] = rxQp[x]
  BY DEF Put
<1>2. \A x \in Messages(s) : x # m
  BY DEF Messages
<1>3. \A x \in Messages(s) : Outstanding(x)' = Outstanding(x)
  BY <1>1, <1>2, OutstandingSame
<1>4. QED
  BY <1>3, GrantedSame

\* A handler that stores a charged account keeps its sender charged.
LEMMA GrantedKeeps ==
  ASSUME GrantedInv, CreditInv', NEW m \in Message, NEW a, Charged(a, m),
         NEW q, rxQp' = Put(rxQp, m, q), q.accounted, a.q.accounted,
         q.pending = a.q.pending, q.chunks = a.q.chunks,
         \A s \in Sender \ {Src[m]} : OutData(s)' = OutData(s),
         OutData(Src[m])' = a.st.outData
  PROVE  GrantedInv'
<1> DEFINE s == Src[m]
           f == [x \in Message |-> Outstanding(x)]
           g == [x \in Message |-> IF x = m THEN Owed(a.q, m) ELSE Outstanding(x)]
           fs == [x \in Messages(s) |-> Outstanding(x)]
           gs == [x \in Messages(s) |-> Outstanding(x)']
<1>1. /\ DOMAIN rxQp' = DOMAIN rxQp \cup {m} /\ rxQp'[m] = q
      /\ \A x \in DOMAIN rxQp \ {m} : rxQp'[x] = rxQp[x]
  BY DEF Put
<1>2. \A x \in Message : Outstanding(x) \in Int
  BY GrantedTerms DEF GrantedInv
<1>3. /\ s \in Sender /\ OutData(s) \in Nat /\ a.st.outData \in Nat
      /\ a.q.pending \in Nat /\ Owed(a.q, m) \in Int
  BY GrantedTerms, ChargedNat DEF GrantedInv, Charged
<1>4. \A x \in Message \ {m} : Outstanding(x)' = Outstanding(x)
  BY <1>1, OutstandingSame
<1>5. Outstanding(m)' = Owed(a.q, m)
  <2>1. Known' = {y \in DOMAIN rxQp' : rxQp'[y].accounted}
    BY DEF Known
  <2>2. m \in Known'
    BY <1>1, <2>1
  <2>3. Got(m)' = a.q.chunks
    BY <1>1 DEF Got
  <2>4. Received(m)' = Loads(m, a.q.chunks)
    BY <2>3 DEF Received, Loads
  <2>5. Outstanding(m)' = (Size[m] - a.q.pending) - Loads(m, a.q.chunks)
    BY <1>1, <2>2, <2>4 DEF Outstanding
  <2>6. QED
    BY <2>5 DEF Owed
<1>6. IsFiniteSet(Messages(s)) /\ Messages(s) \subseteq Message
  BY MessageAssumption, FS_Subset DEF Messages
<1>7. /\ \A x \in Message : f[x] \in Int /\ g[x] \in Int
      /\ f[m] = Outstanding(m) /\ g[m] = Owed(a.q, m)
      /\ \A x \in Message \ {m} : g[x] = f[x]
  BY <1>2, <1>3
<1>8. \A x \in Messages(s) : fs[x] = f[x] /\ gs[x] = g[x]
  BY <1>4, <1>5, <1>6
<1>9. SumFunctionOnSet(fs, Messages(s)) <= OutData(s)
  BY <1>3 DEF GrantedInv, GrantedTo
<1>10. GrantedTo(s)' <=> (SumFunctionOnSet(gs, Messages(s)) <= OutData(s)')
  BY DEF GrantedTo, Messages
<1>11. OutData(s) + Owed(a.q, m) <= a.st.outData + Outstanding(m)
  BY DEF Charged
<1>12. OutData(s)' = a.st.outData
  OBVIOUS
<1> HIDE DEF f, g, fs, gs
<1>13. /\ SumFunctionOnSet(fs, Messages(s)) = SumFunctionOnSet(f, Messages(s))
       /\ SumFunctionOnSet(gs, Messages(s)) = SumFunctionOnSet(g, Messages(s))
  BY <1>6, <1>8, SumCongruent
<1>14. /\ SumFunctionOnSet(f, Messages(s)) \in Int
       /\ SumFunctionOnSet(g, Messages(s)) = SumFunctionOnSet(f, Messages(s)) + g[m] - f[m]
  <2>1. m \in Messages(s)
    BY DEF Messages
  <2> HIDE DEF s
  <2>2. QED
    BY <1>6, <1>7, <2>1, SumInt, SumUpdate
<1>15. GrantedTo(s)'
  <2> HIDE DEF s
  <2>1. SumFunctionOnSet(gs, Messages(s)) <= a.st.outData
    BY <1>2, <1>3, <1>7, <1>9, <1>11, <1>13, <1>14
  <2>2. QED
    BY <1>10, <1>12, <2>1
<1>16. \A x \in Sender \ {s} : GrantedTo(x)'
  BY OthersGranted DEF GrantedInv
<1>17. QED
  BY <1>15, <1>16 DEF GrantedInv

\* A step that leaves the receiver.
LEMMA GrantedRests ==
  ASSUME GrantedInv, CreditInv', UNCHANGED <<rxQp, senderStates>>
  PROVE  GrantedInv'
<1>1. \A s \in Sender : OutData(s)' = OutData(s)
  BY DEF OutData
<1>2. \A m \in Message : Outstanding(m)' = Outstanding(m)
  BY OutstandingSame
<1>3. \A s \in Sender : GrantedTo(s)'
  BY <1>1, <1>2, GrantedSame DEF GrantedInv, Messages
<1>4. QED
  BY <1>3 DEF GrantedInv

\* Store puts the account where OutData reads it.
LEMMA GrantedStored ==
  ASSUME GrantedInv, CreditInv', NEW m \in Message, NEW a, Charged(a, m), a.q.accounted,
         Store(a, m)
  PROVE  GrantedInv'
<1>1. /\ DOMAIN senderStates' = DOMAIN senderStates \cup {Src[m]}
      /\ senderStates'[Src[m]] = a.st
      /\ \A s \in DOMAIN senderStates \ {Src[m]} : senderStates'[s] = senderStates[s]
      /\ rxQp' = Put(rxQp, m, a.q)
  BY DEF Store, Put
<1>2. OutData(Src[m])' = a.st.outData
  BY <1>1 DEF OutData
<1>3. \A s \in Sender \ {Src[m]} : OutData(s)' = OutData(s)
  BY <1>1 DEF OutData
<1>4. QED
  BY <1>1, <1>2, <1>3, GrantedKeeps

LEMMA OpenKnown ==
  ASSUME CreditInv, NEW m \in Message
  PROVE  Open(m).q.accounted \/ Open(m).q = NewRxQp
  BY DEF Open, CreditInv, HostInv, ReceiverInv

\* What a message gives itself is a part of it.
LEMMA OwnPortion ==
  ASSUME CreditInv, NEW m \in Message, NEW own \in {self[m], NoCredit}
  PROVE  own \in Credited /\ own.data \in Nat /\ own.data <= Size[m]
<1>1. self[m] \in Credited /\ Portion(m, self[m]) /\ Size[m] \in Nat
  BY MessageAssumption DEF CreditInv, IInv, SendOK, HostInv, SenderInv
<1>2. NoCredit \in Credited /\ NoCredit.data \in Nat /\ NoCredit.data <= Size[m]
  BY <1>1 DEF NoCredit, Credited
<1>3. QED
  BY <1>1, <1>2 DEF Portion

\* The account after an announcement, which a message brings once.
LEMMA ChargedRequested ==
  ASSUME CreditInv, NEW m \in Message, NEW value \in Caps, NEW own \in Credited,
         m \in DOMAIN rxQp \/ own = self[m], own \in {self[m], NoCredit}
  PROVE  LET b == ApplyNewAnnouncement(
                    UpdateSenderStateAimd(Enable(Open(m)), value), m, own)
         IN Charged(b, m) /\ b.q.accounted
<1> DEFINE a == UpdateSenderStateAimd(Enable(Open(m)), value)
           b == ApplyNewAnnouncement(a, m, own)
<1>1. Charged(a, m) /\ a.q = Open(m).q
  BY ChargedUpdated
<1>2. a.q.accounted \/ a.q = NewRxQp
  BY <1>1, OpenKnown
<1>3. own.data \in Nat /\ own.data <= Size[m]
  BY OwnPortion
<1>4. b.q.accounted
  BY Announces
<1> HIDE DEF a, b
<1>5. Charged(b, m)
  BY <1>1, <1>2, <1>3, ChargedAnnounced DEF b
<1>6. QED
  BY <1>4, <1>5 DEF a, b

LEMMA ReceiveGrantReqGranted ==
  ASSUME GrantedInv, CreditInv', NEW p \in DOMAIN net, p.kind = "GRANT_REQ",
         ReceiveGrantReq(p)
  PROVE  GrantedInv'
<1>1. p.msg \in Message /\ CreditInv
  BY DEF GrantedInv, CreditInv, IInv, NetOK, Sent, Packet
<1>2. NoCredit \in Credited /\ NoCredit = self[p.msg]
  <2>1. class[p.msg] = "scheduled" /\ SenderInv(p.msg)
    BY <1>1 DEF CreditInv, NetInv, PacketInv, HostInv
  <2>2. self[p.msg] = NoCredit
    BY <2>1 DEF SenderInv
  <2>3. self[p.msg] \in Credited
    BY <1>1 DEF CreditInv, IInv, SendOK
  <2>4. QED
    BY <2>2, <2>3
<1>3. PICK value \in Caps :
        Store(ApplyNewAnnouncement(UpdateSenderStateAimd(Enable(Open(p.msg)), value),
                                   p.msg, NoCredit), p.msg)
  BY DEF ReceiveGrantReq
<1> DEFINE a == ApplyNewAnnouncement(UpdateSenderStateAimd(Enable(Open(p.msg)), value),
                                     p.msg, NoCredit)
<1>4. Charged(a, p.msg) /\ a.q.accounted
  BY <1>1, <1>2, ChargedRequested
<1>5. QED
  BY <1>1, <1>3, <1>4, GrantedStored

\* The account after data.
LEMMA ChargedData ==
  ASSUME CreditInv, NEW p \in DOMAIN net, p.kind = "REQUEST", NEW value \in Caps,
         EarlyData \/ ~InNet(GrantReq(p.msg))
  PROVE  LET a == DataAccount(p, value)
         IN p.msg \in Message /\ Charged(a, p.msg) /\ a.q.accounted
<1> DEFINE m == p.msg
           b == ApplyNewAnnouncement(UpdateSenderStateAimd(
                  Enable(Open(m)), value), m, p.own)
           a == DataAccount(p, value)
           i == p.chunk
<1>1. m \in Message /\ i \in Chunk(m)
  BY DEF CreditInv, IInv, NetOK, Sent, Packet
<1>2. DataPacket(p)
  BY DEF CreditInv, NetInv, PacketInv
<1>3. /\ p.own \in Credited /\ (m \in DOMAIN rxQp \/ p.own = self[m])
      /\ a = ReceiveChunk(b, m, i)
  BY DataAnnounces
<1>4. p.own \in {self[m], NoCredit}
  BY <1>2 DEF DataPacket
<1>5. a.q.accounted
  BY DataParts
<1> HIDE DEF a, m, i
<1>6. Charged(b, m) /\ b.q.accounted
  BY <1>1, <1>3, <1>4, ChargedRequested
<1> HIDE DEF b
<1>7. Charged(ReceiveChunk(b, m, i), m)
  BY <1>1, <1>6, ChargedReceived
<1>8. QED
  BY <1>1, <1>3, <1>5, <1>7 DEF a, m

LEMMA WaitingGranted ==
  ASSUME GrantedInv, CreditInv', NEW p \in DOMAIN net, p.kind = "REQUEST", NEW value \in Caps,
         EarlyData \/ ~InNet(GrantReq(p.msg)),
         Store([DataAccount(p, value) EXCEPT !.q.timer =
                  DataAccount(p, value).q.accounted /\ ~DataAccount(p, value).q.done], p.msg)
  PROVE  GrantedInv'
<1> DEFINE m == p.msg
           c == DataAccount(p, value)
           a == [c EXCEPT !.q.timer = c.q.accounted /\ ~c.q.done]
<1>1. m \in Message /\ Charged(c, m) /\ c.q.accounted
  BY ChargedData DEF GrantedInv
<1>2. Store(a, m)
  OBVIOUS
<1> HIDE DEF m, c
<1>3. c \in [st : SoundState, q : RxQpType, out : Nat]
  BY <1>1 DEF Charged, Account
<1>4. /\ a \in Account /\ a.st = c.st
      /\ a.q.accounted = c.q.accounted /\ a.q.pending = c.q.pending /\ a.q.chunks = c.q.chunks
  <2>1. c.q.accounted \in BOOLEAN /\ c.q.done \in BOOLEAN
    BY <1>3 DEF RxQpType
  <2>2. a \in [st : SoundState, q : RxQpType, out : Nat]
    BY <1>3, <2>1 DEF RxQpType
  <2>3. QED
    BY <1>3, <2>2 DEF Account, RxQpType
<1> HIDE DEF a
<1>5. Charged(a, m)
  BY <1>1, <1>4, ChargedSame
<1>6. QED
  BY <1>1, <1>2, <1>4, <1>5, GrantedStored

\* When the receiver forgets a sender, all its messages are received, so that
\* nothing is outstanding.
LEMMA CompletedGranted ==
  ASSUME GrantedInv, CreditInv', NEW p \in DOMAIN net, p.kind = "REQUEST", NEW value \in Caps,
         EarlyData \/ ~InNet(GrantReq(p.msg)),
         LET a == DataAccount(p, value)
         IN /\ rxQp' = Put(rxQp, p.msg, [a EXCEPT !.q.done = TRUE, !.q.timer = FALSE].q)
            /\ senderStates' = Forget(Put(senderStates, Src[p.msg], a.st), p.msg)
  PROVE  GrantedInv'
<1> DEFINE m == p.msg
           s == Src[m]
           a == DataAccount(p, value)
           q == [a EXCEPT !.q.done = TRUE, !.q.timer = FALSE].q
<1>1. m \in Message /\ Charged(a, m) /\ a.q.accounted
  BY ChargedData DEF GrantedInv
<1>2. /\ rxQp' = Put(rxQp, m, q)
      /\ senderStates' = Forget(Put(senderStates, s, a.st), m)
  OBVIOUS
<1>3. a.st.msgs = Listed(s) \cup {m}
  BY DataParts DEF GrantedInv
<1> HIDE DEF m, a
<1>4. a \in [st : SoundState, q : RxQpType, out : Nat] /\ a.st \in SenderStateType
  BY <1>1, AccountParts DEF Charged, Account
<1>5. q.accounted = a.q.accounted /\ q.pending = a.q.pending /\ q.chunks = a.q.chunks
  BY <1>4 DEF RxQpType
<1> HIDE DEF q
<1>6. /\ \A x \in Sender \ {s} : OutData(x)' = OutData(x)
      /\ s \in DOMAIN senderStates' => OutData(s)' = a.st.outData
      /\ s \notin DOMAIN senderStates' => OutData(s)' = 0
  BY <1>1, <1>2, <1>3, <1>4, ReceiverForgets
<1>7. CASE s \in DOMAIN senderStates'
  BY <1>1, <1>2, <1>5, <1>6, <1>7, GrantedKeeps
<1>8. CASE s \notin DOMAIN senderStates'
  <2> DEFINE g == [x \in Messages(s) |-> Outstanding(x)']
             z == [x \in Messages(s) |-> 0]
  <2>1. IsFiniteSet(Messages(s)) /\ Messages(s) \subseteq Message
    BY MessageAssumption, FS_Subset DEF Messages
  <2>2. ASSUME NEW x \in Messages(s) PROVE g[x] \in Int /\ g[x] <= 0
    <3>1. x \in Message /\ Src[x] = s /\ ReceiverInv(x)' /\ FramesFit
      BY <2>1 DEF Messages, CreditInv, HostInv, Ordinary
    <3>2. Known' = {y \in DOMAIN rxQp' : rxQp'[y].accounted}
      BY DEF Known
    <3>3. CASE x \in DOMAIN rxQp'
      <4>1. rxQp'[x].chunks = Chunk(x) /\ rxQp'[x].pending \in Nat /\ rxQp'[x].accounted
        BY <1>8, <3>1, <3>3 DEF ReceiverInv
      <4>2. Got(x)' = Chunk(x)
        BY <3>3, <4>1 DEF Got
      <4>3. Received(x)' = SumFunctionOnSet([i \in Chunk(x) |-> Payload(x, i)], Chunk(x))
        BY <4>2 DEF Received
      <4>4. Received(x)' = Size[x] /\ Size[x] \in Nat
        BY <3>1, <4>3, WholeMessage, MessageAssumption
      <4>5. g[x] = (Size[x] - rxQp'[x].pending) - Size[x]
        BY <3>2, <3>3, <4>1, <4>4 DEF Outstanding
      <4>6. QED
        BY <4>1, <4>4, <4>5
    <3>4. CASE x \notin DOMAIN rxQp'
      BY <3>2, <3>4 DEF Outstanding
    <3>5. QED
      BY <3>3, <3>4
  <2>3. \A x \in Messages(s) : z[x] \in Int /\ z[x] = 0
    OBVIOUS
  <2>4. GrantedTo(s)' <=> (SumFunctionOnSet(g, Messages(s)) <= OutData(s)')
    BY DEF GrantedTo, Messages
  <2> HIDE DEF g, z
  <2>5. SumFunctionOnSet(g, Messages(s)) <= SumFunctionOnSet(z, Messages(s))
    BY <2>1, <2>2, <2>3, SumMonotone
  <2>6. SumFunctionOnSet(z, Messages(s)) = 0
    BY <2>1, <2>3, SumZero
  <2>7. GrantedTo(s)'
    BY <1>6, <1>8, <2>4, <2>5, <2>6
  <2>8. \A x \in Sender \ {s} : GrantedTo(x)'
    BY <1>1, <1>2, <1>6, OthersGranted DEF GrantedInv
  <2>9. QED
    BY <2>7, <2>8 DEF GrantedInv
<1>9. QED
  BY <1>7, <1>8

LEMMA ReceiveDataGranted ==
  ASSUME GrantedInv, CreditInv', NEW p \in DOMAIN net, p.kind = "REQUEST", ReceiveData(p)
  PROVE  GrantedInv'
<1>1. EarlyData \/ ~InNet(GrantReq(p.msg))
  BY DEF ReceiveData
<1>2. PICK value \in Caps :
        LET a == DataAccount(p, value)
            finished == [a EXCEPT !.q.done = TRUE, !.q.timer = FALSE]
            waiting == [a EXCEPT !.q.timer = a.q.accounted /\ ~a.q.done]
        IN \/ Store(waiting, p.msg)
           \/ /\ rxQp' = Put(rxQp, p.msg, finished.q)
              /\ senderStates' = Forget(Put(senderStates, Src[p.msg], a.st), p.msg)
  BY DEF ReceiveData, DataAccount
<1>3. QED
  BY <1>1, <1>2, WaitingGranted, CompletedGranted

\* A bounced grant is demand again, as far as it was charged.
LEMMA ReceiveBouncedGranted ==
  ASSUME GrantedInv, CreditInv', NEW p \in DOMAIN net, p.kind = "BOUNCED", ReceiveBounced(p)
  PROVE  GrantedInv'
<1> DEFINE m == p.msg
           open == Enable(Open(m))
           data == Least(p.data, open.st.outData)
           wire == Least(p.wire, open.st.outWire)
           back == Reclaim(open, data, wire)
           timer == back.q.timer \/ (open.q.accounted /\ ~open.q.done)
           a == [back EXCEPT !.st.pending = @ + data, !.q.pending = @ + data, !.q.timer = timer]
<1>1. /\ m \in Message /\ m \in DOMAIN rxQp /\ p.data \in Nat /\ p.wire \in Nat
      /\ rxQp[m].accounted /\ CreditInv
  <2>1. m \in Message /\ CreditInv
    BY DEF GrantedInv, CreditInv, IInv, NetOK, Sent, Packet
  <2>2. CreditPacket(p)
    BY <2>1 DEF CreditInv, NetInv, PacketInv
  <2>3. ReceiverInv(m) /\ FramesFit
    BY <2>1, GrantedTerms DEF CreditInv, HostInv
  <2>4. QED
    BY <2>1, <2>2, <2>3, WireNat DEF CreditPacket, ReceiverInv
<1>2. Charged(open, m) /\ open.q = rxQp[m]
  <2>1. PICK value : value \in Caps
    BY CapFloor
  <2>2. Charged(open, m) /\ open.q = Open(m).q
    BY <1>1, <2>1, ChargedUpdated
  <2> HIDE DEF open
  <2>3. QED
    BY <1>1, <2>2 DEF Open
<1>3. Store(a, m)
  BY <1>1 DEF ReceiveBounced
<1> HIDE DEF open, m
<1>4. /\ open \in Account /\ open.st.outData \in Nat /\ open.st.outWire \in Nat
      /\ open.q.pending \in Nat /\ open.q.accounted /\ open.q.chunks \subseteq Chunk(m)
  BY <1>1, <1>2, AccountParts DEF Charged
<1>5. /\ data \in Nat /\ data <= open.st.outData
      /\ wire \in Nat /\ wire <= open.st.outWire
  BY <1>1, <1>4, LeastMost
<1> HIDE DEF data, wire
<1>6. back \in Account /\ back.q = open.q /\ back.st.outData = open.st.outData - data
  <2>1. back \in Account
    BY <1>4, <1>5, ReclaimSound
  <2>2. back.q = open.q /\ back.st.outData = open.st.outData - data
    BY <1>4, <1>5, ReclaimParts
  <2>3. QED
    BY <2>1, <2>2
<1>7. timer \in BOOLEAN
  BY <1>4, <1>6, AccountParts DEF RxQpType
<1> HIDE DEF back, timer
<1>8. /\ a \in Account /\ a.st.outData = back.st.outData
      /\ a.q.accounted = open.q.accounted /\ a.q.pending = open.q.pending + data
      /\ a.q.chunks = open.q.chunks
  <2>1. back.st.pending + data \in Nat /\ back.q.pending + data \in Nat
    BY <1>5, <1>6, AccountParts
  <2>2. back \in [st : SenderStateType, q : RxQpType, out : Nat] /\ Floor(back.st)
    BY <1>6, AccountParts DEF Account
  <2>3. a \in [st : SenderStateType, q : RxQpType, out : Nat]
    BY <1>7, <2>1, <2>2 DEF SenderStateType, RxQpType
  <2>4. a.st = [back.st EXCEPT !.pending = @ + data]
    BY <2>2 DEF SenderStateType, RxQpType
  <2>5. a.q = [back.q EXCEPT !.pending = @ + data, !.timer = timer]
    BY <2>2 DEF SenderStateType, RxQpType
  <2> HIDE DEF a
  <2>6. Floor(a.st) /\ a.st.outData = back.st.outData
    BY <2>2, <2>4 DEF Floor, SenderStateType
  <2>7. /\ a.q.accounted = back.q.accounted /\ a.q.pending = back.q.pending + data
        /\ a.q.chunks = back.q.chunks
    BY <2>2, <2>5 DEF RxQpType
  <2>8. QED
    BY <1>6, <2>3, <2>6, <2>7 DEF Account, SoundState
<1> HIDE DEF a
<1>9. open.st.outData + Owed(a.q, m) <= a.st.outData + Owed(open.q, m)
  <2>1. Loads(m, open.q.chunks) \in Nat /\ Size[m] \in Nat
    BY <1>1, <1>4, LoadsNat, GrantedTerms, MessageAssumption
  <2>2. Owed(open.q, m) = (Size[m] - open.q.pending) - Loads(m, open.q.chunks)
    BY <1>4 DEF Owed
  <2>3. Owed(a.q, m) = (Size[m] - (open.q.pending + data)) - Loads(m, open.q.chunks)
    BY <1>4, <1>8 DEF Owed
  <2>4. QED
    BY <1>4, <1>5, <1>6, <1>8, <2>1, <2>2, <2>3
<1>10. Charged(a, m) /\ a.q.accounted
  BY <1>1, <1>2, <1>4, <1>8, <1>9, ChargedMoves
<1>11. QED
  BY <1>1, <1>3, <1>10, GrantedStored

\* A grant is charged, to the byte.
LEMMA IssueCreditGrantGranted ==
  ASSUME GrantedInv, CreditInv', NEW m \in Grantable, IssueCreditGrant(m)
  PROVE  GrantedInv'
<1> DEFINE o == Open(m)
           data == Ask(o.st, o.q)
           wire == W(data)
           a == Charge(o, data, wire)
<1>1. m \in Message /\ m \in DOMAIN rxQp /\ CreditInv
  BY DEF Grantable, GrantedInv, CreditInv, IInv, RecvOK, RxQpOK
<1>2. Charged(o, m) /\ o.q = rxQp[m] /\ rxQp[m].accounted /\ FramesFit
  <2>1. Charged(o, m) /\ FramesFit
    BY <1>1, ChargedOpens, GrantedTerms
  <2>2. ReceiverInv(m)
    BY <1>1 DEF CreditInv, HostInv
  <2>3. QED
    BY <1>1, <2>1, <2>2 DEF Open, ReceiverInv
<1>3. Store(a, m)
  BY DEF IssueCreditGrant, W
<1> HIDE DEF o
<1>4. /\ o \in Account /\ o.st.outData \in Nat /\ o.q \in RxQpType
      /\ o.q.pending \in Nat /\ o.q.accounted /\ o.q.chunks \subseteq Chunk(m)
  BY <1>2, AccountParts DEF Charged
<1>5. data \in Nat /\ data <= o.q.pending
  <2>1. o.st \in SenderStateType /\ o.q \in RxQpType
    BY <1>4, AccountParts
  <2>2. QED
    BY <1>2, <2>1, AskPortion
<1> HIDE DEF data
<1>6. wire \in Nat
  BY <1>2, <1>5, WireNat
<1> HIDE DEF wire
<1>7. /\ a \in Account /\ a.q.accounted /\ a.q.pending = o.q.pending - data
      /\ a.q.chunks = o.q.chunks /\ a.st.outData = o.st.outData + data
  <2>1. a \in Account
    BY <1>4, <1>5, <1>6, ChargeSound
  <2>2. a.q = [o.q EXCEPT !.pending = Minus(@, data)] /\ a.st.outData = o.st.outData + data
    BY <1>4, <1>5, <1>6, ChargeParts
  <2> HIDE DEF a
  <2>3. Minus(o.q.pending, data) = o.q.pending - data
    BY <1>4, <1>5 DEF Minus
  <2>4. QED
    BY <1>4, <2>1, <2>2, <2>3 DEF RxQpType
<1> HIDE DEF a
<1>8. o.st.outData + Owed(a.q, m) <= a.st.outData + Owed(o.q, m)
  <2>1. Loads(m, o.q.chunks) \in Nat /\ Size[m] \in Nat
    BY <1>1, <1>2, <1>4, LoadsNat, MessageAssumption
  <2>2. Owed(o.q, m) = (Size[m] - o.q.pending) - Loads(m, o.q.chunks)
    BY <1>4 DEF Owed
  <2>3. Owed(a.q, m) = (Size[m] - (o.q.pending - data)) - Loads(m, o.q.chunks)
    BY <1>7 DEF Owed
  <2>4. QED
    BY <1>4, <1>5, <1>7, <2>1, <2>2, <2>3
<1>9. Charged(a, m)
  BY <1>1, <1>2, <1>4, <1>7, <1>8, ChargedMoves
<1>10. QED
  BY <1>1, <1>3, <1>7, <1>9, GrantedStored

LEMMA CreditGrantTickGranted ==
  ASSUME GrantedInv, CreditInv', CreditGrantTick
  PROVE  GrantedInv'
<1>1. CASE UNCHANGED <<senderStates, rxQp, globalOut, net>>
  BY <1>1, GrantedRests
<1>2. CASE \E m \in Grantable : IssueCreditGrant(m)
  BY <1>2, IssueCreditGrantGranted
<1>3. QED
  BY <1>1, <1>2 DEF CreditGrantTick

LEMMA ResendTimeoutGranted ==
  ASSUME GrantedInv, CreditInv', NEW m \in Message, HandleCreditBouncerResendTimeout(m)
  PROVE  GrantedInv'
<1>1. PICK again \in BOOLEAN :
        /\ m \in DOMAIN rxQp /\ rxQp' = [rxQp EXCEPT ![m].timer = again]
        /\ senderStates' = Put(senderStates, Src[m], GetSenderState(m))
        /\ globalOut' = globalOut
  BY DEF HandleCreditBouncerResendTimeout
<1> DEFINE a == [st |-> GetSenderState(m), q |-> [rxQp[m] EXCEPT !.timer = again],
                 out |-> globalOut]
<1>2. /\ Open(m).st = GetSenderState(m) /\ Open(m).q = rxQp[m] /\ Open(m).out = globalOut
      /\ Charged(Open(m), m) /\ rxQp[m].accounted /\ rxQp[m] \in RxQpType
  <2>1. Charged(Open(m), m) /\ ReceiverInv(m)
    BY ChargedOpens DEF GrantedInv, CreditInv, HostInv
  <2>2. rxQp[m] \in RxQpType
    BY <1>1 DEF GrantedInv, CreditInv, IInv, RecvOK, RxQpOK
  <2>3. QED
    BY <1>1, <2>1, <2>2 DEF Open, ReceiverInv
<1>3. /\ a.q \in RxQpType /\ a.q.accounted = rxQp[m].accounted
      /\ a.q.pending = rxQp[m].pending /\ a.q.chunks = rxQp[m].chunks
  BY <1>2 DEF RxQpType
<1>4. a \in Account
  BY <1>2, <1>3 DEF Charged, Account
<1>5. Store(a, m)
  <2>1. Put(rxQp, m, a.q) = [rxQp EXCEPT ![m].timer = again]
    BY <1>1 DEF Put
  <2>2. QED
    BY <1>1, <2>1 DEF Store
<1>6. a.st = GetSenderState(m)
  OBVIOUS
<1> HIDE DEF a
<1>7. Charged(a, m) /\ a.q.accounted
  BY <1>2, <1>3, <1>4, <1>6, ChargedSame
<1>8. QED
  BY <1>1, <1>5, <1>7, GrantedStored

LEMMA InitGranted == Ordinary /\ Init => GrantedInv
<1> SUFFICES ASSUME Ordinary, Init PROVE GrantedInv
  OBVIOUS
<1>1. CreditInv
  BY InitCredit
<1>2. ASSUME NEW s \in Sender PROVE GrantedTo(s)
  <2> DEFINE f == [m \in Messages(s) |-> Outstanding(m)]
  <2>1. DOMAIN senderStates = {} /\ DOMAIN rxQp = {}
    BY DEF Init
  <2>2. IsFiniteSet(Messages(s)) /\ \A m \in Messages(s) : f[m] = 0
    BY <2>1, MessageAssumption, FS_Subset DEF Messages, Outstanding, Known
  <2>3. OutData(s) = 0
    BY <2>1 DEF OutData
  <2> HIDE DEF f
  <2>4. SumFunctionOnSet(f, Messages(s)) = 0
    BY <2>2, SumZero
  <2>5. QED
    BY <2>3, <2>4 DEF f, GrantedTo
<1>3. QED
  BY <1>1, <1>2 DEF GrantedInv

LEMMA NextGranted == GrantedInv /\ [Next]_vars => GrantedInv'
<1> SUFFICES ASSUME GrantedInv, [Next]_vars PROVE GrantedInv'
  OBVIOUS
<1>1. CreditInv'
  BY NextCredit DEF GrantedInv
<1>2. ASSUME NEW m \in Message, AddQueuePair(m) \/ GetNxtPacket(m) PROVE GrantedInv'
  BY <1>1, <1>2, GrantedRests DEF AddQueuePair, GetNxtPacket, recvVars
<1>3. ASSUME NEW m \in Message, HandleCreditBouncerResendTimeout(m) PROVE GrantedInv'
  BY <1>1, <1>3, ResendTimeoutGranted
<1>4. CASE CreditGrantTick
  BY <1>1, <1>4, CreditGrantTickGranted
<1>5. ASSUME NEW p \in DOMAIN net, p.kind = "GRANT_REQ", ReceiveGrantReq(p) PROVE GrantedInv'
  BY <1>1, <1>5, ReceiveGrantReqGranted
<1>6. ASSUME NEW p \in DOMAIN net, p.kind = "REQUEST", ReceiveData(p) PROVE GrantedInv'
  BY <1>1, <1>6, ReceiveDataGranted
<1>7. ASSUME NEW p \in DOMAIN net, p.kind = "BOUNCED", ReceiveBounced(p) PROVE GrantedInv'
  BY <1>1, <1>7, ReceiveBouncedGranted
<1>8. ASSUME NEW p \in DOMAIN net,
             ReceiveGrant(p) \/ ReceiveResend(p) \/ Bounce(p) \/ Lose(p)
      PROVE  GrantedInv'
  BY <1>1, <1>8, GrantedRests DEF ReceiveGrant, ReceiveResend, Bounce, Lose, recvVars
<1>9. CASE UNCHANGED vars
  BY <1>1, <1>9, GrantedRests DEF vars, recvVars
<1>10. QED
  BY <1>2, <1>3, <1>4, <1>5, <1>6, <1>7, <1>8, <1>9 DEF Next, ReceiveCreditBouncer

\* A sender is charged for all the payload its messages were granted and have
\* not received, whichever of them spends a grant, in whatever portions data
\* answers it, and whatever is lost, bounced or forgotten: outData bounds from
\* above what the receiver still expects, for any sizes and any classes.
THEOREM ChargeCoversGranted == Ordinary => (Spec => []GrantedIsOutstanding)
<1>1. ASSUME Ordinary PROVE Spec => []GrantedIsOutstanding
  <2>1. Init => GrantedInv
    BY <1>1, InitGranted
  <2>2. GrantedInv => GrantedIsOutstanding
    BY DEF GrantedInv, GrantedTo, GrantedIsOutstanding
  <2>3. QED
    BY <2>1, <2>2, NextGranted, PTL DEF Spec
<1>2. QED
  BY <1>1

(***************************************************************************)
(* Demand.  Where a message that has the pool of its sender to share gives *)
(* itself no credit, frames need not be whole chunks: a sender is never    *)
(* forgotten with demand, so none is lost.                                 *)
(***************************************************************************)
Shared(m) == \E x \in Message \ {m} : Src[x] = Src[m]
Separate == \A m \in Message : Shared(m) => AddHeader(Size[m], FALSE) > UnsolThresh
LendsNothing == \A m \in Message : Shared(m) => self[m] = NoCredit

DemandInv ==
  /\ CreditInv /\ Separate /\ LendsNothing
  /\ \A s \in Sender : Listed(s) \subseteq {m \in DOMAIN rxQp : Src[m] = s}
  /\ DemandIsAccounted

\* An account of a handler that has more demand than its sender by as much as
\* its message has.
Matched(a, m) ==
  /\ a \in Account
  /\ a.st.pending + Wanted(m) = Pending(Src[m]) + a.q.pending
  /\ a.st.msgs = Listed(Src[m]) \cup {m}

\* Demand is a number of bytes, of which a sender has no less than a message.
LEMMA DemandTerms ==
  ASSUME DemandInv
  PROVE  /\ \A m \in Message : /\ Wanted(m) \in Nat /\ Wanted(m) <= Pending(Src[m])
                               /\ Src[m] \in Sender
         /\ \A s \in Sender : Pending(s) \in Nat
<1>1. RecvOK
  BY DEF DemandInv, CreditInv, IInv
<1>2. \A m \in Message : Wanted(m) \in Nat
  BY <1>1 DEF Wanted, RecvOK, RxQpOK, RxQpType
<1>3. ASSUME NEW s \in Sender PROVE Pending(s) \in Nat
  <2>1. CASE s \in DOMAIN senderStates
    <3>1. senderStates[s] \in SenderStateType
      BY <1>1, <2>1 DEF RecvOK, SenderStatesOK, SoundState
    <3>2. QED
      BY <2>1, <3>1 DEF Pending, SenderStateType
  <2>2. CASE s \notin DOMAIN senderStates
    BY <2>2 DEF Pending
  <2>3. QED
    BY <2>1, <2>2
<1>4. ASSUME NEW m \in Message PROVE Wanted(m) <= Pending(Src[m]) /\ Src[m] \in Sender
  <2> DEFINE f == [x \in Messages(Src[m]) |-> Wanted(x)]
  <2>1. IsFiniteSet(Messages(Src[m])) /\ m \in Messages(Src[m]) /\ Src[m] \in Sender
    BY MessageAssumption, FS_Subset DEF Messages
  <2>2. \A x \in Messages(Src[m]) : f[x] \in Nat
    BY <1>2 DEF Messages
  <2>3. f[m] = Wanted(m) /\ Pending(Src[m]) = SumFunctionOnSet(f, Messages(Src[m]))
    BY <2>1 DEF DemandInv, DemandIsAccounted
  <2> HIDE DEF f
  <2>4. f[m] <= SumFunctionOnSet(f, Messages(Src[m]))
    BY <2>1, <2>2, SumNat
  <2>5. QED
    BY <2>1, <2>3, <2>4
<1>5. QED
  BY <1>2, <1>3, <1>4

\* So of a matched account.
LEMMA MatchedBounds ==
  ASSUME DemandInv, NEW m \in Message, NEW a, Matched(a, m)
  PROVE  /\ a.st.pending \in Nat /\ a.q.pending \in Nat /\ a.q.pending <= a.st.pending
         /\ Wanted(m) \in Nat /\ Pending(Src[m]) \in Nat
<1>1. Wanted(m) \in Nat /\ Wanted(m) <= Pending(Src[m]) /\ Pending(Src[m]) \in Nat
  BY DemandTerms
<1>2. a.st.pending \in Nat /\ a.q.pending \in Nat
  BY AccountParts DEF Matched
<1>3. a.st.pending + Wanted(m) = Pending(Src[m]) + a.q.pending
  BY DEF Matched
<1>4. QED
  BY <1>1, <1>2, <1>3

\* A step of an account that adds as much to the one as to the other.
LEMMA MatchMoves ==
  ASSUME DemandInv, NEW m \in Message, NEW a, Matched(a, m), NEW b \in Account,
         b.st.pending + a.q.pending = a.st.pending + b.q.pending,
         b.st.msgs = a.st.msgs
  PROVE  Matched(b, m)
<1>1. /\ a.st.pending \in Nat /\ a.q.pending \in Nat
      /\ Wanted(m) \in Nat /\ Pending(Src[m]) \in Nat
  BY MatchedBounds
<1>2. b.st.pending \in Nat /\ b.q.pending \in Nat
  BY AccountParts
<1>3. a.st.pending + Wanted(m) = Pending(Src[m]) + a.q.pending
  BY DEF Matched
<1>4. b.st.pending + Wanted(m) = Pending(Src[m]) + b.q.pending
  BY <1>1, <1>2, <1>3
<1>5. QED
  BY <1>4 DEF Matched

LEMMA MatchOpens ==
  ASSUME DemandInv, NEW m \in Message
  PROVE  /\ Matched(Open(m), m)
         /\ Open(m).st.pending = Pending(Src[m]) /\ Open(m).q.pending = Wanted(m)
<1>1. RecvOK
  BY DEF DemandInv, CreditInv, IInv
<1>2. /\ Open(m) \in Account /\ Open(m).st.msgs = Listed(Src[m]) \cup {m}
      /\ Open(m).q = IF m \in DOMAIN rxQp THEN rxQp[m] ELSE NewRxQp
      /\ GetSenderState(m) \in SoundState
  BY <1>1, OpenSound, AccountOpens
<1>3. Open(m).q.pending = Wanted(m)
  BY <1>2 DEF Wanted, NewRxQp
<1>4. GetSenderState(m).pending = Pending(Src[m])
  <2>1. CASE Src[m] \in DOMAIN senderStates
    <3>1. senderStates[Src[m]] \in SenderStateType
      BY <1>1, <2>1 DEF RecvOK, SenderStatesOK, SoundState
    <3>2. GetSenderState(m) = [senderStates[Src[m]] EXCEPT !.msgs = @ \cup {m}]
      BY <2>1 DEF GetSenderState
    <3>3. QED
      BY <2>1, <3>1, <3>2 DEF SenderStateType, Pending
  <2>2. CASE Src[m] \notin DOMAIN senderStates
    <3>1. GetSenderState(m) = [NewSenderState EXCEPT !.msgs = @ \cup {m}]
      BY <2>2 DEF GetSenderState
    <3>2. QED
      BY <2>2, <3>1 DEF NewSenderState, Pending
  <2>3. QED
    BY <2>1, <2>2
<1>5. Open(m).st.pending = GetSenderState(m).pending
  <2>1. GetSenderState(m) \in SenderStateType
    BY <1>2 DEF SoundState
  <2>2. InitialisedSenderState(GetSenderState(m)).pending = GetSenderState(m).pending
    BY <2>1 DEF InitialisedSenderState, SenderStateType
  <2>3. QED
    BY <2>2 DEF Open
<1>6. Pending(Src[m]) \in Nat /\ Wanted(m) \in Nat
  BY DemandTerms
<1>7. QED
  BY <1>2, <1>3, <1>4, <1>5, <1>6 DEF Matched

\* Enabling a state and moving its cap leave its demand.
LEMMA MatchUpdated ==
  ASSUME DemandInv, NEW m \in Message, NEW value \in Caps
  PROVE  LET a == UpdateSenderStateAimd(Enable(Open(m)), value)
         IN /\ Matched(Enable(Open(m)), m) /\ Matched(a, m)
            /\ Enable(Open(m)).q = Open(m).q /\ a.q = Open(m).q
<1> DEFINE e == Enable(Open(m))
           a == UpdateSenderStateAimd(e, value)
<1>1. Open(m) \in Account /\ e \in Account
  BY OpenSound DEF DemandInv, CreditInv, IInv
<1>2. a \in Account
  BY <1>1, AimdSound
<1>3. e.q = Open(m).q /\ e.st.msgs = Open(m).st.msgs /\ a.q = e.q /\ a.st.msgs = e.st.msgs
  BY <1>1, SameAccount
<1>4. e.st.pending = Open(m).st.pending
  <2>1. Open(m) \in [st : SenderStateType, q : RxQpType, out : Nat]
    BY <1>1, AccountParts DEF Account
  <2>2. QED
    BY <2>1 DEF Enable, SenderStateType
<1>5. a.st.pending = e.st.pending
  <2>1. e \in [st : SenderStateType, q : RxQpType, out : Nat]
    BY <1>1, AccountParts DEF Account
  <2>2. PICK cap : a = [e EXCEPT !.st.cap = cap, !.st.srpb = Least(@, cap)]
    BY DEF UpdateSenderStateAimd
  <2> HIDE DEF e, a
  <2>3. QED
    BY <2>1, <2>2 DEF SenderStateType
<1> HIDE DEF e, a
<1>6. Matched(e, m)
  <2>1. Open(m).st.pending \in Nat /\ Open(m).q.pending \in Nat
    BY <1>1, AccountParts
  <2>2. e.st.pending + Open(m).q.pending = Open(m).st.pending + e.q.pending
    BY <1>3, <1>4, <2>1
  <2>3. QED
    BY <1>1, <1>3, <2>2, MatchOpens, MatchMoves
<1>7. Matched(a, m)
  <2>1. e.st.pending \in Nat /\ e.q.pending \in Nat
    BY <1>1, AccountParts
  <2>2. a.st.pending + e.q.pending = e.st.pending + a.q.pending
    BY <1>3, <1>5, <2>1
  <2>3. QED
    BY <1>2, <1>3, <1>6, <2>2, MatchMoves
<1>8. QED
  BY <1>3, <1>6, <1>7 DEF e, a

\* Demand that gets credit goes from both.
LEMMA MatchCharged ==
  ASSUME DemandInv, NEW m \in Message, NEW a, Matched(a, m),
         NEW data \in Nat, NEW wire \in Nat, data <= a.q.pending
  PROVE  Matched(Charge(a, data, wire), m)
<1> DEFINE b == Charge(a, data, wire)
<1>1. a \in Account /\ a \in [st : SenderStateType, q : RxQpType, out : Nat]
  BY AccountParts DEF Matched, Account
<1>2. b \in Account
  BY <1>1, ChargeSound
<1>3. /\ b.q.pending = Minus(a.q.pending, data) /\ b.st.pending = Minus(a.st.pending, data)
      /\ b.st.msgs = a.st.msgs
  BY <1>1 DEF Charge, SenderStateType, RxQpType
<1> HIDE DEF b
<1>4. a.st.pending \in Nat /\ a.q.pending \in Nat /\ a.q.pending <= a.st.pending
  BY MatchedBounds
<1>5. b.q.pending = a.q.pending - data /\ b.st.pending = a.st.pending - data
  BY <1>3, <1>4 DEF Minus
<1>6. b.st.pending + a.q.pending = a.st.pending + b.q.pending
  BY <1>4, <1>5
<1>7. QED
  BY <1>2, <1>3, <1>6, MatchMoves DEF b

\* So does an announcement bring it.
LEMMA MatchAnnounced ==
  ASSUME DemandInv, NEW m \in Message, NEW a, Matched(a, m),
         a.q.accounted \/ a.q = NewRxQp,
         NEW own \in Credited, own.data <= Size[m]
  PROVE  Matched(ApplyNewAnnouncement(a, m, own), m)
<1> DEFINE known == [a EXCEPT
        !.q.accounted = TRUE, !.q.timer = TRUE, !.q.chunks = {}, !.q.done = FALSE,
        !.q.pending = @ + Size[m], !.st.pending = @ + Size[m]]
           data == Least(own.data, known.st.pending)
<1>1. CASE a.q.accounted
  BY <1>1 DEF ApplyNewAnnouncement
<1>2. CASE ~a.q.accounted
  <2>1. /\ a \in [st : SenderStateType, q : RxQpType, out : Nat] /\ Floor(a.st)
        /\ Size[m] \in Nat /\ a.st.pending \in Nat /\ a.q.pending \in Nat
    BY AccountParts, MessageAssumption DEF Matched, Account
  <2>2. a.q.pending + Size[m] \in Nat /\ a.st.pending + Size[m] \in Nat
    BY <2>1
  <2>3. known \in [st : SenderStateType, q : RxQpType, out : Nat]
    BY <2>1, <2>2, ZenonT(40) DEF SenderStateType, RxQpType
  <2>4. known.st = [a.st EXCEPT !.pending = @ + Size[m]]
    BY <2>1 DEF SenderStateType, RxQpType
  <2>5. known.q.pending = a.q.pending + Size[m]
    BY <2>1 DEF SenderStateType, RxQpType
  <2>6. /\ known.st.pending = a.st.pending + Size[m] /\ known.st.msgs = a.st.msgs
        /\ Floor(known.st)
    BY <2>1, <2>4 DEF Floor, SenderStateType
  <2>7. ApplyNewAnnouncement(a, m, own) = Charge(known, data, own.wire)
    BY <1>2 DEF ApplyNewAnnouncement
  <2> HIDE DEF known
  <2>8. known \in Account
    BY <2>3, <2>6 DEF Account, SoundState
  <2>9. Matched(known, m)
    <3>1. known.st.pending + a.q.pending = a.st.pending + known.q.pending
      BY <2>1, <2>5, <2>6
    <3>2. QED
      BY <2>6, <2>8, <3>1, MatchMoves
  <2>10. data \in Nat /\ data <= known.q.pending /\ own.wire \in Nat
    <3>1. own.data \in Nat /\ own.wire \in Nat
      BY DEF Credited
    <3>2. known.st.pending \in Nat
      BY <2>1, <2>6
    <3>3. data \in Nat /\ data <= own.data
      BY <3>1, <3>2, LeastMost
    <3>4. QED
      BY <2>1, <2>5, <3>1, <3>3
  <2> HIDE DEF data
  <2>11. QED
    BY <2>7, <2>9, <2>10, MatchCharged
<1>3. QED
  BY <1>1, <1>2

\* Data leaves both.
LEMMA MatchReceived ==
  ASSUME DemandInv, NEW m \in Message, NEW a, Matched(a, m), NEW i \in Chunk(m)
  PROVE  Matched(ReceiveChunk(a, m, i), m)
<1> DEFINE b == ReceiveChunk(a, m, i)
           used == Least(Payload(m, i), a.st.outData)
           counted == [a EXCEPT !.q.chunks = IF a.q.accounted THEN @ \cup {i} ELSE @]
<1>1. a \in Account /\ a \in [st : SoundState, q : RxQpType, out : Nat]
  BY DEF Matched, Account
<1>2. b \in Account
  BY <1>1, ChunkSound
<1>3. CASE a.q.accounted /\ i \in a.q.chunks
  BY <1>3 DEF ReceiveChunk
<1>4. CASE ~(a.q.accounted /\ i \in a.q.chunks)
  <2>1. used \in Nat /\ i \in Nat
    <3>1. Payload(m, i) \in Nat /\ a.st.outData \in Nat /\ i \in Nat
      BY <1>1, PayloadType, AccountParts DEF Chunk
    <3>2. QED
      BY <3>1, LeastMost
  <2>2. AddHeader(used, TRUE) \in Nat
    BY <2>1, AddHeaderType
  <2>3. counted \in [st : SoundState, q : RxQpType, out : Nat]
        /\ counted.st = a.st /\ counted.q.pending = a.q.pending
    BY <1>1, <2>1 DEF RxQpType
  <2>4. b = Reclaim(counted, used, AddHeader(used, TRUE))
    BY <1>4 DEF ReceiveChunk
  <2>5. counted \in Account
    BY <2>3 DEF Account
  <2> HIDE DEF b, used, counted
  <2>6. b.q = counted.q /\ b.st.pending = counted.st.pending /\ b.st.msgs = counted.st.msgs
    BY <2>1, <2>2, <2>4, <2>5, ReclaimParts
  <2>7. a.st.pending \in Nat /\ a.q.pending \in Nat
    BY <1>1, AccountParts
  <2>8. b.st.pending + a.q.pending = a.st.pending + b.q.pending
    BY <2>3, <2>6, <2>7
  <2>9. QED
    BY <1>2, <2>3, <2>6, <2>8, MatchMoves DEF b
<1>5. QED
  BY <1>3, <1>4

\* A handler that stores a matched account loses no demand.
LEMMA DemandKeeps ==
  ASSUME DemandInv, CreditInv', NEW m \in Message, NEW a, Matched(a, m),
         NEW q, rxQp' = Put(rxQp, m, q), q.pending = a.q.pending, self' = self,
         \A s \in Sender \ {Src[m]} : Pending(s)' = Pending(s) /\ Listed(s)' = Listed(s),
         Pending(Src[m])' = a.st.pending, Listed(Src[m])' \subseteq a.st.msgs
  PROVE  DemandInv'
<1>1. /\ DOMAIN rxQp' = DOMAIN rxQp \cup {m} /\ rxQp'[m] = q
      /\ \A x \in DOMAIN rxQp \ {m} : rxQp'[x] = rxQp[x]
  BY DEF Put
<1>2. /\ \A x \in Message : Wanted(x) \in Nat
      /\ \A s \in Sender : Pending(s) \in Nat
      /\ a.st.pending \in Nat /\ a.q.pending \in Nat
  BY DemandTerms, MatchedBounds
<1>3. Wanted(m)' = a.q.pending /\ \A x \in Message \ {m} : Wanted(x)' = Wanted(x)
  BY <1>1 DEF Wanted
<1>4. DemandIsAccounted'
  <2> SUFFICES ASSUME NEW s \in Sender
               PROVE  Pending(s)' = SumFunctionOnSet([x \in Messages(s) |-> Wanted(x)'],
                                                     Messages(s))
    BY DEF DemandIsAccounted, Messages
  <2> DEFINE f == [x \in Message |-> Wanted(x)]
             g == [x \in Message |-> IF x = m THEN a.q.pending ELSE Wanted(x)]
             fs == [x \in Messages(s) |-> Wanted(x)]
             gs == [x \in Messages(s) |-> Wanted(x)']
  <2>1. IsFiniteSet(Messages(s)) /\ Messages(s) \subseteq Message
    BY MessageAssumption, FS_Subset DEF Messages
  <2>2. \A x \in Message : f[x] \in Int /\ g[x] \in Int
    BY <1>2
  <2>3. f[m] = Wanted(m) /\ g[m] = a.q.pending /\ \A x \in Message \ {m} : g[x] = f[x]
    OBVIOUS
  <2>4. \A x \in Messages(s) : fs[x] = f[x] /\ gs[x] = g[x]
    BY <1>3, <2>1
  <2>5. Pending(s) = SumFunctionOnSet(fs, Messages(s))
    BY DEF DemandInv, DemandIsAccounted
  <2> HIDE DEF f, g, fs, gs
  <2>6. /\ SumFunctionOnSet(fs, Messages(s)) = SumFunctionOnSet(f, Messages(s))
        /\ SumFunctionOnSet(gs, Messages(s)) = SumFunctionOnSet(g, Messages(s))
    BY <2>1, <2>4, SumCongruent
  <2>7. /\ SumFunctionOnSet(f, Messages(s)) \in Int
        /\ SumFunctionOnSet(g, Messages(s)) =
             SumFunctionOnSet(f, Messages(s)) + (IF s = Src[m] THEN g[m] - f[m] ELSE 0)
    <3>1. \A x \in Message \ {m} : g[x] = f[x]
      BY <2>3
    <3>2. SumFunctionOnSet(f, Messages(s)) \in Int
      BY <2>1, <2>2, SumInt
    <3>3. ASSUME s = Src[m]
          PROVE  SumFunctionOnSet(g, Messages(s)) = SumFunctionOnSet(f, Messages(s)) + g[m] - f[m]
      <4>1. m \in Messages(s) /\ \A x \in Messages(s) : f[x] \in Int /\ g[x] \in Int
        BY <2>1, <2>2, <3>3 DEF Messages
      <4>2. \A x \in Messages(s) \ {m} : g[x] = f[x]
        BY <2>1, <3>1
      <4>3. QED
        BY <2>1, <4>1, <4>2, SumUpdate
    <3>4. ASSUME s # Src[m]
          PROVE  SumFunctionOnSet(g, Messages(s)) = SumFunctionOnSet(f, Messages(s))
      <4>1. \A x \in Messages(s) : g[x] = f[x]
        BY <2>1, <3>1, <3>4 DEF Messages
      <4>2. QED
        BY <2>1, <4>1, SumCongruent
    <3>5. f[m] \in Int /\ g[m] \in Int
      BY <2>2
    <3>6. QED
      BY <3>2, <3>3, <3>4, <3>5
  <2>8. CASE s = Src[m]
    <3>1. a.st.pending + Wanted(m) = Pending(s) + a.q.pending
      BY <2>8 DEF Matched
    <3>2. SumFunctionOnSet(g, Messages(s)) = Pending(s) + (a.q.pending - Wanted(m))
      BY <2>3, <2>5, <2>6, <2>7, <2>8
    <3>3. Wanted(m) \in Nat /\ Pending(s) \in Nat /\ Pending(s)' = a.st.pending
      BY <1>2, <2>8
    <3>4. SumFunctionOnSet(g, Messages(s)) = a.st.pending
      BY <1>2, <3>1, <3>2, <3>3
    <3>5. QED
      BY <2>6, <3>3, <3>4 DEF gs
  <2>9. CASE s # Src[m]
    <3>1. Pending(s)' = Pending(s)
      BY <2>9
    <3>2. SumFunctionOnSet(g, Messages(s)) = SumFunctionOnSet(f, Messages(s))
      BY <2>7, <2>9
    <3>3. QED
      BY <2>5, <2>6, <3>1, <3>2 DEF gs
  <2>10. QED
    BY <2>8, <2>9
<1>5. \A s \in Sender : Listed(s)' \subseteq {x \in DOMAIN rxQp' : Src[x] = s}
  <2>1. \A s \in Sender : Listed(s) \subseteq {x \in DOMAIN rxQp : Src[x] = s}
    BY DEF DemandInv
  <2>2. Listed(Src[m])' \subseteq Listed(Src[m]) \cup {m} /\ Src[m] \in Sender
    BY MessageAssumption DEF Matched
  <2>3. ASSUME NEW s \in Sender PROVE Listed(s)' \subseteq {x \in DOMAIN rxQp' : Src[x] = s}
    <3>1. CASE s = Src[m]
      BY <1>1, <2>1, <2>2, <3>1
    <3>2. CASE s # Src[m]
      BY <1>1, <2>1, <3>2
    <3>3. QED
      BY <3>1, <3>2
  <2>4. QED
    BY <2>3
<1>6. LendsNothing' /\ Separate'
  BY DEF DemandInv, LendsNothing, Separate, Shared
<1>7. QED
  BY <1>4, <1>5, <1>6 DEF DemandInv

\* A step that leaves the receiver and what senders gave themselves.
LEMMA DemandRests ==
  ASSUME DemandInv, CreditInv', UNCHANGED <<rxQp, senderStates>>,
         \A m \in Message : Shared(m) => self'[m] = self[m]
  PROVE  DemandInv'
<1>1. \A s \in Sender : Pending(s)' = Pending(s) /\ Listed(s)' = Listed(s)
  BY DEF Pending, Listed
<1>2. \A m \in Message : Wanted(m)' = Wanted(m)
  BY DEF Wanted
<1>3. DemandIsAccounted'
  <2> SUFFICES ASSUME NEW s \in Sender
               PROVE  Pending(s)' = SumFunctionOnSet([x \in Messages(s) |-> Wanted(x)'],
                                                     Messages(s))
    BY DEF DemandIsAccounted, Messages
  <2>1. [x \in Messages(s) |-> Wanted(x)'] = [x \in Messages(s) |-> Wanted(x)]
    BY <1>2 DEF Messages
  <2>2. QED
    BY <1>1, <2>1 DEF DemandInv, DemandIsAccounted
<1>4. LendsNothing' /\ Separate'
  BY DEF DemandInv, LendsNothing, Separate, Shared
<1>5. QED
  BY <1>1, <1>3, <1>4 DEF DemandInv

\* Store puts the account where Pending and Listed read it.
LEMMA DemandStored ==
  ASSUME DemandInv, CreditInv', NEW m \in Message, NEW a, Matched(a, m), Store(a, m),
         self' = self
  PROVE  DemandInv'
<1>1. /\ DOMAIN senderStates' = DOMAIN senderStates \cup {Src[m]}
      /\ senderStates'[Src[m]] = a.st
      /\ \A s \in DOMAIN senderStates \ {Src[m]} : senderStates'[s] = senderStates[s]
      /\ rxQp' = Put(rxQp, m, a.q)
  BY DEF Store, Put
<1>2. Pending(Src[m])' = a.st.pending /\ Listed(Src[m])' = a.st.msgs
  BY <1>1 DEF Pending, Listed
<1>3. \A s \in Sender \ {Src[m]} : Pending(s)' = Pending(s) /\ Listed(s)' = Listed(s)
  BY <1>1 DEF Pending, Listed
<1>4. QED
  BY <1>1, <1>2, <1>3, DemandKeeps

\* The sender's ledger pays for the demand of a message that is done.
LEMMA DoneHasSlack ==
  ASSUME CreditInv, NEW m \in Message, m \in DOMAIN rxQp, rxQp[m].done
  PROVE  LET reserve == Reserve(m, rxQp[m].pending, net)
         IN /\ Slack(m) = 0 - reserve /\ reserve \in Nat
            /\ rxQp[m].pending \in Nat /\ (rxQp[m].pending > 0 => reserve > 0)
<1> DEFINE reserve == Reserve(m, rxQp[m].pending, net)
<1>1. FramesFit /\ ReceiverInv(m)
  BY DEF CreditInv, HostInv, Ordinary
<1>2. rxQp[m].chunks = Chunk(m) /\ rxQp[m].chunks \subseteq First(m) /\ rxQp[m].pending \in Nat
  BY <1>1 DEF ReceiverInv
<1>3. First(m) = Chunk(m)
  BY <1>2 DEF First
<1>4. Spent(m) = W(Size[m])
  BY <1>1, <1>3, WholeMessage DEF Spent
<1>5. W(Size[m]) \in Nat
  BY <1>1, SizeNat, WireNat
<1>6. reserve \in Nat /\ (rxQp[m].pending > 0 => reserve > 0)
  <2>1. PacketBag(net) /\ IsFiniteSet(InFlight(Src[m]))
    BY MessageAssumption DEF CreditInv, HostInv, IInv, NetOK, PacketBag
  <2>2. IsFiniteSet(InBag(net, Grants(m)))
    BY <2>1, GrantsFly
  <2>3. QED
    BY <1>1, <1>2, <2>1, <2>2, ReserveNat
<1>7. Slack(m) = (W(Size[m]) - reserve) - W(Size[m])
  BY <1>4 DEF Slack, Paid
<1> HIDE DEF reserve
<1>8. Slack(m) = 0 - reserve
  BY <1>5, <1>6, <1>7
<1>9. QED
  BY <1>2, <1>6, <1>8 DEF reserve

\* A sender that is forgotten has no demand: its messages are done, and there
\* is no credit of others that could have paid for them.
Forgotten ==
  \A s \in Sender \ DOMAIN senderStates :
    \A m \in Messages(s) : Wanted(m) = 0

LEMMA ForgottenHasNoDemand == CreditInv /\ LendsNothing => Forgotten
<1> SUFFICES ASSUME CreditInv, LendsNothing, NEW s \in Sender \ DOMAIN senderStates,
                    NEW m \in Messages(s)
             PROVE  Wanted(m) = 0
  BY DEF Forgotten
<1>1. /\ TermsOK /\ SettledOK /\ FramesFit
      /\ IsFiniteSet(Messages(s)) /\ Messages(s) \subseteq Message
      /\ \A x \in Messages(s) : x \in Message /\ Src[x] = s
  BY Terms, Settled, MessageAssumption, FS_Subset DEF CreditInv, HostInv, Ordinary, Messages
<1>2. \A x \in Messages(s) : x \in DOMAIN rxQp => rxQp[x].done /\ rxQp[x].chunks = Chunk(x)
  BY <1>1 DEF CreditInv, HostInv, ReceiverInv
<1>3. CASE m \notin DOMAIN rxQp
  BY <1>3 DEF Wanted
<1>4. CASE m \in DOMAIN rxQp
  <2> DEFINE f == [x \in Messages(s) |-> Slack(x)]
             g == [x \in Messages(s) |-> IF x = m THEN Slack(m) ELSE 0]
             z == [x \in Messages(s) |-> 0]
  <2>1. ASSUME NEW x \in Messages(s)
        PROVE  f[x] \in Int /\ g[x] \in Int /\ f[x] <= g[x] /\ z[x] = 0
    <3>1. Slack(x) \in Int /\ Slack(m) \in Int
      BY <1>1 DEF TermsOK
    <3>2. x # m => Slack(x) <= 0
      <4>1. CASE x = m
        BY <4>1
      <4>2. CASE x \in DOMAIN rxQp
        BY <1>1, <1>2, <4>2 DEF SettledOK
      <4>3. CASE x # m /\ x \notin DOMAIN rxQp
        <5>1. Shared(x)
          BY <1>1, <4>3 DEF Shared
        <5>2. Paid(x) = 0
          BY <1>1, <4>3, <5>1 DEF LendsNothing, Paid, NoCredit
        <5>3. Spent(x) \in Nat
          BY <1>1 DEF TermsOK
        <5>4. QED
          BY <5>2, <5>3 DEF Slack
      <4>4. QED
        BY <4>1, <4>2, <4>3
    <3>3. QED
      BY <3>1, <3>2
  <2>2. SumFunctionOnSet(f, Messages(s)) <= SumFunctionOnSet(g, Messages(s))
    <3> HIDE DEF f, g
    <3>1. QED
      BY <1>1, <2>1, SumMonotone
  <2>3. SumFunctionOnSet(g, Messages(s)) = 0 + Slack(m) - 0
    <3>1. /\ \A x \in Messages(s) : z[x] \in Int /\ g[x] \in Int
          /\ \A x \in Messages(s) \ {m} : g[x] = z[x]
          /\ g[m] = Slack(m) /\ z[m] = 0
      BY <2>1
    <3>2. \A x \in Messages(s) : z[x] = 0
      BY <2>1
    <3> HIDE DEF g, z
    <3>3. SumFunctionOnSet(z, Messages(s)) = 0
      BY <1>1, <3>2, SumZero
    <3>4. SumFunctionOnSet(g, Messages(s)) = SumFunctionOnSet(z, Messages(s)) + g[m] - z[m]
      BY <1>1, <3>1, SumUpdate
    <3>5. QED
      BY <3>1, <3>3, <3>4
  <2>4. 0 <= SumFunctionOnSet(f, Messages(s))
    <3>1. Ledger(s) /\ Held(s) \in Nat /\ Flying(s) \in Nat
      BY <1>1 DEF CreditInv, TermsOK
    <3>2. Held(s) + Flying(s) <= SumFunctionOnSet(f, Messages(s))
      BY <3>1 DEF Ledger, Usable
    <3>3. SumFunctionOnSet(f, Messages(s)) \in Int
      <4> HIDE DEF f
      <4>1. QED
        BY <1>1, <2>1, SumInt
    <3> HIDE DEF f
    <3>4. QED
      BY <3>1, <3>2, <3>3
  <2> DEFINE reserve == Reserve(m, rxQp[m].pending, net)
  <2>5. /\ Slack(m) = 0 - reserve /\ reserve \in Nat
        /\ rxQp[m].pending \in Nat /\ (rxQp[m].pending > 0 => reserve > 0)
    BY <1>1, <1>2, <1>4, DoneHasSlack
  <2>6. SumFunctionOnSet(f, Messages(s)) \in Int
    <3> HIDE DEF f
    <3>1. QED
      BY <1>1, <2>1, SumInt
  <2> HIDE DEF f, g, reserve
  <2>7. reserve = 0
    BY <2>2, <2>3, <2>4, <2>5, <2>6
  <2>8. rxQp[m].pending = 0
    BY <2>5, <2>7
  <2>9. QED
    BY <1>4, <2>8 DEF Wanted
<1>5. QED
  BY <1>3, <1>4

LEMMA ForgottenNext == CreditInv' /\ LendsNothing' => Forgotten'
  BY ForgottenHasNoDemand, PTL

LEMMA MatchRequested ==
  ASSUME DemandInv, NEW m \in Message, NEW value \in Caps, NEW own \in {self[m], NoCredit}
  PROVE  Matched(ApplyNewAnnouncement(
                   UpdateSenderStateAimd(Enable(Open(m)), value), m, own), m)
<1> DEFINE a == UpdateSenderStateAimd(Enable(Open(m)), value)
<1>1. Matched(a, m) /\ a.q = Open(m).q
  BY MatchUpdated
<1>2. a.q.accounted \/ a.q = NewRxQp
  BY <1>1, OpenKnown DEF DemandInv
<1>3. own \in Credited /\ own.data <= Size[m]
  BY OwnPortion DEF DemandInv
<1> HIDE DEF a
<1>4. Matched(ApplyNewAnnouncement(a, m, own), m)
  BY <1>1, <1>2, <1>3, MatchAnnounced
<1>5. QED
  BY <1>4 DEF a

LEMMA ReceiveGrantReqDemand ==
  ASSUME DemandInv, CreditInv', NEW p \in DOMAIN net, p.kind = "GRANT_REQ",
         ReceiveGrantReq(p)
  PROVE  DemandInv'
<1>1. p.msg \in Message
  BY DEF DemandInv, CreditInv, IInv, NetOK, Sent, Packet
<1>2. PICK value \in Caps :
        Store(ApplyNewAnnouncement(UpdateSenderStateAimd(Enable(Open(p.msg)), value),
                                   p.msg, NoCredit), p.msg)
  BY DEF ReceiveGrantReq
<1>3. self' = self
  BY DEF ReceiveGrantReq, sendVars
<1> DEFINE a == ApplyNewAnnouncement(UpdateSenderStateAimd(Enable(Open(p.msg)), value),
                                     p.msg, NoCredit)
<1>4. Matched(a, p.msg)
  BY <1>1, MatchRequested
<1>5. Store(a, p.msg)
  BY <1>2
<1> HIDE DEF a
<1>6. QED
  BY <1>1, <1>3, <1>4, <1>5, DemandStored

\* The account after data.
LEMMA MatchData ==
  ASSUME DemandInv, NEW p \in DOMAIN net, p.kind = "REQUEST", NEW value \in Caps,
         EarlyData \/ ~InNet(GrantReq(p.msg))
  PROVE  p.msg \in Message /\ Matched(DataAccount(p, value), p.msg)
<1> DEFINE m == p.msg
           b == ApplyNewAnnouncement(UpdateSenderStateAimd(
                  Enable(Open(m)), value), m, p.own)
<1>1. m \in Message /\ p.chunk \in Chunk(m)
  BY DEF DemandInv, CreditInv, IInv, NetOK, Sent, Packet
<1>2. DataPacket(p)
  BY DEF DemandInv, CreditInv, NetInv, PacketInv
<1>3. p.own \in {self[m], NoCredit}
  BY <1>2 DEF DataPacket
<1>4. DataAccount(p, value) = ReceiveChunk(b, m, p.chunk)
  BY DataAnnounces DEF DemandInv
<1>5. Matched(b, m)
  BY <1>1, <1>3, MatchRequested
<1> HIDE DEF b
<1>6. Matched(ReceiveChunk(b, m, p.chunk), m)
  BY <1>1, <1>5, MatchReceived
<1>7. QED
  BY <1>1, <1>4, <1>6

LEMMA WaitingDemand ==
  ASSUME DemandInv, CreditInv', NEW p \in DOMAIN net, p.kind = "REQUEST", NEW value \in Caps,
         EarlyData \/ ~InNet(GrantReq(p.msg)), UNCHANGED sendVars,
         Store([DataAccount(p, value) EXCEPT !.q.timer =
                  DataAccount(p, value).q.accounted /\ ~DataAccount(p, value).q.done], p.msg)
  PROVE  DemandInv'
<1> DEFINE m == p.msg
           c == DataAccount(p, value)
           a == [c EXCEPT !.q.timer = c.q.accounted /\ ~c.q.done]
<1>1. m \in Message /\ Matched(c, m)
  BY MatchData
<1>2. Store(a, m) /\ self' = self
  BY DEF sendVars
<1> HIDE DEF m, c
<1>3. c \in [st : SoundState, q : RxQpType, out : Nat]
  BY <1>1 DEF Matched, Account
<1>4. a \in Account /\ a.st = c.st /\ a.q.pending = c.q.pending
  <2>1. c.q.accounted \in BOOLEAN /\ c.q.done \in BOOLEAN
    BY <1>3 DEF RxQpType
  <2>2. a \in [st : SoundState, q : RxQpType, out : Nat]
    BY <1>3, <2>1 DEF RxQpType
  <2>3. QED
    BY <1>3, <2>2 DEF Account, RxQpType
<1> HIDE DEF a
<1>5. c.st.pending \in Nat /\ c.q.pending \in Nat
  BY <1>1, MatchedBounds
<1>6. Matched(a, m)
  BY <1>1, <1>4, <1>5, MatchMoves
<1>7. QED
  BY <1>1, <1>2, <1>6, DemandStored

LEMMA DemandForgets ==
  ASSUME NEW m \in Message, NEW st \in SenderStateType,
         senderStates' = Forget(Put(senderStates, Src[m], st), m)
  PROVE  /\ \A s \in Sender \ {Src[m]} : Pending(s)' = Pending(s) /\ Listed(s)' = Listed(s)
         /\ Listed(Src[m])' \subseteq st.msgs
         /\ Src[m] \in DOMAIN senderStates' => Pending(Src[m])' = st.pending
         /\ Src[m] \notin DOMAIN senderStates' => Pending(Src[m])' = 0
<1> DEFINE s == Src[m]
           states == Put(senderStates, s, st)
           rest == st.msgs \ {m}
<1>1. /\ DOMAIN states = DOMAIN senderStates \cup {s} /\ states[s] = st
      /\ \A y \in DOMAIN senderStates \ {s} : states[y] = senderStates[y]
  BY DEF Put
<1>2. senderStates' = Forget(states, m)
  OBVIOUS
<1> HIDE DEF states
<1>3. CASE rest = {}
  <2>1. /\ DOMAIN senderStates' = DOMAIN senderStates \ {s}
        /\ \A y \in DOMAIN senderStates' : senderStates'[y] = senderStates[y]
    <3>1. /\ DOMAIN senderStates' = DOMAIN states \ {s}
          /\ \A y \in DOMAIN senderStates' : senderStates'[y] = states[y]
      BY <1>1, <1>2, <1>3 DEF Forget
    <3>2. QED
      BY <1>1, <3>1
  <2>2. QED
    BY <2>1 DEF Pending, Listed
<1>4. CASE rest # {}
  <2>1. /\ DOMAIN senderStates' = DOMAIN senderStates \cup {s}
        /\ senderStates'[s] = [st EXCEPT !.msgs = rest]
        /\ \A y \in DOMAIN senderStates' \ {s} : senderStates'[y] = senderStates[y]
    <3>1. /\ DOMAIN senderStates' = DOMAIN states
          /\ senderStates'[s] = [states[s] EXCEPT !.msgs = states[s].msgs \ {m}]
          /\ \A y \in DOMAIN senderStates' \ {s} : senderStates'[y] = states[y]
      BY <1>1, <1>2, <1>4 DEF Forget
    <3>2. QED
      BY <1>1, <3>1
  <2>2. \A y \in Sender \ {s} : Pending(y)' = Pending(y) /\ Listed(y)' = Listed(y)
    BY <2>1 DEF Pending, Listed
  <2>3. senderStates'[s].pending = st.pending /\ senderStates'[s].msgs = rest
    BY <2>1 DEF SenderStateType
  <2>4. Pending(s)' = st.pending /\ Listed(s)' = rest /\ s \in DOMAIN senderStates'
    BY <2>1, <2>3 DEF Pending, Listed
  <2>5. QED
    BY <2>2, <2>4
<1>5. QED
  BY <1>3, <1>4

LEMMA CompletedDemand ==
  ASSUME DemandInv, CreditInv', NEW p \in DOMAIN net, p.kind = "REQUEST", NEW value \in Caps,
         EarlyData \/ ~InNet(GrantReq(p.msg)), self' = self,
         LET a == DataAccount(p, value)
         IN /\ rxQp' = Put(rxQp, p.msg, [a EXCEPT !.q.done = TRUE, !.q.timer = FALSE].q)
            /\ senderStates' = Forget(Put(senderStates, Src[p.msg], a.st), p.msg)
  PROVE  DemandInv'
<1> DEFINE m == p.msg
           s == Src[p.msg]
           a == DataAccount(p, value)
           q == [a EXCEPT !.q.done = TRUE, !.q.timer = FALSE].q
<1>1. m \in Message /\ Matched(a, m) /\ s \in Sender
  BY MatchData, MessageAssumption
<1>2. rxQp' = Put(rxQp, m, q) /\ senderStates' = Forget(Put(senderStates, s, a.st), m)
  OBVIOUS
<1> HIDE DEF a, m
<1>3. a.st \in SenderStateType /\ a.q \in RxQpType
      /\ a \in [st : SoundState, q : RxQpType, out : Nat]
  BY <1>1, AccountParts DEF Matched, Account
<1>4. q.pending = a.q.pending
  BY <1>3 DEF RxQpType
<1> HIDE DEF q
<1>5. /\ \A t \in Sender \ {s} : Pending(t)' = Pending(t) /\ Listed(t)' = Listed(t)
      /\ Listed(s)' \subseteq a.st.msgs
      /\ s \in DOMAIN senderStates' => Pending(s)' = a.st.pending
      /\ s \notin DOMAIN senderStates' => Pending(s)' = 0
  BY <1>1, <1>2, <1>3, DemandForgets DEF m
<1>6. s \notin DOMAIN senderStates' => a.st.pending = 0
  <2> SUFFICES ASSUME s \notin DOMAIN senderStates' PROVE a.st.pending = 0
    OBVIOUS
  <2> DEFINE f == [x \in Messages(s) |-> Wanted(x)]
             z == [x \in Messages(s) |-> 0]
  <2>1. \A x \in Messages(s) : Wanted(x)' = 0
    <3>1. LendsNothing'
      BY DEF DemandInv, LendsNothing, Shared
    <3>2. Forgotten'
      BY <3>1, ForgottenNext
    <3>3. Messages(s)' = Messages(s)
      BY DEF Messages
    <3>4. QED
      BY <1>1, <3>2, <3>3 DEF Forgotten
  <2>2. IsFiniteSet(Messages(s)) /\ m \in Messages(s) /\ Messages(s) \subseteq Message
    BY <1>1, MessageAssumption, FS_Subset DEF Messages, m
  <2>3. /\ DOMAIN rxQp' = DOMAIN rxQp \cup {m} /\ rxQp'[m] = q
        /\ \A x \in DOMAIN rxQp \ {m} : rxQp'[x] = rxQp[x]
    BY <1>2 DEF Put
  <2>4. a.q.pending = 0
    BY <1>4, <2>1, <2>2, <2>3 DEF Wanted
  <2>5. \A x \in Messages(s) \ {m} : Wanted(x) = 0
    BY <2>1, <2>3 DEF Wanted
  <2>6. /\ \A x \in Messages(s) : z[x] \in Int /\ f[x] \in Int
        /\ \A x \in Messages(s) \ {m} : f[x] = z[x]
        /\ \A x \in Messages(s) : z[x] = 0
        /\ f[m] = Wanted(m)
    BY <2>2, <2>5, DemandTerms
  <2>7. Pending(s) = SumFunctionOnSet(f, Messages(s))
    BY <1>1 DEF DemandInv, DemandIsAccounted
  <2> HIDE DEF f, z
  <2>8. SumFunctionOnSet(z, Messages(s)) = 0
    BY <2>2, <2>6, SumZero
  <2>9. SumFunctionOnSet(f, Messages(s)) = SumFunctionOnSet(z, Messages(s)) + f[m] - z[m]
    BY <2>2, <2>6, SumUpdate
  <2>10. Wanted(m) \in Nat /\ a.st.pending \in Nat
    BY <1>1, MatchedBounds
  <2>11. Pending(s) = Wanted(m)
    BY <2>2, <2>6, <2>7, <2>8, <2>9, <2>10
  <2>12. a.st.pending + Wanted(m) = Pending(s) + a.q.pending
    BY <1>1 DEF Matched, m
  <2>13. QED
    BY <2>4, <2>10, <2>11, <2>12
<1>7. Pending(s)' = a.st.pending
  BY <1>5, <1>6
<1>8. s = Src[m]
  BY DEF m
<1> HIDE DEF s
<1>9. QED
  BY <1>1, <1>2, <1>4, <1>5, <1>7, <1>8, DemandKeeps

LEMMA ReceiveDataDemand ==
  ASSUME DemandInv, CreditInv', NEW p \in DOMAIN net, p.kind = "REQUEST", ReceiveData(p)
  PROVE  DemandInv'
<1>1. EarlyData \/ ~InNet(GrantReq(p.msg))
  BY DEF ReceiveData
<1>2. PICK value \in Caps :
        LET a == DataAccount(p, value)
            finished == [a EXCEPT !.q.done = TRUE, !.q.timer = FALSE]
            waiting == [a EXCEPT !.q.timer = a.q.accounted /\ ~a.q.done]
        IN \/ Store(waiting, p.msg) /\ UNCHANGED sendVars
           \/ /\ rxQp' = Put(rxQp, p.msg, finished.q)
              /\ senderStates' = Forget(Put(senderStates, Src[p.msg], a.st), p.msg)
              /\ self' = self
  BY DEF ReceiveData, DataAccount
<1>3. QED
  BY <1>1, <1>2, WaitingDemand, CompletedDemand

\* A bounced grant is demand of its message and of its sender.
LEMMA ReceiveBouncedDemand ==
  ASSUME DemandInv, CreditInv', NEW p \in DOMAIN net, p.kind = "BOUNCED", ReceiveBounced(p)
  PROVE  DemandInv'
<1> DEFINE m == p.msg
           open == Enable(Open(m))
           data == Least(p.data, open.st.outData)
           wire == Least(p.wire, open.st.outWire)
           back == Reclaim(open, data, wire)
           timer == back.q.timer \/ (open.q.accounted /\ ~open.q.done)
           a == [back EXCEPT !.st.pending = @ + data, !.q.pending = @ + data, !.q.timer = timer]
<1>1. m \in Message /\ m \in DOMAIN rxQp /\ p.data \in Nat /\ p.wire \in Nat
  <2>1. m \in Message /\ p.data \in Nat /\ p.wire \in Nat
    BY DEF DemandInv, CreditInv, IInv, NetOK, Sent, Packet
  <2>2. CreditPacket(p)
    BY DEF DemandInv, CreditInv, NetInv, PacketInv
  <2>3. QED
    BY <2>1, <2>2 DEF CreditPacket
<1>2. Matched(open, m)
  <2>1. PICK value : value \in Caps
    BY CapFloor
  <2>2. QED
    BY <1>1, <2>1, MatchUpdated
<1>3. Store(a, m) /\ self' = self
  BY <1>1 DEF ReceiveBounced, sendVars
<1> HIDE DEF open, m
<1>4. /\ open \in Account /\ open.st.outData \in Nat /\ open.st.outWire \in Nat
      /\ open.st.pending \in Nat /\ open.q.pending \in Nat
  BY <1>2, AccountParts DEF Matched
<1>5. data \in Nat /\ wire \in Nat /\ data <= open.st.outData
  BY <1>1, <1>4, LeastMost
<1> HIDE DEF data, wire
<1>6. back \in Account /\ back.q = open.q /\ back.st.pending = open.st.pending
      /\ back.st.msgs = open.st.msgs
  <2>1. back \in Account
    BY <1>4, <1>5, ReclaimSound
  <2>2. back.q = open.q /\ back.st.pending = open.st.pending /\ back.st.msgs = open.st.msgs
    BY <1>4, <1>5, ReclaimParts
  <2>3. QED
    BY <2>1, <2>2
<1>7. timer \in BOOLEAN
  BY <1>4, <1>6, AccountParts DEF RxQpType
<1> HIDE DEF back, timer
<1>8. /\ a \in Account /\ a.st.pending = open.st.pending + data
      /\ a.q.pending = open.q.pending + data /\ a.st.msgs = open.st.msgs
  <2>1. back.st.pending + data \in Nat /\ back.q.pending + data \in Nat
    BY <1>5, <1>6, AccountParts
  <2>2. back \in [st : SenderStateType, q : RxQpType, out : Nat] /\ Floor(back.st)
    BY <1>6, AccountParts DEF Account
  <2>3. a \in [st : SenderStateType, q : RxQpType, out : Nat]
    BY <1>7, <2>1, <2>2 DEF SenderStateType, RxQpType
  <2>4. a.st = [back.st EXCEPT !.pending = @ + data]
    BY <2>2 DEF SenderStateType, RxQpType
  <2>5. a.q = [back.q EXCEPT !.pending = @ + data, !.timer = timer]
    BY <2>2 DEF SenderStateType, RxQpType
  <2> HIDE DEF a
  <2>6. /\ Floor(a.st) /\ a.st.pending = back.st.pending + data
        /\ a.st.msgs = back.st.msgs
    BY <2>2, <2>4 DEF Floor, SenderStateType
  <2>7. a.q.pending = back.q.pending + data
    BY <2>2, <2>5 DEF RxQpType
  <2>8. QED
    BY <1>6, <2>3, <2>6, <2>7 DEF Account, SoundState
<1> HIDE DEF a
<1>9. a.st.pending + open.q.pending = open.st.pending + a.q.pending
  BY <1>4, <1>5, <1>8
<1>10. Matched(a, m)
  BY <1>1, <1>2, <1>8, <1>9, MatchMoves
<1>11. QED
  BY <1>1, <1>3, <1>10, DemandStored

\* A grant is for demand that its message has.
LEMMA IssueCreditGrantDemand ==
  ASSUME DemandInv, CreditInv', NEW m \in Grantable, IssueCreditGrant(m), self' = self
  PROVE  DemandInv'
<1> DEFINE o == Open(m)
           data == Ask(o.st, o.q)
           a == Charge(o, data, AddHeader(data, TRUE))
<1>1. m \in Message /\ m \in DOMAIN rxQp /\ FramesFit
  BY DEF Grantable, DemandInv, CreditInv, HostInv, Ordinary, IInv, RecvOK, RxQpOK
<1>2. Matched(o, m) /\ o.q = rxQp[m] /\ rxQp[m].pending \in Nat
  <2>1. Matched(o, m)
    BY <1>1, MatchOpens
  <2>2. ReceiverInv(m)
    BY <1>1 DEF DemandInv, CreditInv, HostInv
  <2>3. QED
    BY <1>1, <2>1, <2>2 DEF Open, ReceiverInv
<1>3. Store(a, m)
  BY DEF IssueCreditGrant
<1> HIDE DEF o
<1>4. o.st \in SenderStateType /\ o.q \in RxQpType /\ o.q.pending \in Nat
  BY <1>2, AccountParts DEF Matched
<1>5. data \in Nat
  BY <1>4, AskType
<1>6. data <= o.q.pending
  BY <1>1, <1>4, AskPortion
<1> HIDE DEF data
<1>7. AddHeader(data, TRUE) \in Nat
  BY <1>5, AddHeaderType
<1>8. Matched(a, m)
  BY <1>1, <1>2, <1>5, <1>6, <1>7, MatchCharged
<1> HIDE DEF a
<1>9. QED
  BY <1>1, <1>3, <1>8, DemandStored

LEMMA CreditGrantTickDemand ==
  ASSUME DemandInv, CreditInv', CreditGrantTick
  PROVE  DemandInv'
<1>1. self' = self
  BY DEF CreditGrantTick, sendVars
<1>2. CASE UNCHANGED <<senderStates, rxQp, globalOut, net>>
  BY <1>1, <1>2, DemandRests
<1>3. CASE \E m \in Grantable : IssueCreditGrant(m)
  BY <1>1, <1>3, IssueCreditGrantDemand
<1>4. QED
  BY <1>2, <1>3 DEF CreditGrantTick

LEMMA ResendTimeoutDemand ==
  ASSUME DemandInv, CreditInv', NEW m \in Message, HandleCreditBouncerResendTimeout(m)
  PROVE  DemandInv'
<1>1. PICK again \in BOOLEAN :
        /\ m \in DOMAIN rxQp /\ rxQp' = [rxQp EXCEPT ![m].timer = again]
        /\ senderStates' = Put(senderStates, Src[m], GetSenderState(m))
        /\ globalOut' = globalOut /\ self' = self
  BY DEF HandleCreditBouncerResendTimeout, sendVars
<1> DEFINE a == [st |-> GetSenderState(m), q |-> [rxQp[m] EXCEPT !.timer = again],
                 out |-> globalOut]
<1>2. /\ Open(m).st = GetSenderState(m) /\ Open(m).q = rxQp[m] /\ Open(m).out = globalOut
      /\ Matched(Open(m), m) /\ rxQp[m] \in RxQpType
  <2>1. rxQp[m] \in RxQpType
    BY <1>1 DEF DemandInv, CreditInv, IInv, RecvOK, RxQpOK
  <2>2. QED
    BY <1>1, <2>1, MatchOpens DEF Open
<1>3. a.q \in RxQpType /\ a.q.pending = rxQp[m].pending
  BY <1>2 DEF RxQpType
<1>4. a \in Account
  BY <1>2, <1>3 DEF Matched, Account
<1>5. Store(a, m)
  <2>1. Put(rxQp, m, a.q) = [rxQp EXCEPT ![m].timer = again]
    BY <1>1 DEF Put
  <2>2. QED
    BY <1>1, <2>1 DEF Store
<1>6. a.st = Open(m).st
  BY <1>2
<1> HIDE DEF a
<1>7. Open(m).st.pending \in Nat /\ Open(m).q.pending \in Nat
  BY <1>2, MatchedBounds
<1>8. Matched(a, m)
  BY <1>2, <1>3, <1>4, <1>6, <1>7, MatchMoves
<1>9. QED
  BY <1>1, <1>5, <1>8, DemandStored

\* A message that has the pool to share gives itself nothing.
LEMMA SharedLends ==
  ASSUME CreditInv, Separate, LendsNothing, NEW m \in Message, GetNxtPacket(m)
  PROVE  /\ \A x \in Message : Shared(x) => self'[x] = self[x]
         /\ UNCHANGED <<rxQp, senderStates, globalOut>>
<1> DEFINE st == [GetReceiverState(m) EXCEPT !.enabled = TRUE]
<1>1. /\ state[m] = "active" /\ self' = [self EXCEPT ![m] = Classify(m, st).self]
      /\ UNCHANGED <<rxQp, senderStates, globalOut>>
  BY DEF GetNxtPacket, recvVars
<1>2. /\ self \in [Message -> Credited] /\ SendOK /\ PeerInv /\ SenderInv(m)
  BY DEF CreditInv, IInv, HostInv, SendOK
<1>3. st.thresh = UnsolThresh
  <2>1. Src[m] \in DOMAIN receiverStates
    BY <1>1, <1>2 DEF SenderInv
  <2>2. GetReceiverState(m).thresh = UnsolThresh /\ GetReceiverState(m) \in ReceiverStateType
    BY <1>2, <2>1, PeerOpens
  <2>3. QED
    BY <2>2 DEF ReceiverStateType
<1> HIDE DEF st
<1>4. ASSUME Shared(m) PROVE Classify(m, st).self = self[m]
  <2>1. CASE class[m] = "unknown"
    <3>1. self[m] = NoCredit
      BY <1>2, <2>1 DEF SenderInv
    <3>2. AddHeader(Size[m], FALSE) > st.thresh
      BY <1>3, <1>4 DEF Separate
    <3>3. SelfAllocation(m, st) = NoCredit
      BY <3>2 DEF SelfAllocation
    <3>4. QED
      BY <2>1, <3>1, <3>3 DEF Classify
  <2>2. CASE class[m] # "unknown"
    BY <2>2 DEF Classify
  <2>3. QED
    BY <2>1, <2>2
<1>5. \A x \in Message : Shared(x) => self'[x] = self[x]
  BY <1>1, <1>2, <1>4
<1>6. QED
  BY <1>1, <1>5

LEMMA GetNxtPacketDemand ==
  ASSUME DemandInv, CreditInv', NEW m \in Message, GetNxtPacket(m)
  PROVE  DemandInv'
<1>1. /\ \A x \in Message : Shared(x) => self'[x] = self[x]
      /\ UNCHANGED <<rxQp, senderStates>>
  BY SharedLends DEF DemandInv
<1>2. QED
  BY <1>1, DemandRests

LEMMA InitDemand == Ordinary /\ Separate /\ Init => DemandInv
<1> SUFFICES ASSUME Ordinary, Separate, Init PROVE DemandInv
  OBVIOUS
<1>1. CreditInv
  BY InitCredit
<1>2. DOMAIN senderStates = {} /\ DOMAIN rxQp = {} /\ LendsNothing
  BY DEF Init, LendsNothing
<1>3. \A s \in Sender : Pending(s) = 0 /\ Listed(s) = {}
  BY <1>2 DEF Pending, Listed
<1>4. DemandIsAccounted
  <2> SUFFICES ASSUME NEW s \in Sender
               PROVE  Pending(s) = SumFunctionOnSet([m \in Messages(s) |-> Wanted(m)],
                                                    Messages(s))
    BY DEF DemandIsAccounted
  <2> DEFINE f == [m \in Messages(s) |-> Wanted(m)]
  <2>1. IsFiniteSet(Messages(s)) /\ \A m \in Messages(s) : f[m] = 0
    BY <1>2, MessageAssumption, FS_Subset DEF Messages, Wanted
  <2> HIDE DEF f
  <2>2. SumFunctionOnSet(f, Messages(s)) = 0
    BY <2>1, SumZero
  <2>3. QED
    BY <1>3, <2>2 DEF f
<1>5. QED
  BY <1>1, <1>2, <1>3, <1>4 DEF DemandInv

LEMMA NextDemand == DemandInv /\ [Next]_vars => DemandInv'
<1> SUFFICES ASSUME DemandInv, [Next]_vars PROVE DemandInv'
  OBVIOUS
<1>1. CreditInv'
  BY NextCredit DEF DemandInv
<1>2. ASSUME NEW m \in Message, AddQueuePair(m) PROVE DemandInv'
  BY <1>1, <1>2, DemandRests DEF AddQueuePair, recvVars
<1>3. ASSUME NEW m \in Message, GetNxtPacket(m) PROVE DemandInv'
  BY <1>1, <1>3, GetNxtPacketDemand
<1>4. ASSUME NEW m \in Message, HandleCreditBouncerResendTimeout(m) PROVE DemandInv'
  BY <1>1, <1>4, ResendTimeoutDemand
<1>5. CASE CreditGrantTick
  BY <1>1, <1>5, CreditGrantTickDemand
<1>6. ASSUME NEW p \in DOMAIN net, p.kind = "GRANT_REQ", ReceiveGrantReq(p) PROVE DemandInv'
  BY <1>1, <1>6, ReceiveGrantReqDemand
<1>7. ASSUME NEW p \in DOMAIN net, p.kind = "REQUEST", ReceiveData(p) PROVE DemandInv'
  BY <1>1, <1>7, ReceiveDataDemand
<1>8. ASSUME NEW p \in DOMAIN net, ReceiveGrant(p) PROVE DemandInv'
  BY <1>1, <1>8, DemandRests DEF ReceiveGrant, recvVars
<1>9. ASSUME NEW p \in DOMAIN net, p.kind = "BOUNCED", ReceiveBounced(p) PROVE DemandInv'
  BY <1>1, <1>9, ReceiveBouncedDemand
<1>10. ASSUME NEW p \in DOMAIN net, ReceiveResend(p) PROVE DemandInv'
  BY <1>1, <1>10, DemandRests DEF ReceiveResend, recvVars, sendVars
<1>11. ASSUME NEW p \in DOMAIN net, Bounce(p) \/ Lose(p) PROVE DemandInv'
  BY <1>1, <1>11, DemandRests DEF Bounce, Lose, recvVars, sendVars
<1>12. CASE UNCHANGED vars
  BY <1>1, <1>12, DemandRests DEF vars, recvVars, sendVars
<1>13. QED
  BY <1>2, <1>3, <1>4, <1>5, <1>6, <1>7, <1>8, <1>9, <1>10, <1>11, <1>12
     DEF Next, ReceiveCreditBouncer

\* No demand is lost: a sender waits for all that its messages were not
\* granted, until the last of them is forgotten with nothing to wait for.
THEOREM NoDemandIsLost == Ordinary /\ Separate => (Spec => []DemandIsAccounted)
<1>1. ASSUME Ordinary, Separate PROVE Spec => []DemandIsAccounted
  <2>1. Init => DemandInv
    BY <1>1, InitDemand
  <2>2. DemandInv => DemandIsAccounted
    BY DEF DemandInv
  <2>3. QED
    BY <2>1, <2>2, NextDemand, PTL DEF Spec
<1>2. QED
  BY <1>1
=============================================================================
