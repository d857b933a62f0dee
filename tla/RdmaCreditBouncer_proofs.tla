--------------------- MODULE RdmaCreditBouncer_proofs ----------------------
(***************************************************************************)
(* For any senders, messages, sizes, frames, losses and bounces: accounts  *)
(* of the ns-3 receiver stay natural numbers, a budget that AIMD moves     *)
(* never falls below the smallest cap, and the grant clock never stops     *)
(* while a sender has demand.                                              *)
(***************************************************************************)
EXTENDS RdmaCreditBouncer, TLAPS

-----------------------------------------------------------------------------
(* Bytes. *)

\* Minimum, maximum and subtraction without wrap-round.
LEMMA LeastMost ==
  ASSUME NEW a \in Nat, NEW b \in Nat
  PROVE  /\ Least(a, b) \in Nat /\ Least(a, b) <= a /\ Least(a, b) <= b
         /\ Most(a, b) \in Nat /\ Most(a, b) >= a /\ Most(a, b) >= b
         /\ Minus(a, b) \in Nat /\ Minus(a, b) + b >= a
  BY DEF Least, Most, Minus

\* add_header_overhead of a payload is a number of bytes.
LEMMA AddHeaderType ==
  ASSUME NEW payload \in Nat, NEW pad \in BOOLEAN
  PROVE  AddHeader(payload, pad) \in Nat
<1>1. /\ payload \div MTU \in Nat /\ payload % MTU \in Nat
      /\ MTU + Overhead \in Nat /\ MinFrame \in Nat /\ Overhead \in Nat
  BY FrameAssumption
<1>2. (payload \div MTU) * (MTU + Overhead) \in Nat
  BY <1>1
<1>3. Most((payload % MTU) + Overhead, MinFrame) \in Nat
  <2>1. (payload % MTU) + Overhead \in Nat
    BY <1>1
  <2>2. QED
    BY <1>1, <2>1, LeastMost
<1>4. Most((payload \div MTU) * (MTU + Overhead), MinFrame) \in Nat
  BY <1>1, <1>2, LeastMost
<1>5. QED
  BY <1>1, <1>2, <1>3, <1>4 DEF AddHeader

\* So is its inverse, because a frame is longer than its headers.
LEMMA RemoveHeaderType ==
  ASSUME NEW wire \in Nat
  PROVE  RemoveHeader(wire) \in Nat
<1> DEFINE rest == wire % (MTU + Overhead)
<1>1. MTU \in Nat /\ Overhead \in Nat /\ MTU + Overhead \in Nat \ {0} /\ MinFrame > Overhead
      /\ MinFrame \in Nat
  BY FrameAssumption
<1>2. rest \in Nat /\ wire \div (MTU + Overhead) \in Nat
  BY <1>1
<1>3. (wire \div (MTU + Overhead)) * MTU \in Nat
  BY <1>1, <1>2
<1>4. ASSUME rest >= MinFrame PROVE Least(rest - Overhead, MTU) \in Nat
  <2>1. rest - Overhead \in Nat
    BY <1>1, <1>2, <1>4
  <2>2. QED
    BY <1>1, <2>1, LeastMost
<1> HIDE DEF rest
<1>5. QED
  BY <1>3, <1>4 DEF RemoveHeader, rest

\* A grant is at most what it is cut from.
LEMMA AlignChunksType ==
  ASSUME NEW bytes \in Nat, NEW whole \in Nat
  PROVE  AlignChunks(bytes, whole) \in Nat
<1>1. MTU \in Nat \ {0}
  BY FrameAssumption
<1>2. bytes \div MTU \in Nat
  BY <1>1
<1>3. QED
  BY <1>1, <1>2 DEF AlignChunks

\* Every chunk of a message carries some payload.
LEMMA PayloadType ==
  ASSUME NEW m \in Message, NEW i \in Chunk(m)
  PROVE  Payload(m, i) \in Nat /\ Wire(m, i) \in Nat /\ Count(Size[m]) \in Nat
<1> DEFINE count == Count(Size[m])
           last == Size[m] + MTU - 1
<1>1. MTU \in Nat \ {0} /\ Size[m] \in Nat \ {0} /\ last \in Nat
  BY FrameAssumption, MessageAssumption
<1>2. count \in Nat /\ count * MTU <= last
  <2> HIDE DEF last
  <2>1. count = last \div MTU
    BY DEF Count, last
  <2> HIDE DEF count
  <2>2. last \div MTU \in Nat
    BY <1>1
  <2>3. MTU * (last \div MTU) <= last
    BY <1>1
  <2>4. MTU * count = count * MTU
    BY <1>1, <2>1, <2>2
  <2>5. QED
    BY <2>1, <2>2, <2>3, <2>4
<1>3. i \in Nat /\ i + 1 <= count
  BY <1>2 DEF Chunk
<1> HIDE DEF count
<1>4. (i + 1) * MTU <= count * MTU
  BY <1>1, <1>2, <1>3
<1>5. (i + 1) * MTU = i * MTU + MTU /\ i * MTU \in Nat /\ count * MTU \in Nat
  BY <1>1, <1>2, <1>3
<1>6. Size[m] - i * MTU \in Nat
  BY <1>1, <1>2, <1>4, <1>5
<1>7. Payload(m, i) \in Nat
  BY <1>1, <1>6, LeastMost DEF Payload
<1>8. QED
  BY <1>2, <1>7, AddHeaderType DEF Wire, count

-----------------------------------------------------------------------------
(* Accounts: what a handler of the receiver works on. *)

SenderStateType ==
  [enabled : BOOLEAN, ceiling : Nat, cap : Nat, srpb : Nat, gran : Nat,
   pending : Nat, outData : Nat, outWire : Nat, msgs : SUBSET Message]

RxQpType ==
  [accounted : BOOLEAN, pending : Nat, chunks : SUBSET Nat, done : BOOLEAN,
   timer : BOOLEAN]

\* What BudgetFloor says of one state, and where its cap comes from.
Floor(st) ==
  st.ceiling > 0 => /\ st.ceiling = MaxSrpb
                    /\ st.cap \in Caps \cup {MaxSrpb}
                    /\ \E c \in Caps : st.srpb + st.outWire >= c

SoundState == {st \in SenderStateType : Floor(st)}
Account == [st : SoundState, q : RxQpType, out : Nat]

\* Some cap is at most the configured budget.
LEMMA CapFloor == \E c \in Caps : c \in Nat /\ c <= MaxSrpb
<1>1. PICK c \in Caps : TRUE
  BY CreditAssumption
<1>2. c \in 1 .. MaxSrpb /\ MaxSrpb \in Nat
  BY CreditAssumption
<1>3. QED
  BY <1>2

LEMMA CapsNat == Caps \subseteq Nat /\ MaxSrpb \in Nat \ {0} /\ Granularity \in Nat
  BY CreditAssumption

LEMMA NewStates ==
  /\ NewSenderState \in SoundState /\ NewRxQp \in RxQpType
<1>1. NewSenderState \in SenderStateType /\ NewSenderState.ceiling = 0
  BY DEF NewSenderState, SenderStateType
<1>2. NewRxQp \in RxQpType
  BY DEF NewRxQp, RxQpType
<1>3. QED
  BY <1>1, <1>2 DEF SoundState, Floor

\* Initialisation gives a state its whole budget.
LEMMA InitialisedSound ==
  ASSUME NEW st \in SoundState
  PROVE  InitialisedSenderState(st) \in SoundState
<1>1. CASE st.enabled
  BY <1>1 DEF InitialisedSenderState
<1>2. CASE ~st.enabled
  <2> DEFINE new == InitialisedSenderState(st)
  <2>1. new \in SenderStateType
    BY <1>2, CapsNat DEF InitialisedSenderState, SoundState, SenderStateType
  <2>2. /\ new.ceiling = MaxSrpb /\ new.cap = MaxSrpb /\ new.srpb = MaxSrpb
        /\ new.outWire \in Nat
    BY <1>2 DEF InitialisedSenderState, SoundState, SenderStateType
  <2> HIDE DEF new
  <2>3. \E c \in Caps : new.srpb + new.outWire >= c
    BY <2>2, CapFloor, CapsNat
  <2>4. QED
    BY <2>1, <2>2, <2>3 DEF SoundState, Floor, new
<1>3. QED
  BY <1>1, <1>2 DEF SoundState, SenderStateType

\* The AIMD loops keep the floor: the cap is a legal one.
LEMMA AimdSound ==
  ASSUME NEW a \in Account, NEW value \in Caps
  PROVE  /\ UpdateSenderStateAimd(a, value) \in Account
         /\ UpdateSenderStateAimd(a, value).st.enabled = a.st.enabled
<1> DEFINE ceiling == IF a.st.ceiling > 0 THEN a.st.ceiling ELSE Most(1, a.st.cap)
           cap == Most(1, Least(ceiling, value))
           new == UpdateSenderStateAimd(a, value)
<1>1. /\ a.st \in SenderStateType /\ Floor(a.st) /\ a.q \in RxQpType /\ a.out \in Nat
  BY DEF Account, SoundState
<1>2. /\ a.st.ceiling \in Nat /\ a.st.cap \in Nat /\ a.st.srpb \in Nat
      /\ a.st.outWire \in Nat
  BY <1>1 DEF SenderStateType
<1>3. value \in Nat /\ value <= MaxSrpb /\ value >= 1 /\ MaxSrpb \in Nat
  BY CreditAssumption
<1>4. cap \in Nat /\ Least(a.st.srpb, cap) \in Nat
  BY <1>2, <1>3 DEF Least, Most
<1>5. new.st = [a.st EXCEPT !.cap = cap, !.srpb = Least(@, cap)]
      /\ new.q = a.q /\ new.out = a.out /\ new \in [st : SenderStateType, q : RxQpType, out : Nat]
  BY <1>1, <1>4 DEF UpdateSenderStateAimd, Account, SoundState, SenderStateType
<1>6. Floor(new.st)
  <2>1. SUFFICES ASSUME a.st.ceiling > 0
        PROVE /\ cap \in Caps /\ \E c \in Caps : Least(a.st.srpb, cap) + a.st.outWire >= c
    BY <1>1, <1>5 DEF Floor, SenderStateType
  <2>2. a.st.ceiling = MaxSrpb /\ \E c \in Caps : a.st.srpb + a.st.outWire >= c
    BY <1>1, <2>1 DEF Floor
  <2>3. cap = value
    BY <1>3, <2>1, <2>2 DEF Least, Most
  <2>4. QED
    BY <1>2, <1>3, <2>2, <2>3, CapsNat DEF Least
<1>7. QED
  BY <1>1, <1>5, <1>6 DEF Account, SoundState, SenderStateType

\* What an account is made of.
LEMMA AccountParts ==
  ASSUME NEW a \in Account
  PROVE  /\ a.st \in SenderStateType /\ Floor(a.st) /\ a.q \in RxQpType
         /\ a.out \in Nat
         /\ {a.st.ceiling, a.st.cap, a.st.srpb, a.st.pending, a.st.outData,
             a.st.outWire, a.q.pending} \subseteq Nat
  BY DEF Account, SoundState, SenderStateType, RxQpType

\* Charge moves bytes of the budget to the outstanding ones.
LEMMA ChargeSound ==
  ASSUME NEW a \in Account, NEW data \in Nat, NEW wire \in Nat
  PROVE  Charge(a, data, wire) \in Account
<1> DEFINE st == [a.st EXCEPT !.pending = Minus(@, data), !.outData = @ + data,
                              !.outWire = @ + wire, !.srpb = Minus(@, wire)]
           q == [a.q EXCEPT !.pending = Minus(@, data)]
<1>1. /\ Minus(a.st.pending, data) \in Nat /\ Minus(a.q.pending, data) \in Nat
      /\ Minus(a.st.srpb, wire) \in Nat /\ Minus(a.st.srpb, wire) + wire >= a.st.srpb
      /\ a.st.outData + data \in Nat /\ a.st.outWire + wire \in Nat
      /\ a.out + wire \in Nat
  <2>1. /\ a.st.pending \in Nat /\ a.q.pending \in Nat /\ a.st.srpb \in Nat
        /\ a.st.outData \in Nat /\ a.st.outWire \in Nat /\ a.out \in Nat
    BY AccountParts
  <2>2. QED
    BY <2>1 DEF Minus
<1>2. st \in SenderStateType /\ q \in RxQpType
  BY <1>1, AccountParts DEF SenderStateType, RxQpType
<1>3. /\ st.ceiling = a.st.ceiling /\ st.cap = a.st.cap
      /\ st.srpb = Minus(a.st.srpb, wire) /\ st.outWire = a.st.outWire + wire
  BY AccountParts DEF SenderStateType
<1>4. /\ Charge(a, data, wire) \in [st : SenderStateType, q : RxQpType, out : Nat]
      /\ Charge(a, data, wire).st = st
  <2>1. a \in [st : SenderStateType, q : RxQpType, out : Nat]
    BY AccountParts DEF Account
  <2>2. Charge(a, data, wire) \in [st : SenderStateType, q : RxQpType, out : Nat]
    BY <1>1, <2>1, ZenonT(40) DEF Charge, SenderStateType, RxQpType
  <2>3. Charge(a, data, wire).st = st
    BY <2>1 DEF Charge, SenderStateType, RxQpType
  <2>4. QED
    BY <2>2, <2>3
<1> HIDE DEF st, q
<1>5. Floor(st)
  <2>1. SUFFICES ASSUME a.st.ceiling > 0
                 PROVE \E c \in Caps : st.srpb + st.outWire >= c
    BY <1>3, AccountParts DEF Floor
  <2>2. PICK c \in Caps : a.st.srpb + a.st.outWire >= c
    BY <2>1, AccountParts DEF Floor
  <2>3. st.srpb + st.outWire >= c
    BY <1>1, <1>3, <2>2, AccountParts, CapsNat
  <2>4. QED
    BY <2>3
<1>6. QED
  BY <1>4, <1>5 DEF Account, SoundState

\* Reclaim keeps the floor: a budget clipped at its cap is at least a cap.
LEMMA ReclaimSound ==
  ASSUME NEW a \in Account, NEW data \in Nat, NEW wire \in Nat,
         data <= a.st.outData
  PROVE  Reclaim(a, data, wire) \in Account
<1> DEFINE st == [a.st EXCEPT !.outData = @ - data, !.outWire = Minus(@, wire),
                              !.srpb = Least(@ + wire, a.st.cap)]
<1>1. /\ a.st.outData - data \in Nat /\ Minus(a.st.outWire, wire) \in Nat
      /\ Minus(a.st.outWire, wire) + wire >= a.st.outWire
      /\ a.st.srpb + wire \in Nat /\ Minus(a.out, wire) \in Nat
  <2>1. /\ a.st.srpb \in Nat /\ a.st.outData \in Nat /\ a.st.outWire \in Nat
        /\ a.out \in Nat
    BY AccountParts
  <2>2. QED
    BY <2>1 DEF Minus
<1>2. Least(a.st.srpb + wire, a.st.cap) \in Nat
  BY <1>1, AccountParts, LeastMost
<1>3. st \in SenderStateType
  BY <1>1, <1>2, AccountParts DEF SenderStateType
<1>4. /\ st.ceiling = a.st.ceiling /\ st.cap = a.st.cap
      /\ st.srpb = Least(a.st.srpb + wire, a.st.cap)
      /\ st.outWire = Minus(a.st.outWire, wire)
  BY AccountParts DEF SenderStateType
<1>5. /\ Reclaim(a, data, wire) \in [st : SenderStateType, q : RxQpType, out : Nat]
      /\ Reclaim(a, data, wire).st = st
  <2>1. a \in [st : SenderStateType, q : RxQpType, out : Nat]
    BY AccountParts DEF Account
  <2>2. Reclaim(a, data, wire) \in [st : SenderStateType, q : RxQpType, out : Nat]
    BY <1>1, <1>2, <2>1 DEF Reclaim, SenderStateType, RxQpType
  <2>3. Reclaim(a, data, wire).st = st
    BY <2>1 DEF Reclaim, SenderStateType, RxQpType
  <2>4. QED
    BY <2>2, <2>3
<1> HIDE DEF st
<1>6. Floor(st)
  <2>1. SUFFICES ASSUME a.st.ceiling > 0
                 PROVE \E c \in Caps : st.srpb + st.outWire >= c
    BY <1>4, AccountParts DEF Floor
  <2>2. CASE st.srpb = a.st.srpb + wire
    <3>1. PICK c \in Caps : a.st.srpb + a.st.outWire >= c
      BY <2>1, AccountParts DEF Floor
    <3>2. st.srpb + st.outWire >= c
      BY <1>1, <1>4, <2>2, <3>1, AccountParts, CapsNat
    <3>3. QED
      BY <3>2
  <2>3. CASE st.srpb = a.st.cap
    <3>1. PICK c \in Caps : c <= a.st.cap
      BY <2>1, AccountParts, CapFloor, CapsNat DEF Floor
    <3>2. st.srpb + st.outWire >= c
      BY <1>1, <1>4, <2>3, <3>1, AccountParts, CapsNat
    <3>3. QED
      BY <3>2
  <2>4. QED
    BY <1>4, <2>2, <2>3 DEF Least
<1>7. QED
  BY <1>5, <1>6 DEF Account, SoundState

\* An announcement counts once, and what the sender granted itself with it.
LEMMA AnnouncementSound ==
  ASSUME NEW a \in Account, NEW m \in Message, NEW own \in [data : Nat, wire : Nat]
  PROVE  ApplyNewAnnouncement(a, m, own) \in Account
<1> DEFINE known == [a EXCEPT
        !.q.accounted = TRUE, !.q.timer = TRUE, !.q.chunks = {}, !.q.done = FALSE,
        !.q.pending = @ + Size[m], !.st.pending = @ + Size[m]]
<1>1. Size[m] \in Nat /\ a.q.pending + Size[m] \in Nat /\ a.st.pending + Size[m] \in Nat
  BY AccountParts, MessageAssumption
<1>2. a \in [st : SenderStateType, q : RxQpType, out : Nat]
  BY AccountParts DEF Account
<1>3. known \in [st : SenderStateType, q : RxQpType, out : Nat]
  BY <1>1, <1>2, ZenonT(40) DEF SenderStateType, RxQpType
<1>4. known.st = [a.st EXCEPT !.pending = @ + Size[m]]
  BY <1>2 DEF SenderStateType, RxQpType
<1>5. Floor(known.st)
  BY <1>4, AccountParts DEF Floor, SenderStateType
<1> HIDE DEF known
<1>6. known \in Account
  BY <1>3, <1>5 DEF Account, SoundState
<1>7. Least(own.data, known.st.pending) \in Nat /\ own.wire \in Nat
  BY <1>6, AccountParts, LeastMost
<1>8. Charge(known, Least(own.data, known.st.pending), own.wire) \in Account
  BY <1>6, <1>7, ChargeSound
<1>9. QED
  BY <1>8 DEF ApplyNewAnnouncement, known

\* Data that comes gives back at most what is outstanding.
LEMMA ChunkSound ==
  ASSUME NEW a \in Account, NEW m \in Message, NEW i \in Chunk(m)
  PROVE  ReceiveChunk(a, m, i) \in Account
<1> DEFINE used == Least(Payload(m, i), a.st.outData)
           counted == [a EXCEPT !.q.chunks = IF a.q.accounted THEN @ \cup {i} ELSE @]
<1>1. used \in Nat /\ used <= a.st.outData /\ AddHeader(used, TRUE) \in Nat
  <2>1. used \in Nat /\ used <= a.st.outData
    BY PayloadType, AccountParts, LeastMost
  <2> HIDE DEF used
  <2>2. QED
    BY <2>1, AddHeaderType
<1>2. counted \in Account /\ counted.st = a.st
  <2>1. i \in Nat
    BY PayloadType DEF Chunk
  <2>2. a \in [st : SoundState, q : RxQpType, out : Nat]
    BY DEF Account
  <2>3. counted \in [st : SoundState, q : RxQpType, out : Nat]
    BY <2>1, <2>2 DEF RxQpType
  <2>4. counted.st = a.st
    BY <2>2
  <2>5. QED
    BY <2>3, <2>4 DEF Account
<1> HIDE DEF used, counted
<1>3. Reclaim(counted, used, AddHeader(used, TRUE)) \in Account
  BY <1>1, <1>2, ReclaimSound
<1>4. QED
  BY <1>3 DEF ReceiveChunk, used, counted

\* A grant asks for a number of bytes.
LEMMA AskType ==
  ASSUME NEW st \in SenderStateType, NEW q \in RxQpType
  PROVE  Ask(st, q) \in Nat
<1>1. st.gran \in Nat /\ q.pending \in Nat /\ st.pending \in Nat /\ MTU \in Nat
  BY FrameAssumption DEF SenderStateType, RxQpType
<1>2. Least(q.pending, MTU) \in Nat
  BY <1>1, LeastMost
<1>3. Most(IF st.gran > 0 THEN st.gran ELSE MTU, Least(q.pending, MTU)) \in Nat
  BY <1>1, <1>2, LeastMost
<1>4. Least(Least(q.pending, Most(IF st.gran > 0 THEN st.gran ELSE MTU,
                                  Least(q.pending, MTU))), st.pending) \in Nat
  BY <1>1, <1>3, LeastMost
<1>5. QED
  BY <1>1, <1>4, AlignChunksType DEF Ask

-----------------------------------------------------------------------------
(* The invariant, one part per host and one for the network.               *)

ReceiverStateType == [enabled : BOOLEAN, avail : Nat, thresh : Nat, msgs : SUBSET Message]
Credited == [data : Nat, wire : Nat]

\* Data on its way is a chunk its message has.
Sent == {p \in Packet : p.kind = "REQUEST" => p.chunk \in Chunk(p.msg)}

ReceiverStatesOK(states) ==
  /\ DOMAIN states \subseteq Sender
  /\ \A s \in DOMAIN states : states[s] \in ReceiverStateType

SendOK ==
  /\ state \in [Message -> {"new", "active", "done"}]
  /\ class \in [Message -> {"unknown", "scheduled", "unscheduled", "unsolicited"}]
  /\ self \in [Message -> Credited] /\ announced \in [Message -> BOOLEAN]
  /\ next \in [Message -> Nat] /\ \A m \in Message : next[m] <= Count(Size[m])
  /\ ReceiverStatesOK(receiverStates)

SenderStatesOK(states) ==
  /\ DOMAIN states \subseteq Sender
  /\ \A s \in DOMAIN states : states[s] \in SoundState

RxQpOK(qps) ==
  /\ DOMAIN qps \subseteq Message
  /\ \A m \in DOMAIN qps : qps[m] \in RxQpType

RecvOK == SenderStatesOK(senderStates) /\ RxQpOK(rxQp) /\ globalOut \in Nat

NetOK == IsABag(net) /\ DOMAIN net \subseteq Sent /\ losses \in Nat /\ bounces \in Nat

TickOK == tick \in BOOLEAN /\ TickServesDemand

IInv == SendOK /\ RecvOK /\ NetOK /\ TickOK

\* Packets that are sent or taken leave a bag of packets.
LEMMA NetChange ==
  ASSUME NetOK, NEW gone, NEW ps \in SUBSET Sent,
         \/ net' = net (+) SetToBag(ps)
         \/ net' = (net (-) SetToBag(gone)) (+) SetToBag(ps)
  PROVE  IsABag(net') /\ DOMAIN net' \subseteq Sent
<1>1. ASSUME NEW B, IsABag(B), DOMAIN B \subseteq Sent
      PROVE  IsABag(B (+) SetToBag(ps)) /\ DOMAIN (B (+) SetToBag(ps)) \subseteq Sent
  BY <1>1 DEF IsABag, SetToBag, (+)
<1>2. IsABag(net (-) SetToBag(gone)) /\ DOMAIN (net (-) SetToBag(gone)) \subseteq Sent
  BY DEF NetOK, IsABag, SetToBag, (-)
<1>3. QED
  BY <1>1, <1>2 DEF NetOK

\* What is left of the states of peers when a message is done.
LEMMA ForgetSender ==
  ASSUME NEW states, SenderStatesOK(states), NEW m \in Message
  PROVE  /\ SenderStatesOK(Forget(states, m))
         /\ DOMAIN Forget(states, m) \subseteq DOMAIN states
         /\ \A s \in DOMAIN Forget(states, m) :
              /\ Forget(states, m)[s].enabled = states[s].enabled
              /\ Forget(states, m)[s].pending = states[s].pending
<1> DEFINE s == Src[m]
           rest == states[s].msgs \ {m}
<1>1. CASE s \notin DOMAIN states
  BY <1>1 DEF Forget
<1>2. CASE s \in DOMAIN states /\ rest = {}
  BY <1>2 DEF Forget, SenderStatesOK
<1>3. CASE s \in DOMAIN states /\ rest # {}
  <2>1. Forget(states, m) = [states EXCEPT ![s].msgs = rest]
    BY <1>3 DEF Forget
  <2>2. states[s] \in SenderStateType /\ Floor(states[s])
    BY <1>3 DEF SenderStatesOK, SoundState
  <2> DEFINE new == [states[s] EXCEPT !.msgs = rest]
  <2>3. /\ new \in SenderStateType /\ new.enabled = states[s].enabled
        /\ new.pending = states[s].pending
        /\ new.ceiling = states[s].ceiling /\ new.cap = states[s].cap
        /\ new.srpb = states[s].srpb /\ new.outWire = states[s].outWire
    BY <2>2 DEF SenderStateType
  <2>4. new \in SoundState
    BY <2>2, <2>3 DEF SoundState, Floor
  <2>5. Forget(states, m) = [states EXCEPT ![s] = new]
    BY <2>1
  <2> HIDE DEF new
  <2>6. QED
    BY <2>3, <2>4, <2>5 DEF SenderStatesOK
<1>4. QED
  BY <1>1, <1>2, <1>3

LEMMA ForgetReceiver ==
  ASSUME NEW states, ReceiverStatesOK(states), NEW m \in Message
  PROVE  ReceiverStatesOK(Forget(states, m))
<1> DEFINE s == Src[m]
           rest == states[s].msgs \ {m}
<1>1. ASSUME s \in DOMAIN states
      PROVE  [states[s] EXCEPT !.msgs = rest] \in ReceiverStateType
  BY <1>1 DEF ReceiverStatesOK, ReceiverStateType
<1>2. QED
  BY <1>1 DEF Forget, ReceiverStatesOK

\* The states a handler opens.
LEMMA OpenSound ==
  ASSUME RecvOK, NEW m \in Message
  PROVE  /\ Open(m) \in Account /\ Enable(Open(m)) \in Account
         /\ GetSenderState(m) \in SoundState
<1>1. Src[m] \in Sender
  BY MessageAssumption
<1> DEFINE old == IF Src[m] \in DOMAIN senderStates THEN senderStates[Src[m]]
                  ELSE NewSenderState
<1>2. old \in SoundState
  BY NewStates DEF RecvOK, SenderStatesOK
<1>3. GetSenderState(m) \in SoundState
  <2> DEFINE new == [old EXCEPT !.msgs = @ \cup {m}]
  <2> HIDE DEF old
  <2>1. /\ new \in SenderStateType
        /\ new.ceiling = old.ceiling /\ new.cap = old.cap
        /\ new.srpb = old.srpb /\ new.outWire = old.outWire
    BY <1>2 DEF SoundState, SenderStateType
  <2>2. new \in SoundState
    BY <1>2, <2>1 DEF SoundState, Floor
  <2>3. QED
    BY <2>2 DEF GetSenderState, old
<1>4. Open(m) \in Account
  BY <1>3, InitialisedSound, NewStates DEF Open, Account, RecvOK, RxQpOK
<1>5. ASSUME NEW a \in Account PROVE Enable(a) \in Account
  <2> DEFINE new == [a.st EXCEPT !.enabled = TRUE]
  <2>1. /\ new \in SenderStateType
        /\ new.ceiling = a.st.ceiling /\ new.cap = a.st.cap
        /\ new.srpb = a.st.srpb /\ new.outWire = a.st.outWire
    BY AccountParts DEF SenderStateType
  <2>2. new \in SoundState
    BY <2>1, AccountParts DEF SoundState, Floor
  <2>3. Enable(a) = [a EXCEPT !.st = new]
    BY DEF Enable
  <2> HIDE DEF new
  <2>4. QED
    BY <2>2, <2>3 DEF Account
<1>6. QED
  BY <1>3, <1>4, <1>5

-----------------------------------------------------------------------------
(* The receiver. *)

\* The clock is asked for by every handler that may have made demand.
LEMMA ScheduleServes ==
  ASSUME TickOK, NEW called \in BOOLEAN, Schedule(called, senderStates'),
         \A s \in DOMAIN senderStates' :
           \/ /\ s \in DOMAIN senderStates
              /\ senderStates'[s].enabled = senderStates[s].enabled
              /\ senderStates'[s].pending = senderStates[s].pending
           \/ senderStates'[s].pending > 0 => called
  PROVE  TickOK'
<1>1. tick' \in BOOLEAN
  BY DEF Schedule
<1>2. ASSUME Demand(senderStates') PROVE tick'
  <2>1. PICK s \in DOMAIN senderStates' :
               senderStates'[s].enabled /\ senderStates'[s].pending > 0
    BY <1>2 DEF Demand
  <2>2. CASE called
    BY <1>2, <2>2 DEF Schedule
  <2>3. CASE ~called
    <3>1. Demand(senderStates)
      BY <2>1, <2>3 DEF Demand
    <3>2. QED
      BY <3>1 DEF TickOK, TickServesDemand, Schedule
  <2>4. QED
    BY <2>2, <2>3
<1>3. QED
  BY <1>1, <1>2 DEF TickOK, TickServesDemand

LEMMA StoreSound ==
  ASSUME RecvOK, NEW a \in Account, NEW m \in Message, Store(a, m)
  PROVE  /\ RecvOK'
         /\ senderStates'[Src[m]] = a.st /\ Src[m] \in DOMAIN senderStates'
         /\ \A s \in DOMAIN senderStates' \ {Src[m]} :
              s \in DOMAIN senderStates /\ senderStates'[s] = senderStates[s]
<1>1. Src[m] \in Sender /\ a.st \in SoundState /\ a.q \in RxQpType /\ a.out \in Nat
  BY MessageAssumption DEF Account
<1>2. /\ DOMAIN senderStates' = DOMAIN senderStates \cup {Src[m]}
      /\ SenderStatesOK(senderStates') /\ senderStates'[Src[m]] = a.st
      /\ \A s \in DOMAIN senderStates \ {Src[m]} : senderStates'[s] = senderStates[s]
  BY <1>1 DEF Store, RecvOK, SenderStatesOK, Put
<1>3. RxQpOK(rxQp')
  BY <1>1 DEF Store, RecvOK, RxQpOK, Put
<1>4. QED
  BY <1>1, <1>2, <1>3 DEF Store, RecvOK

LEMMA StoreAndSchedule ==
  ASSUME RecvOK, TickOK, NEW a \in Account, NEW m \in Message,
         Store(a, m), Schedule(a.st.pending > 0, senderStates')
  PROVE  RecvOK' /\ TickOK'
<1>1. RecvOK'
  BY StoreSound
<1>2. (a.st.pending > 0) \in BOOLEAN
  OBVIOUS
<1>3. \A s \in DOMAIN senderStates' :
        \/ /\ s \in DOMAIN senderStates
           /\ senderStates'[s].enabled = senderStates[s].enabled
           /\ senderStates'[s].pending = senderStates[s].pending
        \/ senderStates'[s].pending > 0 => a.st.pending > 0
  BY StoreSound
<1>4. TickOK'
  BY <1>2, <1>3, ScheduleServes
<1>5. QED
  BY <1>1, <1>4

LEMMA RecvGrantReqKeeps ==
  ASSUME IInv, NEW p \in DOMAIN net, p.kind = "GRANT_REQ", ReceiveGrantReq(p)
  PROVE  RecvOK' /\ TickOK'
<1>1. p.msg \in Message
  BY DEF IInv, NetOK, Sent, Packet
<1>2. NoCredit \in Credited
  BY DEF NoCredit, Credited
<1>3. PICK value \in Caps :
        LET a == ApplyNewAnnouncement(
                   UpdateSenderStateAimd(Enable(Open(p.msg)), value), p.msg, NoCredit)
        IN Store(a, p.msg) /\ Schedule(a.st.pending > 0, senderStates')
  BY DEF ReceiveGrantReq
<1> DEFINE a == ApplyNewAnnouncement(
                  UpdateSenderStateAimd(Enable(Open(p.msg)), value), p.msg, NoCredit)
<1>4. a \in Account
  BY <1>1, <1>2, OpenSound, AimdSound, AnnouncementSound DEF IInv, Credited
<1>5. Store(a, p.msg) /\ Schedule(a.st.pending > 0, senderStates')
  BY <1>3
<1> HIDE DEF a
<1>6. QED
  BY <1>1, <1>4, <1>5, StoreAndSchedule DEF IInv

LEMMA RecvBouncedKeeps ==
  ASSUME IInv, NEW p \in DOMAIN net, p.kind = "BOUNCED", ReceiveBounced(p)
  PROVE  RecvOK' /\ TickOK'
<1> DEFINE m == p.msg
           open == Enable(Open(m))
           data == Least(p.data, open.st.outData)
           wire == Least(p.wire, open.st.outWire)
           back == Reclaim(open, data, wire)
           a == [back EXCEPT
                   !.st.pending = @ + data,
                   !.q.pending = @ + data,
                   !.q.timer = @ \/ (open.q.accounted /\ ~open.q.done)]
<1>1. m \in Message /\ p.data \in Nat /\ p.wire \in Nat
  BY DEF IInv, NetOK, Sent, Packet
<1>2. open \in Account
  BY <1>1, OpenSound DEF IInv
<1>3. /\ data \in Nat /\ data <= open.st.outData /\ wire \in Nat
  BY <1>1, <1>2, AccountParts, LeastMost
<1>4. back \in Account
  BY <1>2, <1>3, ReclaimSound
<1>5. a \in Account
  <2> HIDE DEF back, data, open
  <2>1. back.st.pending + data \in Nat /\ back.q.pending + data \in Nat
    BY <1>3, <1>4, AccountParts
  <2>2. back \in [st : SenderStateType, q : RxQpType, out : Nat]
    BY <1>4, AccountParts DEF Account
  <2>3. back.q.timer \in BOOLEAN
    BY <2>2 DEF RxQpType
  <2>4. a \in [st : SenderStateType, q : RxQpType, out : Nat]
    BY <2>1, <2>2, <2>3 DEF SenderStateType, RxQpType
  <2>5. a.st = [back.st EXCEPT !.pending = @ + data]
    BY <2>2 DEF SenderStateType, RxQpType
  <2>6. Floor(a.st)
    <3> HIDE DEF a
    <3>1. back.st \in SenderStateType /\ Floor(back.st)
      BY <1>4, AccountParts
    <3>2. QED
      BY <2>5, <3>1 DEF Floor, SenderStateType
  <2> HIDE DEF a
  <2>7. QED
    BY <2>4, <2>6 DEF Account, SoundState
<1>6. CASE m \in DOMAIN rxQp
  <2>1. Store(a, m) /\ Schedule(a.st.pending > 0, senderStates')
    BY <1>6 DEF ReceiveBounced
  <2> HIDE DEF a, m
  <2>2. QED
    BY <1>1, <1>5, <2>1, StoreAndSchedule DEF IInv
<1>7. CASE m \notin DOMAIN rxQp
  BY <1>7 DEF ReceiveBounced, recvVars, IInv, RecvOK, TickOK, TickServesDemand
<1>8. QED
  BY <1>6, <1>7

\* A message that completes takes the state of its sender with it: the clock
\* may stay as it is, because all that is left was served before.
LEMMA RecvDataKeeps ==
  ASSUME IInv, NEW p \in DOMAIN net, p.kind = "REQUEST", ReceiveData(p)
  PROVE  SendOK' /\ RecvOK' /\ TickOK'
<1> DEFINE m == p.msg
           announce(b) == IF p.own = NoCredit THEN b ELSE ApplyNewAnnouncement(b, m, p.own)
           acc(value) == ReceiveChunk(
                           announce(UpdateSenderStateAimd(Enable(Open(m)), value)), m, p.chunk)
           finished(b) == [b EXCEPT !.q.done = TRUE, !.q.timer = FALSE]
           waiting(b) == [b EXCEPT !.q.timer = b.q.accounted /\ ~b.q.done]
           states(b) == Forget(Put(senderStates, Src[m], b.st), m)
<1>1. m \in Message /\ p.own \in Credited /\ p.chunk \in Chunk(m)
  BY DEF IInv, NetOK, Sent, Packet, Credited
<1>2. PICK value \in Caps :
        LET a == acc(value)
        IN \/ /\ Store(waiting(a), m)
              /\ Schedule(a.st.pending > 0, senderStates')
              /\ UNCHANGED sendVars
           \/ /\ rxQp' = Put(rxQp, m, finished(a).q)
              /\ senderStates' = states(a)
              /\ globalOut' = a.out
              /\ CompleteCreditBouncerSenderQp(m)
              /\ \E called \in (IF Src[m] \in DOMAIN states(a)
                                THEN {a.st.pending > 0} ELSE BOOLEAN) :
                   Schedule(called, states(a))
              /\ UNCHANGED <<class, self, announced>>
  BY DEF ReceiveData
<1> DEFINE a == acc(value)
<1>3. a \in Account
  <2>1. UpdateSenderStateAimd(Enable(Open(m)), value) \in Account
    BY <1>1, OpenSound, AimdSound DEF IInv
  <2>2. announce(UpdateSenderStateAimd(Enable(Open(m)), value)) \in Account
    BY <1>1, <2>1, AnnouncementSound DEF Credited
  <2> HIDE DEF announce
  <2>3. QED
    BY <1>1, <2>2, ChunkSound
<1>4. \/ /\ Store(waiting(a), m)
         /\ Schedule(a.st.pending > 0, senderStates')
         /\ UNCHANGED sendVars
      \/ /\ rxQp' = Put(rxQp, m, finished(a).q)
         /\ senderStates' = states(a)
         /\ globalOut' = a.out
         /\ CompleteCreditBouncerSenderQp(m)
         /\ \E called \in (IF Src[m] \in DOMAIN states(a)
                           THEN {a.st.pending > 0} ELSE BOOLEAN) :
              Schedule(called, states(a))
         /\ UNCHANGED <<class, self, announced>>
  BY <1>2
<1> HIDE DEF a, m
<1>5. /\ waiting(a) \in Account /\ waiting(a).st = a.st
      /\ finished(a).q \in RxQpType
  <2>1. a \in [st : SoundState, q : RxQpType, out : Nat]
    BY <1>3 DEF Account
  <2>2. waiting(a) \in [st : SoundState, q : RxQpType, out : Nat]
    BY <2>1 DEF RxQpType
  <2>3. waiting(a).st = a.st /\ finished(a).q \in RxQpType
    BY <2>1 DEF RxQpType
  <2>4. QED
    BY <2>2, <2>3 DEF Account
<1>6. CASE /\ Store(waiting(a), m)
           /\ Schedule(a.st.pending > 0, senderStates')
           /\ UNCHANGED sendVars
  <2>1. RecvOK' /\ TickOK'
    <3> HIDE DEF waiting
    <3>1. QED
      BY <1>1, <1>5, <1>6, StoreAndSchedule DEF IInv
  <2>2. SendOK'
    BY <1>6 DEF IInv, SendOK, sendVars, ReceiverStatesOK
  <2>3. QED
    BY <2>1, <2>2
<1>7. CASE /\ rxQp' = Put(rxQp, m, finished(a).q)
           /\ senderStates' = states(a)
           /\ globalOut' = a.out
           /\ CompleteCreditBouncerSenderQp(m)
           /\ \E called \in (IF Src[m] \in DOMAIN states(a)
                             THEN {a.st.pending > 0} ELSE BOOLEAN) :
                Schedule(called, states(a))
           /\ UNCHANGED <<class, self, announced>>
  <2> DEFINE stored == Put(senderStates, Src[m], a.st)
  <2>1. Src[m] \in Sender /\ a.st \in SoundState /\ a.out \in Nat
    BY <1>1, <1>3, MessageAssumption DEF Account
  <2>2. /\ SenderStatesOK(stored) /\ stored[Src[m]] = a.st
        /\ \A s \in DOMAIN stored \ {Src[m]} :
             s \in DOMAIN senderStates /\ stored[s] = senderStates[s]
    BY <2>1 DEF IInv, RecvOK, SenderStatesOK, Put
  <2>3. RxQpOK(rxQp')
    BY <1>1, <1>5, <1>7 DEF IInv, RecvOK, RxQpOK, Put
  <2> HIDE DEF stored, finished
  <2>4. /\ SenderStatesOK(states(a)) /\ DOMAIN states(a) \subseteq DOMAIN stored
        /\ \A s \in DOMAIN states(a) :
             /\ states(a)[s].enabled = stored[s].enabled
             /\ states(a)[s].pending = stored[s].pending
    BY <1>1, <2>2, ForgetSender DEF stored
  <2>5. RecvOK'
    BY <1>7, <2>1, <2>3, <2>4 DEF RecvOK
  <2>6. PICK called \in (IF Src[m] \in DOMAIN states(a)
                         THEN {a.st.pending > 0} ELSE BOOLEAN) :
               Schedule(called, states(a))
    BY <1>7
  <2>7. TickOK'
    <3> HIDE DEF states
    <3>1. called \in BOOLEAN /\ Schedule(called, senderStates')
      <4>1. (a.st.pending > 0) \in BOOLEAN
        OBVIOUS
      <4>2. called \in BOOLEAN
        BY <2>6, <4>1
      <4>3. Schedule(called, senderStates')
        BY <1>7, <2>6
      <4>4. QED
        BY <4>2, <4>3
    <3>2. \A s \in DOMAIN senderStates' :
            \/ /\ s \in DOMAIN senderStates
               /\ senderStates'[s].enabled = senderStates[s].enabled
               /\ senderStates'[s].pending = senderStates[s].pending
            \/ senderStates'[s].pending > 0 => called
      BY <1>7, <2>2, <2>4, <2>6
    <3>3. QED
      BY <3>1, <3>2, ScheduleServes DEF IInv
  <2>8. SendOK'
    <3>1. ReceiverStatesOK(receiverStates')
      BY <1>1, <1>7, ForgetReceiver DEF IInv, SendOK, CompleteCreditBouncerSenderQp
    <3>2. Count(Size[m]) \in Nat /\ Count(Size[m]) <= Count(Size[m])
      <4>1. MTU \in Nat \ {0} /\ Size[m] + MTU - 1 \in Nat
        BY <1>1, FrameAssumption, MessageAssumption
      <4>2. QED
        BY <4>1 DEF Count
    <3>3. /\ next' \in [Message -> Nat] /\ \A x \in Message : next'[x] <= Count(Size[x])
          /\ state' \in [Message -> {"new", "active", "done"}]
      BY <1>1, <1>7, <3>2 DEF IInv, SendOK, CompleteCreditBouncerSenderQp
    <3>4. QED
      BY <1>7, <3>1, <3>3 DEF IInv, SendOK
  <2>9. QED
    BY <2>5, <2>7, <2>8
<1>8. QED
  BY <1>4, <1>6, <1>7

\* A tick charges what it grants and looks at the demand that is left.
LEMMA TickKeeps ==
  ASSUME IInv, CreditGrantTick
  PROVE  /\ RecvOK' /\ TickOK' /\ IsABag(net') /\ DOMAIN net' \subseteq Sent
<1>1. TickOK'
  <2>1. Demand(senderStates') \in BOOLEAN
    BY DEF Demand
  <2>2. QED
    BY <2>1 DEF CreditGrantTick, TickOK, TickServesDemand
<1>2. CASE UNCHANGED <<senderStates, rxQp, globalOut, net>>
  BY <1>1, <1>2 DEF IInv, RecvOK, NetOK
<1>3. ASSUME NEW m \in Grantable, IssueCreditGrant(m)
      PROVE  RecvOK' /\ IsABag(net') /\ DOMAIN net' \subseteq Sent
  <2> DEFINE a == Open(m)
             data == Ask(a.st, a.q)
             wire == AddHeader(data, TRUE)
  <2>1. m \in Message
    BY DEF Grantable, IInv, RecvOK, RxQpOK
  <2>2. a \in Account
    BY <2>1, OpenSound DEF IInv
  <2>3. data \in Nat
    BY <2>2, AccountParts, AskType
  <2>4. wire \in Nat
    BY <2>3, AddHeaderType
  <2>5. Grant(m, data) \in Sent
    BY <2>1, <2>3, <2>4 DEF Grant, Sent, Packet
  <2>6. Store(Charge(a, data, wire), m) /\ Sends({Grant(m, data)})
    BY <1>3 DEF IssueCreditGrant
  <2> HIDE DEF a, data, wire
  <2>7. RecvOK'
    BY <2>1, <2>2, <2>3, <2>4, <2>6, ChargeSound, StoreSound DEF IInv
  <2>8. IsABag(net') /\ DOMAIN net' \subseteq Sent
    BY <2>5, <2>6, NetChange DEF IInv, Sends
  <2>9. QED
    BY <2>7, <2>8
<1>4. QED
  BY <1>1, <1>2, <1>3 DEF CreditGrantTick

\* A resend timeout makes no demand.
LEMMA TimeoutKeeps ==
  ASSUME IInv, NEW m \in Message, HandleCreditBouncerResendTimeout(m)
  PROVE  RecvOK' /\ TickOK' /\ IsABag(net') /\ DOMAIN net' \subseteq Sent
<1> DEFINE st == GetSenderState(m)
<1>1. st \in SoundState /\ Src[m] \in Sender
  BY OpenSound, MessageAssumption DEF IInv
<1>2. /\ senderStates' = Put(senderStates, Src[m], st)
      /\ UNCHANGED <<globalOut, tick>>
      /\ Sends({Resend(m, r) : r \in MissingRanges(m)})
      /\ m \in DOMAIN rxQp
  BY DEF HandleCreditBouncerResendTimeout
<1>3. /\ SenderStatesOK(senderStates')
      /\ \A s \in DOMAIN senderStates' \ {Src[m]} :
           s \in DOMAIN senderStates /\ senderStates'[s] = senderStates[s]
      /\ senderStates'[Src[m]] = st
  <2> HIDE DEF st
  <2>1. QED
    BY <1>1, <1>2 DEF IInv, RecvOK, SenderStatesOK, Put
<1>4. \/ /\ Src[m] \in DOMAIN senderStates
         /\ st.enabled = senderStates[Src[m]].enabled
         /\ st.pending = senderStates[Src[m]].pending
      \/ st.pending = 0
  <2>1. CASE Src[m] \in DOMAIN senderStates
    <3>1. senderStates[Src[m]] \in SenderStateType
      BY <2>1 DEF IInv, RecvOK, SenderStatesOK, SoundState
    <3>2. QED
      BY <2>1, <3>1 DEF GetSenderState, SenderStateType
  <2>2. CASE Src[m] \notin DOMAIN senderStates
    BY <2>2 DEF GetSenderState, NewSenderState
  <2>3. QED
    BY <2>1, <2>2
<1>5. TickOK'
  <2>1. Demand(senderStates') => Demand(senderStates)
    <3> HIDE DEF st
    <3>1. QED
      BY <1>3, <1>4 DEF Demand
  <2>2. QED
    BY <1>2, <2>1 DEF IInv, TickOK, TickServesDemand
<1>6. RxQpOK(rxQp')
  <2>1. PICK again \in BOOLEAN : rxQp' = [rxQp EXCEPT ![m].timer = again]
    BY DEF HandleCreditBouncerResendTimeout
  <2>2. rxQp[m] \in RxQpType
    BY <1>2 DEF IInv, RecvOK, RxQpOK
  <2>3. [rxQp[m] EXCEPT !.timer = again] \in RxQpType
    BY <2>2 DEF RxQpType
  <2>4. QED
    BY <1>2, <2>1, <2>3 DEF IInv, RecvOK, RxQpOK
<1>7. {Resend(m, r) : r \in MissingRanges(m)} \subseteq Sent
  <2>1. ASSUME NEW r \in MissingRanges(m) PROVE Resend(m, r) \in Sent
    <3>1. r \subseteq Nat
      BY DEF MissingRanges
    <3>2. QED
      BY <3>1 DEF Resend, Sent, Packet
  <2>2. QED
    BY <2>1
<1>8. IsABag(net') /\ DOMAIN net' \subseteq Sent
  BY <1>2, <1>7, NetChange DEF IInv, Sends
<1>9. QED
  BY <1>2, <1>3, <1>5, <1>6, <1>8 DEF IInv, RecvOK

-----------------------------------------------------------------------------
(* The sender. *)

\* What a message grants itself is a credit.
LEMMA SelfAllocationType ==
  ASSUME NEW m \in Message, NEW st \in ReceiverStateType
  PROVE  SelfAllocation(m, st) \in Credited
<1> DEFINE size == Size[m]
           wire == AddHeader(size, FALSE)
           room == Most(Minus(MaxSrpb, st.avail), AddHeader(Least(size, MTU), TRUE))
           first == IF wire > MaxSrpb THEN RemoveHeader(MaxSrpb) ELSE size
           capped == IF (IF wire > MaxSrpb THEN AddHeader(first, TRUE) ELSE wire) > room
                     THEN RemoveHeader(room) ELSE first
           data == AlignChunks(Least(capped, size), size)
<1>1. size \in Nat /\ st.avail \in Nat /\ MTU \in Nat /\ MaxSrpb \in Nat
  BY MessageAssumption, FrameAssumption, CreditAssumption DEF ReceiverStateType
<1>2. first \in Nat
  BY <1>1, RemoveHeaderType
<1>3. room \in Nat
  <2>1. Least(size, MTU) \in Nat /\ Minus(MaxSrpb, st.avail) \in Nat
    BY <1>1, LeastMost
  <2>2. AddHeader(Least(size, MTU), TRUE) \in Nat
    BY <2>1, AddHeaderType
  <2>3. QED
    BY <2>1, <2>2, LeastMost
<1>4. capped \in Nat
  <2> HIDE DEF room, first, wire
  <2>1. QED
    BY <1>2, <1>3, RemoveHeaderType
<1>5. data \in Nat
  <2> HIDE DEF capped, size
  <2>1. Least(capped, size) \in Nat
    BY <1>1, <1>4, LeastMost
  <2>2. QED
    BY <1>1, <2>1, AlignChunksType
<1>6. AddHeader(data, TRUE) \in Nat
  <2> HIDE DEF data
  <2>1. QED
    BY <1>5, AddHeaderType
<1>7. SelfAllocation(m, st) =
        IF wire > st.thresh THEN NoCredit ELSE [data |-> data, wire |-> AddHeader(data, TRUE)]
  BY DEF SelfAllocation
<1>8. NoCredit \in Credited
  BY DEF Credited, NoCredit
<1> HIDE DEF data, wire
<1>9. [data |-> data, wire |-> AddHeader(data, TRUE)] \in Credited
  BY <1>5, <1>6 DEF Credited
<1>10. QED
  BY <1>7, <1>8, <1>9

\* Opening the state of the receiver.
LEMMA ReceiverStateOpens ==
  ASSUME SendOK, NEW m \in Message
  PROVE  GetReceiverState(m) \in ReceiverStateType /\ Src[m] \in Sender
<1>1. (IF Src[m] \in DOMAIN receiverStates THEN receiverStates[Src[m]]
       ELSE NewReceiverState) \in ReceiverStateType
  BY DEF SendOK, ReceiverStatesOK, NewReceiverState, ReceiverStateType
<1>2. QED
  BY <1>1, MessageAssumption DEF GetReceiverState, ReceiverStateType

LEMMA PutReceiver ==
  ASSUME SendOK, NEW s \in Sender, NEW v \in ReceiverStateType
  PROVE  ReceiverStatesOK(Put(receiverStates, s, v))
  BY DEF SendOK, ReceiverStatesOK, Put

\* A sender spends no more than its pool holds.
LEMMA SenderKeeps ==
  ASSUME IInv, NEW m \in Message, GetNxtPacket(m)
  PROVE  SendOK' /\ IsABag(net') /\ DOMAIN net' \subseteq Sent
<1> DEFINE st == [GetReceiverState(m) EXCEPT !.enabled = TRUE]
           c == Classify(m, st)
           avail == IF class[m] = "unknown" THEN st.avail + c.self.wire ELSE st.avail
           spent == IF c.class = "scheduled" /\ ~announced[m] THEN 0
                    ELSE Wire(m, next[m])
<1>1. st \in ReceiverStateType /\ st.avail \in Nat
  BY ReceiverStateOpens DEF IInv, ReceiverStateType
<1>2. /\ c.class \in {"scheduled", "unscheduled", "unsolicited", class[m]}
      /\ c.self \in Credited
  <2> HIDE DEF st
  <2>1. SelfAllocation(m, st) \in Credited /\ self[m] \in Credited
    BY <1>1, SelfAllocationType DEF IInv, SendOK
  <2>2. QED
    BY <2>1 DEF Classify
<1>3. /\ state[m] = "active" /\ next[m] < Count(Size[m])
      /\ SendGrantReq(m, c) \/ SendData(m, c, avail)
      /\ class' = [class EXCEPT ![m] = c.class]
      /\ self' = [self EXCEPT ![m] = c.self]
      /\ receiverStates' =
           Put(receiverStates, Src[m], [st EXCEPT !.avail = avail - spent])
      /\ UNCHANGED state
  BY DEF GetNxtPacket
<1> HIDE DEF st, c
<1>4. avail \in Nat
  BY <1>1, <1>2 DEF Credited
<1> HIDE DEF avail
<1>5. next[m] \in Nat
  BY DEF IInv, SendOK
<1>6. next[m] \in Chunk(m) /\ Wire(m, next[m]) \in Nat /\ Count(Size[m]) \in Nat
  <2>1. MTU \in Nat \ {0} /\ Size[m] + MTU - 1 \in Nat
    BY FrameAssumption, MessageAssumption
  <2>2. Count(Size[m]) \in Nat
    BY <2>1 DEF Count
  <2>3. next[m] \in Chunk(m)
    BY <1>3, <1>5, <2>2 DEF Chunk
  <2>4. QED
    BY <2>2, <2>3, PayloadType
<1>7. avail - spent \in Nat
  BY <1>3, <1>4, <1>6 DEF SendGrantReq, SendData
<1>8. ReceiverStatesOK(receiverStates')
  <2> HIDE DEF spent
  <2>1. [st EXCEPT !.avail = avail - spent] \in ReceiverStateType
    BY <1>1, <1>7 DEF ReceiverStateType
  <2>2. QED
    BY <1>3, <2>1, PutReceiver, MessageAssumption DEF IInv
<1>9. /\ announced' \in [Message -> BOOLEAN] /\ next' \in [Message -> Nat]
      /\ \A x \in Message : next'[x] <= Count(Size[x])
  <2>1. /\ announced' = [announced EXCEPT ![m] = TRUE]
        /\ next' = next \/ next' = [next EXCEPT ![m] = @ + 1]
    BY <1>3 DEF SendGrantReq, SendData
  <2>2. announced' \in [Message -> BOOLEAN]
    BY <2>1 DEF IInv, SendOK
  <2>3. next[m] + 1 \in Nat /\ next[m] + 1 <= Count(Size[m])
    BY <1>3, <1>5, <1>6
  <2>4. next' \in [Message -> Nat]
    BY <2>1, <2>3 DEF IInv, SendOK
  <2>5. \A x \in Message : next'[x] <= Count(Size[x])
    BY <2>1, <2>3 DEF IInv, SendOK
  <2>6. QED
    BY <2>2, <2>4, <2>5
<1>10. SendOK'
  BY <1>2, <1>3, <1>8, <1>9 DEF IInv, SendOK
<1>11. GrantReq(m) \in Sent /\ Data(m, next[m], c.self) \in Sent
  <2>1. GrantReq(m) \in Sent
    BY DEF GrantReq, Sent, Packet
  <2>2. Data(m, next[m], c.self) \in Sent
    BY <1>2, <1>5, <1>6 DEF Data, Sent, Packet, Credited
  <2>3. QED
    BY <2>1, <2>2
<1>12. Sends({GrantReq(m)}) \/ Sends({Data(m, next[m], c.self)})
  BY <1>3 DEF SendGrantReq, SendData
<1>13. IsABag(net') /\ DOMAIN net' \subseteq Sent
  BY <1>11, <1>12, NetChange DEF IInv, Sends
<1>14. QED
  BY <1>10, <1>13

LEMMA AddQueuePairKeeps ==
  ASSUME IInv, NEW m \in Message, AddQueuePair(m)
  PROVE  IInv'
<1> DEFINE st == GetReceiverState(m)
           ready == IF st.enabled THEN st
                    ELSE [st EXCEPT !.enabled = TRUE, !.thresh = UnsolThresh]
<1>1. st \in ReceiverStateType /\ Src[m] \in Sender
  BY ReceiverStateOpens DEF IInv
<1>2. /\ state' = [state EXCEPT ![m] = "active"]
      /\ receiverStates' = Put(receiverStates, Src[m], ready)
      /\ UNCHANGED <<class, self, announced, next, recvVars, netVars>>
  BY DEF AddQueuePair
<1> HIDE DEF st
<1>3. ready \in ReceiverStateType
  BY <1>1, CreditAssumption DEF ReceiverStateType
<1> HIDE DEF ready
<1>4. ReceiverStatesOK(receiverStates')
  BY <1>1, <1>2, <1>3, PutReceiver DEF IInv
<1>5. SendOK'
  BY <1>2, <1>4 DEF IInv, SendOK
<1>6. RecvOK' /\ NetOK' /\ TickOK'
  BY <1>2 DEF IInv, RecvOK, NetOK, TickOK, TickServesDemand, recvVars, netVars
<1>7. QED
  BY <1>5, <1>6 DEF IInv

LEMMA ReceiveGrantKeeps ==
  ASSUME IInv, NEW p \in DOMAIN net, p.kind = "GRANT", ReceiveGrant(p)
  PROVE  IInv'
<1> DEFINE st == GetReceiverState(p.msg)
           new == [st EXCEPT !.enabled = TRUE, !.avail = @ + p.wire]
<1>1. p.msg \in Message /\ p.wire \in Nat
  BY DEF IInv, NetOK, Sent, Packet
<1>2. st \in ReceiverStateType /\ Src[p.msg] \in Sender
  BY <1>1, ReceiverStateOpens DEF IInv
<1>3. /\ receiverStates' = Put(receiverStates, Src[p.msg], new)
      /\ Replaces(p, {})
      /\ UNCHANGED <<state, class, self, announced, next, recvVars, losses, bounces>>
  BY DEF ReceiveGrant
<1> HIDE DEF st
<1>4. st.avail + p.wire \in Nat
  BY <1>1, <1>2 DEF ReceiverStateType
<1>5. new \in ReceiverStateType
  BY <1>2, <1>4 DEF ReceiverStateType
<1> HIDE DEF new
<1>6. ReceiverStatesOK(receiverStates')
  BY <1>2, <1>3, <1>5, PutReceiver DEF IInv
<1>7. SendOK'
  BY <1>3, <1>6 DEF IInv, SendOK
<1>8. NetOK'
  BY <1>3, NetChange DEF IInv, NetOK, Replaces
<1>9. RecvOK' /\ TickOK'
  BY <1>3 DEF IInv, RecvOK, TickOK, TickServesDemand, recvVars
<1>10. QED
  BY <1>7, <1>8, <1>9 DEF IInv

\* Steps that change the network alone.
LEMMA NetOnly ==
  ASSUME IInv, NEW p, NEW ps \in SUBSET Sent, Replaces(p, ps),
         UNCHANGED <<sendVars, recvVars>>, losses' \in Nat, bounces' \in Nat
  PROVE  IInv'
<1>1. NetOK'
  BY NetChange DEF IInv, NetOK, Replaces
<1>2. SendOK'
  BY DEF IInv, SendOK, sendVars
<1>3. RecvOK' /\ TickOK'
  BY DEF IInv, RecvOK, TickOK, TickServesDemand, recvVars
<1>4. QED
  BY <1>1, <1>2, <1>3 DEF IInv

LEMMA NetworkKeeps ==
  ASSUME IInv, NEW p \in DOMAIN net,
         \/ p.kind = "RESEND" /\ ReceiveResend(p)
         \/ Bounce(p)
         \/ Lose(p)
  PROVE  IInv'
<1>1. p \in Packet /\ losses \in Nat /\ bounces \in Nat
  BY DEF IInv, NetOK, Sent
<1>2. CASE p.kind = "RESEND" /\ ReceiveResend(p)
  <2> DEFINE again == {i \in p.range : i < next[p.msg]}
             ps == {Data(p.msg, i, NoCredit) : i \in again}
  <2>1. p.msg \in Message /\ p.range \subseteq Nat
    BY <1>1, <1>2 DEF Packet
  <2>2. next[p.msg] \in Nat /\ next[p.msg] <= Count(Size[p.msg])
    BY <2>1 DEF IInv, SendOK
  <2>3. Count(Size[p.msg]) \in Nat
    <3>1. MTU \in Nat \ {0} /\ Size[p.msg] + MTU - 1 \in Nat
      BY <2>1, FrameAssumption, MessageAssumption
    <3>2. QED
      BY <3>1 DEF Count
  <2>4. ASSUME NEW i \in again PROVE Data(p.msg, i, NoCredit) \in Sent
    <3>1. i \in Nat /\ i \in Chunk(p.msg)
      BY <2>1, <2>2, <2>3 DEF Chunk
    <3>2. QED
      BY <2>1, <3>1 DEF Data, NoCredit, Sent, Packet
  <2>5. ps \in SUBSET Sent
    BY <2>4
  <2>6. Replaces(p, ps) /\ UNCHANGED <<sendVars, recvVars, losses, bounces>>
    BY <1>2 DEF ReceiveResend
  <2> HIDE DEF ps
  <2>7. QED
    BY <1>1, <2>5, <2>6, NetOnly
<1>3. CASE Bounce(p)
  <2>1. p.kind = "GRANT" /\ p.msg \in Message /\ p.data \in Nat /\ p.wire \in Nat
        /\ p \in [kind : {"GRANT", "BOUNCED"}, msg : Message, data : Nat, wire : Nat]
    BY <1>1, <1>3 DEF Bounce, Packet
  <2>2. Bounced(p) \in [kind : {"GRANT", "BOUNCED"}, msg : Message, data : Nat, wire : Nat]
        /\ Bounced(p).kind = "BOUNCED"
    BY <2>1 DEF Bounced
  <2>3. Bounced(p) \in Sent
    BY <2>2 DEF Sent, Packet
  <2>4. /\ Replaces(p, {Bounced(p)}) /\ bounces' \in Nat
        /\ UNCHANGED <<sendVars, recvVars, losses>>
    BY <1>1, <1>3 DEF Bounce
  <2>5. QED
    BY <1>1, <2>3, <2>4, NetOnly
<1>4. CASE Lose(p)
  <2>1. /\ Replaces(p, {}) /\ losses' \in Nat
        /\ UNCHANGED <<sendVars, recvVars, bounces>>
    BY <1>1, <1>4 DEF Lose
  <2>2. QED
    BY <1>1, <2>1, NetOnly
<1>5. QED
  BY <1>2, <1>3, <1>4

-----------------------------------------------------------------------------
LEMMA InitKeeps == Init => IInv
<1> SUFFICES ASSUME Init PROVE IInv
  OBVIOUS
<1>1. SendOK
  <2>1. \A m \in Message : Count(Size[m]) \in Nat
    <3>1. ASSUME NEW m \in Message PROVE Count(Size[m]) \in Nat
      <4>1. MTU \in Nat \ {0} /\ Size[m] + MTU - 1 \in Nat
        BY FrameAssumption, MessageAssumption
      <4>2. QED
        BY <4>1 DEF Count
    <3>2. QED
      BY <3>1
  <2>2. NoCredit \in Credited
    BY DEF NoCredit, Credited
  <2>3. QED
    BY <2>1, <2>2 DEF Init, SendOK, ReceiverStatesOK
<1>2. RecvOK
  BY DEF Init, RecvOK, SenderStatesOK, RxQpOK
<1>3. NetOK
  BY DEF Init, NetOK, EmptyBag, SetToBag, IsABag
<1>4. TickOK
  <2>1. senderStates = <<>> /\ tick = FALSE
    BY DEF Init
  <2>2. DOMAIN senderStates = {}
    BY <2>1
  <2>3. QED
    BY <2>1, <2>2 DEF TickOK, TickServesDemand, Demand
<1>5. QED
  BY <1>1, <1>2, <1>3, <1>4 DEF IInv

LEMMA NextKeeps == IInv /\ [Next]_vars => IInv'
<1> SUFFICES ASSUME IInv, [Next]_vars PROVE IInv'
  OBVIOUS
<1>1. ASSUME NEW m \in Message, AddQueuePair(m) PROVE IInv'
  BY <1>1, AddQueuePairKeeps
<1>2. ASSUME NEW m \in Message, GetNxtPacket(m) PROVE IInv'
  <2>1. UNCHANGED <<recvVars, losses, bounces>>
    BY <1>2 DEF GetNxtPacket
  <2>2. RecvOK' /\ TickOK'
    BY <2>1 DEF IInv, RecvOK, TickOK, TickServesDemand, recvVars
  <2>3. QED
    BY <1>2, <2>1, <2>2, SenderKeeps DEF IInv, NetOK
<1>3. ASSUME NEW m \in Message, HandleCreditBouncerResendTimeout(m) PROVE IInv'
  <2>1. UNCHANGED <<sendVars, losses, bounces>>
    BY <1>3 DEF HandleCreditBouncerResendTimeout
  <2>2. SendOK'
    BY <2>1 DEF IInv, SendOK, sendVars
  <2>3. QED
    BY <1>3, <2>1, <2>2, TimeoutKeeps DEF IInv, NetOK
<1>4. CASE CreditGrantTick
  <2>1. UNCHANGED <<sendVars, losses, bounces>>
    BY <1>4 DEF CreditGrantTick
  <2>2. SendOK'
    BY <2>1 DEF IInv, SendOK, sendVars
  <2>3. QED
    BY <1>4, <2>1, <2>2, TickKeeps DEF IInv, NetOK
<1>5. ASSUME NEW p \in DOMAIN net, p.kind = "GRANT_REQ", ReceiveGrantReq(p)
      PROVE  IInv'
  <2>1. UNCHANGED <<sendVars, losses, bounces>> /\ Replaces(p, {})
    BY <1>5 DEF ReceiveGrantReq
  <2>2. NetOK'
    BY <2>1, NetChange DEF IInv, NetOK, Replaces
  <2>3. SendOK'
    BY <2>1 DEF IInv, SendOK, sendVars
  <2>4. QED
    BY <1>5, <2>2, <2>3, RecvGrantReqKeeps DEF IInv
<1>6. ASSUME NEW p \in DOMAIN net, p.kind = "REQUEST", ReceiveData(p)
      PROVE  IInv'
  <2>1. UNCHANGED <<losses, bounces>> /\ Replaces(p, {})
    BY <1>6 DEF ReceiveData
  <2>2. NetOK'
    BY <2>1, NetChange DEF IInv, NetOK, Replaces
  <2>3. QED
    BY <1>6, <2>2, RecvDataKeeps DEF IInv
<1>7. ASSUME NEW p \in DOMAIN net, p.kind = "GRANT", ReceiveGrant(p)
      PROVE  IInv'
  BY <1>7, ReceiveGrantKeeps
<1>8. ASSUME NEW p \in DOMAIN net, p.kind = "BOUNCED", ReceiveBounced(p)
      PROVE  IInv'
  <2>1. UNCHANGED <<sendVars, losses, bounces>> /\ Replaces(p, {})
    BY <1>8 DEF ReceiveBounced
  <2>2. NetOK'
    BY <2>1, NetChange DEF IInv, NetOK, Replaces
  <2>3. SendOK'
    BY <2>1 DEF IInv, SendOK, sendVars
  <2>4. QED
    BY <1>8, <2>2, <2>3, RecvBouncedKeeps DEF IInv
<1>9. ASSUME NEW p \in DOMAIN net,
             \/ p.kind = "RESEND" /\ ReceiveResend(p)
             \/ Bounce(p)
             \/ Lose(p)
      PROVE  IInv'
  BY <1>9, NetworkKeeps
<1>10. CASE UNCHANGED vars
  <2>1. SendOK'
    BY <1>10 DEF vars, IInv, SendOK, sendVars
  <2>2. RecvOK' /\ TickOK'
    BY <1>10 DEF vars, IInv, RecvOK, TickOK, TickServesDemand, recvVars
  <2>3. NetOK'
    BY <1>10 DEF vars, IInv, NetOK, netVars
  <2>4. QED
    BY <2>1, <2>2, <2>3 DEF IInv
<1>11. QED
  BY <1>1, <1>2, <1>3, <1>4, <1>5, <1>6, <1>7, <1>8, <1>9, <1>10
     DEF Next, ReceiveCreditBouncer

-----------------------------------------------------------------------------
\* No unsigned subtraction of RdmaHw wraps round, for any sizes and frames,
\* and whatever is lost, bounced or sent again.
THEOREM TypeCorrect == Spec => []TypeOK
<1>1. IInv => TypeOK
  <2> SUFFICES ASSUME IInv PROVE TypeOK
    OBVIOUS
  <2>1. \A s \in DOMAIN senderStates : senderStates[s] \in SenderStateType
    BY DEF IInv, RecvOK, SenderStatesOK, SoundState
  <2>2. \A p \in DOMAIN net : p \in Packet
    BY DEF IInv, NetOK, Sent
  <2>3. QED
    BY <2>1, <2>2 DEF IInv, SendOK, RecvOK, NetOK, TickOK, ReceiverStatesOK, RxQpOK,
                      SenderStatesOK, TypeOK, SenderStateType, ReceiverStateType,
                      RxQpType, Credited
<1>2. QED
  BY <1>1, InitKeeps, NextKeeps, PTL DEF Spec

\* A sender whose credit all came back can be granted a packet again, however
\* AIMD, bounces and losses moved its budget (UpdateSenderStateAimd,
\* ReceiveBounced).
THEOREM BudgetKeepsFloor == Spec => []BudgetFloor
<1>1. IInv => BudgetFloor
  BY DEF IInv, RecvOK, SenderStatesOK, SoundState, Floor, BudgetFloor
<1>2. QED
  BY <1>1, InitKeeps, NextKeeps, PTL DEF Spec

\* The grant clock runs whenever an enabled sender has demand: no handler and
\* no state that goes away leaves demand that nothing serves.
THEOREM ClockServesDemand == Spec => []TickServesDemand
<1>1. IInv => TickServesDemand
  BY DEF IInv, TickOK
<1>2. QED
  BY <1>1, InitKeeps, NextKeeps, PTL DEF Spec
=============================================================================
