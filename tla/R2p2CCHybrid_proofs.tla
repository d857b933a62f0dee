------------------------ MODULE R2p2CCHybrid_proofs ------------------------
(* Theorems about R2p2CCHybrid, for every set of hosts and messages, every  *)
(* budget and every number of losses and bounces.                           *)
EXTENDS R2p2CCHybrid, SumTheorems, SequenceTheorems

(***************************************************************************)
(* Operators of the model.                                                 *)
(***************************************************************************)

LEMMA MinOfTwo ==
  ASSUME NEW a \in Int, NEW b \in Int
  PROVE  Min({a, b}) = IF a <= b THEN a ELSE b
  BY DEF Min

LEMMA MaxOfTwo ==
  ASSUME NEW a \in Int, NEW b \in Int
  PROVE  Max({a, b}) = IF a >= b THEN a ELSE b
  BY DEF Max

LEMMA MinOfThree ==
  ASSUME NEW a \in Int, NEW b \in Int, NEW c \in Int
  PROVE  /\ Min({a, b, c}) \in {a, b, c}
         /\ Min({a, b, c}) <= a /\ Min({a, b, c}) <= b /\ Min({a, b, c}) <= c
<1>1. \E x \in {a, b, c} : \A y \in {a, b, c} : x <= y
  OBVIOUS
<1>. QED  BY <1>1 DEF Min

\* The kinds of packets of a message are all different.
LEMMA PacketKinds ==
  ASSUME NEW m \in Msg
  PROVE  /\ GrantReq(m) \in Packet /\ GrantPkt(m) \in Packet /\ Bounced(m) \in Packet
         /\ \A i \in Index(m) : Data(m, i) \in Packet /\ Again(m, i) \in Packet
         /\ \A i, j \in Index(m) : Resend(m, i, j) \in Packet
  BY DEF Packet

LEMMA PacketForm ==
  ASSUME NEW p \in Packet
  PROVE  /\ p.msg \in Msg
         /\ \/ p = GrantReq(p.msg) \/ p = GrantPkt(p.msg) \/ p = Bounced(p.msg)
            \/ \E i \in Index(p.msg) : p = Data(p.msg, i) \/ p = Again(p.msg, i)
            \/ \E i, j \in Index(p.msg) : p = Resend(p.msg, i, j)
<1>1. PICK m \in Msg : p \in {GrantReq(m), GrantPkt(m), Bounced(m)} \cup
         {Data(m, i) : i \in Index(m)} \cup {Again(m, i) : i \in Index(m)} \cup
         {Resend(m, i, j) : i, j \in Index(m)}
  BY DEF Packet
<1>2. p.msg = m
  BY <1>1 DEF GrantReq, GrantPkt, Bounced, Data, Again, Resend, Pkt
<1>. QED  BY <1>1, <1>2

\* Packets that leave the network were in it, so counts stay natural.
LEMMA NetAfterType ==
  ASSUME net \in [Packet -> Nat], NEW gone, NEW new,
         \A p \in gone \cap Packet : net[p] > 0
  PROVE  NetAfter(gone, new) \in [Packet -> Nat]
  BY DEF NetAfter

(***************************************************************************)
(* Type correctness.  The retransmission queue needs more than types: a     *)
(* host queues each message of its own once, while the message has packets  *)
(* to send again.                                                           *)
(***************************************************************************)

RetransmissionQueue ==
  /\ \A h \in Host : \A k \in 1 .. Len(pending[h]) :
       Src[pending[h][k]] = h /\ ranges[pending[h][k]] # <<>>
  /\ \A h \in Host : \A k, l \in 1 .. Len(pending[h]) :
       pending[h][k] = pending[h][l] => k = l
  /\ \A m \in Msg : \A i, j \in Index(m) : net[Resend(m, i, j)] > 0 => i <= j

LEMMA TypeInit == Init => TypeOK /\ RetransmissionQueue
<1> SUFFICES ASSUME Init PROVE TypeOK /\ RetransmissionQueue
  OBVIOUS
<1>1. TypeOK
  BY MessageAssumption, CreditAssumption DEF Init, TypeOK, NoState, MsgState
<1>2. RetransmissionQueue
  BY PacketKinds DEF Init, RetransmissionQueue
<1>. QED  BY <1>1, <1>2

LEMMA WindowType ==
  ASSUME TypeOK, NEW h \in Host, NEW k \in Host, Observe(h, k)
  PROVE  window' \in [Host -> [Host -> Windows \cup {MaxSrpb}]]
  BY DEF TypeOK, Observe, AdjustedWindow

\* The packets of a network after a step, one by one.
LEMMA NetAfterAt ==
  ASSUME net \in [Packet -> Nat], NEW gone, NEW new, NEW p \in Packet
  PROVE  NetAfter(gone, new)[p] = net[p] - (IF p \in gone THEN 1 ELSE 0)
                                         + (IF p \in new THEN 1 ELSE 0)
  BY DEF NetAfter

\* A step that leaves the queue alone and asks for no empty range.
LEMMA QueueUntouched ==
  ASSUME TypeOK, RetransmissionQueue, UNCHANGED <<ranges, pending>>, NEW gone, NEW new,
         net' = NetAfter(gone, new) \/ net' = net,
         \A p \in gone \cap Packet : net[p] > 0,
         \A m \in Msg : \A i, j \in Index(m) : Resend(m, i, j) \in new => i <= j
  PROVE  RetransmissionQueue'
<1>1. net \in [Packet -> Nat]
  BY DEF TypeOK
<1>2. ASSUME NEW m \in Msg, NEW i \in Index(m), NEW j \in Index(m), net'[Resend(m, i, j)] > 0
      PROVE  i <= j
  <2> DEFINE p == Resend(m, i, j)
  <2>1. p \in Packet /\ (net[p] > 0 \/ p \in new => i <= j)
    BY PacketKinds DEF RetransmissionQueue
  <2>2. net[p] > 0 \/ p \in new
    <3>. HIDE DEF p
    <3>1. p \in Packet /\ net'[p] > 0 /\ net[p] \in Nat
      BY <1>1, <1>2, <2>1 DEF p
    <3>2. NetAfter(gone, new)[p] = net[p] - (IF p \in gone THEN 1 ELSE 0)
                                          + (IF p \in new THEN 1 ELSE 0)
      BY <1>1, <3>1, NetAfterAt
    <3>. QED  BY <3>1, <3>2
  <2>. QED  BY <2>1, <2>2
<1>. QED  BY <1>2 DEF RetransmissionQueue

\* A step that leaves the network alone as well.
LEMMA QueueSame ==
  ASSUME RetransmissionQueue, UNCHANGED <<ranges, pending, net>>
  PROVE  RetransmissionQueue'
  BY DEF RetransmissionQueue

LEMMA TypeActivateUnsolicited ==
  ASSUME TypeOK, NEW m \in Msg, ActivateUnsolicited(m)
  PROVE  TypeOK' /\ UNCHANGED <<ranges, pending, net>>
<1> DEFINE room == Max({MaxSrpb - avail[Src[m]][Dst[m]], 1})
           credit == Min({Size[m], MaxSrpb, room})
<1>1. Src[m] \in Host /\ Dst[m] \in Host /\ Size[m] \in Nat /\ MaxSrpb \in Nat
  BY MessageAssumption, CreditAssumption
<1>2. MaxSrpb - avail[Src[m]][Dst[m]] \in Int
  <2>1. avail \in [Host -> [Host -> Nat]]
    BY DEF TypeOK
  <2>. QED  BY <1>1, <2>1
<1>3. room \in Nat
  BY <1>2, MaxOfTwo
<1>4. credit \in Nat
  <2>. HIDE DEF room
  <2>1. Size[m] \in Int /\ MaxSrpb \in Int /\ room \in Int
    BY <1>1, <1>3
  <2>2. credit \in {Size[m], MaxSrpb, room}
    BY <2>1, MinOfThree
  <2>. QED  BY <1>1, <1>3, <2>2
<1>. HIDE DEF credit
<1>5. /\ self' = [self EXCEPT ![m] = credit]
      /\ avail' = [avail EXCEPT ![Src[m]][Dst[m]] = @ + credit]
      /\ state' = [state EXCEPT ![m] = "active"]
      /\ UNCHANGED <<announced, sent, ranges, pending, receiverVars, net, networkVars>>
  BY DEF ActivateUnsolicited, credit
<1>6. self' \in [Msg -> Nat] /\ avail' \in [Host -> [Host -> Nat]]
  <2>1. avail \in [Host -> [Host -> Nat]] /\ self \in [Msg -> Nat]
    BY DEF TypeOK
  <2>. QED  BY <1>1, <1>4, <1>5, <2>1
<1>. QED  BY <1>5, <1>6 DEF TypeOK, receiverVars, networkVars

LEMMA TypeActivateScheduled ==
  ASSUME TypeOK, NEW m \in Msg, ActivateScheduled(m)
  PROVE  TypeOK'
<1>1. net' \in [Packet -> Nat]
  BY NetAfterType DEF TypeOK, ActivateScheduled
<1>. QED  BY <1>1 DEF TypeOK, ActivateScheduled, receiverVars, networkVars

\* want_to_send chooses an active message of s to r with packets left.
LEMMA ChoiceSendable ==
  ASSUME NEW s, NEW r, NEW m \in Choice(s, r)
  PROVE  /\ m \in Msg /\ Src[m] = s /\ Dst[m] = r /\ state[m] = "active"
         /\ Size[m] - sent[m] > 0
  BY DEF Choice

LEMMA TypeSendData ==
  ASSUME TypeOK, NEW s \in Host, NEW r \in Host, SendData(s, r)
  PROVE  TypeOK'
<1>1. PICK m \in Choice(s, r) :
        /\ sent' = [sent EXCEPT ![m] = @ + 1]
        /\ announced' = [announced EXCEPT ![m] = TRUE]
        /\ net' = NetAfter({}, {Data(m, sent[m] + 1)})
  BY DEF SendData
<1>2. m \in Msg /\ Size[m] - sent[m] > 0 /\ Size[m] \in Nat
  BY <1>1, ChoiceSendable, MessageAssumption
<1>3. net' \in [Packet -> Nat]
  BY <1>1, NetAfterType DEF TypeOK
<1>4. sent' \in [Msg -> Nat] /\ \A x \in Msg : sent'[x] <= Size[x]
  <2>1. sent \in [Msg -> Nat] /\ \A x \in Msg : sent[x] <= Size[x]
    BY DEF TypeOK
  <2>. QED  BY <1>1, <1>2, <2>1
<1>5. avail' \in [Host -> [Host -> Nat]]
  BY DEF TypeOK, SendData
<1>6. announced' \in [Msg -> BOOLEAN]
  BY <1>1 DEF TypeOK
<1>. QED  BY <1>3, <1>4, <1>5, <1>6 DEF TypeOK, SendData, receiverVars, networkVars

LEMMA TypeSendOneRetransmission ==
  ASSUME TypeOK, RetransmissionQueue, NEW s \in Host, SendOneRetransmission(s)
  PROVE  TypeOK' /\ RetransmissionQueue'
<1> DEFINE m == Head(pending[s])
<1>1. /\ pending[s] \in Seq(Msg) /\ pending[s] # <<>>
      /\ m \in Msg /\ m = pending[s][1] /\ 1 \in 1 .. Len(pending[s])
  BY SMTT(30) DEF SendOneRetransmission, TypeOK
<1>2. /\ Src[m] = s /\ ranges[m] \in Seq(Nat) /\ ranges[m] # <<>>
      /\ Head(ranges[m]) \in Nat /\ Tail(ranges[m]) \in Seq(Nat)
      /\ Len(ranges[m]) \in Nat \ {0} /\ Len(Tail(ranges[m])) = Len(ranges[m]) - 1
  <2>1. Src[m] = s /\ ranges[m] # <<>>
    BY <1>1 DEF RetransmissionQueue
  <2>2. ranges[m] \in Seq(Nat)
    BY <1>1 DEF TypeOK
  <2>. HIDE DEF m
  <2>. QED  BY <2>1, <2>2
<1>. HIDE DEF m
<1>3. /\ net' = NetAfter({}, {Again(m, Head(ranges[m]))})
      /\ ranges' = [ranges EXCEPT ![m] = Tail(@)]
      /\ pending' = [pending EXCEPT ![s] = IF Len(ranges[m]) = 1 THEN Tail(@) ELSE @]
      /\ UNCHANGED <<state, announced, self, sent, avail, receiverVars, networkVars>>
  BY DEF SendOneRetransmission, m
<1>4. net' \in [Packet -> Nat]
  BY <1>3, NetAfterType DEF TypeOK
<1>5. ranges' \in [Msg -> Seq(Nat)] /\ pending' \in [Host -> Seq(Msg)]
  <2>1. Tail(pending[s]) \in Seq(Msg)
    BY <1>1
  <2>. QED  BY <1>2, <1>3, <2>1 DEF TypeOK
<1>6. TypeOK'
  BY <1>3, <1>4, <1>5 DEF TypeOK, receiverVars, networkVars
<1>7. ASSUME NEW x \in Msg, NEW i \in Index(x), NEW j \in Index(x), net'[Resend(x, i, j)] > 0
      PROVE  i <= j
  <2>1. Resend(x, i, j) \in Packet /\ Resend(x, i, j) \notin {Again(m, Head(ranges[m]))}
    BY PacketKinds DEF Resend, Again, Pkt
  <2>2. net'[Resend(x, i, j)] = net[Resend(x, i, j)]
    <3>1. net \in [Packet -> Nat]
      BY DEF TypeOK
    <3>. QED  BY <1>3, <2>1, <3>1, NetAfterAt
  <2>. QED  BY <1>7, <2>2 DEF RetransmissionQueue
<1>8. ASSUME NEW h \in Host, h # s
      PROVE  /\ pending'[h] = pending[h]
             /\ \A k \in 1 .. Len(pending[h]) : ranges'[pending[h][k]] = ranges[pending[h][k]]
  <2>1. pending'[h] = pending[h] /\ pending[h] \in Seq(Msg)
    BY <1>3, <1>8 DEF TypeOK
  <2>2. \A k \in 1 .. Len(pending[h]) : pending[h][k] # m
    BY <1>2, <1>8 DEF RetransmissionQueue
  <2>3. ranges \in [Msg -> Seq(Nat)] /\ \A k \in 1 .. Len(pending[h]) : pending[h][k] \in Msg
    BY <2>1, SMTT(30) DEF TypeOK
  <2>. QED  BY <1>3, <2>1, <2>2, <2>3
<1>9. CASE Len(ranges[m]) = 1
  <2>1. pending'[s] = Tail(pending[s])
    BY <1>3, <1>9 DEF TypeOK
  <2>2. ASSUME NEW k \in 1 .. Len(pending'[s])
        PROVE  /\ k + 1 \in 1 .. Len(pending[s]) /\ pending'[s][k] = pending[s][k + 1]
               /\ ranges'[pending'[s][k]] = ranges[pending'[s][k]]
    <3>1. k + 1 \in 1 .. Len(pending[s]) /\ pending'[s][k] = pending[s][k + 1]
      BY <1>1, <2>1, <2>2
    <3>2. pending[s][k + 1] # m
      BY <1>1, <3>1 DEF RetransmissionQueue
    <3>3. pending[s][k + 1] \in Msg
      BY <1>1, <3>1
    <3>. QED  BY <1>3, <3>1, <3>2, <3>3 DEF TypeOK
  <2>3. \A k \in 1 .. Len(pending'[s]) : /\ Src[pending'[s][k]] = s
                                         /\ ranges'[pending'[s][k]] # <<>>
    BY <2>2, SMTT(30) DEF RetransmissionQueue
  <2>4. \A k, l \in 1 .. Len(pending'[s]) : pending'[s][k] = pending'[s][l] => k = l
    <3>1. \A k, l \in 1 .. Len(pending'[s]) :
            pending'[s][k] = pending'[s][l] => k + 1 = l + 1
      <4>1. \A k, l \in 1 .. Len(pending[s]) : pending[s][k] = pending[s][l] => k = l
        BY DEF RetransmissionQueue
      <4>. QED  BY <2>2, <4>1
    <3>. QED  BY <3>1
  <2>. QED  BY <1>6, <1>7, <1>8, <2>3, <2>4, SMTT(30) DEF RetransmissionQueue
<1>10. CASE Len(ranges[m]) # 1
  <2>1. pending' = pending
    BY <1>3, <1>10 DEF TypeOK
  <2>2. Tail(ranges[m]) # <<>>
    <3>1. Len(Tail(ranges[m])) # 0
      BY <1>2, <1>10
    <3>2. Len(<<>>) = 0
      OBVIOUS
    <3>. QED  BY <3>1, <3>2
  <2>3. ASSUME NEW k \in 1 .. Len(pending[s])
        PROVE  ranges'[pending[s][k]] # <<>>
    <3>1. pending[s][k] \in Msg /\ ranges[pending[s][k]] # <<>>
      BY <1>1 DEF RetransmissionQueue
    <3>. QED  BY <1>1, <1>3, <2>2, <3>1 DEF TypeOK
  <2>. QED  BY <1>6, <1>7, <1>8, <2>1, <2>3 DEF RetransmissionQueue
<1>. QED  BY <1>6, <1>9, <1>10

LEMMA TypeReceiveGrant ==
  ASSUME TypeOK, NEW m \in Msg, ReceiveGrant(m)
  PROVE  TypeOK'
<1>1. net' \in [Packet -> Nat]
  BY NetAfterType DEF TypeOK, ReceiveGrant
<1>2. window' \in [Host -> [Host -> Windows \cup {MaxSrpb}]]
  BY WindowType, MessageAssumption DEF ReceiveGrant
<1>3. avail' \in [Host -> [Host -> Nat]]
  <2>1. avail \in [Host -> [Host -> Nat]] /\ Src[m] \in Host /\ Dst[m] \in Host
    BY MessageAssumption DEF TypeOK
  <2>. QED  BY <2>1 DEF ReceiveGrant
<1>. QED  BY <1>1, <1>2, <1>3 DEF TypeOK, ReceiveGrant, networkVars

\* The range that handle_resend queues again: what was sent of what is asked.
LEMMA ResendRange ==
  ASSUME TypeOK, RetransmissionQueue, NEW p \in Packet, p.kind = "RESEND", net[p] > 0,
         p.first <= sent[p.msg]
  PROVE  LET upto == Min({p.last, sent[p.msg]})
             again == [i \in 1 .. upto - p.first + 1 |-> p.first + i - 1]
         IN /\ again \in Seq(Nat) /\ again # <<>> /\ Len(again) = upto - p.first + 1
            /\ \A i \in 1 .. Len(again) : again[i] \in 1 .. sent[p.msg]
<1> DEFINE upto == Min({p.last, sent[p.msg]})
           n == upto - p.first + 1
           again == [i \in 1 .. n |-> p.first + i - 1]
<1>1. p.msg \in Msg /\ sent[p.msg] \in Nat
  BY PacketForm DEF TypeOK
<1>2. PICK i \in Index(p.msg), j \in Index(p.msg) : p = Resend(p.msg, i, j)
  BY PacketForm DEF GrantReq, GrantPkt, Bounced, Data, Again, Pkt
<1>3. p.first = i /\ p.last = j /\ i <= j /\ i \in Nat \ {0} /\ j \in Nat
  <2>1. i \in Nat \ {0} /\ j \in Nat
    BY <1>1, MessageAssumption DEF Index
  <2>2. p.first = i /\ p.last = j
    BY <1>2 DEF Resend, Pkt
  <2>3. i <= j
    BY <1>1, <1>2 DEF RetransmissionQueue
  <2>. QED  BY <2>1, <2>2, <2>3
<1>4. upto \in Nat /\ p.first <= upto /\ upto <= sent[p.msg]
  BY <1>1, <1>3, MinOfTwo
<1>. HIDE DEF upto
<1>5. n \in Nat \ {0}
  BY <1>3, <1>4
<1>6. \A k \in 1 .. n : p.first + k - 1 \in 1 .. sent[p.msg] /\ p.first + k - 1 \in Nat
  BY <1>1, <1>3, <1>4
<1>7. again \in Seq(Nat) /\ Len(again) = n
  <2>. HIDE DEF n
  <2>. QED  BY <1>5, <1>6
<1>8. again # <<>>
  <2>1. Len(again) # 0
    BY <1>5, <1>7
  <2>. HIDE DEF again
  <2>. QED  BY <2>1
<1>9. \A k \in 1 .. n : again[k] \in 1 .. sent[p.msg]
  BY <1>6
<1>. QED  BY <1>7, <1>8, <1>9 DEF upto

LEMMA TypeHandleResend ==
  ASSUME TypeOK, RetransmissionQueue, NEW p \in Packet, HandleResend(p)
  PROVE  TypeOK' /\ RetransmissionQueue'
<1> DEFINE m == p.msg
           upto == Min({p.last, sent[m]})
           again == [i \in 1 .. upto - p.first + 1 |-> p.first + i - 1]
           queue == state[m] = "active" /\ p.first <= sent[m]
<1>1. /\ p.kind = "RESEND" /\ net[p] > 0
      /\ net' = NetAfter({p}, {})
      /\ ranges' = IF queue THEN [ranges EXCEPT ![m] = @ \o again] ELSE ranges
      /\ pending' = IF queue /\ ranges[m] = <<>>
                    THEN [pending EXCEPT ![Src[m]] = Append(@, m)] ELSE pending
      /\ Observe(Src[m], Dst[m])
      /\ UNCHANGED <<state, announced, self, sent, avail, inbound, budget, srpb, passed,
                     twice, unrevoked, networkVars>>
  BY DEF HandleResend
<1>2. m \in Msg /\ Src[m] \in Host /\ Dst[m] \in Host
  BY PacketForm, MessageAssumption
<1>3. queue => again \in Seq(Nat) /\ again # <<>>
  BY <1>1, ResendRange
<1>. HIDE DEF again, queue, upto
<1>4. net' \in [Packet -> Nat]
  BY <1>1, NetAfterType DEF TypeOK
<1>5. window' \in [Host -> [Host -> Windows \cup {MaxSrpb}]]
  BY <1>1, <1>2, WindowType
<1>6. /\ ranges \in [Msg -> Seq(Nat)] /\ pending \in [Host -> Seq(Msg)]
  BY DEF TypeOK
<1>7. queue => ranges[m] \o again \in Seq(Nat) /\ ranges[m] \o again # <<>>
  <2>1. ranges[m] \in Seq(Nat)
    BY <1>2, <1>6
  <2>2. SUFFICES ASSUME queue PROVE ranges[m] \o again \in Seq(Nat) /\ ranges[m] \o again # <<>>
    OBVIOUS
  <2>3. again \in Seq(Nat) /\ Len(again) # 0
    BY <1>3, <2>2, EmptySeq
  <2>4. ranges[m] \o again \in Seq(Nat) /\ Len(ranges[m] \o again) # 0
    BY <2>1, <2>3
  <2>. QED  BY <2>4
<1>8. ranges' \in [Msg -> Seq(Nat)] /\ pending' \in [Host -> Seq(Msg)]
  BY <1>1, <1>2, <1>6, <1>7
<1>9. TypeOK'
  BY <1>1, <1>4, <1>5, <1>8 DEF TypeOK, networkVars
<1>10. \A x \in Msg : ranges[x] # <<>> => ranges'[x] # <<>>
  BY <1>1, <1>2, <1>6, <1>7
<1>11. \A x \in Msg : \A i, j \in Index(x) : net'[Resend(x, i, j)] > 0 => i <= j
  <2>1. ASSUME NEW x \in Msg, NEW i \in Index(x), NEW j \in Index(x), net'[Resend(x, i, j)] > 0
        PROVE  i <= j
    <3>1. /\ Resend(x, i, j) \in Packet /\ net \in [Packet -> Nat]
      BY PacketKinds DEF TypeOK
    <3>2. /\ net'[Resend(x, i, j)] <= net[Resend(x, i, j)]
          /\ net[Resend(x, i, j)] \in Int /\ net'[Resend(x, i, j)] \in Int
      <4> DEFINE q == Resend(x, i, j)
      <4>. HIDE DEF q
      <4>1. q \in Packet
        BY <3>1 DEF q
      <4>2. net'[q] = net[q] - (IF q \in {p} THEN 1 ELSE 0) + (IF q \in {} THEN 1 ELSE 0)
        BY <1>1, <3>1, <4>1, NetAfterAt
      <4>3. net[q] \in Nat
        BY <3>1, <4>1
      <4>4. net'[q] <= net[q] /\ net'[q] \in Int
        BY <4>2, <4>3
      <4>. QED  BY <4>3, <4>4 DEF q
    <3>3. net[Resend(x, i, j)] > 0
      <4>1. \A a, b \in Int : a > 0 /\ a <= b => b > 0
        OBVIOUS
      <4>. QED  BY <2>1, <3>2, <4>1
    <3>. QED  BY <3>3 DEF RetransmissionQueue
  <2>. QED  BY <2>1
<1>12. CASE ~(queue /\ ranges[m] = <<>>)
  <2>1. pending' = pending
    BY <1>1, <1>12
  <2>2. \A h \in Host : \A k \in 1 .. Len(pending[h]) :
          pending[h][k] \in Msg /\ Src[pending[h][k]] = h /\ ranges[pending[h][k]] # <<>>
    BY <1>6 DEF RetransmissionQueue
  <2>3. \A h \in Host : \A k \in 1 .. Len(pending[h]) :
          Src[pending[h][k]] = h /\ ranges'[pending[h][k]] # <<>>
    BY <1>10, <2>2
  <2>. QED  BY <1>9, <1>11, <2>1, <2>3 DEF RetransmissionQueue
<1>13. CASE queue /\ ranges[m] = <<>>
  <2> DEFINE s == Src[m]
  <2>1. /\ pending' = [pending EXCEPT ![s] = Append(@, m)]
        /\ ranges'[m] # <<>>
    BY <1>1, <1>2, <1>6, <1>7, <1>13
  <2>2. \A h \in Host : \A k \in 1 .. Len(pending[h]) :
          /\ pending[h][k] \in Msg /\ Src[pending[h][k]] = h /\ ranges[pending[h][k]] # <<>>
          /\ pending[h][k] # m
    BY <1>6, <1>13 DEF RetransmissionQueue
  <2>3. \A h \in Host : \A k, l \in 1 .. Len(pending[h]) :
          pending[h][k] = pending[h][l] => k = l
    BY DEF RetransmissionQueue
  <2>4. ASSUME NEW h \in Host
        PROVE  /\ \A k \in 1 .. Len(pending'[h]) :
                    Src[pending'[h][k]] = h /\ ranges'[pending'[h][k]] # <<>>
               /\ \A k, l \in 1 .. Len(pending'[h]) :
                    pending'[h][k] = pending'[h][l] => k = l
    <3>1. pending[h] \in Seq(Msg)
      BY <1>6
    <3>2. CASE h # s
      <4>1. pending'[h] = pending[h]
        BY <1>6, <2>1, <3>2
      <4>. QED  BY <1>10, <2>2, <2>3, <4>1
    <3>3. CASE h = s
      <4>1. /\ pending'[h] = Append(pending[h], m)
            /\ Len(pending'[h]) = Len(pending[h]) + 1 /\ Len(pending[h]) \in Nat
            /\ pending'[h][Len(pending[h]) + 1] = m
            /\ \A k \in 1 .. Len(pending[h]) : pending'[h][k] = pending[h][k]
        <5>1. pending'[h] = Append(pending[h], m)
          BY <1>2, <1>6, <2>1, <3>3
        <5>. QED  BY <1>2, <3>1, <5>1
      <4>2. \A k \in 1 .. Len(pending'[h]) : k \in 1 .. Len(pending[h]) \/ k = Len(pending[h]) + 1
        BY <4>1
      <4>3. ASSUME NEW k \in 1 .. Len(pending'[h])
            PROVE  Src[pending'[h][k]] = h /\ ranges'[pending'[h][k]] # <<>>
        <5>1. CASE k \in 1 .. Len(pending[h])
          BY <1>10, <2>2, <4>1, <5>1
        <5>2. CASE k = Len(pending[h]) + 1
          BY <2>1, <3>3, <4>1, <5>2
        <5>. QED  BY <4>2, <5>1, <5>2
      <4>4. \A k, l \in 1 .. Len(pending'[h]) : pending'[h][k] = pending'[h][l] => k = l
        <5>. HIDE DEF m, s
        <5>. QED  BY <2>2, <2>3, <4>1, <4>2
      <4>. QED  BY <4>3, <4>4
    <3>. QED  BY <3>2, <3>3
  <2>. QED  BY <1>9, <1>11, <2>4 DEF RetransmissionQueue
<1>. QED  BY <1>12, <1>13

LEMMA TypeCleanupFinished ==
  ASSUME TypeOK, NEW m \in Msg, CleanupFinished(m)
  PROVE  TypeOK'
  BY DEF TypeOK, CleanupFinished, receiverVars, networkVars

LEMMA TypeReceiveRequest ==
  ASSUME TypeOK, NEW m \in Msg, ReceiveRequest(m)
  PROVE  TypeOK'
<1>1. net' \in [Packet -> Nat]
  BY NetAfterType DEF TypeOK, ReceiveRequest
<1>2. window' \in [Host -> [Host -> Windows \cup {MaxSrpb}]]
  BY WindowType, MessageAssumption DEF ReceiveRequest
<1>3. inbound' \in [Msg -> MsgState]
  <2>1. inbound \in [Msg -> MsgState]
    BY DEF TypeOK
  <2>. QED  BY <2>1 DEF ReceiveRequest, MsgState
<1>. QED  BY <1>1, <1>2, <1>3 DEF TypeOK, ReceiveRequest, senderVars, networkVars

LEMMA TypeReceivedData ==
  ASSUME TypeOK, NEW m \in Msg, NEW i \in Index(m), NEW st \in MsgState, NEW debit \in Nat,
         ReceivedData(m, i, st, debit)
  PROVE  /\ inbound' \in [Msg -> MsgState]
         /\ budget' \in [Host -> Int] /\ srpb' \in [Host -> [Host -> Int]]
         /\ passed' \in [Msg -> SUBSET Nat] /\ twice' \subseteq Msg
<1> DEFINE r == Dst[m]
           after == [st EXCEPT !.received = @ + 1,
                               !.bitmap = IF st.info THEN @ \cup {i} ELSE @]
<1>1. r \in Host /\ Src[m] \in Host /\ i \in Nat
  BY MessageAssumption DEF Index
<1>2. /\ inbound \in [Msg -> MsgState] /\ budget \in [Host -> Int]
      /\ srpb \in [Host -> [Host -> Int]]
      /\ passed \in [Msg -> SUBSET Nat] /\ twice \subseteq Msg
  BY DEF TypeOK
<1>3. after \in MsgState /\ NoState \in MsgState
  <2>1. (IF st.info THEN st.bitmap \cup {i} ELSE st.bitmap) \in SUBSET Nat
    BY <1>1 DEF MsgState
  <2>2. st.received + 1 \in Nat
    BY DEF MsgState
  <2>3. after = [st EXCEPT !.received = st.received + 1,
                           !.bitmap = IF st.info THEN st.bitmap \cup {i} ELSE st.bitmap]
    BY DEF MsgState
  <2>4. \A a \in Nat, b \in SUBSET Nat :
          [st EXCEPT !.received = a, !.bitmap = b] \in MsgState
    BY DEF MsgState
  <2>. HIDE DEF after
  <2>5. after \in MsgState
    BY <2>1, <2>2, <2>3, <2>4
  <2>. QED  BY <2>5 DEF MsgState, NoState
<1>4. CASE i \in st.bitmap
  BY <1>2, <1>4 DEF ReceivedData
<1>5. CASE i \notin st.bitmap
  <2>. HIDE DEF after
  <2>1. /\ inbound' = [inbound EXCEPT ![m] = IF Finished(m, after) THEN NoState ELSE after]
        /\ budget' = [budget EXCEPT ![r] = @ - debit + 1]
        /\ srpb' = [srpb EXCEPT ![r][Src[m]] = @ - debit + 1]
        /\ passed' = [passed EXCEPT ![m] = @ \cup {i}]
        /\ twice' = IF i \in passed[m] THEN twice \cup {m} ELSE twice
    BY <1>5 DEF ReceivedData, after
  <2>2. inbound' \in [Msg -> MsgState]
    BY <1>2, <1>3, <2>1
  <2>3. budget' \in [Host -> Int] /\ srpb' \in [Host -> [Host -> Int]]
    BY <1>1, <1>2, <2>1
  <2>4. passed' \in [Msg -> SUBSET Nat] /\ twice' \subseteq Msg
    BY <1>1, <1>2, <2>1
  <2>. QED  BY <2>2, <2>3, <2>4
<1>. QED  BY <1>4, <1>5

\* The two ways data is received, without the network.
DataStep(m, i) ==
  \E st \in MsgState, debit \in Nat : ReceivedData(m, i, st, debit)

LEMMA TypeReceiveData ==
  ASSUME TypeOK, NEW m \in Msg, NEW i \in Index(m), ReceiveData(m, i) \/ ReceiveAgain(m, i)
  PROVE  TypeOK'
<1>0. inbound[m] \in MsgState /\ self[m] \in Nat
  BY DEF TypeOK
<1>1. DataStep(m, i) \/ UNCHANGED <<inbound, budget, srpb, passed, twice>>
  <2>1. [inbound[m] EXCEPT !.known = TRUE] \in MsgState
    BY <1>0 DEF MsgState
  <2>2. [[inbound[m] EXCEPT !.known = TRUE] EXCEPT !.info = TRUE, !.granted = self[m]] \in MsgState
    BY <1>0 DEF MsgState
  <2>. QED  BY <1>0, <2>1, <2>2 DEF ReceiveData, ReceiveAgain, DataStep
<1>2. /\ inbound' \in [Msg -> MsgState]
      /\ budget' \in [Host -> Int] /\ srpb' \in [Host -> [Host -> Int]]
      /\ passed' \in [Msg -> SUBSET Nat] /\ twice' \subseteq Msg
  <2>1. CASE DataStep(m, i)
    BY <2>1, TypeReceivedData DEF DataStep
  <2>2. CASE UNCHANGED <<inbound, budget, srpb, passed, twice>>
    BY <2>2 DEF TypeOK
  <2>. QED  BY <1>1, <2>1, <2>2
<1>3. net' \in [Packet -> Nat]
  <2>1. CASE ReceiveData(m, i)
    BY <2>1, NetAfterType DEF TypeOK, ReceiveData
  <2>2. CASE ReceiveAgain(m, i)
    BY <2>2, NetAfterType DEF TypeOK, ReceiveAgain
  <2>. QED  BY <2>1, <2>2
<1>4. window' \in [Host -> [Host -> Windows \cup {MaxSrpb}]]
  BY WindowType, MessageAssumption DEF ReceiveData, ReceiveAgain
<1>5. UNCHANGED <<senderVars, unrevoked, networkVars>>
  BY DEF ReceiveData, ReceiveAgain
<1>. QED  BY <1>2, <1>3, <1>4, <1>5 DEF TypeOK, senderVars, networkVars

LEMMA TypeReceiveBounced ==
  ASSUME TypeOK, NEW m \in Msg, ReceiveBounced(m)
  PROVE  TypeOK'
<1> DEFINE r == Dst[m]
           revoke == IF inbound[m].known /\ inbound[m].granted > inbound[m].received
                     THEN 1 ELSE 0
<1>1. r \in Host /\ Src[m] \in Host
  BY MessageAssumption
<1>2. /\ inbound \in [Msg -> MsgState] /\ budget \in [Host -> Int]
      /\ srpb \in [Host -> [Host -> Int]] /\ unrevoked \in [Msg -> Nat]
  BY DEF TypeOK
<1>3. revoke \in {0, 1} /\ inbound[m].granted - revoke \in Nat
  BY <1>2 DEF MsgState
<1>. HIDE DEF revoke
<1>4. /\ inbound' = [inbound EXCEPT ![m].granted = @ - revoke]
      /\ budget' = [budget EXCEPT ![r] = @ + 1]
      /\ srpb' = [srpb EXCEPT ![r][Src[m]] = @ + 1]
      /\ unrevoked' = [unrevoked EXCEPT ![m] = @ + 1 - revoke]
      /\ net' = NetAfter({Bounced(m)}, {}) /\ net[Bounced(m)] > 0
      /\ Observe(r, Src[m])
      /\ UNCHANGED <<senderVars, passed, twice, networkVars>>
  BY DEF ReceiveBounced, revoke
<1>5. inbound' \in [Msg -> MsgState]
  BY <1>2, <1>3, <1>4 DEF MsgState
<1>6. /\ budget' \in [Host -> Int] /\ srpb' \in [Host -> [Host -> Int]]
      /\ unrevoked' \in [Msg -> Nat]
  BY <1>1, <1>2, <1>3, <1>4
<1>7. net' \in [Packet -> Nat]
  BY <1>4, NetAfterType DEF TypeOK
<1>8. window' \in [Host -> [Host -> Windows \cup {MaxSrpb}]]
  BY <1>1, <1>4, WindowType
<1>. QED  BY <1>4, <1>5, <1>6, <1>7, <1>8 DEF TypeOK, senderVars, networkVars

LEMMA TypeSendCredit ==
  ASSUME TypeOK, NEW m \in Msg, SendCredit(m)
  PROVE  TypeOK'
<1>1. Dst[m] \in Host /\ Src[m] \in Host
  BY MessageAssumption
<1>2. /\ inbound \in [Msg -> MsgState] /\ budget \in [Host -> Int]
      /\ srpb \in [Host -> [Host -> Int]]
  BY DEF TypeOK
<1>3. inbound' \in [Msg -> MsgState]
  <2>0. inbound[m] \in MsgState
    BY <1>2
  <2>1. [inbound[m] EXCEPT !.granted = @ + 1] \in MsgState
    BY <2>0 DEF MsgState
  <2>2. inbound' = [inbound EXCEPT ![m] = [inbound[m] EXCEPT !.granted = @ + 1]]
    BY DEF SendCredit
  <2>. QED  BY <1>2, <2>1, <2>2
<1>4. budget' \in [Host -> Int] /\ srpb' \in [Host -> [Host -> Int]]
  BY <1>1, <1>2 DEF SendCredit
<1>5. net' \in [Packet -> Nat]
  BY NetAfterType DEF TypeOK, SendCredit
<1>. QED  BY <1>3, <1>4, <1>5 DEF TypeOK, SendCredit, senderVars, networkVars

LEMMA TypeRemoveGranted ==
  ASSUME TypeOK, NEW m \in Msg, RemoveGranted(m)
  PROVE  TypeOK'
<1>1. inbound' \in [Msg -> MsgState]
  BY DEF TypeOK, RemoveGranted, NoState, MsgState
<1>. QED  BY <1>1 DEF TypeOK, RemoveGranted, senderVars, networkVars

LEMMA TypeCheckResendTimeouts ==
  ASSUME TypeOK, NEW m \in Msg, CheckResendTimeouts(m)
  PROVE  /\ TypeOK'
         /\ \E new : /\ net' = NetAfter({}, new)
                     /\ \A p \in new : \E i, j : p = Resend(m, i, j) /\ i <= j
<1> DEFINE st == inbound[m]
           missing == (1 .. st.granted) \ st.bitmap
           gaps == {g \in missing \X missing :
                      /\ g[1] <= g[2] /\ g[1] .. g[2] \subseteq missing
                      /\ g[1] - 1 \notin missing /\ g[2] + 1 \notin missing}
           new == {Resend(m, g[1], g[2]) : g \in gaps}
<1>1. net' = NetAfter({}, new) /\ UNCHANGED <<senderVars, receiverVars, networkVars>>
  BY DEF CheckResendTimeouts
<1>2. \A p \in new : \E i, j : p = Resend(m, i, j) /\ i <= j
  OBVIOUS
<1>. HIDE DEF new
<1>3. net' \in [Packet -> Nat]
  BY <1>1, NetAfterType DEF TypeOK
<1>. QED  BY <1>1, <1>2, <1>3 DEF TypeOK, senderVars, receiverVars, networkVars

LEMMA TypeLose ==
  ASSUME TypeOK, NEW p \in Packet, Lose(p)
  PROVE  TypeOK'
<1>1. net' \in [Packet -> Nat]
  BY NetAfterType DEF TypeOK, Lose
<1>2. losses' \in Nat /\ lostCredit' \in [Msg -> Nat]
  BY PacketForm DEF TypeOK, Lose
<1>. QED  BY <1>1, <1>2 DEF TypeOK, Lose, senderVars, receiverVars

LEMMA TypeBounce ==
  ASSUME TypeOK, NEW m \in Msg, Bounce(m)
  PROVE  TypeOK'
<1>1. net' \in [Packet -> Nat]
  BY NetAfterType DEF TypeOK, Bounce
<1>2. bounces' \in Nat /\ UNCHANGED <<senderVars, receiverVars, losses, lostCredit>>
  BY DEF TypeOK, Bounce
<1>. QED  BY <1>1, <1>2 DEF TypeOK, senderVars, receiverVars

LEMMA TypeNext ==
  ASSUME TypeOK, RetransmissionQueue, [Next]_vars
  PROVE  TypeOK' /\ RetransmissionQueue'
<1>1. ASSUME NEW m \in Msg, ActivateUnsolicited(m)
      PROVE  TypeOK' /\ RetransmissionQueue'
  BY <1>1, TypeActivateUnsolicited, QueueSame
<1>2. ASSUME NEW m \in Msg, ActivateScheduled(m)
      PROVE  TypeOK' /\ RetransmissionQueue'
  <2>1. UNCHANGED <<ranges, pending>> /\ net' = NetAfter({}, {GrantReq(m)})
    BY <1>2 DEF ActivateScheduled
  <2>2. \A x, i, j : Resend(x, i, j) \notin {GrantReq(m)}
    BY DEF Resend, GrantReq, Pkt
  <2>. QED  BY <1>2, <2>1, <2>2, TypeActivateScheduled, QueueUntouched
<1>3. ASSUME NEW m \in Msg, ReceiveGrant(m)
      PROVE  TypeOK' /\ RetransmissionQueue'
  <2>1. /\ UNCHANGED <<ranges, pending>> /\ net' = NetAfter({GrantPkt(m)}, {})
        /\ net[GrantPkt(m)] > 0
    BY <1>3 DEF ReceiveGrant
  <2>. QED  BY <1>3, <2>1, TypeReceiveGrant, QueueUntouched
<1>4. ASSUME NEW m \in Msg, CleanupFinished(m)
      PROVE  TypeOK' /\ RetransmissionQueue'
  <2>1. UNCHANGED <<ranges, pending, net>>
    BY <1>4 DEF CleanupFinished
  <2>. QED  BY <1>4, <2>1, TypeCleanupFinished, QueueSame
<1>5. ASSUME NEW s \in Host, NEW r \in Host, SendData(s, r)
      PROVE  TypeOK' /\ RetransmissionQueue'
  <2>1. PICK m \in Choice(s, r) : net' = NetAfter({}, {Data(m, sent[m] + 1)})
    BY <1>5 DEF SendData
  <2>2. \A x, i, j : Resend(x, i, j) \notin {Data(m, sent[m] + 1)}
    BY DEF Resend, Data, Pkt
  <2>3. UNCHANGED <<ranges, pending>>
    BY <1>5 DEF SendData
  <2>. QED  BY <1>5, <2>1, <2>2, <2>3, TypeSendData, QueueUntouched
<1>6. ASSUME NEW s \in Host, SendOneRetransmission(s)
      PROVE  TypeOK' /\ RetransmissionQueue'
  BY <1>6, TypeSendOneRetransmission
<1>7. ASSUME NEW p \in Packet, HandleResend(p)
      PROVE  TypeOK' /\ RetransmissionQueue'
  BY <1>7, TypeHandleResend
<1>8. ASSUME NEW m \in Msg, ReceiveRequest(m)
      PROVE  TypeOK' /\ RetransmissionQueue'
  <2>1. /\ UNCHANGED <<ranges, pending>> /\ net' = NetAfter({GrantReq(m)}, {})
        /\ net[GrantReq(m)] > 0
    BY <1>8 DEF ReceiveRequest, senderVars
  <2>. QED  BY <1>8, <2>1, TypeReceiveRequest, QueueUntouched
<1>9. ASSUME NEW m \in Msg, ReceiveBounced(m)
      PROVE  TypeOK' /\ RetransmissionQueue'
  <2>1. /\ UNCHANGED <<ranges, pending>> /\ net' = NetAfter({Bounced(m)}, {})
        /\ net[Bounced(m)] > 0
    BY <1>9 DEF ReceiveBounced, senderVars
  <2>. QED  BY <1>9, <2>1, TypeReceiveBounced, QueueUntouched
<1>10. ASSUME NEW m \in Msg, SendCredit(m)
      PROVE  TypeOK' /\ RetransmissionQueue'
  <2>1. UNCHANGED <<ranges, pending>> /\ net' = NetAfter({}, {GrantPkt(m)})
    BY <1>10 DEF SendCredit, senderVars
  <2>2. \A x, i, j : Resend(x, i, j) \notin {GrantPkt(m)}
    BY DEF Resend, GrantPkt, Pkt
  <2>. QED  BY <1>10, <2>1, <2>2, TypeSendCredit, QueueUntouched
<1>11. ASSUME NEW m \in Msg, RemoveGranted(m)
      PROVE  TypeOK' /\ RetransmissionQueue'
  <2>1. UNCHANGED <<ranges, pending, net>>
    BY <1>11 DEF RemoveGranted, senderVars
  <2>. QED  BY <1>11, <2>1, TypeRemoveGranted, QueueSame
<1>12. ASSUME NEW m \in Msg, CheckResendTimeouts(m)
      PROVE  TypeOK' /\ RetransmissionQueue'
  <2>1. PICK new : /\ net' = NetAfter({}, new)
                   /\ \A p \in new : \E i, j : p = Resend(m, i, j) /\ i <= j
    BY <1>12, TypeCheckResendTimeouts
  <2>2. \A x, i, j : Resend(x, i, j) \in new => i <= j
    BY <2>1 DEF Resend, Pkt
  <2>3. UNCHANGED <<ranges, pending>>
    BY <1>12 DEF CheckResendTimeouts, senderVars
  <2>. QED  BY <1>12, <2>1, <2>2, <2>3, TypeCheckResendTimeouts, QueueUntouched
<1>13. ASSUME NEW m \in Msg, NEW i \in Index(m), ReceiveData(m, i) \/ ReceiveAgain(m, i)
      PROVE  TypeOK' /\ RetransmissionQueue'
  <2>1. /\ UNCHANGED <<ranges, pending>>
        /\ \/ net' = NetAfter({Data(m, i)}, {}) /\ net[Data(m, i)] > 0
           \/ net' = NetAfter({Again(m, i)}, {}) /\ net[Again(m, i)] > 0
    BY <1>13 DEF ReceiveData, ReceiveAgain, senderVars
  <2>. QED  BY <1>13, <2>1, TypeReceiveData, QueueUntouched
<1>14. ASSUME NEW p \in Packet, Lose(p)
      PROVE  TypeOK' /\ RetransmissionQueue'
  <2>1. /\ UNCHANGED <<ranges, pending>> /\ net' = NetAfter({p}, {}) /\ net[p] > 0
    BY <1>14 DEF Lose, senderVars
  <2>. QED  BY <1>14, <2>1, TypeLose, QueueUntouched
<1>15. ASSUME NEW m \in Msg, Bounce(m)
      PROVE  TypeOK' /\ RetransmissionQueue'
  <2>1. /\ UNCHANGED <<ranges, pending>> /\ net' = NetAfter({GrantPkt(m)}, {Bounced(m)})
        /\ net[GrantPkt(m)] > 0
    BY <1>15 DEF Bounce, senderVars
  <2>2. \A x, i, j : Resend(x, i, j) \notin {Bounced(m)}
    BY DEF Resend, Bounced, Pkt
  <2>. QED  BY <1>15, <2>1, <2>2, TypeBounce, QueueUntouched
<1>16. CASE UNCHANGED vars
  BY <1>16 DEF vars, senderVars, receiverVars, networkVars, TypeOK, RetransmissionQueue
<1>. QED  BY <1>1, <1>2, <1>3, <1>4, <1>5, <1>6, <1>7, <1>8, <1>9, <1>10, <1>11, <1>12,
             <1>13, <1>14, <1>15, <1>16 DEF Next, SenderStep, ReceiverStep, NetworkStep

\* The retransmission queue of a host holds each message once, and only while
\* it has packets to send again: send_one_retransmission never takes from an
\* empty range, in any order of RESENDs and retransmissions.
THEOREM TypeCorrect == Spec => [](TypeOK /\ RetransmissionQueue)
  BY TypeInit, TypeNext, PTL DEF Spec
=============================================================================
