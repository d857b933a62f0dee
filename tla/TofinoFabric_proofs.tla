------------------------ MODULE TofinoFabric_proofs ------------------------
(* Theorems about TofinoFabric, for every topology, threshold and traffic:  *)
(* its types, the mirror loop, and the credit it counts at the ports a      *)
(* grant passes, for every network whose routes are symmetric.              *)
EXTENDS TofinoFabric, SequenceTheorems, SumTheorems

(***************************************************************************)
(* The register arithmetic of the egress pipeline.                         *)
(***************************************************************************)

\* Port_Qp_Reg stays a Word-sized register under both register actions.
LEMMA QpArithmetic ==
  ASSUME NEW v \in 0 .. Word - 1, NEW a \in Nat
  PROVE  /\ AddQp(v, a) \in 0 .. Word - 1
         /\ SubtractQp(v, a) \in 0 .. Word - 1
  BY ThresholdAssumption DEF AddQp, SubtractQp

\* README.md: "the single net update approximates max(0, Qp - drain) +
\* packet_size, and differs when Qp is smaller than the computed drain".  It
\* is exact whenever the drain fits, and otherwise errs on the low side only.
THEOREM NetUpdateApproximates ==
  ASSUME NEW v \in 0 .. Word - 1, NEW size \in Nat, NEW drain \in Nat,
         v + size < Word
  PROVE  LET exact == SubtractQp(v, drain) + size
         IN /\ drain <= v => NetUpdate(v, size, drain) = exact
            /\ NetUpdate(v, size, drain) <= exact
            /\ exact <= NetUpdate(v, size, drain) + drain
<1>1. CASE drain < size
  <2>1. v + (size - drain) \in 0 .. Word - 1
    BY <1>1, ThresholdAssumption
  <2>2. (v + (size - drain)) % Word = v + (size - drain)
    BY <2>1, ThresholdAssumption
  <2>. QED  BY <1>1, <2>2, ThresholdAssumption DEF NetUpdate, AddQp, SubtractQp
<1>2. CASE ~(drain < size)
  BY <1>2, ThresholdAssumption DEF NetUpdate, SubtractQp
<1>. QED  BY <1>1, <1>2

(***************************************************************************)
(* Type correctness.                                                       *)
(***************************************************************************)

\* Every host has a link to its switch.
LEMMA UplinkType ==
  ASSUME NEW h \in Host
  PROVE  Uplink(h) \in Link
  BY TopologyAssumption DEF Uplink

LEMMA FreshType ==
  ASSUME NEW t \in Token, NEW type \in {"grant", "data", "signal"},
         NEW src \in Host, NEW dst \in Host, NEW unsched \in BOOLEAN
  PROVE  Fresh(t, type, src, dst, unsched) \in Packet
  BY UplinkType DEF Fresh, Packet, PacketAt

\* Ingress turns a packet into one about a port of its switch.
LEMMA RewriteType ==
  ASSUME NEW pkt \in Packet, NEW p \in Port
  PROVE  /\ AcceptCredit(pkt, p) \in PacketAt(Port)
         /\ BounceCreditTo(pkt, p) \in PacketAt(Port)
         /\ AcceptRemoteBounce(pkt, p) \in PacketAt(Port)
         /\ Classify(pkt, p) \in PacketAt(Port)
  BY DEF AcceptCredit, BounceCreditTo, AcceptRemoteBounce, Classify, Packet, PacketAt

\* Queues keep their type when an element is added or taken.
LEMMA EnqueueType ==
  ASSUME NEW I, NEW S, NEW f \in [I -> Seq(S)], NEW i \in I, NEW e \in S
  PROVE  [f EXCEPT ![i] = Append(@, e)] \in [I -> Seq(S)]
  OBVIOUS

LEMMA DequeueType ==
  ASSUME NEW I, NEW S, NEW f \in [I -> Seq(S)], NEW i \in I, f[i] # <<>>
  PROVE  /\ Head(f[i]) \in S
         /\ [f EXCEPT ![i] = Tail(@)] \in [I -> Seq(S)]
  OBVIOUS

LEMMA TypeInit == Init => TypeOK
  BY ThresholdAssumption DEF Init, TypeOK

LEMMA TypeIngress ==
  ASSUME TypeOK, NEW l \in Link, l[2] \in Switch, Ingress(l[1], l[2])
  PROVE  TypeOK'
<1> DEFINE m == l[1]
           s == l[2]
<1>1. l = <<m, s>> /\ <<s, m>> \in Port
  BY TopologyAssumption DEF Node, Port
<1>2. Dequeue(m, s)
  BY DEF Ingress, BounceGrant, AcceptGrant, ForwardBounced, ForwardSignal, ForwardData
<1>3. Arriving(m, s) \in Packet /\ wire' \in [Link -> Seq(Packet)]
  <2>1. /\ wire \in [Link -> Seq(Packet)]
        /\ wire[l] # <<>> /\ Arriving(m, s) = Head(wire[l])
        /\ wire' = [wire EXCEPT ![l] = Tail(@)]
    BY <1>1, <1>2 DEF Dequeue, Arriving, TypeOK
  <2>. QED  BY <2>1, DequeueType
<1>4. OutPort(m, s) \in Port
  BY <1>3, TopologyAssumption DEF OutPort, Packet, PacketAt, Port
<1>5. \E p \in Port, q \in PacketAt(Port) : ToControl(p, q) \/ ToData(p, q)
  BY <1>1, <1>3, <1>4, RewriteType
  DEF Ingress, BounceGrant, AcceptGrant, ForwardBounced, ForwardSignal, ForwardData
<1>6. /\ ctl' \in [Port -> Seq(PacketAt(Port))]
      /\ dat' \in [Port -> Seq(PacketAt(Port))]
  <2>1. PICK p \in Port, q \in PacketAt(Port) : ToControl(p, q) \/ ToData(p, q)
    BY <1>5
  <2>2. CASE ToControl(p, q)
    <3>1. [ctl EXCEPT ![p] = Append(@, q)] \in [Port -> Seq(PacketAt(Port))]
      BY EnqueueType DEF TypeOK
    <3>. QED  BY <2>2, <3>1 DEF ToControl, TypeOK
  <2>3. CASE ToData(p, q)
    <3>1. [dat EXCEPT ![p] = Append(@, q)] \in [Port -> Seq(PacketAt(Port))]
      BY EnqueueType DEF TypeOK
    <3>. QED  BY <2>3, <3>1 DEF ToData, TypeOK
  <2>. QED  BY <2>1, <2>2, <2>3
<1>. QED  BY <1>2, <1>3, <1>6 DEF Dequeue, TypeOK

LEMMA TypeSyncIngress ==
  ASSUME TypeOK, NEW p \in Port, SyncIngress(p)
  PROVE  TypeOK'
<1>1. /\ Head(sync[p]) \in BOOLEAN
      /\ sync' \in [Port -> Seq(BOOLEAN)]
  BY DequeueType DEF SyncIngress, TypeOK
<1>. QED  BY <1>1 DEF SyncIngress, TypeOK

\* The Qp operation of any packet leaves a Word-sized register.
LEMMA QpAfterType ==
  ASSUME TypeOK, NEW pkt \in PacketAt(Port), NEW drain \in Drains
  PROVE  QpAfter(pkt, drain) \in 0 .. Word - 1
<1>1. /\ qp[pkt.port] \in 0 .. Word - 1
      /\ Amount[pkt.tok] \in Nat
      /\ drain \in Nat /\ ClassBytes(pkt) \in Nat
  BY TokenAssumption, ThresholdAssumption DEF TypeOK, PacketAt, ClassBytes
<1>2. NetUpdate(qp[pkt.port], ClassBytes(pkt), drain) \in 0 .. Word - 1
  <2>1. CASE drain < ClassBytes(pkt)
    <3>1. ClassBytes(pkt) - drain \in Nat
      BY <1>1, <2>1
    <3>. QED  BY <1>1, <2>1, <3>1, QpArithmetic DEF NetUpdate
  <2>2. CASE ~(drain < ClassBytes(pkt))
    <3>1. drain - ClassBytes(pkt) \in Nat
      BY <1>1, <2>2
    <3>. QED  BY <1>1, <2>2, <3>1, QpArithmetic DEF NetUpdate
  <2>. QED  BY <2>1, <2>2
<1>. QED  BY <1>1, <1>2, QpArithmetic DEF QpAfter

LEMMA TypeTransmit ==
  ASSUME TypeOK, NEW p \in Port, NEW pkt \in PacketAt(Port), NEW depth \in Int,
         NEW drain \in Drains, Transmit(p, pkt, depth, drain)
  PROVE  /\ qp' \in [Port -> 0 .. Word - 1]
         /\ fc' \in [Port -> BOOLEAN]
         /\ stamped' \in [Port -> BOOLEAN]
         /\ sync' \in [Port -> Seq(BOOLEAN)]
         /\ wire' \in [Link -> Seq(Packet)]
<1> DEFINE timed == pkt.shim = "none" /\ pkt.type # "grant"
           updateFc == timed \/ pkt.shim = "subtract"
           v == QpAfter(pkt, drain)
           newFc == IF updateFc THEN FcAfter(fc[p], v, depth) ELSE fc[p]
           out == [pkt EXCEPT !.shim = "none", !.held = Held(pkt),
                     !.marked = IF updateFc THEN Marked(pkt, v, depth) ELSE @]
<1>1. qp' \in [Port -> 0 .. Word - 1]
  BY QpAfterType DEF Transmit, TypeOK, PacketAt
<1>2. newFc \in BOOLEAN
  BY DEF FcAfter, TypeOK
<1>3. sync' \in [Port -> Seq(BOOLEAN)]
  <2>1. CASE newFc # fc[p]
    BY <1>2, <2>1, EnqueueType DEF Transmit, TypeOK
  <2>2. CASE newFc = fc[p]
    BY <2>2 DEF Transmit, TypeOK
  <2>. QED  BY <2>1, <2>2
<1>4. out \in Packet
  <2>1. Held(pkt) \in SUBSET Port
    BY DEF Held, PacketAt
  <2>2. pkt.marked \in BOOLEAN /\ Marked(pkt, v, depth) \in BOOLEAN
    BY DEF Marked, PacketAt
  <2>3. Port \subseteq Link
    BY DEF Port
  <2>. QED  BY <2>1, <2>2, <2>3 DEF Packet, PacketAt
<1>5. wire' \in [Link -> Seq(Packet)]
  BY <1>4, EnqueueType DEF Transmit, TypeOK, Port
<1>6. fc' \in [Port -> BOOLEAN] /\ stamped' \in [Port -> BOOLEAN]
  BY <1>2 DEF Transmit, TypeOK
<1>. QED  BY <1>1, <1>3, <1>5, <1>6

LEMMA TypeEgress ==
  ASSUME TypeOK, NEW p \in Port, EgressControl(p) \/ EgressData(p)
  PROVE  TypeOK'
<1>1. CASE EgressControl(p)
  <2>1. /\ Head(ctl[p]) \in PacketAt(Port)
        /\ ctl' \in [Port -> Seq(PacketAt(Port))]
        /\ Len(ctl[p]) - 1 \in Int
    BY <1>1, DequeueType DEF EgressControl, TypeOK
  <2>2. PICK d \in Drains : Transmit(p, Head(ctl[p]), Len(ctl[p]) - 1, d)
    BY <1>1 DEF EgressControl
  <2>. QED  BY <1>1, <2>1, <2>2, TypeTransmit DEF EgressControl, Transmit, TypeOK
<1>2. CASE EgressData(p)
  <2>1. /\ Head(dat[p]) \in PacketAt(Port)
        /\ dat' \in [Port -> Seq(PacketAt(Port))]
        /\ Len(dat[p]) - 1 \in Int
    BY <1>2, DequeueType DEF EgressData, TypeOK
  <2>2. PICK d \in Drains : Transmit(p, Head(dat[p]), Len(dat[p]) - 1, d)
    BY <1>2 DEF EgressData
  <2>. QED  BY <1>2, <2>1, <2>2, TypeTransmit DEF EgressData, Transmit, TypeOK
<1>. QED  BY <1>1, <1>2

LEMMA TypeHostSend ==
  ASSUME TypeOK, NEW t \in Token, HostSend(t)
  PROVE  TypeOK'
<1> DEFINE pkt == Fresh(t, Kind[t], From[t], To[t], Kind[t] = "data")
<1>1. pkt \in Packet /\ Uplink(From[t]) \in Link
  BY TokenAssumption, FreshType, UplinkType
<1>2. [wire EXCEPT ![Uplink(From[t])] = Append(@, pkt)] \in [Link -> Seq(Packet)]
  BY <1>1, EnqueueType DEF TypeOK
<1>. QED  BY <1>2 DEF HostSend, TypeOK

LEMMA TypeHostReceive ==
  ASSUME TypeOK, NEW l \in Link, HostReceive(l)
  PROVE  TypeOK'
<1> DEFINE pkt == Head(wire[l])
           reply == [Fresh(pkt.tok, "data", pkt.dst, pkt.src, FALSE) EXCEPT !.held = pkt.held]
           rest == [wire EXCEPT ![l] = Tail(@)]
<1>1. pkt \in Packet /\ rest \in [Link -> Seq(Packet)]
  BY DequeueType DEF HostReceive, TypeOK
<1>2. pkt.dst \in Host /\ pkt.src \in Host /\ pkt.tok \in Token
      /\ pkt.held \in SUBSET Port
  BY <1>1 DEF Packet, PacketAt
<1>3. reply \in Packet /\ Uplink(pkt.dst) \in Link
  <2>1. Fresh(pkt.tok, "data", pkt.dst, pkt.src, FALSE) \in Packet
    BY <1>2, FreshType
  <2>. QED  BY <1>2, <2>1, UplinkType DEF Packet, PacketAt
<1>4. [rest EXCEPT ![Uplink(pkt.dst)] = Append(@, reply)] \in [Link -> Seq(Packet)]
  <2>. HIDE DEF rest, reply
  <2>. QED  BY <1>1, <1>3, EnqueueType
<1>. QED  BY <1>1, <1>2, <1>4 DEF HostReceive, TypeOK

LEMMA TypeNext == TypeOK /\ [Next]_vars => TypeOK'
<1>1. TypeOK /\ Next => TypeOK'
  BY TypeIngress, TypeSyncIngress, TypeEgress, TypeHostSend, TypeHostReceive DEF Next
<1>2. TypeOK /\ UNCHANGED vars => TypeOK'
  BY DEF TypeOK, vars
<1>. QED  BY <1>1, <1>2

\* Registers, queues and links keep their types for every topology.
THEOREM TypeCorrect == Spec => []TypeOK
  BY TypeInit, TypeNext, PTL DEF Spec

(***************************************************************************)
(* The replica of the PAUSE state.                                         *)
(***************************************************************************)

\* SyncChain without the concatenation: how a port's replica, its clones
\* under way and its PAUSE state are linked.
Chain(old, q, new) ==
  /\ q = <<>> => old = new
  /\ q # <<>> => q[1] # old /\ q[Len(q)] = new
  /\ \A i \in 1 .. Len(q) - 1 : q[i] # q[i + 1]

Chains == \A p \in Port : Chain(replica[p], sync[p], fc[p])

LEMMA ChainsImplySyncChain == TypeOK /\ Chains => SyncChain
<1> SUFFICES ASSUME TypeOK, Chains, NEW p \in Port
             PROVE  LET h == <<replica[p]>> \o sync[p]
                    IN /\ h[Len(h)] = fc[p]
                       /\ \A i \in 1 .. Len(h) - 1 : h[i] # h[i + 1]
  BY DEF SyncChain
<1> DEFINE q == sync[p]
           h == <<replica[p]>> \o q
<1>1. q \in Seq(BOOLEAN) /\ Len(q) \in Nat /\ replica[p] \in BOOLEAN
  BY DEF TypeOK
<1>2. /\ Len(h) = Len(q) + 1 /\ h[1] = replica[p]
      /\ \A i \in 2 .. Len(q) + 1 : h[i] = q[i - 1]
  <2>. HIDE DEF q
  <2>1. <<replica[p]>> \in Seq(BOOLEAN) /\ Len(<<replica[p]>>) = 1
    BY <1>1
  <2>. QED  BY <1>1, <2>1
<1>3. Chain(replica[p], q, fc[p])
  BY DEF Chains
<1>. HIDE DEF h, q
<1>4. h[Len(h)] = fc[p]
  BY <1>1, <1>2, <1>3 DEF Chain
<1>5. ASSUME NEW i \in 1 .. Len(h) - 1
      PROVE  h[i] # h[i + 1]
  <2>1. CASE i = 1
    BY <1>1, <1>2, <1>3, <2>1 DEF Chain
  <2>2. CASE i # 1
    <3>1. i - 1 \in 1 .. Len(q) - 1 /\ h[i] = q[i - 1] /\ h[i + 1] = q[i - 1 + 1]
      BY <1>1, <1>2, <2>2
    <3>. QED  BY <1>3, <3>1 DEF Chain
  <2>. QED  BY <2>1, <2>2
<1>. QED  BY <1>4, <1>5 DEF h, q

\* A transition of the PAUSE state lengthens the chain at its end.
LEMMA ChainExtend ==
  ASSUME NEW old \in BOOLEAN, NEW q \in Seq(BOOLEAN), NEW new \in BOOLEAN,
         NEW next \in BOOLEAN, Chain(old, q, new), next # new
  PROVE  Chain(old, Append(q, next), next)
<1>1. /\ Len(q) \in Nat /\ Append(q, next) # <<>>
      /\ Len(Append(q, next)) = Len(q) + 1
      /\ Append(q, next)[Len(q) + 1] = next
      /\ \A i \in 1 .. Len(q) : Append(q, next)[i] = q[i]
  OBVIOUS
<1>2. CASE q = <<>>
  BY <1>1, <1>2 DEF Chain
<1>3. CASE q # <<>>
  BY <1>1, <1>3 DEF Chain
<1>. QED  BY <1>2, <1>3

LEMMA EmptyIffNoLength ==
  ASSUME NEW S, NEW q \in Seq(S)
  PROVE  q = <<>> <=> Len(q) = 0
  BY EmptySeq

\* A mirror clone arriving at ingress shortens it at its beginning.
LEMMA ChainConsume ==
  ASSUME NEW old \in BOOLEAN, NEW q \in Seq(BOOLEAN), NEW new \in BOOLEAN,
         Chain(old, q, new), q # <<>>
  PROVE  Chain(Head(q), Tail(q), new)
<1>1. /\ Len(q) \in Nat \ {0} /\ Head(q) = q[1]
      /\ Tail(q) \in Seq(BOOLEAN) /\ Len(Tail(q)) = Len(q) - 1
      /\ \A i \in 1 .. Len(q) - 1 : Tail(q)[i] = q[i + 1]
  OBVIOUS
<1>2. Tail(q) = <<>> <=> Len(q) = 1
  <2>1. Tail(q) \in Seq(BOOLEAN) /\ (Len(Tail(q)) = 0 <=> Len(q) = 1)
    BY <1>1
  <2>. QED  BY <2>1, EmptyIffNoLength
<1>3. CASE Len(q) = 1
  <2>1. Tail(q) = <<>> /\ q[1] = new /\ Len(Tail(q)) = 0
    BY <1>1, <1>3, <1>2 DEF Chain
  <2>. QED  BY <1>1, <2>1 DEF Chain
<1>4. CASE Len(q) # 1
  <2>1. Tail(q) # <<>> /\ Tail(q)[1] # q[1]
    <3>1. 1 \in 1 .. Len(q) - 1 /\ Tail(q)[1] = q[1 + 1]
      BY <1>1, <1>4
    <3>2. q[1] # q[1 + 1]
      BY <3>1 DEF Chain
    <3>. QED  BY <1>4, <1>2, <3>1, <3>2
  <2>2. Tail(q)[Len(Tail(q))] = new
    BY <1>1, <1>4 DEF Chain
  <2>3. ASSUME NEW i \in 1 .. Len(Tail(q)) - 1
        PROVE  Tail(q)[i] # Tail(q)[i + 1]
    <3>1. Tail(q)[i] = q[i + 1] /\ Tail(q)[i + 1] = q[i + 1 + 1]
      BY <1>1
    <3>2. i + 1 \in 1 .. Len(q) - 1
      BY <1>1
    <3>. QED  BY <3>1, <3>2 DEF Chain
  <2>. QED  BY <2>1, <2>2, <2>3 DEF Chain
<1>. QED  BY <1>3, <1>4

LEMMA ChainsTransmit ==
  ASSUME TypeOK, Chains, NEW p \in Port, NEW pkt \in PacketAt(Port),
         NEW depth \in Int, NEW drain \in Drains, Transmit(p, pkt, depth, drain)
  PROVE  Chains'
<1> DEFINE timed == pkt.shim = "none" /\ pkt.type # "grant"
           updateFc == timed \/ pkt.shim = "subtract"
           v == QpAfter(pkt, drain)
           newFc == IF updateFc THEN FcAfter(fc[p], v, depth) ELSE fc[p]
<1>1. newFc \in BOOLEAN
  BY DEF FcAfter, TypeOK
<1>2. /\ fc' = [fc EXCEPT ![p] = newFc]
      /\ sync' = [sync EXCEPT ![p] = IF newFc # fc[p] THEN Append(@, newFc) ELSE @]
      /\ replica' = replica
  BY DEF Transmit
<1>. HIDE DEF newFc
<1>3. ASSUME NEW x \in Port
      PROVE  Chain(replica'[x], sync'[x], fc'[x])
  <2>1. CASE x = p /\ newFc # fc[p]
    <3>1. sync'[x] = Append(sync[p], newFc) /\ fc'[x] = newFc
      BY <1>2, <2>1 DEF TypeOK
    <3>. QED  BY <1>1, <1>2, <2>1, <3>1, ChainExtend DEF Chains, TypeOK
  <2>2. CASE x # p \/ newFc = fc[p]
    BY <1>2, <2>2 DEF Chains, TypeOK
  <2>. QED  BY <2>1, <2>2
<1>. QED  BY <1>3 DEF Chains

LEMMA ChainsSync ==
  ASSUME TypeOK, Chains, NEW p \in Port, SyncIngress(p)
  PROVE  Chains'
<1>1. ASSUME NEW x \in Port
      PROVE  Chain(replica'[x], sync'[x], fc'[x])
  <2>1. CASE x = p
    <3>1. /\ replica'[x] = Head(sync[p]) /\ sync'[x] = Tail(sync[p])
          /\ fc'[x] = fc[p] /\ sync[p] # <<>>
      BY <2>1 DEF SyncIngress, TypeOK
    <3>2. Chain(replica[p], sync[p], fc[p])
      BY DEF Chains
    <3>. QED  BY <3>1, <3>2, ChainConsume DEF TypeOK
  <2>2. CASE x # p
    BY <2>2 DEF SyncIngress, Chains, TypeOK
  <2>. QED  BY <2>1, <2>2
<1>. QED  BY <1>1 DEF Chains

LEMMA ChainsNext == TypeOK /\ Chains /\ [Next]_vars => Chains'
<1> SUFFICES ASSUME TypeOK, Chains, [Next]_vars PROVE Chains'
  OBVIOUS
<1>1. CASE UNCHANGED <<fc, replica, sync>>
  BY <1>1 DEF Chains
<1>2. ASSUME NEW l \in Link, l[2] \in Switch, Ingress(l[1], l[2])
      PROVE  UNCHANGED <<fc, replica, sync>>
  BY <1>2 DEF Ingress, BounceGrant, AcceptGrant, ForwardBounced, ForwardSignal,
              ForwardData, Dequeue
<1>3. ASSUME NEW p \in Port, SyncIngress(p)
      PROVE  Chains'
  BY <1>3, ChainsSync
<1>4. ASSUME NEW p \in Port, EgressControl(p)
      PROVE  Chains'
  <2>1. Head(ctl[p]) \in PacketAt(Port) /\ Len(ctl[p]) - 1 \in Int
    BY <1>4, DequeueType DEF EgressControl, TypeOK
  <2>. QED  BY <1>4, <2>1, ChainsTransmit DEF EgressControl
<1>5. ASSUME NEW p \in Port, EgressData(p)
      PROVE  Chains'
  <2>1. Head(dat[p]) \in PacketAt(Port) /\ Len(dat[p]) - 1 \in Int
    BY <1>5, DequeueType DEF EgressData, TypeOK
  <2>. QED  BY <1>5, <2>1, ChainsTransmit DEF EgressData
<1>6. ASSUME NEW t \in Token, HostSend(t)
      PROVE  UNCHANGED <<fc, replica, sync>>
  BY <1>6 DEF HostSend
<1>7. ASSUME NEW l \in Link, HostReceive(l)
      PROVE  UNCHANGED <<fc, replica, sync>>
  BY <1>7 DEF HostReceive
<1>8. CASE UNCHANGED vars
  BY <1>1, <1>8 DEF vars
<1>. QED  BY <1>1, <1>2, <1>3, <1>4, <1>5, <1>6, <1>7, <1>8 DEF Next

\* The ingress replica is the egress PAUSE state some whole number of real
\* transitions ago, and equal to it whenever no mirror clone is under way.
THEOREM ReplicaIsDelayedState == Spec => []SyncChain
<1>1. Init => Chains
  BY DEF Init, Chains, Chain
<1>. QED  BY <1>1, ChainsNext, ChainsImplySyncChain, TypeCorrect, PTL DEF Spec

(***************************************************************************)
(* The inductive invariant: where a packet is on its route determines which *)
(* ports hold its credit.  A grant has reached w[i] with the credit of the  *)
(* switches it left; a bounced one has it of the switches ahead; scheduled  *)
(* data has all of it, wherever it is.                                      *)
(***************************************************************************)

\* The port at w[i] towards the previous node, and those up to w[i].
Back(w, i) == <<w[i], w[i - 1]>>
Counted(w, i) == {Back(w, j) : j \in 1 .. i}

WireOk(w, n, l, q) ==
  /\ q.shim = "none"
  /\ q.bounced => q.type = "grant"
  /\ q.type = "grant" /\ ~q.bounced =>
       /\ q.src = w[0] /\ q.dst = w[n + 1]
       /\ \E i \in 0 .. n : l = <<w[i], w[i + 1]>> /\ q.held = Counted(w, i)
  /\ q.type = "grant" /\ q.bounced =>
       /\ q.src = w[n + 1] /\ q.dst = w[0]
       /\ \E i \in 1 .. n : l = Back(w, i) /\ q.held = Counted(w, i - 1)
  /\ q.type = "data" /\ ~q.unsched =>
       /\ q.dst = w[0]
       /\ \E i \in 1 .. n + 1 : l = Back(w, i) /\ q.held = Counted(w, n)

CtlOk(w, n, p, q) ==
  /\ q.type # "data"
  /\ q.type = "signal" => q.shim = "none" /\ ~q.bounced
  /\ q.type = "grant" /\ ~q.bounced =>
       /\ q.src = w[0] /\ q.dst = w[n + 1]
       /\ \E i \in 1 .. n : /\ p = <<w[i], w[i + 1]>> /\ q.shim = "add"
                            /\ q.port = Back(w, i) /\ q.held = Counted(w, i - 1)
  /\ q.type = "grant" /\ q.bounced =>
       /\ q.src = w[n + 1] /\ q.dst = w[0]
       /\ \E i \in 1 .. n :
            /\ p = Back(w, i) /\ q.port = Back(w, i)
            /\ \/ q.shim = "none" /\ q.held = Counted(w, i - 1)
               \/ q.shim = "subtract" /\ q.held = Counted(w, i)

DatOk(w, n, p, q) ==
  /\ q.type = "data" /\ q.shim = "none" /\ ~q.bounced
  /\ ~q.unsched =>
       /\ q.dst = w[0]
       /\ \E i \in 1 .. n : p = Back(w, i) /\ q.held = Counted(w, n)

OnRoute(t, w, n) ==
  /\ \A l \in Link : \A q \in In(wire[l]) : q.tok = t => WireOk(w, n, l, q)
  /\ \A p \in Port : \A q \in In(ctl[p]) : q.tok = t => CtlOk(w, n, p, q)
  /\ \A p \in Port : \A q \in In(dat[p]) : q.tok = t => DatOk(w, n, p, q)

CreditOnRoute ==
  \A t \in Token : \A n \in Nat \ {0} : \A w \in [0 .. n + 1 -> Node] :
    Route(w, n, From[t], To[t]) => OnRoute(t, w, n)
(***************************************************************************)
(* Routes.                                                                 *)
(***************************************************************************)

\* A position on a route is a switch between the two hosts, and the node
\* determines it.
LEMMA RoutePositions ==
  ASSUME NEW h \in Host, NEW k \in Host, NEW n \in Nat \ {0},
         NEW w \in [0 .. n + 1 -> Node], Route(w, n, h, k)
  PROVE  /\ \A i, j \in 0 .. n + 1 : w[i] = w[j] => i = j
         /\ \A i \in 0 .. n + 1 : w[i] \in Switch <=> i \in 1 .. n
         /\ \A i \in 0 .. n + 1 : w[i] \in Host <=> i \in {0, n + 1}
         /\ \A i \in 1 .. n : Back(w, i) \in Port
<1>1. /\ w[0] \in Host /\ w[n + 1] \in Host /\ w[0] # w[n + 1]
      /\ \A i \in 1 .. n : w[i] \in Switch /\ w[i] \notin Host
  BY TopologyAssumption DEF Route
<1>2. \A i \in 0 .. n + 1 : i \in 1 .. n \/ i = 0 \/ i = n + 1
  OBVIOUS
<1>3. w[0] \notin Switch /\ w[n + 1] \notin Switch
  BY <1>1, TopologyAssumption
<1>4. \A i, j \in 0 .. n + 1 : w[i] = w[j] => i = j
  BY <1>1, <1>2, <1>3 DEF Route
<1>5. \A i \in 1 .. n : Back(w, i) \in Port
  BY <1>1, TopologyAssumption DEF Back, Port, Route
<1>. QED  BY <1>1, <1>2, <1>3, <1>4, <1>5

\* Accepting a grant adds the next port to those that count its credit, and
\* revoking it removes the last.
LEMMA CountedSteps ==
  ASSUME NEW h \in Host, NEW k \in Host, NEW n \in Nat \ {0},
         NEW w \in [0 .. n + 1 -> Node], Route(w, n, h, k)
  PROVE  /\ Counted(w, 0) = {}
         /\ \A i \in 1 .. n : /\ Counted(w, i) = Counted(w, i - 1) \cup {Back(w, i)}
                              /\ Counted(w, i - 1) = Counted(w, i) \ {Back(w, i)}
         /\ \A i \in 0 .. n : Counted(w, i) \in SUBSET Port
         /\ \A i \in 1 .. n : Back(w, i) \in Counted(w, n)
<1>1. Counted(w, 0) = {}
  BY DEF Counted
<1>2. ASSUME NEW i \in 1 .. n
      PROVE  /\ Counted(w, i) = Counted(w, i - 1) \cup {Back(w, i)}
             /\ Back(w, i) \notin Counted(w, i - 1)
  <2>1. 1 .. i = (1 .. i - 1) \cup {i}
    OBVIOUS
  <2>2. Counted(w, i) = Counted(w, i - 1) \cup {Back(w, i)}
    BY <2>1 DEF Counted
  <2>3. ASSUME NEW j \in 1 .. i - 1, Back(w, i) = Back(w, j)
        PROVE  FALSE
    <3>1. w[i] = w[j] /\ i \in 1 .. n /\ j \in 1 .. n /\ i # j
      BY <2>3 DEF Back
    <3>. QED  BY <3>1 DEF Route
  <2>. QED  BY <2>2, <2>3 DEF Counted
<1>3. \A i \in 0 .. n : Counted(w, i) \in SUBSET Port
  BY RoutePositions DEF Counted
<1>4. \A i \in 1 .. n : Back(w, i) \in Counted(w, n)
  BY DEF Counted
<1>. QED  BY <1>1, <1>2, <1>3, <1>4

(***************************************************************************)
(* The packets of one token, on one route.                                 *)
(***************************************************************************)

OnARoute(t, w, n) ==
  /\ t \in Token /\ n \in Nat \ {0} /\ w \in [0 .. n + 1 -> Node]
  /\ Route(w, n, From[t], To[t])

\* What ingress makes of an arriving packet fits the port it is queued at.
LEMMA IngressOk ==
  ASSUME NEW t, NEW w, NEW n, OnARoute(t, w, n),
         TypeOK, OnRoute(t, w, n), NEW m, NEW s \in Switch, <<m, s>> \in Link,
         NEW q \in Packet, q.tok = t, WireOk(w, n, <<m, s>>, q)
  PROVE  LET out == <<s, NextHop[s][q.dst]>>
         IN /\ q.type = "grant" /\ ~q.bounced =>
                 /\ CtlOk(w, n, <<s, m>>, BounceCreditTo(q, <<s, m>>))
                 /\ CtlOk(w, n, out, AcceptCredit(q, <<s, m>>))
            /\ q.type = "grant" /\ q.bounced =>
                 CtlOk(w, n, out, AcceptRemoteBounce(q, out))
            /\ q.type = "signal" => CtlOk(w, n, out, Classify(q, out))
            /\ q.type = "data" => DatOk(w, n, out, Classify(q, out))
<1> DEFINE out == <<s, NextHop[s][q.dst]>>
<1>0. /\ From[t] \in Host /\ To[t] \in Host /\ n \in Nat \ {0}
      /\ w \in [0 .. n + 1 -> Node] /\ Route(w, n, From[t], To[t])
      /\ w[0] = From[t] /\ w[n + 1] = To[t] /\ q.shim = "none"
      /\ q.type # "grant" => ~q.bounced
  BY TokenAssumption DEF OnARoute, Route, WireOk
<1>1. \A i \in 0 .. n + 1 : w[i] \in Switch <=> i \in 1 .. n
  BY <1>0, RoutePositions
<1>2. ASSUME q.type = "grant", ~q.bounced
      PROVE  /\ CtlOk(w, n, <<s, m>>, BounceCreditTo(q, <<s, m>>))
             /\ CtlOk(w, n, out, AcceptCredit(q, <<s, m>>))
  <2>1. PICK i \in 0 .. n : /\ <<m, s>> = <<w[i], w[i + 1]>> /\ q.held = Counted(w, i)
                            /\ q.src = w[0] /\ q.dst = w[n + 1]
    BY <1>2 DEF WireOk
  <2> DEFINE j == i + 1
  <2>2. j \in 1 .. n /\ j - 1 = i
    BY <1>0, <1>1, <2>1
  <2>3. <<s, m>> = Back(w, j) /\ out = <<w[j], w[j + 1]>>
    BY <1>0, <2>1, <2>2 DEF Back, Route
  <2>. HIDE DEF j, out
  <2>4. CtlOk(w, n, <<s, m>>, BounceCreditTo(q, <<s, m>>))
    BY <1>0, <1>2, <2>1, <2>2, <2>3 DEF CtlOk, BounceCreditTo, Packet, PacketAt
  <2>5. CtlOk(w, n, out, AcceptCredit(q, <<s, m>>))
    BY <1>0, <1>2, <2>1, <2>2, <2>3 DEF CtlOk, AcceptCredit, Packet, PacketAt
  <2>. QED  BY <2>4, <2>5
<1>3. ASSUME q.type = "grant", q.bounced
      PROVE  CtlOk(w, n, out, AcceptRemoteBounce(q, out))
  <2>1. PICK i \in 1 .. n : /\ <<m, s>> = Back(w, i) /\ q.held = Counted(w, i - 1)
                            /\ q.src = w[n + 1] /\ q.dst = w[0]
    BY <1>3 DEF WireOk
  <2> DEFINE j == i - 1
  <2>2. j \in 1 .. n /\ s = w[j]
    BY <1>0, <1>1, <2>1 DEF Back
  <2>3. out = Back(w, j)
    BY <1>0, <2>1, <2>2 DEF Back, Route
  <2>. HIDE DEF out
  <2>. QED  BY <1>0, <1>3, <2>1, <2>2, <2>3 DEF CtlOk, AcceptRemoteBounce, Packet, PacketAt
<1>4. ASSUME q.type = "signal"
      PROVE  CtlOk(w, n, out, Classify(q, out))
  BY <1>0, <1>4 DEF CtlOk, Classify, Packet, PacketAt
<1>5. ASSUME q.type = "data"
      PROVE  DatOk(w, n, out, Classify(q, out))
  <2>1. CASE q.unsched
    BY <1>0, <1>5, <2>1 DEF DatOk, Classify, Packet, PacketAt
  <2>2. CASE ~q.unsched
    <3>1. PICK i \in 1 .. n + 1 : /\ <<m, s>> = Back(w, i) /\ q.held = Counted(w, n)
                                  /\ q.dst = w[0]
      BY <1>5, <2>2 DEF WireOk
    <3> DEFINE j == i - 1
    <3>2. j \in 1 .. n /\ s = w[j]
      BY <1>0, <1>1, <3>1 DEF Back
    <3>3. out = Back(w, j)
      BY <1>0, <3>1, <3>2 DEF Back, Route
    <3>. HIDE DEF out
    <3>. QED  BY <1>0, <1>5, <3>1, <3>2, <3>3 DEF DatOk, Classify, Packet, PacketAt
  <2>. QED  BY <2>1, <2>2 DEF Packet, PacketAt
<1>. QED  BY <1>2, <1>3, <1>4, <1>5

\* What egress transmits fits the link of its port.
LEMMA EgressOk ==
  ASSUME NEW t, NEW w, NEW n, OnARoute(t, w, n),
         NEW p \in Port, NEW pkt \in PacketAt(Port), NEW mark \in BOOLEAN,
         CtlOk(w, n, p, pkt) \/ DatOk(w, n, p, pkt)
  PROVE  WireOk(w, n, p, [pkt EXCEPT !.shim = "none", !.held = Held(pkt), !.marked = mark])
<1> DEFINE out == [pkt EXCEPT !.shim = "none", !.held = Held(pkt), !.marked = mark]
<1>0. /\ From[t] \in Host /\ To[t] \in Host /\ n \in Nat \ {0}
      /\ w \in [0 .. n + 1 -> Node] /\ Route(w, n, From[t], To[t])
  BY TokenAssumption DEF OnARoute
<1>1. /\ out.shim = "none" /\ out.held = Held(pkt) /\ out.type = pkt.type
      /\ out.bounced = pkt.bounced /\ out.unsched = pkt.unsched
      /\ out.src = pkt.src /\ out.dst = pkt.dst
      /\ pkt.type \in {"grant", "data", "signal"}
      /\ pkt.bounced \in BOOLEAN /\ pkt.unsched \in BOOLEAN
      /\ pkt.type # "grant" => ~pkt.bounced
  BY DEF PacketAt, CtlOk, DatOk
<1>2. \A i \in 1 .. n : /\ Counted(w, i) = Counted(w, i - 1) \cup {Back(w, i)}
                        /\ Counted(w, i - 1) = Counted(w, i) \ {Back(w, i)}
  BY <1>0, CountedSteps
<1>. HIDE DEF out
<1>3. CASE pkt.type = "grant" /\ ~pkt.bounced
  <2>1. PICK i \in 1 .. n : /\ p = <<w[i], w[i + 1]>> /\ pkt.shim = "add"
                            /\ pkt.port = Back(w, i) /\ pkt.held = Counted(w, i - 1)
                            /\ pkt.src = w[0] /\ pkt.dst = w[n + 1]
    BY <1>3 DEF CtlOk, DatOk
  <2>2. out.held = Counted(w, i) /\ i \in 0 .. n
    BY <1>0, <1>1, <1>2, <2>1 DEF Held
  <2>. QED  BY <1>1, <1>3, <2>1, <2>2 DEF WireOk, out
<1>4. CASE pkt.type = "grant" /\ pkt.bounced
  <2>1. PICK i \in 1 .. n : /\ p = Back(w, i) /\ pkt.port = Back(w, i)
                            /\ pkt.src = w[n + 1] /\ pkt.dst = w[0]
                            /\ \/ pkt.shim = "none" /\ pkt.held = Counted(w, i - 1)
                               \/ pkt.shim = "subtract" /\ pkt.held = Counted(w, i)
    BY <1>4 DEF CtlOk, DatOk
  <2>2. out.held = Counted(w, i - 1)
    BY <1>1, <1>2, <2>1 DEF Held
  <2>. QED  BY <1>1, <1>4, <2>1, <2>2 DEF WireOk, out
<1>5. CASE pkt.type = "data" /\ ~pkt.unsched
  <2>1. PICK i \in 1 .. n : /\ p = Back(w, i) /\ pkt.held = Counted(w, n)
                            /\ pkt.dst = w[0] /\ pkt.shim = "none"
    BY <1>5 DEF CtlOk, DatOk
  <2>2. out.held = Counted(w, n) /\ i \in 1 .. n + 1
    BY <1>0, <1>1, <2>1 DEF Held
  <2>. QED  BY <1>1, <1>5, <2>1, <2>2 DEF WireOk, out
<1>6. CASE pkt.type = "signal" \/ (pkt.type = "data" /\ pkt.unsched)
  BY <1>1, <1>6 DEF WireOk, out
<1>. QED  BY <1>1, <1>3, <1>4, <1>5, <1>6

LEMMA RouteIngress ==
  ASSUME NEW t, NEW w, NEW n, OnARoute(t, w, n), TypeOK, OnRoute(t, w, n),
         NEW l \in Link, l[2] \in Switch, Ingress(l[1], l[2])
  PROVE  OnRoute(t, w, n)'
<1> DEFINE m == l[1]
           s == l[2]
           q == Arriving(m, s)
           out == OutPort(m, s)
<1>1. l = <<m, s>> /\ <<s, m>> \in Port
  BY TopologyAssumption DEF Node, Port
<1>2. Dequeue(m, s)
  BY DEF Ingress, BounceGrant, AcceptGrant, ForwardBounced, ForwardSignal, ForwardData
<1>3. /\ wire \in [Link -> Seq(Packet)] /\ wire[l] # <<>>
      /\ q = Head(wire[l]) /\ wire' = [wire EXCEPT ![l] = Tail(@)]
  BY <1>1, <1>2 DEF Dequeue, Arriving, TypeOK
<1>4. /\ q \in In(wire[l]) /\ q \in Packet
      /\ \A x \in Link : In(wire'[x]) \subseteq In(wire[x])
  BY <1>3, DequeueElements, ElementType, ZenonT(40)
<1>5. out = <<s, NextHop[s][q.dst]>> /\ out \in Port
  BY <1>4, TopologyAssumption DEF OutPort, Packet, PacketAt, Port
<1>6. q.tok = t => WireOk(w, n, <<m, s>>, q)
  BY <1>1, <1>4 DEF OnRoute
<1>. HIDE DEF m, s, q, out
<1>7. \E p \in Port, e \in PacketAt(Port) :
        /\ e.tok = q.tok
        /\ \/ ToControl(p, e) /\ (q.tok = t => CtlOk(w, n, p, e))
           \/ ToData(p, e) /\ (q.tok = t => DatOk(w, n, p, e))
  <2>1. /\ BounceCreditTo(q, <<s, m>>).tok = q.tok
        /\ AcceptCredit(q, <<s, m>>).tok = q.tok
        /\ AcceptRemoteBounce(q, out).tok = q.tok
        /\ Classify(q, out).tok = q.tok
    BY <1>4 DEF BounceCreditTo, AcceptCredit, AcceptRemoteBounce, Classify, Packet, PacketAt
  <2>2. /\ BounceCreditTo(q, <<s, m>>) \in PacketAt(Port)
        /\ AcceptCredit(q, <<s, m>>) \in PacketAt(Port)
        /\ AcceptRemoteBounce(q, out) \in PacketAt(Port)
        /\ Classify(q, out) \in PacketAt(Port)
    BY <1>1, <1>4, <1>5, RewriteType
  <2>3. s \in Switch /\ <<m, s>> \in Link
    BY <1>1 DEF s
  <2>4. q.tok = t =>
          /\ q.type = "grant" /\ ~q.bounced =>
               /\ CtlOk(w, n, <<s, m>>, BounceCreditTo(q, <<s, m>>))
               /\ CtlOk(w, n, out, AcceptCredit(q, <<s, m>>))
          /\ q.type = "grant" /\ q.bounced =>
               CtlOk(w, n, out, AcceptRemoteBounce(q, out))
          /\ q.type = "signal" => CtlOk(w, n, out, Classify(q, out))
          /\ q.type = "data" => DatOk(w, n, out, Classify(q, out))
    BY <1>4, <1>5, <1>6, <2>3, IngressOk
  <2>5. /\ Arriving(m, s) = q /\ OutPort(m, s) = out /\ Ingress(m, s)
    BY DEF m, s, q, out
  <2>6. CASE BounceGrant(m, s)
    BY <1>1, <2>1, <2>2, <2>4, <2>5, <2>6 DEF BounceGrant
  <2>7. CASE AcceptGrant(m, s)
    BY <1>5, <2>1, <2>2, <2>4, <2>5, <2>7 DEF AcceptGrant
  <2>8. CASE ForwardBounced(m, s)
    BY <1>5, <2>1, <2>2, <2>4, <2>5, <2>8 DEF ForwardBounced
  <2>9. CASE ForwardSignal(m, s)
    BY <1>5, <2>1, <2>2, <2>4, <2>5, <2>9 DEF ForwardSignal
  <2>10. CASE ForwardData(m, s)
    BY <1>5, <2>1, <2>2, <2>4, <2>5, <2>10 DEF ForwardData
  <2>. QED  BY <2>5, <2>6, <2>7, <2>8, <2>9, <2>10 DEF Ingress
<1>8. PICK p \in Port, e \in PacketAt(Port) :
        /\ e.tok = q.tok
        /\ \/ ToControl(p, e) /\ (q.tok = t => CtlOk(w, n, p, e))
           \/ ToData(p, e) /\ (q.tok = t => DatOk(w, n, p, e))
  BY <1>7
<1>9. \A x \in Link : \A y \in In(wire'[x]) : y.tok = t => WireOk(w, n, x, y)
  BY <1>4 DEF OnRoute
<1>10. CASE ToControl(p, e) /\ (q.tok = t => CtlOk(w, n, p, e))
  <2>1. dat' = dat /\ ctl' = [ctl EXCEPT ![p] = Append(@, e)]
    BY <1>10 DEF ToControl
  <2>2. \A x \in Port : \A y \in In(ctl'[x]) : y \in In(ctl[x]) \/ (x = p /\ y = e)
    BY <2>1, EnqueueElements DEF TypeOK
  <2>. QED  BY <1>8, <1>9, <1>10, <2>1, <2>2 DEF OnRoute
<1>11. CASE ToData(p, e) /\ (q.tok = t => DatOk(w, n, p, e))
  <2>1. ctl' = ctl /\ dat' = [dat EXCEPT ![p] = Append(@, e)]
    BY <1>11 DEF ToData
  <2>2. \A x \in Port : \A y \in In(dat'[x]) : y \in In(dat[x]) \/ (x = p /\ y = e)
    BY <2>1, EnqueueElements DEF TypeOK
  <2>. QED  BY <1>8, <1>9, <1>11, <2>1, <2>2 DEF OnRoute
<1>. QED  BY <1>8, <1>10, <1>11

LEMMA RouteTransmit ==
  ASSUME NEW t, NEW w, NEW n, OnARoute(t, w, n), TypeOK, OnRoute(t, w, n),
         NEW p \in Port, NEW pkt \in PacketAt(Port), NEW depth \in Int,
         NEW drain \in Drains, Transmit(p, pkt, depth, drain),
         pkt.tok = t => CtlOk(w, n, p, pkt) \/ DatOk(w, n, p, pkt)
  PROVE  \A l \in Link : \A q \in In(wire'[l]) : q.tok = t => WireOk(w, n, l, q)
<1>1. \E mark \in BOOLEAN :
        wire' = [wire EXCEPT ![p] = Append(@,
                   [pkt EXCEPT !.shim = "none", !.held = Held(pkt), !.marked = mark])]
  <2>1. pkt.marked \in BOOLEAN
    BY DEF PacketAt
  <2>2. \A v : Marked(pkt, v, depth) \in BOOLEAN
    BY DEF Marked
  <2>. QED  BY <2>1, <2>2 DEF Transmit
<1>2. PICK mark \in BOOLEAN :
        wire' = [wire EXCEPT ![p] = Append(@,
                   [pkt EXCEPT !.shim = "none", !.held = Held(pkt), !.marked = mark])]
  BY <1>1
<1> DEFINE out == [pkt EXCEPT !.shim = "none", !.held = Held(pkt), !.marked = mark]
<1>3. out \in Packet /\ out.tok = pkt.tok /\ p \in Link
  <2>1. Held(pkt) \in SUBSET Port /\ Port \subseteq Link
    BY DEF Held, PacketAt, Port
  <2>. QED  BY <2>1 DEF Packet, PacketAt
<1>4. out.tok = t => WireOk(w, n, p, out)
  BY <1>3, EgressOk
<1>. HIDE DEF out
<1>5. wire' = [wire EXCEPT ![p] = Append(@, out)]
  BY <1>2 DEF out
<1>6. \A l \in Link : \A q \in In(wire'[l]) : q \in In(wire[l]) \/ (l = p /\ q = out)
  BY <1>3, <1>5, EnqueueElements DEF TypeOK
<1>. QED  BY <1>4, <1>6 DEF OnRoute

LEMMA RouteEgress ==
  ASSUME NEW t, NEW w, NEW n, OnARoute(t, w, n), TypeOK, OnRoute(t, w, n),
         NEW p \in Port, EgressControl(p) \/ EgressData(p)
  PROVE  OnRoute(t, w, n)'
<1>1. CASE EgressControl(p)
  <2>1. /\ ctl[p] # <<>> /\ ctl' = [ctl EXCEPT ![p] = Tail(@)] /\ dat' = dat
        /\ Head(ctl[p]) \in PacketAt(Port) /\ Len(ctl[p]) - 1 \in Int
    BY <1>1, DequeueType DEF EgressControl, TypeOK
  <2>2. /\ Head(ctl[p]) \in In(ctl[p])
        /\ \A x \in Port : In(ctl'[x]) \subseteq In(ctl[x])
    BY <2>1, DequeueElements DEF TypeOK
  <2>3. PICK d \in Drains : Transmit(p, Head(ctl[p]), Len(ctl[p]) - 1, d)
    BY <1>1 DEF EgressControl
  <2>4. Head(ctl[p]).tok = t => CtlOk(w, n, p, Head(ctl[p]))
    BY <2>2 DEF OnRoute
  <2>5. \A l \in Link : \A q \in In(wire'[l]) : q.tok = t => WireOk(w, n, l, q)
    BY <2>1, <2>3, <2>4, RouteTransmit
  <2>. QED  BY <2>1, <2>2, <2>5 DEF OnRoute
<1>2. CASE EgressData(p)
  <2>1. /\ dat[p] # <<>> /\ dat' = [dat EXCEPT ![p] = Tail(@)] /\ ctl' = ctl
        /\ Head(dat[p]) \in PacketAt(Port) /\ Len(dat[p]) - 1 \in Int
    BY <1>2, DequeueType DEF EgressData, TypeOK
  <2>2. /\ Head(dat[p]) \in In(dat[p])
        /\ \A x \in Port : In(dat'[x]) \subseteq In(dat[x])
    BY <2>1, DequeueElements DEF TypeOK
  <2>3. PICK d \in Drains : Transmit(p, Head(dat[p]), Len(dat[p]) - 1, d)
    BY <1>2 DEF EgressData
  <2>4. Head(dat[p]).tok = t => DatOk(w, n, p, Head(dat[p]))
    BY <2>2 DEF OnRoute
  <2>5. \A l \in Link : \A q \in In(wire'[l]) : q.tok = t => WireOk(w, n, l, q)
    BY <2>1, <2>3, <2>4, RouteTransmit
  <2>. QED  BY <2>1, <2>2, <2>5 DEF OnRoute
<1>. QED  BY <1>1, <1>2

LEMMA RouteHostSend ==
  ASSUME NEW t, NEW w, NEW n, OnARoute(t, w, n), TypeOK, OnRoute(t, w, n),
         NEW x \in Token, HostSend(x)
  PROVE  OnRoute(t, w, n)'
<1> DEFINE up == Uplink(From[x])
           pkt == Fresh(x, Kind[x], From[x], To[x], Kind[x] = "data")
<1>1. pkt \in Packet /\ up \in Link
  BY TokenAssumption, FreshType, UplinkType
<1>2. wire' = [wire EXCEPT ![up] = Append(@, pkt)] /\ ctl' = ctl /\ dat' = dat
  BY DEF HostSend
<1>3. pkt.tok = t => WireOk(w, n, up, pkt)
  <2>1. SUFFICES ASSUME x = t PROVE WireOk(w, n, up, pkt)
    BY DEF Fresh
  <2>2. /\ up = <<w[0], w[0 + 1]>> /\ From[t] = w[0] /\ To[t] = w[n + 1]
        /\ 0 \in 0 .. n /\ {} = Counted(w, 0)
    BY <2>1 DEF OnARoute, Route, Counted
  <2>. QED  BY <2>1, <2>2 DEF WireOk, Fresh
<1>. HIDE DEF pkt, up
<1>4. \A l \in Link : \A q \in In(wire'[l]) : q \in In(wire[l]) \/ (l = up /\ q = pkt)
  BY <1>1, <1>2, EnqueueElements DEF TypeOK
<1>. QED  BY <1>2, <1>3, <1>4 DEF OnRoute

LEMMA RouteHostReceive ==
  ASSUME NEW t, NEW w, NEW n, OnARoute(t, w, n), TypeOK, OnRoute(t, w, n),
         NEW l \in Link, HostReceive(l)
  PROVE  OnRoute(t, w, n)'
<1> DEFINE pkt == Head(wire[l])
           reply == [Fresh(pkt.tok, "data", pkt.dst, pkt.src, FALSE) EXCEPT !.held = pkt.held]
           rest == [wire EXCEPT ![l] = Tail(@)]
           up == Uplink(pkt.dst)
<1>1. /\ ctl' = ctl /\ dat' = dat /\ l[2] \in Host /\ wire[l] # <<>>
      /\ \/ /\ pkt.type = "grant" /\ ~pkt.bounced
            /\ wire' = [rest EXCEPT ![up] = Append(@, reply)]
         \/ wire' = rest
  BY DEF HostReceive
<1>2. /\ pkt \in In(wire[l]) /\ pkt \in Packet /\ rest \in [Link -> Seq(Packet)]
      /\ \A x \in Link : In(rest[x]) \subseteq In(wire[x])
  BY <1>1, DequeueElements, DequeueType, ElementType DEF TypeOK
<1>3. pkt.dst \in Host /\ pkt.src \in Host /\ pkt.tok \in Token /\ pkt.held \in SUBSET Port
  BY <1>2 DEF Packet, PacketAt
<1>4. reply \in Packet /\ up \in Link /\ reply.tok = pkt.tok
  <2>1. Fresh(pkt.tok, "data", pkt.dst, pkt.src, FALSE) \in Packet
    BY <1>3, FreshType
  <2>. QED  BY <1>3, <2>1, UplinkType DEF Packet, PacketAt, Fresh
<1>5. ASSUME pkt.type = "grant", ~pkt.bounced, pkt.tok = t
      PROVE  WireOk(w, n, up, reply)
  <2>1. /\ From[t] \in Host /\ To[t] \in Host /\ n \in Nat \ {0}
        /\ w \in [0 .. n + 1 -> Node] /\ Route(w, n, From[t], To[t])
        /\ To[t] = w[n + 1]
    BY TokenAssumption DEF OnARoute, Route
  <2>0. WireOk(w, n, l, pkt)
    BY <1>2, <1>5 DEF OnRoute
  <2>2. PICK i \in 0 .. n : /\ l = <<w[i], w[i + 1]>> /\ pkt.held = Counted(w, i)
                            /\ pkt.src = w[0] /\ pkt.dst = w[n + 1]
    <3>. HIDE DEF pkt
    <3>. QED  BY <1>5, <2>0 DEF WireOk
  <2>3. i = n
    <3>1. w[i + 1] \in Host /\ i + 1 \in 1 .. n + 1
      <4>1. l[2] \in Host
        BY <1>1
      <4>2. l[2] = w[i + 1]
        BY <2>2
      <4>3. i + 1 \in 1 .. n + 1
        BY <2>1
      <4>. QED  BY <4>1, <4>2, <4>3
    <3>2. \A j \in 0 .. n + 1 : w[j] \in Host <=> j \in {0, n + 1}
      BY <2>1, RoutePositions
    <3>. QED  BY <2>1, <3>1, <3>2
  <2>4. up = Back(w, n + 1) /\ n + 1 \in 1 .. n + 1
    BY <2>1, <2>2 DEF Back, Route
  <2>5. /\ reply.shim = "none" /\ reply.type = "data" /\ reply.dst = w[0]
        /\ reply.held = Counted(w, n) /\ ~reply.bounced
    BY <2>2, <2>3 DEF Fresh
  <2>. HIDE DEF reply, up
  <2>. QED  BY <2>4, <2>5 DEF WireOk
<1>. HIDE DEF reply, up, rest, pkt
<1>6. CASE wire' = rest
  BY <1>1, <1>2, <1>6 DEF OnRoute
<1>7. CASE /\ pkt.type = "grant" /\ ~pkt.bounced
           /\ wire' = [rest EXCEPT ![up] = Append(@, reply)]
  <2>1. ASSUME NEW x \in Link, NEW q \in In(wire'[x])
        PROVE  q \in In(rest[x]) \/ (x = up /\ q = reply)
    <3>1. q \in In([rest EXCEPT ![up] = Append(@, reply)][x])
      BY <1>7
    <3>2. rest \in [Link -> Seq(Packet)] /\ up \in Link /\ reply \in Packet
      BY <1>2, <1>4
    <3>. QED  BY <3>1, <3>2, <2>1, EnqueueElements
  <2>. QED  BY <1>1, <1>2, <1>4, <1>5, <1>7, <2>1 DEF OnRoute
<1>. QED  BY <1>1, <1>6, <1>7

LEMMA RouteNext ==
  ASSUME NEW t, NEW w, NEW n, OnARoute(t, w, n), TypeOK, OnRoute(t, w, n), [Next]_vars
  PROVE  OnRoute(t, w, n)'
<1>1. ASSUME NEW p \in Port, SyncIngress(p)
      PROVE  OnRoute(t, w, n)'
  BY <1>1 DEF SyncIngress, OnRoute
<1>2. CASE UNCHANGED vars
  BY <1>2 DEF vars, OnRoute
<1>. QED  BY <1>1, <1>2, RouteIngress, RouteEgress, RouteHostSend, RouteHostReceive DEF Next

(***************************************************************************)
(* The three properties.                                                   *)
(***************************************************************************)

\* Where a packet is on its route determines which ports hold its credit.
THEOREM CreditStaysOnRoute == Spec => []CreditOnRoute
<1>1. Init => CreditOnRoute
  BY DEF Init, CreditOnRoute, OnRoute, In
<1>2. TypeOK /\ CreditOnRoute /\ [Next]_vars => CreditOnRoute'
  BY RouteNext DEF CreditOnRoute, OnARoute
<1>. QED  BY <1>1, <1>2, TypeCorrect, PTL DEF Spec

\* Every token has a route when routes are symmetric.
LEMMA TokenRoute ==
  ASSUME SymmetricRoutes, NEW t \in Token
  PROVE  \E w, n : OnARoute(t, w, n)
  BY DEF SymmetricRoutes, OnARoute

LEMMA SubtractsOnRoute ==
  SymmetricRoutes /\ TypeOK /\ CreditOnRoute => SubtractsOnlyAccepted
<1> SUFFICES ASSUME SymmetricRoutes, TypeOK, CreditOnRoute, NEW p \in Port,
                    NEW i \in 1 .. Len(ctl[p]), ctl[p][i].shim = "subtract"
             PROVE  ctl[p][i].port \in ctl[p][i].held
  BY DEF SubtractsOnlyAccepted
<1> DEFINE q == ctl[p][i]
<1>1. q \in In(ctl[p]) /\ q \in PacketAt(Port)
  BY DEF In, TypeOK
<1>2. PICK w, n : OnARoute(q.tok, w, n)
  BY <1>1, TokenRoute DEF PacketAt
<1>3. CtlOk(w, n, p, q)
  BY <1>1, <1>2 DEF CreditOnRoute, OnRoute, OnARoute
<1>4. q.type = "grant" /\ q.bounced
  BY <1>1, <1>3 DEF CtlOk, PacketAt
<1>5. PICK j \in 1 .. n : q.port = Back(w, j) /\ q.held = Counted(w, j)
  BY <1>3, <1>4 DEF CtlOk
<1>6. Back(w, j) \in Counted(w, j)
  BY <1>2 DEF Counted, OnARoute
<1>. QED  BY <1>5, <1>6

LEMMA BounceUndoneOnRoute ==
  SymmetricRoutes /\ TypeOK /\ CreditOnRoute => BounceUndoesEveryHop
<1> SUFFICES ASSUME SymmetricRoutes, TypeOK, CreditOnRoute, NEW l \in Link, l[2] \in Host,
                    NEW i \in 1 .. Len(wire[l]), wire[l][i].bounced
             PROVE  wire[l][i].held = {}
  BY DEF BounceUndoesEveryHop
<1> DEFINE q == wire[l][i]
<1>1. q \in In(wire[l]) /\ q \in Packet
  BY DEF In, TypeOK
<1>2. PICK w, n : OnARoute(q.tok, w, n)
  BY <1>1, TokenRoute DEF Packet, PacketAt
<1>3. WireOk(w, n, l, q)
  BY <1>1, <1>2 DEF CreditOnRoute, OnRoute, OnARoute
<1>4. q.type = "grant"
  BY <1>1, <1>3 DEF WireOk, Packet, PacketAt
<1>5. PICK j \in 1 .. n : l = Back(w, j) /\ q.held = Counted(w, j - 1)
  BY <1>3, <1>4 DEF WireOk
<1>6. j - 1 = 0
  <2>1. q.tok \in Token
    BY <1>1 DEF Packet, PacketAt
  <2>2. From[q.tok] \in Host /\ To[q.tok] \in Host
    BY <2>1, TokenAssumption
  <2>3. /\ n \in Nat \ {0} /\ w \in [0 .. n + 1 -> Node]
        /\ Route(w, n, From[q.tok], To[q.tok])
    BY <1>2 DEF OnARoute
  <2>4. \A x \in 0 .. n + 1 : w[x] \in Host <=> x \in {0, n + 1}
    BY <2>2, <2>3, RoutePositions
  <2>5. w[j - 1] \in Host
    BY <1>5 DEF Back
  <2>. HIDE DEF q
  <2>6. j - 1 \in 0 .. n + 1 /\ j - 1 # n + 1
    BY <2>3
  <2>. QED  BY <2>4, <2>5, <2>6
<1>. QED  BY <1>5, <1>6 DEF Counted

LEMMA DataCountedOnRoute ==
  SymmetricRoutes /\ TypeOK /\ CreditOnRoute => ScheduledDataWasCounted
<1> SUFFICES ASSUME SymmetricRoutes, TypeOK, CreditOnRoute, NEW p \in Port,
                    NEW i \in 1 .. Len(dat[p]), ~dat[p][i].unsched
             PROVE  p \in dat[p][i].held
  BY DEF ScheduledDataWasCounted
<1> DEFINE q == dat[p][i]
<1>1. q \in In(dat[p]) /\ q \in PacketAt(Port)
  BY DEF In, TypeOK
<1>2. PICK w, n : OnARoute(q.tok, w, n)
  BY <1>1, TokenRoute DEF PacketAt
<1>3. DatOk(w, n, p, q)
  BY <1>1, <1>2 DEF CreditOnRoute, OnRoute, OnARoute
<1>4. PICK j \in 1 .. n : p = Back(w, j) /\ q.held = Counted(w, n)
  BY <1>3 DEF DatOk
<1>. QED  BY <1>4 DEF Counted

\* README.md, "credit that was not accepted cannot later subtract from Qp":
\* bounce_credit_to writes no shim, and accept_remote_bounce only runs at the
\* switches the grant had been accepted by.
THEOREM BouncesSubtractOnlyAccepted ==
  ASSUME SymmetricRoutes PROVE Spec => []SubtractsOnlyAccepted
  BY SubtractsOnRoute, CreditStaysOnRoute, TypeCorrect, PTL

\* A bounced grant is back at its receiver only once no phantom queue of the
\* network counts it any more, however many switches had accepted it.
THEOREM BouncesUndoEveryHop ==
  ASSUME SymmetricRoutes PROVE Spec => []BounceUndoesEveryHop
  BY BounceUndoneOnRoute, CreditStaysOnRoute, TypeCorrect, PTL

\* Scheduled data queues only where its grant was added to Port_Qp_Reg: the
\* phantom queue foresees every queue that grants build.
THEOREM ScheduledDataIsForeseen ==
  ASSUME SymmetricRoutes PROVE Spec => []ScheduledDataWasCounted
  BY DataCountedOnRoute, CreditStaysOnRoute, TypeCorrect, PTL
=============================================================================
