--------------------- MODULE CreditBouncerSwitch_proofs ---------------------
(***************************************************************************)
(* Theorems about CreditBouncerSwitch, for every network, hash, threshold   *)
(* and drain, and whatever the hosts send.  In this order:                  *)
(*   - the buffer of a switch (SwitchCbMmu);                                *)
(*   - the books: how many packets there are, against what hosts have sent, *)
(*     and with it that no control packet is dropped and that the switches  *)
(*     implement a CreditNetwork;                                           *)
(*   - the way of a grant: where it can be, which ports count it there, and *)
(*     with it what phantom queues hold and what a bounce undoes.           *)
(***************************************************************************)
EXTENDS CreditBouncerSwitch, SumTheorems

\* Monus stays among the naturals and subtracts at most what there is.
LEMMA MonusFacts ==
  ASSUME NEW m \in Nat, NEW n \in Nat
  PROVE  Monus(m, n) \in Nat /\ Monus(m, n) <= m
  BY DEF Monus

\* The data part of a buffer is a number of bytes.
LEMMA DataSharedType ==
  ASSUME NEW x \in Switch
  PROVE  DataShared(x) \in Nat
<1>1. PortsOf(x) \subseteq Link
  BY DEF PortsOf, Port
<1>2. Cardinality(PortsOf(x)) \in Nat
  BY <1>1, NetworkAssumption, FS_Subset, FS_CardinalityType
<1>3. MaxBuffer[x] \in Nat /\ CreditLimit * Cardinality(PortsOf(x)) \in Nat
  BY <1>2, SizeAssumption
<1>4. QED
  BY <1>3, MonusFacts DEF DataShared

\* m_dataAdmissionAlpha of at most 1 lets a queue grow by no more than what
\* is still free.
LEMMA AlphaArithmetic ==
  ASSUME NEW num \in Nat, NEW den \in Nat, den > 0, num <= den,
         NEW size \in Nat, NEW free \in Nat, size * den <= num * free
  PROVE  size <= free
<1>1. num * free <= den * free
  OBVIOUS
<1>2. SUFFICES ASSUME size > free PROVE FALSE
  OBVIOUS
<1>3. size >= free + 1
  BY <1>2
<1>4. size * den >= (free + 1) * den
  BY <1>3
<1>5. (free + 1) * den = den * free + den
  OBVIOUS
<1>6. size * den \in Nat /\ den * free \in Nat /\ num * free \in Nat
  OBVIOUS
<1>7. QED
  BY <1>1, <1>4, <1>5, <1>6

-----------------------------------------------------------------------------
\* The accounts are numbers of bytes, and within the buffers.
Accounts ==
  /\ creditQueueBytes \in [Port -> Nat] /\ dataQueueBytes \in [Port -> Nat]
  /\ dataSharedUsed \in [Switch -> Nat]
  /\ WithinBuffers

\* A port belongs to a switch.
LEMMA PortSwitch ==
  ASSUME NEW p \in Port PROVE p[1] \in Switch
  BY DEF Port

\* Whatever port and packet: a packet is admitted where there is room.
LEMMA EnqueueKeeps ==
  ASSUME Accounts, NEW p \in Port, NEW pkt, Enqueue(p, pkt)
  PROVE  Accounts'
<1> USE SizeAssumption
<1>1. p[1] \in Switch
  BY PortSwitch
<1>2. CASE /\ CheckCreditAdmission(p)
           /\ creditQueueBytes' = [creditQueueBytes EXCEPT ![p] = @ + ControlBytes]
           /\ UNCHANGED <<dataQueueBytes, dataSharedUsed, dat>>
  BY <1>2 DEF Accounts, WithinBuffers, CheckCreditAdmission, DataShared
<1>3. CASE /\ CheckDataAdmission(p)
           /\ dataQueueBytes' = [dataQueueBytes EXCEPT ![p] = @ + DataBytes]
           /\ dataSharedUsed' = [dataSharedUsed EXCEPT ![p[1]] = @ + DataBytes]
           /\ UNCHANGED <<creditQueueBytes, ctl>>
  <2> DEFINE Bs == DataShared(p[1])
             used == dataSharedUsed[p[1]]
  <2>1. /\ Bs \in Nat /\ used \in Nat /\ used <= Bs
        /\ dataQueueBytes[p] \in Nat
    BY <1>1, DataSharedType DEF Accounts, WithinBuffers
  <2>2. dataQueueBytes[p] + DataBytes <= Monus(Bs, used)
    <3>1. Monus(Bs, used) \in Nat
      BY <2>1, MonusFacts
    <3>2. (dataQueueBytes[p] + DataBytes) * AdmDen <= AdmNum * Monus(Bs, used)
      BY <1>3 DEF CheckDataAdmission
    <3>3. dataQueueBytes[p] + DataBytes \in Nat
      BY <2>1
    <3> HIDE DEF Bs, used
    <3>4. QED
      BY <3>1, <3>2, <3>3, AlphaArithmetic, SMTT(30)
  <2>3. used + DataBytes <= Bs
    <3> HIDE DEF Bs, used
    <3>1. QED
      BY <2>1, <2>2 DEF Monus
  <2>4. dataQueueBytes' \in [Port -> Nat] /\ dataSharedUsed' \in [Switch -> Nat]
    <3>1. dataQueueBytes[p] + DataBytes \in Nat /\ used + DataBytes \in Nat
      BY <2>1
    <3>2. dataQueueBytes' \in [Port -> Nat]
      BY <1>3, <3>1 DEF Accounts
    <3>3. dataSharedUsed' \in [Switch -> Nat]
      BY <1>3, <3>1 DEF Accounts
    <3>4. QED
      BY <3>2, <3>3
  <2>5. \A x \in Switch : dataSharedUsed'[x] <= DataShared(x)
    BY <1>1, <1>3, <2>3 DEF Accounts, WithinBuffers
  <2>6. QED
    BY <1>3, <2>4, <2>5 DEF Accounts, WithinBuffers, DataShared
<1>4. CASE UNCHANGED mmuVars
  BY <1>4 DEF Accounts, WithinBuffers, mmuVars, DataShared
<1>5. QED
  BY <1>2, <1>3, <1>4 DEF Enqueue, mmuVars

\* A step that leaves the accounts alone.
LEMMA NoAccount ==
  ASSUME Accounts, UNCHANGED mmuVars PROVE Accounts'
  BY DEF Accounts, WithinBuffers, mmuVars, DataShared

\* What a port transmits comes off its accounts.
LEMMA TransmitKeeps ==
  ASSUME Accounts, NEW p \in Port, TransmitCredit(p) \/ TransmitData(p)
  PROVE  Accounts'
<1> USE SizeAssumption
<1>1. p[1] \in Switch
  BY PortSwitch
<1>2. CASE TransmitCredit(p)
  <2>1. /\ Monus(creditQueueBytes[p], ControlBytes) \in Nat
        /\ Monus(creditQueueBytes[p], ControlBytes) <= creditQueueBytes[p]
    BY MonusFacts DEF Accounts
  <2>2. QED
    BY <1>2, <2>1 DEF TransmitCredit, Accounts, WithinBuffers, DataShared
<1>3. CASE TransmitData(p)
  <2> DEFINE taken == Min({DataBytes, dataQueueBytes[p]})
  <2>1. taken \in Nat
    <3>1. dataQueueBytes[p] \in Nat
      BY DEF Accounts
    <3>2. taken \in {DataBytes, dataQueueBytes[p]}
      BY <3>1 DEF Min
    <3>3. QED
      BY <3>1, <3>2
  <2>2. /\ Monus(dataSharedUsed[p[1]], taken) \in Nat
        /\ Monus(dataSharedUsed[p[1]], taken) <= dataSharedUsed[p[1]]
        /\ Monus(dataQueueBytes[p], DataBytes) \in Nat
    BY <1>1, <2>1, MonusFacts DEF Accounts
  <2>3. /\ dataSharedUsed' = [dataSharedUsed EXCEPT ![p[1]] = Monus(@, taken)]
        /\ dataQueueBytes' = [dataQueueBytes EXCEPT ![p] = Monus(@, DataBytes)]
        /\ UNCHANGED creditQueueBytes
    BY <1>3 DEF TransmitData
  <2> HIDE DEF taken
  <2>4. \A x \in Switch : dataSharedUsed'[x] <= DataShared(x)
    <3>1. ASSUME NEW x \in Switch PROVE dataSharedUsed'[x] <= DataShared(x)
      BY <1>1, <2>2, <2>3, DataSharedType DEF Accounts, WithinBuffers
    <3>2. QED
      BY <3>1
  <2>5. QED
    BY <2>2, <2>3, <2>4 DEF Accounts, WithinBuffers, DataShared
<1>4. QED
  BY <1>2, <1>3

-----------------------------------------------------------------------------
\* Queues and links hold packets whose route is known.
Typed ==
  /\ ctl \in [Port -> Seq(Packet)] /\ dat \in [Port -> Seq(Packet)]
  /\ wire \in [Link -> Seq(Packet)] /\ extras \subseteq Packet
  /\ granted \in [Flow -> Int] /\ next \in [Flow -> Int]

\* The inductive invariant: a packet is admitted to an account there is.
IInv == Accounts /\ Typed

\* Sequence numbers have a fixed width: every counter makes a packet.
LEMMA PktType ==
  ASSUME NEW kind \in Kind, NEW f \in Flow, NEW n \in Int
  PROVE  Pkt(kind, f, n) \in Packet
<1>1. n % SeqSpace \in 0 .. SeqSpace - 1
  BY NetworkAssumption
<1>2. QED
  BY <1>1 DEF Pkt, Packet, Seqs

\* Whatever its kind, a packet leaves by a port of the switch it is at.
LEMMA OutDevIsPort ==
  ASSUME NEW x \in Switch, NEW pkt \in Packet
  PROVE  GetOutDev(x, pkt) \in Port
<1> DEFINE hops == RtTable[x][Dst(pkt)]
<1>1. /\ pkt.flow \in Flow /\ pkt.seq \in Seqs
  BY DEF Packet
<1>2. Dst(pkt) \in Host
  BY <1>1, NetworkAssumption DEF Dst
<1>3. Hash(x, pkt) \in Nat
  BY <1>1, <1>2, NetworkAssumption DEF Hash
<1>4. /\ hops \in Seq(Node) /\ hops # <<>>
      /\ \A i \in DOMAIN hops : <<x, hops[i]>> \in Link
  BY <1>2, NetworkAssumption
<1>5. (Hash(x, pkt) % Len(hops)) + 1 \in DOMAIN hops
  <2> HIDE DEF hops
  <2>1. Len(hops) \in Nat \ {0} /\ DOMAIN hops = 1 .. Len(hops)
    BY <1>4
  <2>2. Hash(x, pkt) % Len(hops) \in 0 .. Len(hops) - 1
    BY <2>1, <1>3
  <2>3. QED
    BY <2>1, <2>2
<1>6. QED
  BY <1>4, <1>5 DEF GetOutDev, Port

\* Queues keep packets.
LEMMA EnqueueTyped ==
  ASSUME Typed, NEW p \in Port, NEW pkt \in Packet, Enqueue(p, pkt)
  PROVE  /\ ctl' \in [Port -> Seq(Packet)] /\ dat' \in [Port -> Seq(Packet)]
<1>1. ctl[p] \in Seq(Packet) /\ dat[p] \in Seq(Packet)
  BY DEF Typed
<1>2. \/ ctl' = [ctl EXCEPT ![p] = Append(@, pkt)] /\ UNCHANGED dat
      \/ dat' = [dat EXCEPT ![p] = Append(@, pkt)] /\ UNCHANGED ctl
      \/ UNCHANGED <<ctl, dat>>
  BY DEF Enqueue, queueVars
<1>3. Append(ctl[p], pkt) \in Seq(Packet) /\ Append(dat[p], pkt) \in Seq(Packet)
  BY <1>1
<1>4. QED
  BY <1>2, <1>3 DEF Typed

\* What arrives at a switch is a packet.
LEMMA ReceiveTyped ==
  ASSUME Typed, NEW p \in Port, ReceiveFrom(p[1], p[2])
  PROVE  /\ Arriving(p[1], p[2]) \in Packet
         /\ wire' \in [Link -> Seq(Packet)]
         /\ UNCHANGED <<extras, granted, next>>
<1>1. <<p[2], p[1]>> \in Link
  BY NetworkAssumption DEF Port
<1>2. wire[<<p[2], p[1]>>] \in Seq(Packet) /\ wire[<<p[2], p[1]>>] # <<>>
  BY <1>1 DEF Typed, ReceiveFrom
<1>3. QED
  BY <1>1, <1>2 DEF Typed, ReceiveFrom, Arriving, hostVars

-----------------------------------------------------------------------------
\* Initially the buffers are empty.
LEMMA InitKeeps == Init => IInv
<1> SUFFICES ASSUME Init PROVE IInv
  OBVIOUS
<1>1. \A x \in Switch : 0 <= DataShared(x)
  BY DataSharedType
<1>2. Accounts
  BY <1>1, SizeAssumption DEF Init, Accounts, WithinBuffers
<1>3. Typed
  <2>1. extras \subseteq Packet
    <3>1. extras \subseteq [kind : Signal \cup {"UNSCHEDULED"}, flow : Flow,
                            seq : Seqs, just : {FALSE}]
      BY ExtrasAssumption DEF Init
    <3>2. Signal \cup {"UNSCHEDULED"} \subseteq Kind
      BY DEF Kind, Data
    <3>. QED  BY <3>1, <3>2 DEF Packet
  <2>. QED  BY <2>1 DEF Init, Typed
<1>4. QED
  BY <1>2, <1>3 DEF IInv

\* The three things SendToDev does with a packet.
LEMMA SwitchReceiveKeeps ==
  ASSUME IInv, NEW p \in Port, SwitchReceiveFromDevice(p[1], p[2])
  PROVE  IInv'
<1> DEFINE pkt == Arriving(p[1], p[2])
           back == [pkt EXCEPT !.kind = "BOUNCED", !.just = TRUE]
<1>1. p[1] \in Switch /\ p = <<p[1], p[2]>>
  BY NetworkAssumption DEF Port
<1>2. ReceiveFrom(p[1], p[2])
  BY DEF SwitchReceiveFromDevice, BounceGrant, ReserveGrant, Forward
<1>3. pkt \in Packet
  BY <1>2, ReceiveTyped DEF IInv
<1>4. back \in Packet
  BY <1>3 DEF Packet, Kind
<1>5. GetOutDev(p[1], pkt) \in Port
  BY <1>1, <1>3, OutDevIsPort
<1>6. \E q \in Port, k \in Packet : Enqueue(q, k)
  <2> HIDE DEF pkt
  <2>1. CASE BounceGrant(p[1], p[2])
    BY <2>1, <1>1, <1>4 DEF BounceGrant, pkt
  <2>2. CASE ReserveGrant(p[1], p[2])
    BY <2>2, <1>3, <1>5 DEF ReserveGrant, pkt
  <2>3. CASE Forward(p[1], p[2])
    BY <2>3, <1>3, <1>5 DEF Forward, pkt
  <2>4. QED
    BY <2>1, <2>2, <2>3 DEF SwitchReceiveFromDevice
<1>7. PICK q \in Port, k \in Packet : Enqueue(q, k)
  BY <1>6
<1>8. Accounts'
  BY <1>7, EnqueueKeeps DEF IInv
<1>9. Typed'
  BY <1>2, <1>7, ReceiveTyped, EnqueueTyped DEF IInv, Typed
<1>10. QED
  BY <1>8, <1>9 DEF IInv

\* A transmission takes a packet from a queue to the wire.
LEMMA TransmitTyped ==
  ASSUME Typed, NEW p \in Port, TransmitCredit(p) \/ TransmitData(p)
  PROVE  Typed'
<1> USE DEF Typed
<1>1. p \in Link
  BY DEF Port
<1>2. ASSUME NEW pkt \in Packet, Transmit(p, pkt)
      PROVE  /\ wire' \in [Link -> Seq(Packet)]
             /\ UNCHANGED <<extras, granted, next>>
  <2>1. [pkt EXCEPT !.just = FALSE] \in Packet
    BY DEF Packet
  <2>2. QED
    BY <1>1, <1>2, <2>1 DEF Transmit, hostVars
<1>3. CASE TransmitCredit(p)
  <2>1. /\ Head(ctl[p]) \in Packet /\ Transmit(p, Head(ctl[p]))
        /\ ctl' \in [Port -> Seq(Packet)] /\ UNCHANGED dat
    BY <1>3 DEF TransmitCredit
  <2>2. QED
    BY <1>2, <2>1
<1>4. CASE TransmitData(p)
  <2>1. /\ Head(dat[p]) \in Packet /\ Transmit(p, Head(dat[p]))
        /\ dat' \in [Port -> Seq(Packet)] /\ UNCHANGED ctl
    BY <1>4 DEF TransmitData
  <2>2. QED
    BY <1>2, <2>1
<1>5. QED
  BY <1>3, <1>4

\* A host that sends a packet touches no account.
LEMMA SendTyped ==
  ASSUME Typed, NEW h, NEW pkt \in Packet, Send(h, pkt)
  PROVE  wire' \in [Link -> Seq(Packet)]
<1>1. CASE Uplink(h) \in Link
  <2>1. Append(wire[Uplink(h)], pkt) \in Seq(Packet)
    BY <1>1 DEF Typed
  <2>2. QED
    BY <1>1, <2>1 DEF Typed, Send
<1>2. CASE Uplink(h) \notin Link
  BY <1>2 DEF Typed, Send
<1>3. QED
  BY <1>1, <1>2

LEMMA HostKeeps ==
  ASSUME IInv,
         \/ \E f \in Flow : SendGrant(f) \/ SendData(f)
         \/ \E pkt \in extras : SendExtra(pkt)
         \/ \E h \in Host : HostReceive(h)
  PROVE  IInv'
<1>1. Accounts'
  <2>1. UNCHANGED mmuVars
    BY DEF SendGrant, SendData, SendExtra, HostReceive, Elsewhere
  <2>2. QED
    BY <2>1, NoAccount DEF IInv
<1>2. UNCHANGED <<ctl, dat>>
  BY DEF SendGrant, SendData, SendExtra, HostReceive, Elsewhere, queueVars
<1>3. ASSUME NEW f \in Flow, SendGrant(f) PROVE Typed'
  <2>1. granted[f] \in Int /\ granted' \in [Flow -> Int]
    BY <1>3 DEF IInv, Typed, SendGrant
  <2>2. Pkt("GRANT", f, granted[f]) \in Packet
    BY <2>1, PktType DEF Kind
  <2>3. wire' \in [Link -> Seq(Packet)]
    BY <1>3, <2>2, SendTyped DEF IInv, SendGrant
  <2>4. QED
    BY <1>2, <1>3, <2>1, <2>3 DEF IInv, Typed, SendGrant
<1>4. ASSUME NEW f \in Flow, SendData(f) PROVE Typed'
  <2>1. next[f] \in Int /\ next' \in [Flow -> Int]
    BY <1>4 DEF IInv, Typed, SendData
  <2>2. Pkt("SCHEDULED", f, next[f]) \in Packet
    BY <2>1, PktType DEF Kind, Data
  <2>3. wire' \in [Link -> Seq(Packet)]
    BY <1>4, <2>2, SendTyped DEF IInv, SendData
  <2>4. QED
    BY <1>2, <1>4, <2>1, <2>3 DEF IInv, Typed, SendData
<1>5. ASSUME NEW pkt \in extras, SendExtra(pkt) PROVE Typed'
  <2>1. pkt \in Packet
    BY DEF IInv, Typed
  <2>2. wire' \in [Link -> Seq(Packet)]
    BY <1>5, <2>1, SendTyped DEF IInv, SendExtra
  <2>3. QED
    BY <1>2, <1>5, <2>2 DEF IInv, Typed, SendExtra
<1>6. ASSUME NEW h \in Host, HostReceive(h) PROVE Typed'
  <2>1. PICK x \in Switch : <<h, x>> \in Link
    BY NetworkAssumption
  <2>2. <<x, h>> \in Link
    BY <2>1, NetworkAssumption
  <2>3. Downlink(h) \in Link
    BY <2>2 DEF Downlink
  <2>4. wire[Downlink(h)] \in Seq(Packet) \ {<<>>}
    BY <1>6, <2>3 DEF IInv, Typed, HostReceive
  <2>5. Head(wire[Downlink(h)]).flow \in Flow
    <3>1. Head(wire[Downlink(h)]) \in Packet
      BY <2>4
    <3>2. QED
      BY <3>1 DEF Packet
  <2>6. wire' \in [Link -> Seq(Packet)]
    <3>1. wire \in [Link -> Seq(Packet)]
      BY DEF IInv, Typed
    <3>2. wire' = [wire EXCEPT ![Downlink(h)] = Tail(@)]
      BY <1>6 DEF HostReceive
    <3>3. Tail(wire[Downlink(h)]) \in Seq(Packet)
      BY <2>4
    <3>4. QED
      BY <2>3, <3>1, <3>2, <3>3
  <2>7. granted' \in [Flow -> Int]
    <3> DEFINE f == Head(wire[Downlink(h)]).flow
    <3>1. granted \in [Flow -> Int] /\ f \in Flow
      BY <2>5 DEF IInv, Typed
    <3>2. granted' = [granted EXCEPT ![f] = @ - 1] \/ granted' = granted
      BY <1>6 DEF HostReceive
    <3> HIDE DEF f
    <3>3. QED
      BY <3>1, <3>2
  <2>8. QED
    BY <1>2, <1>6, <2>6, <2>7 DEF IInv, Typed, HostReceive
<1>7. QED
  BY <1>1, <1>3, <1>4, <1>5, <1>6 DEF IInv

\* Every step of a switch or a host keeps the invariant.
LEMMA NextKeeps == IInv /\ [Next]_vars => IInv'
<1> SUFFICES ASSUME IInv, [Next]_vars PROVE IInv'
  OBVIOUS
<1>1. ASSUME NEW p \in Port, SwitchReceiveFromDevice(p[1], p[2]) PROVE IInv'
  BY <1>1, SwitchReceiveKeeps
<1>2. ASSUME NEW p \in Port, TransmitCredit(p) \/ TransmitData(p) PROVE IInv'
  BY <1>2, TransmitKeeps, TransmitTyped DEF IInv
<1>3. CASE \/ \E f \in Flow : SendGrant(f) \/ SendData(f)
           \/ \E pkt \in extras : SendExtra(pkt)
           \/ \E h \in Host : HostReceive(h)
  BY <1>3, HostKeeps
<1>4. CASE UNCHANGED vars
  <2>1. Accounts'
    BY <1>4, NoAccount DEF IInv, vars
  <2>2. Typed'
    BY <1>4 DEF IInv, Typed, vars, queueVars, hostVars
  <2>3. QED
    BY <2>1, <2>2 DEF IInv
<1>5. QED
  BY <1>1, <1>2, <1>3, <1>4 DEF Next

\* Admission alone keeps every control queue within its dedicated part and
\* the data of all ports of a switch within the shared part, although a
\* queue's limit moves with what the other queues hold (CheckDataAdmission).
THEOREM BuffersSuffice == Spec => []WithinBuffers
<1>1. IInv => WithinBuffers
  BY DEF IInv, Accounts
<1>2. QED
  BY <1>1, InitKeeps, NextKeeps, PTL DEF Spec

(***************************************************************************)
(* How many packets there are on the links and in the queues, when S says   *)
(* for each place which packets count.                                      *)
(***************************************************************************)

InNet(S) ==
  TotalAt(S.wire, wire, Link) + (TotalAt(S.ctl, ctl, Port) + TotalAt(S.dat, dat, Port))
One(q, s) == IF q \in s THEN 1 ELSE 0

\* The same packets in every place.
Everywhere(s) ==
  [wire |-> [l \in Link |-> s], ctl |-> [p \in Port |-> s], dat |-> [p \in Port |-> s]]

LEMMA Finite == /\ IsFiniteSet(Link) /\ IsFiniteSet(Port) /\ Port \subseteq Link
                /\ IsFiniteSet(Flow) /\ IsFiniteSet(Grants)
<1>1. IsFiniteSet(Link) /\ Port \subseteq Link /\ IsFiniteSet(Flow)
  BY NetworkAssumption DEF Port
<1>2. IsFiniteSet(Port)
  BY <1>1, FS_Subset
<1>3. IsFiniteSet(Seqs)
  BY NetworkAssumption, FS_Interval DEF Seqs
<1>. QED  BY <1>1, <1>2, <1>3, FS_Product DEF Grants

LEMMA NetworkCounts ==
  ASSUME Typed
  PROVE  \A S : /\ TotalAt(S.wire, wire, Link) \in Nat /\ TotalAt(S.ctl, ctl, Port) \in Nat
                /\ TotalAt(S.dat, dat, Port) \in Nat /\ InNet(S) \in Nat
<1>1. ASSUME NEW S
      PROVE  /\ TotalAt(S.wire, wire, Link) \in Nat /\ TotalAt(S.ctl, ctl, Port) \in Nat
             /\ TotalAt(S.dat, dat, Port) \in Nat
  <2>1. TotalAt(S.wire, wire, Link) \in Nat
    BY Finite, TotalAtNat DEF Typed
  <2>2. TotalAt(S.ctl, ctl, Port) \in Nat
    BY Finite, TotalAtNat DEF Typed
  <2>3. TotalAt(S.dat, dat, Port) \in Nat
    BY Finite, TotalAtNat DEF Typed
  <2>. QED  BY <2>1, <2>2, <2>3
<1>. QED  BY <1>1 DEF InNet

\* What SendToDev makes of a packet: it joins a queue of its class, or there
\* was no place for it.
LEMMA EnqueueCounts ==
  ASSUME Typed, NEW p \in Port, NEW k \in Packet, Enqueue(p, k)
  PROVE  \A S :
           \/ /\ IsControl(k) /\ CheckCreditAdmission(p) /\ Joins(ctl, ctl', p, k) /\ dat' = dat
              /\ TotalAt(S.ctl, ctl', Port) + TotalAt(S.dat, dat', Port)
                   = TotalAt(S.ctl, ctl, Port) + TotalAt(S.dat, dat, Port) + One(k, S.ctl[p])
           \/ /\ ~IsControl(k) /\ ctl' = ctl /\ Joins(dat, dat', p, k)
              /\ TotalAt(S.ctl, ctl', Port) + TotalAt(S.dat, dat', Port)
                   = TotalAt(S.ctl, ctl, Port) + TotalAt(S.dat, dat, Port) + One(k, S.dat[p])
           \/ /\ IsControl(k) => ~CheckCreditAdmission(p)
              /\ ctl' = ctl /\ dat' = dat
<1>0. ctl \in [Port -> Seq(Packet)] /\ dat \in [Port -> Seq(Packet)]
  BY DEF Typed
<1>1. CASE IsControl(k) /\ CheckCreditAdmission(p)
  <2>1. Joins(ctl, ctl', p, k) /\ dat' = dat
    BY <1>1 DEF Enqueue, Joins
  <2>2. ASSUME NEW S
        PROVE  TotalAt(S.ctl, ctl', Port) + TotalAt(S.dat, dat', Port)
                 = TotalAt(S.ctl, ctl, Port) + TotalAt(S.dat, dat, Port) + One(k, S.ctl[p])
    <3>1. TotalAt(S.ctl, ctl', Port) = TotalAt(S.ctl, ctl, Port) + One(k, S.ctl[p])
      BY <1>0, <2>1, Finite, TotalAtAppend DEF One
    <3>2. TotalAt(S.ctl, ctl, Port) \in Nat /\ TotalAt(S.dat, dat, Port) \in Nat
      BY NetworkCounts
    <3>3. One(k, S.ctl[p]) \in Nat
      BY DEF One
    <3>. QED  BY <2>1, <3>1, <3>2, <3>3
  <2>. QED  BY <1>1, <2>1, <2>2
<1>2. CASE ~IsControl(k) /\ CheckDataAdmission(p)
  <2>1. Joins(dat, dat', p, k) /\ ctl' = ctl
    BY <1>2 DEF Enqueue, Joins
  <2>2. ASSUME NEW S
        PROVE  TotalAt(S.ctl, ctl', Port) + TotalAt(S.dat, dat', Port)
                 = TotalAt(S.ctl, ctl, Port) + TotalAt(S.dat, dat, Port) + One(k, S.dat[p])
    <3>1. TotalAt(S.dat, dat', Port) = TotalAt(S.dat, dat, Port) + One(k, S.dat[p])
      BY <1>0, <2>1, Finite, TotalAtAppend DEF One
    <3>2. TotalAt(S.ctl, ctl, Port) \in Nat /\ TotalAt(S.dat, dat, Port) \in Nat
      BY NetworkCounts
    <3>3. One(k, S.dat[p]) \in Nat
      BY DEF One
    <3>. QED  BY <2>1, <3>1, <3>2, <3>3
  <2>. QED  BY <1>2, <2>1, <2>2
<1>3. CASE ~(IF IsControl(k) THEN CheckCreditAdmission(p) ELSE CheckDataAdmission(p))
  BY <1>3 DEF Enqueue, queueVars
<1>. QED  BY <1>1, <1>2, <1>3

(***************************************************************************)
(* Every step moves one packet.                                             *)
(***************************************************************************)

\* At switch p[1] packet q from p[2] becomes k, which is to leave by out.
Passes(p, q, out, k) ==
  \/ /\ q.kind = "GRANT" /\ state[p].fc = "PAUSE"
     /\ out = p /\ k = [q EXCEPT !.kind = "BOUNCED", !.just = TRUE]
     /\ UNCHANGED <<state, held>>
  \/ /\ q.kind = "GRANT" /\ out = GetOutDev(p[1], q) /\ k = q
     /\ state' = [state EXCEPT ![p].qp = @ + Credit]
     /\ held' = [held EXCEPT ![p][<<q.flow, q.seq>>] = @ + 1]
  \/ /\ q.kind # "GRANT" /\ out = GetOutDev(p[1], q) /\ k = q
     /\ UNCHANGED <<state, held>>

LEMMA SwitchMoves ==
  ASSUME Typed, NEW p \in Port, SwitchReceiveFromDevice(p[1], p[2])
  PROVE  \E out \in Port, k \in Packet, q \in Packet :
           LET l == <<p[2], p[1]>>
           IN /\ l \in Link /\ wire[l] # <<>> /\ q = Head(wire[l])
              /\ Leaves(wire, wire', l) /\ Passes(p, q, out, k) /\ Enqueue(out, k)
              /\ UNCHANGED <<hostVars, accepted, drained>>
<1> DEFINE l == <<p[2], p[1]>>
           q == Arriving(p[1], p[2])
           back == [q EXCEPT !.kind = "BOUNCED", !.just = TRUE]
<1>1. p[1] \in Switch /\ p = <<p[1], p[2]>> /\ l \in Link
  BY NetworkAssumption DEF Port
<1>2. /\ wire[l] # <<>> /\ Leaves(wire, wire', l) /\ q = Head(wire[l])
      /\ UNCHANGED <<hostVars, accepted, drained>>
  BY DEF SwitchReceiveFromDevice, BounceGrant, ReserveGrant, Forward, ReceiveFrom,
         Leaves, Arriving
<1>3. q \in Packet
  BY <1>1, <1>2 DEF Typed
<1>4. back \in Packet
  BY <1>3 DEF Packet, Kind
<1>5. GetOutDev(p[1], q) \in Port
  BY <1>1, <1>3, OutDevIsPort
<1>. HIDE DEF q, l
<1>6. CASE BounceGrant(p[1], p[2])
  <2>1. Passes(p, q, p, back) /\ Enqueue(p, back)
    BY <1>1, <1>6 DEF BounceGrant, Passes, q
  <2>. QED  BY <1>1, <1>2, <1>3, <1>4, <2>1 DEF l
<1>7. CASE ReserveGrant(p[1], p[2])
  <2>1. Passes(p, q, GetOutDev(p[1], q), q) /\ Enqueue(GetOutDev(p[1], q), q)
    BY <1>1, <1>7 DEF ReserveGrant, Passes, q
  <2>. QED  BY <1>1, <1>2, <1>3, <1>5, <2>1 DEF l
<1>8. CASE Forward(p[1], p[2])
  <2>1. Passes(p, q, GetOutDev(p[1], q), q) /\ Enqueue(GetOutDev(p[1], q), q)
    BY <1>1, <1>8 DEF Forward, Passes, q
  <2>. QED  BY <1>1, <1>2, <1>3, <1>5, <2>1 DEF l
<1>. QED  BY <1>6, <1>7, <1>8 DEF SwitchReceiveFromDevice

\* What a turn or a reservation leaves of a packet.
LEMMA PassesFacts ==
  ASSUME NEW p \in Port, NEW q \in Packet, NEW out, NEW k, Passes(p, q, out, k)
  PROVE  /\ k \in Packet /\ k.flow = q.flow /\ k.seq = q.seq
         /\ IsControl(k) <=> IsControl(q)
         /\ q.kind # "GRANT" => k = q
         /\ q.kind = "GRANT" => k.kind \in {"GRANT", "BOUNCED"}
<1>1. CASE k = q
  BY <1>1
<1>2. CASE q.kind = "GRANT" /\ k = [q EXCEPT !.kind = "BOUNCED", !.just = TRUE]
  BY <1>2 DEF Packet, Kind, IsControl, Data
<1>. QED  BY <1>1, <1>2 DEF Passes

\* A packet leaves a link and joins a queue, or is dropped there.
LEMMA SwitchCounts ==
  ASSUME Typed, NEW out \in Port, NEW k \in Packet, NEW l \in Link, wire[l] # <<>>,
         Leaves(wire, wire', l), Enqueue(out, k), NEW S
  PROVE  \/ /\ queueVars' # queueVars
            /\ InNet(S)' = InNet(S) - One(Head(wire[l]), S.wire[l])
                           + One(k, IF IsControl(k) THEN S.ctl[out] ELSE S.dat[out])
         \/ /\ IsControl(k) => ~CheckCreditAdmission(out)
            /\ queueVars' = queueVars
            /\ InNet(S)' = InNet(S) - One(Head(wire[l]), S.wire[l])
<1>0. /\ wire \in [Link -> Seq(Packet)] /\ ctl \in [Port -> Seq(Packet)]
      /\ dat \in [Port -> Seq(Packet)]
  BY DEF Typed
<1>1. TotalAt(S.wire, wire', Link) = TotalAt(S.wire, wire, Link) - One(Head(wire[l]), S.wire[l])
  BY <1>0, Finite, TotalAtTail DEF One
<1>2. /\ TotalAt(S.wire, wire, Link) \in Nat /\ TotalAt(S.ctl, ctl, Port) \in Nat
      /\ TotalAt(S.dat, dat, Port) \in Nat
  BY NetworkCounts
<1>3. /\ One(Head(wire[l]), S.wire[l]) \in Int
      /\ One(k, S.ctl[out]) \in Int /\ One(k, S.dat[out]) \in Int
  BY DEF One
<1>4. InNet(S)' = TotalAt(S.wire, wire', Link)
                  + (TotalAt(S.ctl, ctl', Port) + TotalAt(S.dat, dat', Port))
  BY DEF InNet
<1>5. InNet(S) = TotalAt(S.wire, wire, Link)
                 + (TotalAt(S.ctl, ctl, Port) + TotalAt(S.dat, dat, Port))
  BY DEF InNet
<1>6. \/ /\ IsControl(k) /\ Joins(ctl, ctl', out, k)
         /\ TotalAt(S.ctl, ctl', Port) + TotalAt(S.dat, dat', Port)
              = TotalAt(S.ctl, ctl, Port) + TotalAt(S.dat, dat, Port) + One(k, S.ctl[out])
      \/ /\ ~IsControl(k) /\ Joins(dat, dat', out, k)
         /\ TotalAt(S.ctl, ctl', Port) + TotalAt(S.dat, dat', Port)
              = TotalAt(S.ctl, ctl, Port) + TotalAt(S.dat, dat, Port) + One(k, S.dat[out])
      \/ /\ IsControl(k) => ~CheckCreditAdmission(out)
         /\ ctl' = ctl /\ dat' = dat
  BY EnqueueCounts
<1>7. CASE /\ IsControl(k) /\ Joins(ctl, ctl', out, k)
           /\ TotalAt(S.ctl, ctl', Port) + TotalAt(S.dat, dat', Port)
                = TotalAt(S.ctl, ctl, Port) + TotalAt(S.dat, dat, Port) + One(k, S.ctl[out])
  <2>1. queueVars' # queueVars
    <3>1. ctl'[out] = Append(ctl[out], k) /\ ctl[out] \in Seq(Packet)
      BY <1>0, <1>7 DEF Joins
    <3>. QED  BY <3>1 DEF queueVars
  <2>2. InNet(S)' = InNet(S) - One(Head(wire[l]), S.wire[l]) + One(k, S.ctl[out])
    BY <1>1, <1>2, <1>3, <1>4, <1>5, <1>7
  <2>. QED  BY <1>7, <2>1, <2>2
<1>8. CASE /\ ~IsControl(k) /\ Joins(dat, dat', out, k)
           /\ TotalAt(S.ctl, ctl', Port) + TotalAt(S.dat, dat', Port)
                = TotalAt(S.ctl, ctl, Port) + TotalAt(S.dat, dat, Port) + One(k, S.dat[out])
  <2>1. queueVars' # queueVars
    <3>1. dat'[out] = Append(dat[out], k) /\ dat[out] \in Seq(Packet)
      BY <1>0, <1>8 DEF Joins
    <3>. QED  BY <3>1 DEF queueVars
  <2>2. InNet(S)' = InNet(S) - One(Head(wire[l]), S.wire[l]) + One(k, S.dat[out])
    BY <1>1, <1>2, <1>3, <1>4, <1>5, <1>8
  <2>. QED  BY <1>8, <2>1, <2>2
<1>9. CASE /\ IsControl(k) => ~CheckCreditAdmission(out)
           /\ ctl' = ctl /\ dat' = dat
  <2>1. TotalAt(S.ctl, ctl', Port) + TotalAt(S.dat, dat', Port)
          = TotalAt(S.ctl, ctl, Port) + TotalAt(S.dat, dat, Port)
    BY <1>9
  <2>2. queueVars' = queueVars
    BY <1>9 DEF queueVars
  <2>. QED  BY <1>1, <1>2, <1>3, <1>4, <1>5, <1>9, <2>1, <2>2
<1>. QED  BY <1>6, <1>7, <1>8, <1>9

\* What a port transmits carries no tag any more.
Untagged(q) == [q EXCEPT !.just = FALSE]

LEMMA UntaggedFacts ==
  ASSUME NEW q \in Packet
  PROVE  /\ Untagged(q) \in Packet /\ Untagged(q).just = FALSE
         /\ Untagged(q).kind = q.kind /\ Untagged(q).flow = q.flow /\ Untagged(q).seq = q.seq
         /\ IsControl(Untagged(q)) <=> IsControl(q)
  BY DEF Untagged, Packet, IsControl

\* A packet leaves one queue of a port for its link.
Leaving(p, q) ==
  \/ ctl[p] # <<>> /\ q = Head(ctl[p]) /\ Leaves(ctl, ctl', p) /\ dat' = dat
  \/ dat[p] # <<>> /\ q = Head(dat[p]) /\ Leaves(dat, dat', p) /\ ctl' = ctl

LEMMA TransmitMoves ==
  ASSUME Typed, NEW p \in Port, TransmitCredit(p) \/ TransmitData(p)
  PROVE  \E q \in Packet :
           /\ Leaving(p, q) /\ Joins(wire, wire', p, Untagged(q))
           /\ UpdateCBPortState(p, q) /\ UNCHANGED <<hostVars, accepted>>
<1>1. CASE TransmitCredit(p)
  <2>1. Head(ctl[p]) \in Packet
    BY <1>1 DEF TransmitCredit, Typed
  <2>. QED  BY <1>1, <2>1 DEF TransmitCredit, Transmit, Leaving, Leaves, Joins, Untagged
<1>2. CASE TransmitData(p)
  <2>1. Head(dat[p]) \in Packet
    BY <1>2 DEF TransmitData, Typed
  <2>. QED  BY <1>2, <2>1 DEF TransmitData, Transmit, Leaving, Leaves, Joins, Untagged
<1>. QED  BY <1>1, <1>2

LEMMA TransmitCounts ==
  ASSUME Typed, NEW p \in Port, NEW q \in Packet, Leaving(p, q),
         Joins(wire, wire', p, Untagged(q)), NEW S
  PROVE  \/ /\ ctl[p] # <<>> /\ q = Head(ctl[p])
            /\ InNet(S)' = InNet(S) - One(q, S.ctl[p]) + One(Untagged(q), S.wire[p])
         \/ /\ dat[p] # <<>> /\ q = Head(dat[p])
            /\ InNet(S)' = InNet(S) - One(q, S.dat[p]) + One(Untagged(q), S.wire[p])
<1>0. /\ wire \in [Link -> Seq(Packet)] /\ ctl \in [Port -> Seq(Packet)]
      /\ dat \in [Port -> Seq(Packet)] /\ p \in Link /\ Untagged(q) \in Packet
  BY Finite, UntaggedFacts DEF Typed
<1>1. TotalAt(S.wire, wire', Link) = TotalAt(S.wire, wire, Link) + One(Untagged(q), S.wire[p])
  <2>1. ASSUME NEW k \in Packet, Joins(wire, wire', p, k)
        PROVE  TotalAt(S.wire, wire', Link) = TotalAt(S.wire, wire, Link) + One(k, S.wire[p])
    <3>1. wire \in [Link -> Seq(Packet)] /\ IsFiniteSet(Link) /\ p \in Link
      BY <1>0, Finite
    <3>. QED  BY <2>1, <3>1, TotalAtAppend DEF One
  <2>. QED  BY <1>0, <2>1
<1>2. /\ TotalAt(S.wire, wire, Link) \in Nat /\ TotalAt(S.ctl, ctl, Port) \in Nat
      /\ TotalAt(S.dat, dat, Port) \in Nat
  BY NetworkCounts
<1>3. /\ One(Untagged(q), S.wire[p]) \in Int
      /\ One(q, S.ctl[p]) \in Int /\ One(q, S.dat[p]) \in Int
  BY DEF One
<1>4. InNet(S)' = TotalAt(S.wire, wire', Link)
                  + (TotalAt(S.ctl, ctl', Port) + TotalAt(S.dat, dat', Port))
  BY DEF InNet
<1>5. InNet(S) = TotalAt(S.wire, wire, Link)
                 + (TotalAt(S.ctl, ctl, Port) + TotalAt(S.dat, dat, Port))
  BY DEF InNet
<1>6. CASE ctl[p] # <<>> /\ q = Head(ctl[p]) /\ Leaves(ctl, ctl', p) /\ dat' = dat
  <2>1. TotalAt(S.ctl, ctl', Port) = TotalAt(S.ctl, ctl, Port) - One(q, S.ctl[p])
    BY <1>0, <1>6, Finite, TotalAtTail DEF One
  <2>2. TotalAt(S.dat, dat', Port) = TotalAt(S.dat, dat, Port)
    BY <1>6
  <2>. QED  BY <1>1, <1>2, <1>3, <1>4, <1>5, <1>6, <2>1, <2>2
<1>7. CASE dat[p] # <<>> /\ q = Head(dat[p]) /\ Leaves(dat, dat', p) /\ ctl' = ctl
  <2>1. TotalAt(S.dat, dat', Port) = TotalAt(S.dat, dat, Port) - One(q, S.dat[p])
    <3>1. dat \in [Port -> Seq(Packet)] /\ IsFiniteSet(Port)
      BY <1>0, Finite
    <3>2. dat[p] # <<>> /\ q = Head(dat[p]) /\ Leaves(dat, dat', p)
      BY <1>7
    <3>. QED  BY <3>1, <3>2, TotalAtTail DEF One
  <2>2. TotalAt(S.ctl, ctl', Port) = TotalAt(S.ctl, ctl, Port)
    BY <1>7
  <2>. QED  BY <1>1, <1>2, <1>3, <1>4, <1>5, <1>7, <2>1, <2>2
<1>. QED  BY <1>6, <1>7 DEF Leaving

\* Every host has a link to the network and one from it.
LEMMA HostLinks ==
  ASSUME NEW h \in Host
  PROVE  /\ Uplink(h) \in Link /\ Uplink(h)[1] = h
         /\ Downlink(h) \in Link /\ Downlink(h)[2] = h
<1>1. PICK x \in Switch : <<h, x>> \in Link
  BY NetworkAssumption
<1>2. <<x, h>> \in Link
  BY <1>1, NetworkAssumption
<1>3. <<h, x>>[1] = h /\ <<x, h>>[2] = h
  OBVIOUS
<1>4. (\E l \in Link : l[1] = h) /\ (\E l \in Link : l[2] = h)
  BY <1>1, <1>2, <1>3
<1>. QED  BY <1>4 DEF Uplink, Downlink

\* A host puts a packet on its link, or takes one from it.
LEMMA SendCounts ==
  ASSUME Typed, NEW h \in Host, NEW k \in Packet, Send(h, k), UNCHANGED queueVars, NEW S
  PROVE  /\ Joins(wire, wire', Uplink(h), k)
         /\ InNet(S)' = InNet(S) + One(k, S.wire[Uplink(h)])
<1>0. wire \in [Link -> Seq(Packet)] /\ ctl' = ctl /\ dat' = dat /\ Uplink(h) \in Link
  BY HostLinks DEF Typed, queueVars
<1>1. Joins(wire, wire', Uplink(h), k)
  BY DEF Send, Joins
<1>2. TotalAt(S.wire, wire', Link) = TotalAt(S.wire, wire, Link) + One(k, S.wire[Uplink(h)])
  BY <1>0, <1>1, Finite, TotalAtAppend DEF One
<1>3. InNet(S)' = TotalAt(S.wire, wire', Link)
                  + (TotalAt(S.ctl, ctl, Port) + TotalAt(S.dat, dat, Port))
  BY <1>0 DEF InNet
<1>4. /\ TotalAt(S.wire, wire, Link) \in Nat /\ TotalAt(S.ctl, ctl, Port) \in Nat
      /\ TotalAt(S.dat, dat, Port) \in Nat /\ One(k, S.wire[Uplink(h)]) \in Int
  BY NetworkCounts DEF One
<1>5. InNet(S) = TotalAt(S.wire, wire, Link)
                 + (TotalAt(S.ctl, ctl, Port) + TotalAt(S.dat, dat, Port))
  BY DEF InNet
<1>. QED  BY <1>1, <1>2, <1>3, <1>4, <1>5

LEMMA ReceiveCounts ==
  ASSUME Typed, NEW l \in Link, wire[l] # <<>>, Leaves(wire, wire', l),
         UNCHANGED queueVars, NEW S
  PROVE  InNet(S)' = InNet(S) - One(Head(wire[l]), S.wire[l])
<1>0. wire \in [Link -> Seq(Packet)] /\ ctl' = ctl /\ dat' = dat
  BY DEF Typed, queueVars
<1>1. TotalAt(S.wire, wire', Link) = TotalAt(S.wire, wire, Link) - One(Head(wire[l]), S.wire[l])
  BY <1>0, Finite, TotalAtTail DEF One
<1>2. InNet(S)' = TotalAt(S.wire, wire', Link)
                  + (TotalAt(S.ctl, ctl, Port) + TotalAt(S.dat, dat, Port))
  BY <1>0 DEF InNet
<1>3. /\ TotalAt(S.wire, wire, Link) \in Nat /\ TotalAt(S.ctl, ctl, Port) \in Nat
      /\ TotalAt(S.dat, dat, Port) \in Nat /\ One(Head(wire[l]), S.wire[l]) \in Int
  BY NetworkCounts DEF One
<1>4. InNet(S) = TotalAt(S.wire, wire, Link)
                 + (TotalAt(S.ctl, ctl, Port) + TotalAt(S.dat, dat, Port))
  BY DEF InNet
<1>. QED  BY <1>1, <1>2, <1>3, <1>4

(***************************************************************************)
(* What the hosts sent bounds what is under way.                            *)
(***************************************************************************)

AllGrants == {q \in Packet : IsGrant(q)}
GrantsOf(f) == {q \in Packet : IsGrant(q) /\ q.flow = f}
Controls == {q \in Packet : IsControl(q)}
ControlsIn(e) == {pkt \in e : IsControl(pkt)}

\* Switches do not change whether a packet is in one of these sets.
Blind(s) ==
  \A q, k \in Packet :
    /\ k.flow = q.flow /\ k.seq = q.seq
    /\ k.kind = q.kind \/ {k.kind, q.kind} \subseteq {"GRANT", "BOUNCED"}
    => (k \in s <=> q \in s)

LEMMA BlindSets ==
  /\ Blind(AllGrants) /\ Blind(Controls) /\ \A f : Blind(GrantsOf(f))
  BY DEF Blind, AllGrants, Controls, GrantsOf, IsGrant, IsControl, Data

\* Packets have no other way into the network than a host.
LEMMA SwitchAddsNothing ==
  ASSUME Typed, NEW p \in Port,
         \/ SwitchReceiveFromDevice(p[1], p[2])
         \/ TransmitCredit(p) \/ TransmitData(p)
  PROVE  /\ UNCHANGED <<hostVars, accepted>>
         /\ \A s : Blind(s) => InNet(Everywhere(s))' <= InNet(Everywhere(s))
<1>0. /\ \A s : InNet(Everywhere(s)) \in Nat
      /\ \A s : \A q : One(q, s) \in {0, 1}
  BY NetworkCounts DEF One
<1>1. \A s : /\ \A l \in Link : Everywhere(s).wire[l] = s
             /\ \A x \in Port : Everywhere(s).ctl[x] = s /\ Everywhere(s).dat[x] = s
  BY DEF Everywhere
<1>2. CASE SwitchReceiveFromDevice(p[1], p[2])
  <2>1. PICK out \in Port, k \in Packet, q \in Packet :
          LET l == <<p[2], p[1]>>
          IN /\ l \in Link /\ wire[l] # <<>> /\ q = Head(wire[l])
             /\ Leaves(wire, wire', l) /\ Passes(p, q, out, k) /\ Enqueue(out, k)
             /\ UNCHANGED <<hostVars, accepted, drained>>
    BY <1>2, SwitchMoves
  <2> DEFINE l == <<p[2], p[1]>>
  <2>2. /\ l \in Link /\ wire[l] # <<>> /\ q = Head(wire[l])
        /\ Leaves(wire, wire', l) /\ Passes(p, q, out, k) /\ Enqueue(out, k)
        /\ UNCHANGED <<hostVars, accepted, drained>>
    BY <2>1
  <2>. HIDE DEF l
  <2>3. ASSUME NEW s, Blind(s)
        PROVE  InNet(Everywhere(s))' <= InNet(Everywhere(s))
    <3>1. One(k, s) = One(q, s)
      <4>1. /\ k.flow = q.flow /\ k.seq = q.seq
            /\ k.kind = q.kind \/ {k.kind, q.kind} \subseteq {"GRANT", "BOUNCED"}
        BY <2>2, PassesFacts
      <4>. QED  BY <2>3, <4>1 DEF Blind, One
    <3> DEFINE S == Everywhere(s)
    <3>2. /\ S.wire[l] = s
          /\ (IF IsControl(k) THEN S.ctl[out] ELSE S.dat[out]) = s
      BY <1>1, <2>2
    <3>3. \/ InNet(S)' = InNet(S) - One(Head(wire[l]), S.wire[l])
                          + One(k, IF IsControl(k) THEN S.ctl[out] ELSE S.dat[out])
          \/ InNet(S)' = InNet(S) - One(Head(wire[l]), S.wire[l])
      <4>. HIDE DEF S
      <4>. QED  BY <2>2, SwitchCounts
    <3>4. \/ InNet(S)' = InNet(S) - One(q, s) + One(q, s)
          \/ InNet(S)' = InNet(S) - One(q, s)
      BY <2>2, <3>1, <3>2, <3>3
    <3>5. InNet(S) \in Nat /\ One(q, s) \in {0, 1}
      BY <1>0
    <3>. HIDE DEF S
    <3>6. InNet(S)' <= InNet(S)
      BY <3>4, <3>5
    <3>. QED  BY <3>6 DEF S
  <2>. QED  BY <2>2, <2>3
<1>3. CASE TransmitCredit(p) \/ TransmitData(p)
  <2>1. PICK q \in Packet :
          /\ Leaving(p, q) /\ Joins(wire, wire', p, Untagged(q))
          /\ UpdateCBPortState(p, q) /\ UNCHANGED <<hostVars, accepted>>
    BY <1>3, TransmitMoves
  <2>2. ASSUME NEW s, Blind(s)
        PROVE  InNet(Everywhere(s))' <= InNet(Everywhere(s))
    <3>1. One(Untagged(q), s) = One(q, s)
      BY <2>2, UntaggedFacts DEF Blind, One
    <3> DEFINE S == Everywhere(s)
    <3>2. S.wire[p] = s /\ S.ctl[p] = s /\ S.dat[p] = s
      BY <1>1, Finite
    <3>3. \/ InNet(S)' = InNet(S) - One(q, S.ctl[p]) + One(Untagged(q), S.wire[p])
          \/ InNet(S)' = InNet(S) - One(q, S.dat[p]) + One(Untagged(q), S.wire[p])
      <4>. HIDE DEF S
      <4>. QED  BY <2>1, TransmitCounts
    <3>4. InNet(S)' = InNet(S) - One(q, s) + One(q, s)
      BY <3>1, <3>2, <3>3
    <3>5. InNet(S) \in Nat /\ One(q, s) \in {0, 1}
      BY <1>0
    <3>. HIDE DEF S
    <3>6. InNet(S)' <= InNet(S)
      BY <3>4, <3>5
    <3>. QED  BY <3>6 DEF S
  <2>. QED  BY <2>1, <2>2
<1>. QED  BY <1>2, <1>3

Counters ==
  /\ granted \in [Flow -> Nat] /\ avail \in [Flow -> Nat] /\ next \in [Flow -> Nat]
  /\ accepted \in [Grants -> Nat] /\ grants \in Nat

\* A grant that is out is under way, or credit of its sender, or was used.
FlowLedger ==
  \A f \in Flow :
    /\ InNet(Everywhere(GrantsOf(f))) + avail[f] + next[f] <= granted[f]
    /\ granted[f] <= Chunks[f]

GrantLedger ==
  InNet(Everywhere(AllGrants)) + SumFunctionOnSet(accepted, Grants)
    <= SumFunctionOnSet(granted, Flow)

\* The control packets under way: grants, and signals that have been sent.
ControlLedger ==
  \E e \in Extras :
    /\ extras \subseteq e
    /\ InNet(Everywhere(Controls)) + Cardinality(ControlsIn(extras))
         <= SumFunctionOnSet(granted, Flow) + Cardinality(ControlsIn(e))

Books == Counters /\ FlowLedger /\ GrantLedger /\ ControlLedger

\* The sums and cardinalities in the books are numbers.
LEMMA BookTypes ==
  ASSUME Counters
  PROVE  /\ SumFunctionOnSet(accepted, Grants) \in Nat
         /\ SumFunctionOnSet(granted, Flow) \in Nat
         /\ \A e \in Extras : \A x \in SUBSET e :
              IsFiniteSet(ControlsIn(x)) /\ Cardinality(ControlsIn(x)) \in Nat
<1>1. SumFunctionOnSet(accepted, Grants) \in Nat
  BY Finite, SumNat DEF Counters
<1>2. SumFunctionOnSet(granted, Flow) \in Nat
  BY Finite, SumNat DEF Counters
<1>3. ASSUME NEW e \in Extras, NEW x \in SUBSET e
      PROVE  IsFiniteSet(ControlsIn(x)) /\ Cardinality(ControlsIn(x)) \in Nat
  <2>1. IsFiniteSet(e) /\ ControlsIn(x) \subseteq e
    BY ExtrasAssumption DEF ControlsIn
  <2>. QED  BY <2>1, FS_Subset, FS_CardinalityType
<1>. QED  BY <1>1, <1>2, <1>3

LEMMA GrantedSum ==
  ASSUME NEW g1 \in [Flow -> Int], NEW f \in Flow, NEW g2 \in [Flow -> Int],
         \A x \in Flow \ {f} : g2[x] = g1[x]
  PROVE  SumFunctionOnSet(g2, Flow) = SumFunctionOnSet(g1, Flow) + g2[f] - g1[f]
<1>1. \A x \in Flow : g1[x] \in Int /\ g2[x] \in Int
  OBVIOUS
<1>. QED  BY <1>1, Finite, SumUpdate

LEMMA CountsLater ==
  ASSUME Typed' PROVE \A S : InNet(S)' \in Nat
<1>1. /\ wire' \in [Link -> Seq(Packet)] /\ ctl' \in [Port -> Seq(Packet)]
      /\ dat' \in [Port -> Seq(Packet)]
  BY DEF Typed
<1>2. ASSUME NEW S PROVE InNet(S)' \in Nat
  <2>1. TotalAt(S.wire, wire', Link) \in Nat
    BY <1>1, Finite, TotalAtNat
  <2>2. TotalAt(S.ctl, ctl', Port) \in Nat
    BY <1>1, Finite, TotalAtNat
  <2>3. TotalAt(S.dat, dat', Port) \in Nat
    BY <1>1, Finite, TotalAtNat
  <2>. QED  BY <2>1, <2>2, <2>3 DEF InNet
<1>. QED  BY <1>2

\* The books hold as long as the counts in them only fall.
LEMMA FewerPackets ==
  ASSUME Typed, Typed', Books, UNCHANGED <<hostVars, accepted>>,
         \A s : Blind(s) => InNet(Everywhere(s))' <= InNet(Everywhere(s))
  PROVE  Books'
<1>1. /\ granted' = granted /\ avail' = avail /\ next' = next /\ extras' = extras
      /\ grants' = grants /\ accepted' = accepted
  BY DEF hostVars
<1>2. \A S : InNet(S) \in Nat /\ InNet(S)' \in Nat
  BY NetworkCounts, CountsLater
<1>3. Counters'
  BY <1>1 DEF Books, Counters
<1>4. FlowLedger'
  <2>1. ASSUME NEW f \in Flow
        PROVE  /\ InNet(Everywhere(GrantsOf(f)))' + avail[f] + next[f] <= granted[f]
               /\ granted[f] <= Chunks[f]
    <3>1. InNet(Everywhere(GrantsOf(f)))' <= InNet(Everywhere(GrantsOf(f)))
      BY BlindSets
    <3>2. /\ InNet(Everywhere(GrantsOf(f))) + avail[f] + next[f] <= granted[f]
          /\ granted[f] <= Chunks[f]
          /\ avail[f] \in Nat /\ next[f] \in Nat /\ granted[f] \in Nat
      BY DEF Books, FlowLedger, Counters
    <3>. QED  BY <1>2, <3>1, <3>2
  <2>. QED  BY <1>1, <2>1 DEF FlowLedger
<1>5. GrantLedger'
  <2>1. InNet(Everywhere(AllGrants))' <= InNet(Everywhere(AllGrants))
    BY BlindSets
  <2>2. /\ SumFunctionOnSet(accepted, Grants) \in Nat
        /\ SumFunctionOnSet(granted, Flow) \in Nat
    BY BookTypes DEF Books
  <2>3. InNet(Everywhere(AllGrants))' + SumFunctionOnSet(accepted, Grants)
          <= SumFunctionOnSet(granted, Flow)
    BY <1>2, <2>1, <2>2 DEF Books, GrantLedger
  <2>. QED  BY <1>1, <2>3 DEF GrantLedger
<1>6. ControlLedger'
  <2>1. InNet(Everywhere(Controls))' <= InNet(Everywhere(Controls))
    BY BlindSets
  <2>2. PICK e \in Extras :
          /\ extras \subseteq e
          /\ InNet(Everywhere(Controls)) + Cardinality(ControlsIn(extras))
               <= SumFunctionOnSet(granted, Flow) + Cardinality(ControlsIn(e))
    BY DEF Books, ControlLedger
  <2>3. /\ Cardinality(ControlsIn(extras)) \in Nat /\ Cardinality(ControlsIn(e)) \in Nat
        /\ SumFunctionOnSet(granted, Flow) \in Nat
    BY <2>2, BookTypes DEF Books
  <2>4. InNet(Everywhere(Controls))' + Cardinality(ControlsIn(extras))
          <= SumFunctionOnSet(granted, Flow) + Cardinality(ControlsIn(e))
    BY <1>2, <2>1, <2>2, <2>3
  <2>. QED  BY <1>1, <2>2, <2>4 DEF ControlLedger
<1>. QED  BY <1>3, <1>4, <1>5, <1>6 DEF Books

\* A packet that a host sends counts once, if it is in the set.
LEMMA HostSendCounts ==
  ASSUME Typed, NEW h \in Host, NEW k \in Packet, Send(h, k), UNCHANGED queueVars
  PROVE  \A s : InNet(Everywhere(s))' = InNet(Everywhere(s)) + One(k, s)
<1>1. ASSUME NEW s
      PROVE  InNet(Everywhere(s))' = InNet(Everywhere(s)) + One(k, s)
  <2> DEFINE S == Everywhere(s)
  <2>1. S.wire[Uplink(h)] = s
    BY HostLinks DEF Everywhere
  <2>2. InNet(S)' = InNet(S) + One(k, S.wire[Uplink(h)])
    <3>. HIDE DEF S
    <3>. QED  BY SendCounts
  <2>. QED  BY <2>1, <2>2
<1>. QED  BY <1>1

LEMMA HostReceiveCounts ==
  ASSUME Typed, NEW h \in Host, HostReceive(h)
  PROVE  LET l == Downlink(h)
             k == Head(wire[l])
         IN /\ l \in Link /\ wire[l] # <<>> /\ k \in Packet /\ Leaves(wire, wire', l)
            /\ \A S : InNet(S)' = InNet(S) - One(k, S.wire[l])
            /\ \A s : InNet(Everywhere(s))' = InNet(Everywhere(s)) - One(k, s)
<1> DEFINE l == Downlink(h)
           k == Head(wire[l])
<1>1. l \in Link /\ wire[l] # <<>> /\ Leaves(wire, wire', l) /\ UNCHANGED queueVars
  BY HostLinks DEF HostReceive, Leaves, Elsewhere
<1>2. k \in Packet
  BY <1>1 DEF Typed
<1>. HIDE DEF l
<1>3. \A S : InNet(S)' = InNet(S) - One(k, S.wire[l])
  BY <1>1, ReceiveCounts
<1>4. ASSUME NEW s
      PROVE  InNet(Everywhere(s))' = InNet(Everywhere(s)) - One(k, s)
  <2>1. Everywhere(s).wire[l] = s
    BY <1>1 DEF Everywhere
  <2>. QED  BY <1>3, <2>1
<1>. QED  BY <1>1, <1>2, <1>3, <1>4 DEF l

\* Which of the counted packets a packet is.
LEMMA KindCounts ==
  ASSUME NEW q \in Packet
  PROVE  /\ One(q, AllGrants) = IF IsGrant(q) THEN 1 ELSE 0
         /\ One(q, Controls) = IF IsControl(q) THEN 1 ELSE 0
         /\ \A f \in Flow : One(q, GrantsOf(f)) = IF IsGrant(q) /\ q.flow = f THEN 1 ELSE 0
         /\ IsGrant(q) => IsControl(q)
  BY DEF One, AllGrants, Controls, GrantsOf, IsGrant, IsControl, Data

LEMMA SendGrantKeepsBooks ==
  ASSUME Typed, Books, NEW f \in Flow, SendGrant(f)
  PROVE  Books'
<1> DEFINE k == Pkt("GRANT", f, granted[f])
<1>0. /\ granted \in [Flow -> Nat] /\ avail \in [Flow -> Nat] /\ next \in [Flow -> Nat]
      /\ Rcv[f] \in Host /\ Chunks[f] \in Nat
  BY NetworkAssumption DEF Books, Counters
<1>1. k \in Packet
  <2>1. granted[f] \in Int /\ "GRANT" \in Kind
    BY <1>0 DEF Kind
  <2>. QED  BY <2>1, PktType
<1>2. k.kind = "GRANT" /\ k.flow = f
  BY DEF Pkt
<1>3. /\ granted[f] < Chunks[f] /\ granted' = [granted EXCEPT ![f] = @ + 1]
      /\ Send(Rcv[f], k) /\ UNCHANGED <<avail, next, extras, accepted>> /\ UNCHANGED queueVars
      /\ grants' = grants \/ grants' = grants + 1
  BY DEF SendGrant, Elsewhere
<1>. HIDE DEF k
<1>4. \A s : InNet(Everywhere(s))' = InNet(Everywhere(s)) + One(k, s)
  BY <1>0, <1>1, <1>3, HostSendCounts
<1>5. \A S : InNet(S) \in Nat
  BY NetworkCounts
<1>6. /\ One(k, AllGrants) = 1 /\ One(k, Controls) = 1
      /\ \A x \in Flow : One(k, GrantsOf(x)) = IF x = f THEN 1 ELSE 0
  BY <1>1, <1>2, KindCounts DEF IsGrant
<1>7. granted' \in [Flow -> Nat] /\ granted'[f] = granted[f] + 1
      /\ \A x \in Flow \ {f} : granted'[x] = granted[x]
  BY <1>0, <1>3
<1>8. SumFunctionOnSet(granted', Flow) = SumFunctionOnSet(granted, Flow) + 1
  <2>1. SumFunctionOnSet(granted', Flow)
          = SumFunctionOnSet(granted, Flow) + granted'[f] - granted[f]
    BY <1>0, <1>7, GrantedSum
  <2>2. SumFunctionOnSet(granted, Flow) \in Nat
    BY BookTypes DEF Books
  <2>. QED  BY <1>0, <1>7, <2>1, <2>2
<1>9. Counters'
  BY <1>3, <1>7 DEF Books, Counters
<1>10. FlowLedger'
  <2>1. ASSUME NEW x \in Flow
        PROVE  /\ InNet(Everywhere(GrantsOf(x)))' + avail[x] + next[x] <= granted'[x]
               /\ granted'[x] <= Chunks[x]
    <3>1. /\ InNet(Everywhere(GrantsOf(x))) + avail[x] + next[x] <= granted[x]
          /\ granted[x] <= Chunks[x]
          /\ avail[x] \in Nat /\ next[x] \in Nat /\ granted[x] \in Nat
      BY <1>0 DEF Books, FlowLedger
    <3>2. InNet(Everywhere(GrantsOf(x)))'
            = InNet(Everywhere(GrantsOf(x))) + (IF x = f THEN 1 ELSE 0)
      BY <1>4, <1>6
    <3>3. CASE x = f
      BY <1>0, <1>3, <1>5, <1>7, <3>1, <3>2, <3>3
    <3>4. CASE x # f
      BY <1>5, <1>7, <3>1, <3>2, <3>4
    <3>. QED  BY <3>3, <3>4
  <2>. QED  BY <1>3, <2>1 DEF FlowLedger
<1>11. GrantLedger'
  <2>1. InNet(Everywhere(AllGrants))' = InNet(Everywhere(AllGrants)) + 1
    BY <1>4, <1>6
  <2>2. /\ SumFunctionOnSet(accepted, Grants) \in Nat
        /\ SumFunctionOnSet(granted, Flow) \in Nat
    BY BookTypes DEF Books
  <2>3. InNet(Everywhere(AllGrants))' + SumFunctionOnSet(accepted, Grants)
          <= SumFunctionOnSet(granted', Flow)
    BY <1>5, <1>8, <2>1, <2>2 DEF Books, GrantLedger
  <2>. QED  BY <1>3, <2>3 DEF GrantLedger
<1>12. ControlLedger'
  <2>1. InNet(Everywhere(Controls))' = InNet(Everywhere(Controls)) + 1
    BY <1>4, <1>6
  <2>2. PICK e \in Extras :
          /\ extras \subseteq e
          /\ InNet(Everywhere(Controls)) + Cardinality(ControlsIn(extras))
               <= SumFunctionOnSet(granted, Flow) + Cardinality(ControlsIn(e))
    BY DEF Books, ControlLedger
  <2>3. /\ Cardinality(ControlsIn(extras)) \in Nat /\ Cardinality(ControlsIn(e)) \in Nat
        /\ SumFunctionOnSet(granted, Flow) \in Nat
    BY <2>2, BookTypes DEF Books
  <2>4. InNet(Everywhere(Controls))' + Cardinality(ControlsIn(extras))
          <= SumFunctionOnSet(granted', Flow) + Cardinality(ControlsIn(e))
    BY <1>5, <1>8, <2>1, <2>2, <2>3
  <2>. QED  BY <1>3, <2>2, <2>4 DEF ControlLedger
<1>. QED  BY <1>9, <1>10, <1>11, <1>12 DEF Books

LEMMA SendDataKeepsBooks ==
  ASSUME Typed, Books, NEW f \in Flow, SendData(f)
  PROVE  Books'
<1> DEFINE k == Pkt("SCHEDULED", f, next[f])
<1>0. /\ granted \in [Flow -> Nat] /\ avail \in [Flow -> Nat] /\ next \in [Flow -> Nat]
      /\ Snd[f] \in Host
  BY NetworkAssumption DEF Books, Counters
<1>1. k \in Packet
  <2>1. next[f] \in Int /\ "SCHEDULED" \in Kind
    BY <1>0 DEF Kind, Data
  <2>. QED  BY <2>1, PktType
<1>2. ~IsGrant(k) /\ ~IsControl(k)
  BY DEF Pkt, IsGrant, IsControl, Data
<1>3. /\ avail[f] > 0 /\ avail' = [avail EXCEPT ![f] = @ - 1]
      /\ next' = [next EXCEPT ![f] = @ + 1]
      /\ Send(Snd[f], k) /\ UNCHANGED <<granted, extras, grants, accepted>>
      /\ UNCHANGED queueVars
  BY DEF SendData, Elsewhere
<1>. HIDE DEF k
<1>4. \A s : InNet(Everywhere(s))' = InNet(Everywhere(s)) + One(k, s)
  BY <1>0, <1>1, <1>3, HostSendCounts
<1>5. \A S : InNet(S) \in Nat
  BY NetworkCounts
<1>6. /\ InNet(Everywhere(AllGrants))' = InNet(Everywhere(AllGrants))
      /\ InNet(Everywhere(Controls))' = InNet(Everywhere(Controls))
      /\ \A x \in Flow : InNet(Everywhere(GrantsOf(x)))' = InNet(Everywhere(GrantsOf(x)))
  <2>1. /\ One(k, AllGrants) = 0 /\ One(k, Controls) = 0
        /\ \A x \in Flow : One(k, GrantsOf(x)) = 0
    BY <1>1, <1>2, KindCounts
  <2>. QED  BY <1>4, <1>5, <2>1
<1>7. Counters'
  BY <1>0, <1>3 DEF Books, Counters
<1>8. FlowLedger'
  <2>1. ASSUME NEW x \in Flow
        PROVE  InNet(Everywhere(GrantsOf(x)))' + avail'[x] + next'[x] <= granted[x]
    <3>1. /\ InNet(Everywhere(GrantsOf(x))) + avail[x] + next[x] <= granted[x]
          /\ avail[x] \in Nat /\ next[x] \in Nat /\ granted[x] \in Nat
      BY <1>0 DEF Books, FlowLedger
    <3>2. CASE x = f
      BY <1>0, <1>3, <1>5, <1>6, <3>1, <3>2
    <3>3. CASE x # f
      BY <1>0, <1>3, <1>5, <1>6, <3>1, <3>3
    <3>. QED  BY <3>2, <3>3
  <2>. QED  BY <1>3, <2>1 DEF Books, FlowLedger
<1>9. GrantLedger' /\ ControlLedger'
  BY <1>3, <1>6 DEF Books, GrantLedger, ControlLedger
<1>. QED  BY <1>7, <1>8, <1>9 DEF Books

\* What hosts send besides grants and scheduled data.
LEMMA ExtraKinds ==
  ASSUME Books, NEW pkt \in extras
  PROVE  /\ pkt \in Packet /\ pkt.kind \in Signal \cup {"UNSCHEDULED"} /\ ~pkt.just
         /\ ~IsGrant(pkt) /\ pkt.flow \in Flow
<1>1. PICK e \in Extras : extras \subseteq e
  BY DEF Books, ControlLedger
<1>2. pkt \in [kind : Signal \cup {"UNSCHEDULED"}, flow : Flow, seq : Seqs, just : {FALSE}]
  BY <1>1, ExtrasAssumption
<1>3. Signal \cup {"UNSCHEDULED"} \subseteq Kind \ {"GRANT", "BOUNCED"}
  BY DEF Kind, Data, Signal
<1>. QED  BY <1>2, <1>3 DEF Packet, IsGrant

LEMMA SendExtraKeepsBooks ==
  ASSUME Typed, Books, NEW pkt \in extras, SendExtra(pkt)
  PROVE  Books'
<1> DEFINE h == IF Dst(pkt) = Snd[pkt.flow] THEN Rcv[pkt.flow] ELSE Snd[pkt.flow]
<1>0. /\ pkt \in Packet /\ ~IsGrant(pkt) /\ h \in Host
  BY ExtraKinds, NetworkAssumption
<1>1. /\ extras' = extras \ {pkt} /\ Send(h, pkt)
      /\ UNCHANGED <<granted, avail, next, grants, accepted>> /\ UNCHANGED queueVars
  BY DEF SendExtra, Elsewhere
<1>. HIDE DEF h
<1>2. \A s : InNet(Everywhere(s))' = InNet(Everywhere(s)) + One(pkt, s)
  BY <1>0, <1>1, HostSendCounts
<1>3. \A S : InNet(S) \in Nat
  BY NetworkCounts
<1>4. /\ InNet(Everywhere(AllGrants))' = InNet(Everywhere(AllGrants))
      /\ \A x \in Flow : InNet(Everywhere(GrantsOf(x)))' = InNet(Everywhere(GrantsOf(x)))
      /\ InNet(Everywhere(Controls))'
           = InNet(Everywhere(Controls)) + (IF IsControl(pkt) THEN 1 ELSE 0)
  <2>1. /\ One(pkt, AllGrants) = 0
        /\ One(pkt, Controls) = IF IsControl(pkt) THEN 1 ELSE 0
        /\ \A x \in Flow : One(pkt, GrantsOf(x)) = 0
    BY <1>0, KindCounts
  <2>. QED  BY <1>2, <1>3, <2>1
<1>5. Counters' /\ FlowLedger' /\ GrantLedger'
  BY <1>1, <1>4 DEF Books, Counters, FlowLedger, GrantLedger
<1>6. ControlLedger'
  <2>1. PICK e \in Extras :
          /\ extras \subseteq e
          /\ InNet(Everywhere(Controls)) + Cardinality(ControlsIn(extras))
               <= SumFunctionOnSet(granted, Flow) + Cardinality(ControlsIn(e))
    BY DEF Books, ControlLedger
  <2>2. /\ IsFiniteSet(ControlsIn(extras)) /\ Cardinality(ControlsIn(extras)) \in Nat
        /\ Cardinality(ControlsIn(e)) \in Nat /\ SumFunctionOnSet(granted, Flow) \in Nat
    BY <2>1, BookTypes DEF Books
  <2>3. Cardinality(ControlsIn(extras'))
          = Cardinality(ControlsIn(extras)) - (IF IsControl(pkt) THEN 1 ELSE 0)
    <3>1. ControlsIn(extras') = ControlsIn(extras) \ {pkt}
      BY <1>1 DEF ControlsIn
    <3>2. pkt \in ControlsIn(extras) <=> IsControl(pkt)
      BY DEF ControlsIn
    <3> DEFINE T == ControlsIn(extras)
    <3>3. Cardinality(T \ {pkt}) = IF pkt \in T THEN Cardinality(T) - 1 ELSE Cardinality(T)
      <4>1. IsFiniteSet(T)
        BY <2>2
      <4>. HIDE DEF T
      <4>. QED  BY <4>1, FS_RemoveElement
    <3>. QED  BY <2>2, <3>1, <3>2, <3>3
  <2>4. InNet(Everywhere(Controls))' + Cardinality(ControlsIn(extras'))
          <= SumFunctionOnSet(granted, Flow) + Cardinality(ControlsIn(e))
    BY <1>3, <1>4, <2>1, <2>2, <2>3
  <2>. QED  BY <1>1, <2>1, <2>4 DEF ControlLedger
<1>. QED  BY <1>5, <1>6 DEF Books

LEMMA HostReceiveKeepsBooks ==
  ASSUME Typed, Typed', Books, NEW h \in Host, HostReceive(h)
  PROVE  Books'
<1> DEFINE k == Head(wire[Downlink(h)])
<1>1. /\ k \in Packet
      /\ \A s : InNet(Everywhere(s))' = InNet(Everywhere(s)) - One(k, s)
  BY HostReceiveCounts
<1>2. k.flow \in Flow /\ <<k.flow, k.seq>> \in Grants
  BY <1>1 DEF Packet, Grants
<1>3. /\ IF k.kind = "GRANT"
         THEN /\ avail' = [avail EXCEPT ![k.flow] = @ + 1]
              /\ accepted' = [accepted EXCEPT ![<<k.flow, k.seq>>] = @ + 1]
         ELSE UNCHANGED <<avail, accepted>>
      /\ granted' = IF k.kind = "BOUNCED" THEN [granted EXCEPT ![k.flow] = @ - 1] ELSE granted
      /\ UNCHANGED <<next, extras, grants>>
  BY DEF HostReceive
<1>. HIDE DEF k
<1>4. \A S : InNet(S) \in Nat /\ InNet(S)' \in Nat
  BY NetworkCounts, CountsLater
<1>5. /\ granted \in [Flow -> Nat] /\ avail \in [Flow -> Nat] /\ next \in [Flow -> Nat]
      /\ accepted \in [Grants -> Nat]
      /\ \A f \in Flow : InNet(Everywhere(GrantsOf(f))) + avail[f] + next[f] <= granted[f]
      /\ \A f \in Flow : granted[f] <= Chunks[f] /\ Chunks[f] \in Nat
  BY NetworkAssumption DEF Books, Counters, FlowLedger
<1>6. /\ SumFunctionOnSet(accepted, Grants) \in Nat
      /\ SumFunctionOnSet(granted, Flow) \in Nat
  BY BookTypes DEF Books
<1>7. /\ One(k, AllGrants) = IF IsGrant(k) THEN 1 ELSE 0
      /\ One(k, Controls) = IF IsControl(k) THEN 1 ELSE 0
      /\ \A f \in Flow : One(k, GrantsOf(f)) = IF IsGrant(k) /\ k.flow = f THEN 1 ELSE 0
      /\ IsGrant(k) => IsControl(k)
  BY <1>1, KindCounts
<1>8. CASE k.kind \notin {"GRANT", "BOUNCED"}
  <2>1. UNCHANGED <<hostVars, accepted>>
    BY <1>3, <1>8 DEF hostVars
  <2>2. \A s : InNet(Everywhere(s))' <= InNet(Everywhere(s))
    <3>1. \A s : One(k, s) \in {0, 1}
      BY DEF One
    <3>. QED  BY <1>1, <1>4, <3>1
  <2>. QED  BY <2>1, <2>2, FewerPackets
<1>9. ASSUME k.kind \in {"GRANT", "BOUNCED"},
             granted' \in [Flow -> Nat], avail' \in [Flow -> Nat], accepted' \in [Grants -> Nat],
             \A f \in Flow : /\ avail'[f] - granted'[f]
                                  = avail[f] - granted[f] + (IF f = k.flow THEN 1 ELSE 0)
                             /\ granted'[f] <= granted[f],
             SumFunctionOnSet(accepted', Grants) - SumFunctionOnSet(granted', Flow)
               = SumFunctionOnSet(accepted, Grants) - SumFunctionOnSet(granted, Flow) + 1,
             SumFunctionOnSet(granted', Flow) \in Nat,
             SumFunctionOnSet(granted', Flow) >= SumFunctionOnSet(granted, Flow) - 1
      PROVE  Books'
  <2>1. Counters'
    BY <1>3, <1>9 DEF Books, Counters
  <2>2. IsGrant(k)
    BY <1>9 DEF IsGrant
  <2>3. FlowLedger'
    <3>1. ASSUME NEW f \in Flow
          PROVE  /\ InNet(Everywhere(GrantsOf(f)))' + avail'[f] + next[f] <= granted'[f]
                 /\ granted'[f] <= Chunks[f]
      <4>1. InNet(Everywhere(GrantsOf(f)))'
              = InNet(Everywhere(GrantsOf(f))) - (IF k.flow = f THEN 1 ELSE 0)
        BY <1>1, <1>7, <2>2
      <4>2. /\ avail[f] \in Nat /\ granted[f] \in Nat /\ next[f] \in Nat
            /\ avail'[f] \in Nat /\ granted'[f] \in Nat
            /\ InNet(Everywhere(GrantsOf(f))) \in Nat
        BY <1>4, <1>5, <1>9
      <4>3. /\ avail'[f] - granted'[f] = avail[f] - granted[f] + (IF f = k.flow THEN 1 ELSE 0)
            /\ granted'[f] <= granted[f]
        BY <1>9
      <4>4. /\ InNet(Everywhere(GrantsOf(f))) + avail[f] + next[f] <= granted[f]
            /\ granted[f] <= Chunks[f] /\ Chunks[f] \in Nat
        BY <1>5
      <4>. QED  BY <4>1, <4>2, <4>3, <4>4
    <3>. QED  BY <1>3, <3>1 DEF FlowLedger
  <2>4. GrantLedger'
    <3>1. InNet(Everywhere(AllGrants))' = InNet(Everywhere(AllGrants)) - 1
      BY <1>1, <1>7, <2>2
    <3>2. InNet(Everywhere(AllGrants))' + SumFunctionOnSet(accepted', Grants)
            <= SumFunctionOnSet(granted', Flow)
      <4>1. SumFunctionOnSet(accepted', Grants) \in Nat
        BY <2>1, Finite, SumNat DEF Counters
      <4>. QED  BY <1>4, <1>6, <1>9, <3>1, <4>1 DEF Books, GrantLedger
    <3>. QED  BY <3>2 DEF GrantLedger
  <2>5. ControlLedger'
    <3>1. InNet(Everywhere(Controls))' = InNet(Everywhere(Controls)) - 1
      BY <1>1, <1>7, <2>2
    <3>2. PICK e \in Extras :
            /\ extras \subseteq e
            /\ InNet(Everywhere(Controls)) + Cardinality(ControlsIn(extras))
                 <= SumFunctionOnSet(granted, Flow) + Cardinality(ControlsIn(e))
      BY DEF Books, ControlLedger
    <3>3. Cardinality(ControlsIn(extras)) \in Nat /\ Cardinality(ControlsIn(e)) \in Nat
      BY <3>2, BookTypes DEF Books
    <3>4. InNet(Everywhere(Controls))' + Cardinality(ControlsIn(extras))
            <= SumFunctionOnSet(granted', Flow) + Cardinality(ControlsIn(e))
      BY <1>4, <1>6, <1>9, <3>1, <3>2, <3>3
    <3>. QED  BY <1>3, <3>2, <3>4 DEF ControlLedger
  <2>. QED  BY <2>1, <2>3, <2>4, <2>5 DEF Books
<1>10. CASE k.kind = "GRANT"
  <2>1. /\ avail' = [avail EXCEPT ![k.flow] = @ + 1] /\ granted' = granted
        /\ accepted' = [accepted EXCEPT ![<<k.flow, k.seq>>] = @ + 1]
    BY <1>3, <1>10
  <2>2. /\ avail' \in [Flow -> Nat] /\ accepted' \in [Grants -> Nat]
        /\ \A f \in Flow : avail'[f] = avail[f] + (IF f = k.flow THEN 1 ELSE 0)
    BY <1>2, <1>5, <2>1
  <2>3. SumFunctionOnSet(accepted', Grants) = SumFunctionOnSet(accepted, Grants) + 1
    <3> DEFINE g == <<k.flow, k.seq>>
    <3>1. /\ g \in Grants /\ \A x \in Grants : accepted[x] \in Int /\ accepted'[x] \in Int
          /\ \A x \in Grants \ {g} : accepted'[x] = accepted[x]
          /\ accepted'[g] = accepted[g] + 1
      BY <1>2, <1>5, <2>1, <2>2
    <3>. HIDE DEF g
    <3>2. SumFunctionOnSet(accepted', Grants)
            = SumFunctionOnSet(accepted, Grants) + accepted'[g] - accepted[g]
      BY <3>1, Finite, SumUpdate
    <3>. QED  BY <1>6, <3>1, <3>2
  <2>4. \A f \in Flow : /\ avail'[f] - granted'[f]
                             = avail[f] - granted[f] + (IF f = k.flow THEN 1 ELSE 0)
                        /\ granted'[f] <= granted[f]
    BY <1>5, <2>1, <2>2
  <2>5. granted' \in [Flow -> Nat] /\ SumFunctionOnSet(granted', Flow) = SumFunctionOnSet(granted, Flow)
    BY <1>5, <2>1
  <2>6. SumFunctionOnSet(accepted', Grants) - SumFunctionOnSet(granted', Flow)
          = SumFunctionOnSet(accepted, Grants) - SumFunctionOnSet(granted, Flow) + 1
    BY <1>6, <2>3, <2>5
  <2>7. /\ SumFunctionOnSet(granted', Flow) \in Nat
        /\ SumFunctionOnSet(granted', Flow) >= SumFunctionOnSet(granted, Flow) - 1
    BY <1>6, <2>5
  <2>. QED  BY <1>9, <1>10, <2>2, <2>4, <2>5, <2>6, <2>7
<1>11. CASE k.kind = "BOUNCED"
  <2>1. avail' = avail /\ accepted' = accepted /\ granted' = [granted EXCEPT ![k.flow] = @ - 1]
    BY <1>3, <1>11
  <2>2. granted[k.flow] > 0
    <3>1. One(k, GrantsOf(k.flow)) = 1
      BY <1>2, <1>7, <1>11 DEF IsGrant
    <3>2. InNet(Everywhere(GrantsOf(k.flow))) > 0
      BY <1>1, <1>4, <3>1
    <3>3. InNet(Everywhere(GrantsOf(k.flow))) \in Nat
      BY <1>4
    <3>. QED  BY <1>2, <1>5, <3>2, <3>3
  <2>3. /\ granted' \in [Flow -> Nat] /\ granted'[k.flow] = granted[k.flow] - 1
        /\ \A f \in Flow \ {k.flow} : granted'[f] = granted[f]
    BY <1>2, <1>5, <2>1, <2>2
  <2>4. SumFunctionOnSet(granted', Flow) = SumFunctionOnSet(granted, Flow) - 1
    <3>1. SumFunctionOnSet(granted', Flow)
            = SumFunctionOnSet(granted, Flow) + granted'[k.flow] - granted[k.flow]
      BY <1>2, <1>5, <2>3, GrantedSum
    <3>. QED  BY <1>2, <1>5, <1>6, <2>3, <3>1
  <2>5. SumFunctionOnSet(granted', Flow) \in Nat
    BY <2>3, Finite, SumNat
  <2>6. \A f \in Flow : /\ avail'[f] - granted'[f]
                             = avail[f] - granted[f] + (IF f = k.flow THEN 1 ELSE 0)
                        /\ granted'[f] <= granted[f]
    BY <1>5, <2>1, <2>3
  <2>. QED  BY <1>5, <1>6, <1>9, <1>11, <2>1, <2>3, <2>4, <2>5, <2>6
<1>. QED  BY <1>8, <1>10, <1>11

LEMMA InitEmpty == Init => \A S : InNet(S) = 0
<1> SUFFICES ASSUME Init PROVE \A S : InNet(S) = 0
  OBVIOUS
<1>0. Typed
  BY InitKeeps DEF IInv
<1>1. ASSUME NEW I, IsFiniteSet(I), NEW f \in [I -> Seq(Packet)], f = [i \in I |-> <<>>],
             NEW S
      PROVE  TotalAt(S, f, I) = 0
  <2>1. \A i \in I : \A k \in 1 .. Len(f[i]) : f[i][k] \notin S[i]
    BY <1>1
  <2>. QED  BY <1>1, <2>1, TotalAtZero
<1>2. /\ wire \in [Link -> Seq(Packet)] /\ wire = [l \in Link |-> <<>>]
      /\ ctl \in [Port -> Seq(Packet)] /\ ctl = [p \in Port |-> <<>>]
      /\ dat \in [Port -> Seq(Packet)] /\ dat = [p \in Port |-> <<>>]
  BY <1>0 DEF Typed, Init
<1>3. ASSUME NEW S PROVE InNet(S) = 0
  <2>1. TotalAt(S.wire, wire, Link) = 0
    BY <1>1, <1>2, Finite
  <2>2. TotalAt(S.ctl, ctl, Port) = 0
    BY <1>1, <1>2, Finite
  <2>3. TotalAt(S.dat, dat, Port) = 0
    BY <1>1, <1>2, Finite
  <2>. QED  BY <2>1, <2>2, <2>3 DEF InNet
<1>. QED  BY <1>3

LEMMA InitBooks == Init => Books
<1> SUFFICES ASSUME Init PROVE Books
  OBVIOUS
<1>1. Typed
  BY InitKeeps DEF IInv
<1>2. \A S : InNet(S) = 0
  BY InitEmpty
<1>3. Counters
  BY DEF Init, Counters
<1>4. FlowLedger
  BY <1>2, NetworkAssumption DEF Init, FlowLedger
<1>5. /\ SumFunctionOnSet(accepted, Grants) = 0
      /\ SumFunctionOnSet(granted, Flow) = 0
  BY Finite, SumZero DEF Init
<1>6. GrantLedger
  BY <1>2, <1>5 DEF GrantLedger
<1>7. ControlLedger
  <2>1. extras \in Extras /\ extras \subseteq extras
    BY DEF Init
  <2>2. Cardinality(ControlsIn(extras)) \in Nat
    BY <1>3, <2>1, BookTypes
  <2>. QED  BY <1>2, <1>5, <2>1, <2>2 DEF ControlLedger
<1>. QED  BY <1>3, <1>4, <1>6, <1>7 DEF Books

LEMMA NextBooks == IInv /\ Books /\ [Next]_vars => Books'
<1> SUFFICES ASSUME IInv, Books, [Next]_vars PROVE Books'
  OBVIOUS
<1>1. Typed /\ Typed'
  BY NextKeeps DEF IInv
<1>2. ASSUME NEW p \in Port,
             \/ SwitchReceiveFromDevice(p[1], p[2])
             \/ TransmitCredit(p) \/ TransmitData(p)
      PROVE  Books'
  BY <1>1, <1>2, SwitchAddsNothing, FewerPackets
<1>3. CASE UNCHANGED vars
  <2>1. UNCHANGED <<hostVars, accepted>> /\ wire' = wire /\ ctl' = ctl /\ dat' = dat
    BY <1>3 DEF vars, queueVars
  <2>2. \A s : InNet(Everywhere(s))' = InNet(Everywhere(s))
    BY <2>1 DEF InNet
  <2>3. \A s : InNet(Everywhere(s)) \in Nat
    BY <1>1, NetworkCounts
  <2>4. \A s : InNet(Everywhere(s))' <= InNet(Everywhere(s))
    BY <2>2, <2>3
  <2>. QED  BY <1>1, <2>1, <2>4, FewerPackets
<1>. QED  BY <1>1, <1>2, <1>3, SendGrantKeepsBooks, SendDataKeepsBooks,
             SendExtraKeepsBooks, HostReceiveKeepsBooks DEF Next

(***************************************************************************)
(* The MMU knows what its queues hold.                                      *)
(***************************************************************************)

Sized ==
  /\ creditQueueBytes = [p \in Port |-> ControlBytes * Len(ctl[p])]
  /\ dataQueueBytes = [p \in Port |-> DataBytes * Len(dat[p])]
  /\ \A p \in Port : \A q \in In(ctl[p]) : IsControl(q)
  /\ \A p \in Port : \A q \in In(dat[p]) : ~IsControl(q)

LEMMA OneMore ==
  ASSUME NEW c \in Nat, NEW X, NEW q \in Seq(X), NEW e \in X
  PROVE  c * Len(Append(q, e)) = c * Len(q) + c
<1>1. Len(Append(q, e)) = Len(q) + 1 /\ Len(q) \in Nat
  OBVIOUS
<1>2. \A n \in Nat : c * (n + 1) = c * n + c
  OBVIOUS
<1>. QED  BY <1>1, <1>2

LEMMA OneLess ==
  ASSUME NEW c \in Nat, NEW X, NEW q \in Seq(X), q # <<>>
  PROVE  c * Len(Tail(q)) = Monus(c * Len(q), c)
<1>1. PICK n \in Nat : Len(q) = n + 1 /\ Len(Tail(q)) = n
  <2>1. Len(q) \in Nat \ {0} /\ Len(Tail(q)) = Len(q) - 1
    OBVIOUS
  <2>2. Len(q) - 1 \in Nat /\ Len(q) = (Len(q) - 1) + 1
    BY <2>1
  <2>. QED  BY <2>1, <2>2
<1>2. c * (n + 1) = c * n + c /\ c * n \in Nat
  OBVIOUS
<1>3. Monus(c * n + c, c) = c * n
  BY <1>2 DEF Monus
<1>. QED  BY <1>1, <1>2, <1>3

LEMMA EnqueueSized ==
  ASSUME Typed, Sized, NEW p \in Port, NEW k \in Packet, Enqueue(p, k)
  PROVE  Sized'
<1>0. /\ ctl \in [Port -> Seq(Packet)] /\ dat \in [Port -> Seq(Packet)]
      /\ ControlBytes \in Nat /\ DataBytes \in Nat
  BY SizeAssumption DEF Typed
<1>1. CASE /\ IsControl(k)
           /\ creditQueueBytes' = [creditQueueBytes EXCEPT ![p] = @ + ControlBytes]
           /\ ctl' = [ctl EXCEPT ![p] = Append(@, k)]
           /\ UNCHANGED <<dataQueueBytes, dat>>
  <2>1. ASSUME NEW x \in Port
        PROVE  creditQueueBytes'[x] = ControlBytes * Len(ctl'[x])
    <3>1. ControlBytes * Len(Append(ctl[p], k)) = ControlBytes * Len(ctl[p]) + ControlBytes
      BY <1>0, OneMore
    <3>. QED  BY <1>0, <1>1, <3>1 DEF Sized
  <2>2. creditQueueBytes' = [x \in Port |-> ControlBytes * Len(ctl'[x])]
    <3>1. creditQueueBytes' = [x \in Port |-> creditQueueBytes'[x]]
      BY <1>1 DEF Sized
    <3>. QED  BY <2>1, <3>1
  <2>3. ASSUME NEW x \in Port, NEW q \in In(ctl'[x])
        PROVE  IsControl(q)
    <3>1. q \in In([ctl EXCEPT ![p] = Append(@, k)][x])
      BY <1>1
    <3>2. q \in In(ctl[x]) \/ (x = p /\ q = k)
      BY <1>0, <3>1, EnqueueElements
    <3>. QED  BY <1>1, <3>2 DEF Sized
  <2>. QED  BY <1>1, <2>2, <2>3 DEF Sized
<1>2. CASE /\ ~IsControl(k)
           /\ dataQueueBytes' = [dataQueueBytes EXCEPT ![p] = @ + DataBytes]
           /\ dat' = [dat EXCEPT ![p] = Append(@, k)]
           /\ UNCHANGED <<creditQueueBytes, ctl>>
  <2>1. ASSUME NEW x \in Port
        PROVE  dataQueueBytes'[x] = DataBytes * Len(dat'[x])
    <3>1. DataBytes * Len(Append(dat[p], k)) = DataBytes * Len(dat[p]) + DataBytes
      BY <1>0, OneMore
    <3>. QED  BY <1>0, <1>2, <3>1 DEF Sized
  <2>2. dataQueueBytes' = [x \in Port |-> DataBytes * Len(dat'[x])]
    <3>1. dataQueueBytes' = [x \in Port |-> dataQueueBytes'[x]]
      BY <1>2 DEF Sized
    <3>. QED  BY <2>1, <3>1
  <2>3. ASSUME NEW x \in Port, NEW q \in In(dat'[x])
        PROVE  ~IsControl(q)
    <3>1. q \in In([dat EXCEPT ![p] = Append(@, k)][x])
      BY <1>2
    <3>2. q \in In(dat[x]) \/ (x = p /\ q = k)
      BY <1>0, <3>1, EnqueueElements
    <3>. QED  BY <1>2, <3>2 DEF Sized
  <2>. QED  BY <1>2, <2>2, <2>3 DEF Sized
<1>3. CASE UNCHANGED <<creditQueueBytes, dataQueueBytes, ctl, dat>>
  BY <1>3 DEF Sized
<1>. QED  BY <1>1, <1>2, <1>3 DEF Enqueue, mmuVars, queueVars

LEMMA TransmitSized ==
  ASSUME Typed, Sized, NEW p \in Port, TransmitCredit(p) \/ TransmitData(p)
  PROVE  Sized'
<1>0. /\ ctl \in [Port -> Seq(Packet)] /\ dat \in [Port -> Seq(Packet)]
      /\ ControlBytes \in Nat /\ DataBytes \in Nat
  BY SizeAssumption DEF Typed
<1>1. CASE TransmitCredit(p)
  <2>1. /\ ctl[p] # <<>> /\ ctl' = [ctl EXCEPT ![p] = Tail(@)]
        /\ creditQueueBytes' = [creditQueueBytes EXCEPT ![p] = Monus(@, ControlBytes)]
        /\ UNCHANGED <<dat, dataQueueBytes>>
    BY <1>1 DEF TransmitCredit
  <2>2. ASSUME NEW x \in Port
        PROVE  creditQueueBytes'[x] = ControlBytes * Len(ctl'[x])
    <3>1. ControlBytes * Len(Tail(ctl[p])) = Monus(ControlBytes * Len(ctl[p]), ControlBytes)
      BY <1>0, <2>1, OneLess
    <3>. QED  BY <1>0, <2>1, <3>1 DEF Sized
  <2>3. creditQueueBytes' = [x \in Port |-> ControlBytes * Len(ctl'[x])]
    <3>1. creditQueueBytes' = [x \in Port |-> creditQueueBytes'[x]]
      BY <2>1 DEF Sized
    <3>. QED  BY <2>2, <3>1
  <2>4. \A x \in Port : In(ctl'[x]) \subseteq In(ctl[x])
    BY <1>0, <2>1, DequeueElements
  <2>. QED  BY <2>1, <2>3, <2>4 DEF Sized
<1>2. CASE TransmitData(p)
  <2>1. /\ dat[p] # <<>> /\ dat' = [dat EXCEPT ![p] = Tail(@)]
        /\ dataQueueBytes' = [dataQueueBytes EXCEPT ![p] = Monus(@, DataBytes)]
        /\ UNCHANGED <<ctl, creditQueueBytes>>
    BY <1>2 DEF TransmitData
  <2>2. ASSUME NEW x \in Port
        PROVE  dataQueueBytes'[x] = DataBytes * Len(dat'[x])
    <3>1. DataBytes * Len(Tail(dat[p])) = Monus(DataBytes * Len(dat[p]), DataBytes)
      BY <1>0, <2>1, OneLess
    <3>. QED  BY <1>0, <2>1, <3>1 DEF Sized
  <2>3. dataQueueBytes' = [x \in Port |-> DataBytes * Len(dat'[x])]
    <3>1. dataQueueBytes' = [x \in Port |-> dataQueueBytes'[x]]
      BY <2>1 DEF Sized
    <3>. QED  BY <2>2, <3>1
  <2>4. \A x \in Port : In(dat'[x]) \subseteq In(dat[x])
    BY <1>0, <2>1, DequeueElements
  <2>. QED  BY <2>1, <2>3, <2>4 DEF Sized
<1>. QED  BY <1>1, <1>2

LEMMA InitSized == Init => Sized
<1> SUFFICES ASSUME Init PROVE Sized
  OBVIOUS
<1>1. /\ \A p \in Port : In(ctl[p]) = {} /\ In(dat[p]) = {}
      /\ \A p \in Port : Len(ctl[p]) = 0 /\ Len(dat[p]) = 0
  BY DEF Init, In
<1>2. ControlBytes * 0 = 0 /\ DataBytes * 0 = 0
  BY SizeAssumption
<1>. QED  BY <1>1, <1>2 DEF Init, Sized

LEMMA NextSized == IInv /\ Sized /\ [Next]_vars => Sized'
<1> SUFFICES ASSUME IInv, Sized, [Next]_vars PROVE Sized'
  OBVIOUS
<1>1. Typed
  BY DEF IInv
<1>2. ASSUME NEW p \in Port, SwitchReceiveFromDevice(p[1], p[2]) PROVE Sized'
  BY <1>1, <1>2, SwitchMoves, EnqueueSized
<1>3. ASSUME UNCHANGED <<creditQueueBytes, dataQueueBytes, ctl, dat>> PROVE Sized'
  BY <1>3 DEF Sized
<1>4. CASE \/ \E f \in Flow : SendGrant(f) \/ SendData(f)
           \/ \E pkt \in extras : SendExtra(pkt)
           \/ \E h \in Host : HostReceive(h)
  BY <1>3, <1>4 DEF SendGrant, SendData, SendExtra, HostReceive, Elsewhere, mmuVars, queueVars
<1>5. CASE UNCHANGED vars
  BY <1>3, <1>5 DEF vars, mmuVars, queueVars
<1>. QED  BY <1>1, <1>2, <1>4, <1>5, TransmitSized DEF Next

LEMMA TimesMonotone ==
  ASSUME NEW c \in Nat, NEW m \in Nat, NEW n \in Nat, m <= n
  PROVE  c * m <= c * n
<1>1. n - m \in Nat /\ n = m + (n - m)
  OBVIOUS
<1>2. \A d \in Nat : c * (m + d) = c * m + c * d /\ c * d \in Nat /\ c * m \in Nat
  OBVIOUS
<1>3. c * n = c * m + c * (n - m) /\ c * (n - m) \in Nat /\ c * m \in Nat
  BY <1>1, <1>2
<1>. QED  BY <1>3

\* A control packet on a link finds a place in whatever credit queue it goes
\* to: with it, the queue holds no more than hosts can have under way.
LEMMA RoomForControl ==
  ASSUME CreditPlaces, Typed, Sized, Books, NEW l \in Link, wire[l] # <<>>,
         IsControl(Head(wire[l])), NEW p \in Port
  PROVE  CheckCreditAdmission(p)
<1> DEFINE S == Everywhere(Controls)
           total == SumFunctionOnSet(Chunks, Flow)
<1>0. /\ wire \in [Link -> Seq(Packet)] /\ ctl \in [Port -> Seq(Packet)]
      /\ ControlBytes \in Nat /\ CreditLimit \in Nat
  BY SizeAssumption DEF Typed
<1>1. CountIn(Controls, wire[l]) >= 1 /\ CountIn(Controls, wire[l]) \in Nat
  <2>1. wire[l] \in Seq(Packet) /\ Head(wire[l]) \in Controls
    BY <1>0 DEF Controls
  <2>2. 1 \in 1 .. Len(wire[l]) /\ wire[l][1] \in Controls
    BY <2>1
  <2>3. CountIn(Controls, wire[l]) > 0 /\ CountIn(Controls, wire[l]) \in Nat
    BY <2>1, <2>2, PlacesFinite
  <2>. QED  BY <2>3
<1>2. CountIn(Controls, ctl[p]) = Len(ctl[p]) /\ Len(ctl[p]) \in Nat
  <2>1. PlacesOf(Controls, ctl[p]) = 1 .. Len(ctl[p])
    BY <1>0 DEF Sized, In, Controls, PlacesOf
  <2>2. Len(ctl[p]) \in Nat
    BY <1>0
  <2>3. Cardinality(1 .. Len(ctl[p])) = Len(ctl[p])
    BY <2>2, FS_Interval
  <2>. QED  BY <2>1, <2>2, <2>3 DEF CountIn
<1>3. Len(ctl[p]) + 1 <= InNet(S)
  <2>1. S.wire[l] = Controls /\ S.ctl[p] = Controls
    BY DEF Everywhere
  <2>. HIDE DEF S
  <2>2. CountIn(S.wire[l], wire[l]) <= TotalAt(S.wire, wire, Link)
    BY <1>0, Finite, TotalAtNat
  <2>3. CountIn(S.ctl[p], ctl[p]) <= TotalAt(S.ctl, ctl, Port)
    BY <1>0, Finite, TotalAtNat
  <2>4. /\ TotalAt(S.wire, wire, Link) \in Nat /\ TotalAt(S.ctl, ctl, Port) \in Nat
        /\ TotalAt(S.dat, dat, Port) \in Nat
    BY NetworkCounts
  <2>. QED  BY <1>1, <1>2, <2>1, <2>2, <2>3, <2>4 DEF InNet
<1>4. PICK e \in Extras :
        /\ extras \subseteq e
        /\ InNet(S) + Cardinality(ControlsIn(extras))
             <= SumFunctionOnSet(granted, Flow) + Cardinality(ControlsIn(e))
  BY DEF Books, ControlLedger
<1>5. /\ Cardinality(ControlsIn(extras)) \in Nat /\ Cardinality(ControlsIn(e)) \in Nat
      /\ SumFunctionOnSet(granted, Flow) \in Nat
  BY <1>4, BookTypes DEF Books
<1>6. SumFunctionOnSet(granted, Flow) <= total /\ total \in Nat
  <2>1. \A f \in Flow : granted[f] \in Nat /\ Chunks[f] \in Nat /\ granted[f] <= Chunks[f]
    BY NetworkAssumption DEF Books, Counters, FlowLedger
  <2>2. total \in Nat
    BY <2>1, Finite, SumNat
  <2>3. SumFunctionOnSet(granted, Flow) <= SumFunctionOnSet(Chunks, Flow)
    BY <2>1, Finite, SumMonotone
  <2>. QED  BY <2>2, <2>3
<1>7. InNet(S) \in Nat
  BY NetworkCounts
<1> DEFINE most == total + Cardinality(ControlsIn(e))
<1>8. most \in Nat /\ Len(ctl[p]) + 1 <= most
  <2>. HIDE DEF S, total
  <2>. QED  BY <1>2, <1>3, <1>4, <1>5, <1>6, <1>7
<1>9. ControlBytes * most <= CreditLimit
  BY <1>4 DEF CreditPlaces, ControlsIn
<1>. HIDE DEF most, total, S
<1>10. ControlBytes * (Len(ctl[p]) + 1) <= ControlBytes * most
  <2> DEFINE places == Len(ctl[p]) + 1
  <2>1. places \in Nat /\ places <= most /\ most \in Nat /\ ControlBytes \in Nat
    BY <1>0, <1>2, <1>8
  <2>. HIDE DEF places
  <2>2. ControlBytes * places <= ControlBytes * most
    BY <2>1, TimesMonotone
  <2>. QED  BY <2>2 DEF places
<1>11. ControlBytes * (Len(ctl[p]) + 1) = ControlBytes * Len(ctl[p]) + ControlBytes
  BY <1>0, <1>2
<1>12. ControlBytes * Len(ctl[p]) + ControlBytes <= CreditLimit
  <2>1. /\ ControlBytes * (Len(ctl[p]) + 1) \in Nat /\ ControlBytes * most \in Nat
        /\ ControlBytes * Len(ctl[p]) \in Nat
    BY <1>0, <1>2, <1>8
  <2>. QED  BY <1>0, <1>9, <1>10, <1>11, <2>1
<1>. QED  BY <1>12 DEF CheckCreditAdmission, Sized

(***************************************************************************)
(* Hosts see a CreditNetwork.                                               *)
(***************************************************************************)

NetPacket == [kind : Kind, flow : Flow, seq : Seqs]
AsSent(q) == [kind |-> q.kind, flow |-> q.flow, seq |-> q.seq]

LEMMA AsSentFacts ==
  ASSUME NEW q \in Packet
  PROVE  /\ AsSent(q) \in NetPacket
         /\ \A x \in NetPacket : q \in Alike(x) <=> x = AsSent(q)
<1>1. AsSent(q) \in NetPacket
  BY DEF AsSent, Packet, NetPacket
<1>2. ASSUME NEW x \in NetPacket
      PROVE  q \in Alike(x) <=> x = AsSent(q)
  <2>1. /\ x = [kind |-> x.kind, flow |-> x.flow, seq |-> x.seq]
        /\ q = [kind |-> q.kind, flow |-> q.flow, seq |-> q.seq, just |-> q.just]
        /\ q.just \in BOOLEAN
    BY DEF Packet, NetPacket
  <2>2. q \in Alike(x) <=> q.kind = x.kind /\ q.flow = x.flow /\ q.seq = x.seq
    BY <2>1 DEF Alike
  <2>. QED  BY <2>1, <2>2 DEF AsSent
<1>. QED  BY <1>1, <1>2

\* The copies the refinement mapping counts.
LEMMA CopiesCount ==
  ASSUME NEW I, NEW f \in [I -> Seq(Packet)], NEW x, NEW S,
         \A i \in I : S[i] = Alike(x)
  PROVE  Copies(f, x) = TotalAt(S, f, I)
<1>1. \A i \in I : {j \in 1 .. Len(f[i]) : f[i][j] \in Alike(x)} = PlacesOf(S[i], f[i])
  BY DEF PlacesOf
<1>2. [i \in I |-> Cardinality({j \in 1 .. Len(f[i]) : f[i][j] \in Alike(x)})]
        = [i \in I |-> CountIn(S[i], f[i])]
  BY <1>1 DEF CountIn
<1>3. DOMAIN f = I
  OBVIOUS
<1>. QED  BY <1>2, <1>3 DEF Copies, TotalAt

LEMMA UnderwayCounts ==
  ASSUME Typed
  PROVE  /\ Underway \in [NetPacket -> Nat]
         /\ \A x \in NetPacket : Underway[x] = InNet(Everywhere(Alike(x)))
<1>1. /\ wire \in [Link -> Seq(Packet)] /\ ctl \in [Port -> Seq(Packet)]
      /\ dat \in [Port -> Seq(Packet)]
  BY DEF Typed
<1>2. ASSUME NEW x \in NetPacket
      PROVE  /\ Underway[x] = InNet(Everywhere(Alike(x)))
             /\ InNet(Everywhere(Alike(x))) \in Nat
  <2> DEFINE S == Everywhere(Alike(x))
  <2>1. /\ S.wire = [l \in Link |-> Alike(x)] /\ S.ctl = [p \in Port |-> Alike(x)]
        /\ S.dat = [p \in Port |-> Alike(x)]
    BY DEF Everywhere
  <2>. HIDE DEF S
  <2>2. /\ Copies(wire, x) = TotalAt(S.wire, wire, Link)
        /\ Copies(ctl, x) = TotalAt(S.ctl, ctl, Port)
        /\ Copies(dat, x) = TotalAt(S.dat, dat, Port)
    <3>1. Copies(wire, x) = TotalAt(S.wire, wire, Link)
      <4>1. wire \in [Link -> Seq(Packet)] /\ \A i \in Link : S.wire[i] = Alike(x)
        BY <1>1, <2>1
      <4>. QED  BY ONLY <4>1, CopiesCount
    <3>2. Copies(ctl, x) = TotalAt(S.ctl, ctl, Port)
      <4>1. ctl \in [Port -> Seq(Packet)] /\ \A i \in Port : S.ctl[i] = Alike(x)
        BY <1>1, <2>1
      <4>. QED  BY ONLY <4>1, CopiesCount
    <3>3. Copies(dat, x) = TotalAt(S.dat, dat, Port)
      <4>1. dat \in [Port -> Seq(Packet)] /\ \A i \in Port : S.dat[i] = Alike(x)
        BY <1>1, <2>1
      <4>. QED  BY ONLY <4>1, CopiesCount
    <3>. QED  BY <3>1, <3>2, <3>3
  <2>3. /\ TotalAt(S.wire, wire, Link) \in Nat /\ TotalAt(S.ctl, ctl, Port) \in Nat
        /\ TotalAt(S.dat, dat, Port) \in Nat
    BY NetworkCounts
  <2>4. Underway[x] = Copies(wire, x) + Copies(ctl, x) + Copies(dat, x)
    BY DEF Underway, NetPacket
  <2>5. Underway[x] = InNet(S) /\ InNet(S) \in Nat
    BY <2>2, <2>3, <2>4 DEF InNet
  <2>. QED  BY <2>5 DEF S
<1>3. Underway = [x \in NetPacket |-> Underway[x]]
  BY DEF Underway, NetPacket
<1>. QED  BY <1>2, <1>3

LEMMA UnderwayLater ==
  ASSUME Typed'
  PROVE  /\ Underway' \in [NetPacket -> Nat]
         /\ \A x \in NetPacket : Underway'[x] = InNet(Everywhere(Alike(x)))'
<1>1. /\ wire' \in [Link -> Seq(Packet)] /\ ctl' \in [Port -> Seq(Packet)]
      /\ dat' \in [Port -> Seq(Packet)]
  BY DEF Typed
<1>2. ASSUME NEW x \in NetPacket
      PROVE  /\ Underway'[x] = InNet(Everywhere(Alike(x)))'
             /\ InNet(Everywhere(Alike(x)))' \in Nat
  <2> DEFINE S == Everywhere(Alike(x))
  <2>1. /\ S.wire = [l \in Link |-> Alike(x)] /\ S.ctl = [p \in Port |-> Alike(x)]
        /\ S.dat = [p \in Port |-> Alike(x)]
    BY DEF Everywhere
  <2>. HIDE DEF S
  <2>2. /\ Copies(wire', x) = TotalAt(S.wire, wire', Link)
        /\ Copies(ctl', x) = TotalAt(S.ctl, ctl', Port)
        /\ Copies(dat', x) = TotalAt(S.dat, dat', Port)
    <3>1. Copies(wire', x) = TotalAt(S.wire, wire', Link)
      <4>1. wire' \in [Link -> Seq(Packet)] /\ \A i \in Link : S.wire[i] = Alike(x)
        BY <1>1, <2>1
      <4>. QED  BY ONLY <4>1, CopiesCount
    <3>2. Copies(ctl', x) = TotalAt(S.ctl, ctl', Port)
      <4>1. ctl' \in [Port -> Seq(Packet)] /\ \A i \in Port : S.ctl[i] = Alike(x)
        BY <1>1, <2>1
      <4>. QED  BY ONLY <4>1, CopiesCount
    <3>3. Copies(dat', x) = TotalAt(S.dat, dat', Port)
      <4>1. dat' \in [Port -> Seq(Packet)] /\ \A i \in Port : S.dat[i] = Alike(x)
        BY <1>1, <2>1
      <4>. QED  BY ONLY <4>1, CopiesCount
    <3>. QED  BY <3>1, <3>2, <3>3
  <2>3. /\ TotalAt(S.wire, wire', Link) \in Nat /\ TotalAt(S.ctl, ctl', Port) \in Nat
        /\ TotalAt(S.dat, dat', Port) \in Nat
    BY <1>1, Finite, TotalAtNat
  <2>4. Underway'[x] = Copies(wire', x) + Copies(ctl', x) + Copies(dat', x)
    BY DEF Underway, NetPacket
  <2>5. Underway'[x] = InNet(S)' /\ InNet(S)' \in Nat
    <3>1. InNet(S)' = TotalAt(S.wire, wire', Link)
                      + (TotalAt(S.ctl, ctl', Port) + TotalAt(S.dat, dat', Port))
      BY DEF InNet, S
    <3>. QED  BY <2>2, <2>3, <2>4, <3>1
  <2>. QED  BY <2>5 DEF S
<1>3. Underway' = [x \in NetPacket |-> Underway'[x]]
  BY DEF Underway, NetPacket
<1>. QED  BY <1>2, <1>3

LEMMA OneAlike ==
  ASSUME NEW q \in Packet
  PROVE  \A x \in NetPacket : One(q, Alike(x)) = IF x = AsSent(q) THEN 1 ELSE 0
BY AsSentFacts DEF One

\* A step that moves copies of packets is a change of the network.
LEMMA Changes ==
  ASSUME Typed, Typed', NEW gone \in SUBSET NetPacket, NEW new \in SUBSET NetPacket,
         gone \cap new = {},
         \A x \in NetPacket : InNet(Everywhere(Alike(x)))'
                                = InNet(Everywhere(Alike(x)))
                                  - (IF x \in gone THEN 1 ELSE 0) + (IF x \in new THEN 1 ELSE 0)
  PROVE  Abstract!Change(gone, new) /\ \A x \in gone : Underway[x] > 0
<1>1. /\ Underway \in [NetPacket -> Nat] /\ Underway' \in [NetPacket -> Nat]
      /\ \A x \in NetPacket :
           Underway'[x] = Underway[x] - (IF x \in gone THEN 1 ELSE 0)
                                      + (IF x \in new THEN 1 ELSE 0)
  BY UnderwayCounts, UnderwayLater
<1>2. Underway' = [x \in NetPacket |-> Underway[x] - (IF x \in gone THEN 1 ELSE 0)
                                                   + (IF x \in new THEN 1 ELSE 0)]
  BY <1>1
<1>3. ASSUME NEW x \in gone \cup new
      PROVE  Underway'[x] # Underway[x] /\ (x \in gone => Underway[x] > 0)
  BY <1>1
<1>4. Abstract!Packet = NetPacket
  BY DEF Abstract!Packet, Abstract!Kind, NetPacket, Kind, Signal, Data
<1>. QED  BY <1>2, <1>3, <1>4 DEF Abstract!Change

\* A packet that is passed on leaves the network as it was.
LEMMA Stutters ==
  ASSUME Typed, Typed',
         \A x \in NetPacket : InNet(Everywhere(Alike(x)))' = InNet(Everywhere(Alike(x)))
  PROVE  Underway' = Underway
BY UnderwayCounts, UnderwayLater

LEMMA SendIsChange ==
  ASSUME Typed, Typed', NEW h \in Host, NEW k \in Packet, Send(h, k), UNCHANGED queueVars
  PROVE  Abstract!Change({}, {AsSent(k)})
<1>1. \A x \in NetPacket : InNet(Everywhere(Alike(x)))'
        = InNet(Everywhere(Alike(x))) + One(k, Alike(x))
  BY HostSendCounts
<1>2. \A x \in NetPacket : /\ InNet(Everywhere(Alike(x))) \in Nat
                           /\ One(k, Alike(x)) = IF x = AsSent(k) THEN 1 ELSE 0
  BY NetworkCounts, OneAlike
<1>3. AsSent(k) \in NetPacket
  BY AsSentFacts
<1>4. ASSUME NEW x \in NetPacket
      PROVE  InNet(Everywhere(Alike(x)))'
               = InNet(Everywhere(Alike(x))) - (IF x \in {} THEN 1 ELSE 0)
                 + (IF x \in {AsSent(k)} THEN 1 ELSE 0)
  <2>1. /\ InNet(Everywhere(Alike(x)))' = InNet(Everywhere(Alike(x))) + One(k, Alike(x))
        /\ InNet(Everywhere(Alike(x))) \in Nat
        /\ One(k, Alike(x)) = IF x = AsSent(k) THEN 1 ELSE 0
    BY <1>1, <1>2
  <2>. QED  BY <2>1
<1>. QED  BY <1>3, <1>4, Changes

LEMMA ReceiveIsChange ==
  ASSUME Typed, Typed', NEW h \in Host, HostReceive(h)
  PROVE  LET k == AsSent(Head(wire[Downlink(h)]))
         IN /\ k \in NetPacket /\ Underway[k] > 0 /\ Abstract!Change({k}, {})
<1> DEFINE k == Head(wire[Downlink(h)])
<1>1. /\ k \in Packet
      /\ \A x \in NetPacket : InNet(Everywhere(Alike(x)))'
           = InNet(Everywhere(Alike(x))) - One(k, Alike(x))
  BY HostReceiveCounts
<1>. HIDE DEF k
<1>2. \A x \in NetPacket : /\ InNet(Everywhere(Alike(x))) \in Nat
                           /\ One(k, Alike(x)) = IF x = AsSent(k) THEN 1 ELSE 0
  BY <1>1, NetworkCounts, OneAlike
<1>3. AsSent(k) \in NetPacket
  BY <1>1, AsSentFacts
<1>4. ASSUME NEW x \in NetPacket
      PROVE  InNet(Everywhere(Alike(x)))'
               = InNet(Everywhere(Alike(x))) - (IF x \in {AsSent(k)} THEN 1 ELSE 0)
                 + (IF x \in {} THEN 1 ELSE 0)
  <2>1. /\ InNet(Everywhere(Alike(x)))' = InNet(Everywhere(Alike(x))) - One(k, Alike(x))
        /\ InNet(Everywhere(Alike(x))) \in Nat
        /\ One(k, Alike(x)) = IF x = AsSent(k) THEN 1 ELSE 0
    BY <1>1, <1>2
  <2>. QED  BY <2>1
<1>5. Abstract!Change({AsSent(k)}, {}) /\ Underway[AsSent(k)] > 0
  BY <1>3, <1>4, Changes
<1>. QED  BY <1>3, <1>5 DEF k

LEMMA TransmitStutters ==
  ASSUME Typed, Typed', NEW p \in Port, TransmitCredit(p) \/ TransmitData(p)
  PROVE  Underway' = Underway
<1>1. PICK q \in Packet :
        /\ Leaving(p, q) /\ Joins(wire, wire', p, Untagged(q))
        /\ UpdateCBPortState(p, q) /\ UNCHANGED <<hostVars, accepted>>
  BY TransmitMoves
<1>2. AsSent(Untagged(q)) = AsSent(q) /\ Untagged(q) \in Packet
  BY UntaggedFacts DEF AsSent
<1>3. ASSUME NEW x \in NetPacket
      PROVE  InNet(Everywhere(Alike(x)))' = InNet(Everywhere(Alike(x)))
  <2> DEFINE S == Everywhere(Alike(x))
  <2>1. S.wire[p] = Alike(x) /\ S.ctl[p] = Alike(x) /\ S.dat[p] = Alike(x)
    BY Finite DEF Everywhere
  <2>2. InNet(S) \in Nat
    BY NetworkCounts
  <2>3. One(Untagged(q), Alike(x)) = One(q, Alike(x)) /\ One(q, Alike(x)) \in {0, 1}
    BY <1>2, OneAlike
  <2>. HIDE DEF S
  <2>4. \/ InNet(S)' = InNet(S) - One(q, S.ctl[p]) + One(Untagged(q), S.wire[p])
        \/ InNet(S)' = InNet(S) - One(q, S.dat[p]) + One(Untagged(q), S.wire[p])
    BY <1>1, TransmitCounts
  <2>5. InNet(S)' = InNet(S)
    BY <2>1, <2>2, <2>3, <2>4
  <2>. QED  BY <2>5 DEF S
<1>. QED  BY <1>3, Stutters

\* A switch passes a packet on, turns a grant round or drops data: a control
\* packet is dropped nowhere.
LEMMA SwitchIsChange ==
  ASSUME CreditPlaces, IInv, Typed', Books, Sized,
         NEW p \in Port, SwitchReceiveFromDevice(p[1], p[2])
  PROVE  \/ Underway' = Underway
         \/ \E q \in NetPacket : Underway[q] > 0 /\
              \/ q.kind = "GRANT" /\ Abstract!Change({q}, {Abstract!Pkt("BOUNCED", q.flow, q.seq)})
              \/ q.kind \in Data /\ Abstract!Change({q}, {})
<1>0. Typed
  BY DEF IInv
<1>1. PICK out \in Port, k \in Packet, q \in Packet :
        LET l == <<p[2], p[1]>>
        IN /\ l \in Link /\ wire[l] # <<>> /\ q = Head(wire[l])
           /\ Leaves(wire, wire', l) /\ Passes(p, q, out, k) /\ Enqueue(out, k)
           /\ UNCHANGED <<hostVars, accepted, drained>>
  BY <1>0, SwitchMoves
<1> DEFINE l == <<p[2], p[1]>>
<1>2. /\ l \in Link /\ wire[l] # <<>> /\ q = Head(wire[l])
      /\ Leaves(wire, wire', l) /\ Passes(p, q, out, k) /\ Enqueue(out, k)
  BY <1>1
<1>. HIDE DEF l
<1>3. /\ k.flow = q.flow /\ k.seq = q.seq /\ (IsControl(k) <=> IsControl(q))
      /\ q.kind # "GRANT" => k = q
      /\ q.kind = "GRANT" => k.kind \in {"GRANT", "BOUNCED"}
  BY <1>2, PassesFacts
<1>4. IsControl(q) => CheckCreditAdmission(out)
  BY <1>0, <1>2, RoomForControl
<1>5. AsSent(q) \in NetPacket /\ AsSent(k) \in NetPacket
  BY AsSentFacts
<1>6. \A x \in NetPacket : LET S == Everywhere(Alike(x))
        IN \/ /\ queueVars' # queueVars
              /\ InNet(S)' = InNet(S) - One(q, Alike(x)) + One(k, Alike(x))
           \/ /\ ~IsControl(q) /\ queueVars' = queueVars
              /\ InNet(S)' = InNet(S) - One(q, Alike(x))
  <2> SUFFICES ASSUME NEW x \in NetPacket
               PROVE  LET S == Everywhere(Alike(x))
                      IN \/ /\ queueVars' # queueVars
                            /\ InNet(S)' = InNet(S) - One(q, Alike(x)) + One(k, Alike(x))
                         \/ /\ ~IsControl(q) /\ queueVars' = queueVars
                            /\ InNet(S)' = InNet(S) - One(q, Alike(x))
    OBVIOUS
  <2> DEFINE S == Everywhere(Alike(x))
  <2>1. S.wire[l] = Alike(x) /\ S.ctl[out] = Alike(x) /\ S.dat[out] = Alike(x)
    BY <1>2 DEF Everywhere
  <2>. HIDE DEF S
  <2>2. \/ /\ queueVars' # queueVars
           /\ InNet(S)' = InNet(S) - One(Head(wire[l]), S.wire[l])
                          + One(k, IF IsControl(k) THEN S.ctl[out] ELSE S.dat[out])
        \/ /\ IsControl(k) => ~CheckCreditAdmission(out)
           /\ queueVars' = queueVars
           /\ InNet(S)' = InNet(S) - One(Head(wire[l]), S.wire[l])
    BY <1>0, <1>2, SwitchCounts
  <2>3. \/ /\ queueVars' # queueVars
           /\ InNet(S)' = InNet(S) - One(q, Alike(x)) + One(k, Alike(x))
        \/ /\ ~IsControl(q) /\ queueVars' = queueVars
           /\ InNet(S)' = InNet(S) - One(q, Alike(x))
    BY <1>2, <1>3, <1>4, <2>1, <2>2
  <2>. QED  BY <2>3 DEF S
<1>7. \A x \in NetPacket :
        /\ InNet(Everywhere(Alike(x))) \in Nat
        /\ One(q, Alike(x)) = IF x = AsSent(q) THEN 1 ELSE 0
        /\ One(k, Alike(x)) = IF x = AsSent(k) THEN 1 ELSE 0
  BY <1>0, NetworkCounts, OneAlike
<1>8. CASE queueVars' # queueVars
  <2>1. CASE k.kind = q.kind
    <3>1. AsSent(k) = AsSent(q)
      BY <1>3, <2>1 DEF AsSent
    <3>2. ASSUME NEW x \in NetPacket
          PROVE  InNet(Everywhere(Alike(x)))' = InNet(Everywhere(Alike(x)))
      BY <1>6, <1>7, <1>8, <3>1, <3>2
    <3>. QED  BY <1>0, <3>2, Stutters
  <2>2. CASE k.kind # q.kind
    <3>1. q.kind = "GRANT" /\ k.kind = "BOUNCED"
      BY <1>3, <2>2
    <3>2. AsSent(k) # AsSent(q)
      BY <2>2 DEF AsSent
    <3>3. ASSUME NEW x \in NetPacket
          PROVE  InNet(Everywhere(Alike(x)))'
                   = InNet(Everywhere(Alike(x))) - (IF x \in {AsSent(q)} THEN 1 ELSE 0)
                     + (IF x \in {AsSent(k)} THEN 1 ELSE 0)
      BY <1>6, <1>7, <1>8, <3>3
    <3>4. {AsSent(q)} \cap {AsSent(k)} = {}
      BY <3>2
    <3>5. Abstract!Change({AsSent(q)}, {AsSent(k)}) /\ Underway[AsSent(q)] > 0
      BY <1>0, <1>5, <3>3, <3>4, Changes
    <3>6. /\ AsSent(k) = Abstract!Pkt("BOUNCED", AsSent(q).flow, AsSent(q).seq)
          /\ AsSent(q).kind = "GRANT"
      BY <1>3, <3>1 DEF AsSent, Abstract!Pkt
    <3>. QED  BY <1>5, <3>5, <3>6
  <2>. QED  BY <2>1, <2>2
<1>9. CASE queueVars' = queueVars
  <2>1. ASSUME NEW x \in NetPacket
        PROVE  InNet(Everywhere(Alike(x)))'
                 = InNet(Everywhere(Alike(x))) - (IF x \in {AsSent(q)} THEN 1 ELSE 0)
                   + (IF x \in {} THEN 1 ELSE 0)
    BY <1>6, <1>7, <1>9, <2>1
  <2>2. Abstract!Change({AsSent(q)}, {}) /\ Underway[AsSent(q)] > 0
    BY <1>0, <1>5, <2>1, Changes
  <2>3. AsSent(q).kind \in Data
    BY <1>5, <1>6, <1>9 DEF IsControl, AsSent
  <2>. QED  BY <1>5, <2>2, <2>3
<1>. QED  BY <1>8, <1>9

LEMMA SendGrantIsSent ==
  ASSUME Typed, Typed', Books, NEW f \in Flow, SendGrant(f)
  PROVE  Abstract!SendGrant(f)
<1> DEFINE k == Pkt("GRANT", f, granted[f])
<1>0. granted[f] \in Nat /\ Rcv[f] \in Host /\ SeqSpace \in Nat \ {0} /\ "GRANT" \in Kind
  BY NetworkAssumption DEF Books, Counters, Kind
<1>1. k \in Packet /\ Send(Rcv[f], k) /\ UNCHANGED queueVars
  BY <1>0, PktType DEF SendGrant, Elsewhere
<1>2. /\ granted[f] % SeqSpace \in Seqs
      /\ AsSent(k) = Abstract!Pkt("GRANT", f, granted[f] % SeqSpace)
  BY <1>0 DEF Seqs, Pkt, AsSent, Abstract!Pkt
<1>. HIDE DEF k
<1>3. Abstract!Change({}, {AsSent(k)})
  BY <1>0, <1>1, SendIsChange
<1>. QED  BY <1>2, <1>3 DEF SendGrant, Abstract!SendGrant

\* A sender has a number for every packet: what it has sent, with the credit
\* it holds, was granted, and a flow has no more chunks than numbers.
LEMMA SendDataIsSent ==
  ASSUME Typed, Typed', Books, NEW f \in Flow, SendData(f)
  PROVE  Abstract!SendData(f)
<1> DEFINE k == Pkt("SCHEDULED", f, next[f])
<1>0. /\ granted[f] \in Nat /\ avail[f] \in Nat /\ next[f] \in Nat /\ avail[f] > 0
      /\ Snd[f] \in Host /\ Chunks[f] \in 0 .. SeqSpace /\ SeqSpace \in Nat \ {0}
      /\ "SCHEDULED" \in Kind
  BY NetworkAssumption DEF Books, Counters, Kind, Data, SendData
<1>1. next[f] < SeqSpace
  <2>1. InNet(Everywhere(GrantsOf(f))) + avail[f] + next[f] <= granted[f]
    BY DEF Books, FlowLedger
  <2>2. InNet(Everywhere(GrantsOf(f))) \in Nat /\ granted[f] <= Chunks[f]
    BY NetworkCounts DEF Books, FlowLedger
  <2>. QED  BY <1>0, <2>1, <2>2
<1>2. k \in Packet /\ Send(Snd[f], k) /\ UNCHANGED queueVars
  BY <1>0, PktType DEF SendData, Elsewhere
<1>3. AsSent(k) = Abstract!Pkt("SCHEDULED", f, next[f])
  <2>1. next[f] % SeqSpace = next[f]
    BY <1>0, <1>1
  <2>. QED  BY <2>1 DEF Pkt, AsSent, Abstract!Pkt
<1>. HIDE DEF k
<1>4. Abstract!Change({}, {AsSent(k)})
  BY <1>0, <1>2, SendIsChange
<1>. QED  BY <1>3, <1>4 DEF SendData, Abstract!SendData

LEMMA SendExtraIsSent ==
  ASSUME Typed, Typed', Books, NEW pkt \in extras, SendExtra(pkt)
  PROVE  Abstract!SendOther
<1> DEFINE h == IF Dst(pkt) = Snd[pkt.flow] THEN Rcv[pkt.flow] ELSE Snd[pkt.flow]
<1>1. /\ pkt \in Packet /\ pkt.kind \in Signal \cup {"UNSCHEDULED"} /\ h \in Host
  BY ExtraKinds, NetworkAssumption
<1>2. Send(h, pkt) /\ UNCHANGED <<granted, avail, next>> /\ UNCHANGED queueVars
  BY DEF SendExtra, Elsewhere
<1>. HIDE DEF h
<1>3. Abstract!Change({}, {AsSent(pkt)})
  BY <1>1, <1>2, SendIsChange
<1>4. /\ AsSent(pkt) \in Abstract!Packet
      /\ AsSent(pkt).kind \in {"GRANT_REQ", "RESEND", "UNSCHEDULED"}
  <2>1. AsSent(pkt) \in NetPacket /\ AsSent(pkt).kind = pkt.kind
    BY <1>1, AsSentFacts DEF AsSent
  <2>. QED  BY <1>1, <2>1 DEF Abstract!Packet, Abstract!Kind, NetPacket, Kind, Signal, Data
<1>. QED  BY <1>2, <1>3, <1>4 DEF Abstract!SendOther

LEMMA ReceiveIsDelivered ==
  ASSUME Typed, Typed', NEW h \in Host, HostReceive(h)
  PROVE  \E q \in NetPacket : Abstract!Deliver(q)
<1> DEFINE p == Head(wire[Downlink(h)])
<1>1. AsSent(p) \in NetPacket /\ Underway[AsSent(p)] > 0 /\ Abstract!Change({AsSent(p)}, {})
  BY ReceiveIsChange
<1>2. AsSent(p).kind = p.kind /\ AsSent(p).flow = p.flow
  BY DEF AsSent
<1>3. /\ avail' = IF p.kind = "GRANT" THEN [avail EXCEPT ![p.flow] = @ + 1] ELSE avail
      /\ granted' = IF p.kind = "BOUNCED" THEN [granted EXCEPT ![p.flow] = @ - 1] ELSE granted
      /\ UNCHANGED next
  BY DEF HostReceive
<1>. HIDE DEF p
<1>4. Abstract!Deliver(AsSent(p))
  BY <1>1, <1>2, <1>3 DEF Abstract!Deliver
<1>. QED  BY <1>1, <1>4

LEMMA StepOfNetwork ==
  ASSUME CreditPlaces, IInv, Typed', Books, Sized, [Next]_vars
  PROVE  Abstract!Next \/ UNCHANGED Abstract!vars
<1>0. Typed /\ Abstract!Packet = NetPacket
  BY DEF IInv, Abstract!Packet, Abstract!Kind, NetPacket, Kind, Signal, Data
<1>1. ASSUME NEW p \in Port, SwitchReceiveFromDevice(p[1], p[2])
      PROVE  Abstract!Next \/ UNCHANGED Abstract!vars
  <2>1. UNCHANGED <<granted, avail, next>>
    BY <1>0, <1>1, SwitchAddsNothing DEF hostVars
  <2>2. CASE Underway' = Underway
    BY <2>1, <2>2 DEF Abstract!vars
  <2>3. ASSUME NEW q \in NetPacket, Underway[q] > 0, q.kind = "GRANT",
               Abstract!Change({q}, {Abstract!Pkt("BOUNCED", q.flow, q.seq)})
        PROVE  Abstract!Next
    <3>1. Abstract!Bounce(q)
      BY <2>1, <2>3 DEF Abstract!Bounce
    <3>. QED  BY <1>0, <3>1 DEF Abstract!Next
  <2>4. ASSUME NEW q \in NetPacket, Underway[q] > 0, q.kind \in Data, Abstract!Change({q}, {})
        PROVE  Abstract!Next
    <3>1. Abstract!Lose(q)
      BY <2>1, <2>4 DEF Abstract!Lose
    <3>. QED  BY <1>0, <3>1 DEF Abstract!Next
  <2>5. \/ Underway' = Underway
        \/ \E q \in NetPacket : Underway[q] > 0 /\
             \/ q.kind = "GRANT" /\ Abstract!Change({q}, {Abstract!Pkt("BOUNCED", q.flow, q.seq)})
             \/ q.kind \in Data /\ Abstract!Change({q}, {})
    BY <1>1, SwitchIsChange
  <2>. QED  BY <2>2, <2>3, <2>4, <2>5
<1>2. ASSUME NEW p \in Port, TransmitCredit(p) \/ TransmitData(p)
      PROVE  UNCHANGED Abstract!vars
  <2>1. UNCHANGED <<granted, avail, next>>
    BY <1>0, <1>2, SwitchAddsNothing DEF hostVars
  <2>2. Underway' = Underway
    BY <1>0, <1>2, TransmitStutters
  <2>. QED  BY <2>1, <2>2 DEF Abstract!vars
<1>3. ASSUME NEW f \in Flow, SendGrant(f) \/ SendData(f) PROVE Abstract!Next
  <2>1. Abstract!SendGrant(f) \/ Abstract!SendData(f)
    BY <1>0, <1>3, SendGrantIsSent, SendDataIsSent
  <2>. QED  BY <2>1 DEF Abstract!Next
<1>4. ASSUME NEW pkt \in extras, SendExtra(pkt) PROVE Abstract!Next
  BY <1>0, <1>4, SendExtraIsSent DEF Abstract!Next
<1>5. ASSUME NEW h \in Host, HostReceive(h) PROVE Abstract!Next
  <2>1. PICK q \in NetPacket : Abstract!Deliver(q)
    BY <1>0, <1>5, ReceiveIsDelivered
  <2>. QED  BY <1>0, <2>1 DEF Abstract!Next
<1>6. CASE UNCHANGED vars
  BY <1>6 DEF vars, hostVars, queueVars, Abstract!vars, Underway, Copies
<1>. QED  BY <1>1, <1>2, <1>3, <1>4, <1>5, <1>6 DEF Next

LEMMA InitOfNetwork == Init => Abstract!Init
<1> SUFFICES ASSUME Init PROVE Abstract!Init
  OBVIOUS
<1>1. Typed
  BY InitKeeps DEF IInv
<1>2. \A x \in NetPacket : Underway[x] = 0
  BY <1>1, InitEmpty, UnderwayCounts
<1>3. Underway \in [NetPacket -> Nat]
  BY <1>1, UnderwayCounts
<1>4. Abstract!Packet = NetPacket
  BY DEF Abstract!Packet, Abstract!Kind, NetPacket, Kind, Signal, Data
<1>5. Underway = [x \in NetPacket |-> 0]
  BY <1>2, <1>3
<1>. QED  BY <1>4, <1>5 DEF Init, Abstract!Init

\* Whatever switches of ReserveGrant, BounceGrant and Forward a packet meets,
\* the hosts see a network that delivers it once, turns round a GRANT and
\* loses data only: SendToDev drops no control packet, because the credit
\* queue (m_creditQueueLimitBytes) has a place for every grant and signal.
THEOREM SwitchesAreNetwork ==
  ASSUME CreditPlaces
  PROVE  Spec => ImplementsNetwork
<1>1. Init => IInv /\ Books /\ Sized
  BY InitKeeps, InitBooks, InitSized
<1>2. IInv /\ Books /\ Sized /\ [Next]_vars => (IInv /\ Books /\ Sized)'
  BY NextKeeps, NextBooks, NextSized
<1>3. IInv /\ Books /\ Sized /\ [Next]_vars => [Abstract!Next]_(Abstract!vars)
  <2> SUFFICES ASSUME IInv, Books, Sized, [Next]_vars PROVE [Abstract!Next]_(Abstract!vars)
    OBVIOUS
  <2>1. Typed'
    BY NextKeeps DEF IInv
  <2>. QED  BY <2>1, StepOfNetwork
<1>. QED  BY <1>1, <1>2, <1>3, InitOfNetwork, PTL DEF Spec, ImplementsNetwork, Abstract!Spec

(***************************************************************************)
(* The way of a grant.                                                      *)
(***************************************************************************)

\* Induction up to a bound, on the set of the numbers reached.
LEMMA UpTo ==
  ASSUME NEW N \in Nat, NEW S, 0 \in S, \A i \in 1 .. N : i - 1 \in S => i \in S
  PROVE  0 .. N \subseteq S
<1> DEFINE T == {s \in SUBSET (0 .. N) : \E k \in 0 .. N : s = 0 .. k /\ k \notin S}
<1>1. SUFFICES ASSUME T # {} PROVE FALSE
  <2>1. ASSUME T = {}, NEW k \in 0 .. N PROVE k \in S
    <3>1. 0 .. k \in SUBSET (0 .. N)
      OBVIOUS
    <3>. QED  BY <2>1, <3>1
  <2>. QED  BY <2>1
<1>2. \E s \in T : \A t \in T : t \subseteq s => t = s
  <2> DEFINE I == 0 .. N
  <2>1. IsFiniteSet(I) /\ T \in SUBSET (SUBSET I)
    BY FS_Interval
  <2>. HIDE DEF T, I
  <2>. QED  BY <1>1, <2>1, SmallestSubset
<1>3. PICK s \in T : \A t \in T : t \subseteq s => t = s
  BY <1>2
<1>4. PICK k \in 0 .. N : s = 0 .. k /\ k \notin S
  BY <1>3
<1>5. k \in 1 .. N
  BY <1>4
<1>6. k - 1 \in S
  <2>1. /\ 0 .. k - 1 \in SUBSET (0 .. N) /\ 0 .. k - 1 \subseteq s
        /\ k \in s /\ k \notin 0 .. k - 1 /\ k - 1 \in 0 .. N
    BY <1>4, <1>5
  <2>2. 0 .. k - 1 \notin T
    BY <1>3, <2>1
  <2>. QED  BY <2>1, <2>2
<1>. QED  BY <1>4, <1>5, <1>6

\* A function can be iterated.
Iteration(h, F, a, N) == h[0] = a /\ \A i \in 1 .. N : h[i] = F[h[i - 1]]

LEMMA Iterates ==
  ASSUME NEW L, NEW a \in L, NEW F \in [L -> L], NEW N \in Nat
  PROVE  \E h \in [0 .. N -> L] : Iteration(h, F, a, N)
<1> DEFINE Reaches(k) ==
             \E h \in [0 .. k -> L] : h[0] = a /\ \A i \in 1 .. k : h[i] = F[h[i - 1]]
           S == {k \in 0 .. N : Reaches(k)}
<1>1. 0 \in S
  <2> DEFINE h == [i \in 0 .. 0 |-> a]
  <2>1. h \in [0 .. 0 -> L] /\ h[0] = a /\ 1 .. 0 = {}
    OBVIOUS
  <2>2. Reaches(0)
    BY <2>1
  <2>. QED  BY <2>2
<1>2. ASSUME NEW k \in 1 .. N, k - 1 \in S PROVE k \in S
  <2>1. PICK e \in [0 .. k - 1 -> L] : e[0] = a /\ \A i \in 1 .. k - 1 : e[i] = F[e[i - 1]]
    BY <1>2
  <2> DEFINE h == [i \in 0 .. k |-> IF i = k THEN F[e[k - 1]] ELSE e[i]]
  <2>2. e[k - 1] \in L
    BY <2>1
  <2>3. h \in [0 .. k -> L]
    <3>1. ASSUME NEW i \in 0 .. k PROVE (IF i = k THEN F[e[k - 1]] ELSE e[i]) \in L
      <4>1. i = k \/ i \in 0 .. k - 1
        OBVIOUS
      <4>. QED  BY <2>1, <2>2, <4>1
    <3>. QED  BY <3>1
  <2>4. h[0] = a
    BY <2>1
  <2>5. ASSUME NEW i \in 1 .. k PROVE h[i] = F[h[i - 1]]
    <3>1. h[i - 1] = e[i - 1]
      OBVIOUS
    <3>2. CASE i = k
      BY <3>1, <3>2
    <3>3. CASE i # k
      BY <2>1, <3>1, <3>3
    <3>. QED  BY <3>2, <3>3
  <2>. HIDE DEF h
  <2>6. Reaches(k)
    BY <2>3, <2>4, <2>5
  <2>. QED  BY <2>6
<1>3. 0 .. N \subseteq S
  <2>. HIDE DEF S
  <2>. QED  BY <1>1, <1>2, UpTo
<1>4. N \in S
  BY <1>3
<1>. QED  BY <1>4 DEF Iteration

\* The links of a grant's way, by the routing table of each switch on it.
LEMMA HopRecursion ==
  ASSUME NEW g \in Grants
  PROVE  LET N == Cardinality(Switch)
         IN /\ N \in Nat /\ Hop(g) \in [0 .. N -> Link]
            /\ Hop(g)[0] = Uplink(Rcv[g[1]])
            /\ \A i \in 1 .. N : Hop(g)[i] =
                 IF Hop(g)[i - 1][2] \in Host THEN Hop(g)[i - 1]
                 ELSE GetOutDev(Hop(g)[i - 1][2], Pkt("GRANT", g[1], g[2]))
<1> DEFINE N == Cardinality(Switch)
           k == Pkt("GRANT", g[1], g[2])
           F == [l \in Link |-> IF l[2] \in Host THEN l ELSE GetOutDev(l[2], k)]
           a == Uplink(Rcv[g[1]])
<1>1. g[1] \in Flow /\ g[2] \in Seqs /\ Rcv[g[1]] \in Host /\ a \in Link
  BY NetworkAssumption, HostLinks DEF Grants
<1>2. N \in Nat
  <2>1. ASSUME NEW x \in Switch PROVE \E p \in Port : x = p[1]
    <3> DEFINE hops == RtTable[x][Rcv[g[1]]]
    <3>1. hops \in Seq(Node) /\ hops # <<>> /\ \A i \in DOMAIN hops : <<x, hops[i]>> \in Link
      BY <1>1, NetworkAssumption
    <3>. HIDE DEF hops
    <3>2. 1 \in DOMAIN hops
      BY <3>1
    <3>3. <<x, hops[1]>> \in Port
      BY <3>1, <3>2 DEF Port
    <3>. QED  BY <3>3
  <2>2. IsFiniteSet({p[1] : p \in Port})
    <3> DEFINE T == {p[1] : p \in Port}
               f == [p \in Port |-> p[1]]
    <3>1. f \in Surjection(Port, T)
      BY DEF Surjection
    <3>. HIDE DEF T, f
    <3>2. IsFiniteSet(T)
      BY <3>1, Finite, FS_Surjection
    <3>. QED  BY <3>2 DEF T
  <2>3. Switch \subseteq {p[1] : p \in Port}
    BY <2>1
  <2>. QED  BY <2>2, <2>3, FS_Subset, FS_CardinalityType
<1>3. k \in Packet
  <2>1. "GRANT" \in Kind /\ g[2] \in Int
    BY <1>1 DEF Kind, Seqs
  <2>. QED  BY <1>1, <2>1, PktType
<1>4. F \in [Link -> Link]
  <2>1. ASSUME NEW l \in Link, l[2] \notin Host PROVE GetOutDev(l[2], k) \in Link
    <3>1. l[2] \in Switch
      BY <2>1, NetworkAssumption DEF Node
    <3>. QED  BY <1>3, <3>1, OutDevIsPort DEF Port
  <2>. HIDE DEF k
  <2>. QED  BY <2>1
<1>. HIDE DEF N, k, F, a
<1>5. \E h \in [0 .. N -> Link] : Iteration(h, F, a, N)
  BY ONLY <1>1, <1>2, <1>4, Iterates
<1>6. PICK h \in [0 .. N -> Link] : h[0] = a /\ \A i \in 1 .. N : h[i] = F[h[i - 1]]
  BY <1>5 DEF Iteration
<1> DEFINE Step(hop) == [i \in 0 .. N |->
             IF i = 0 THEN a
             ELSE IF hop[i - 1][2] \in Host THEN hop[i - 1] ELSE GetOutDev(hop[i - 1][2], k)]
<1>7. h = Step(h)
  <2>1. ASSUME NEW i \in 0 .. N PROVE h[i] = Step(h)[i]
    <3>1. CASE i = 0
      BY <1>6, <3>1
    <3>2. CASE i # 0
      <4>1. i \in 1 .. N /\ h[i - 1] \in Link
        BY <1>2, <1>6, <3>2
      <4>2. h[i] = F[h[i - 1]]
        BY <1>6, <4>1
      <4>. QED  BY <3>2, <4>1, <4>2 DEF F
    <3>. QED  BY <3>1, <3>2
  <2>. QED  BY <1>6, <2>1
<1>8. Hop(g) = CHOOSE hop : hop = Step(hop)
  BY DEF Hop, N, a, k
<1>9. Hop(g) = Step(Hop(g))
  <2>. HIDE DEF Step
  <2>. QED  BY <1>7, <1>8
<1>10. /\ Hop(g)[0] = a
      /\ \A i \in 1 .. N : Hop(g)[i] = IF Hop(g)[i - 1][2] \in Host THEN Hop(g)[i - 1]
                                       ELSE GetOutDev(Hop(g)[i - 1][2], k)
  BY <1>2, <1>9
<1>11. Hop(g) \in [0 .. N -> Link]
  <2> DEFINE S == {i \in 0 .. N : Hop(g)[i] \in Link}
  <2>1. 0 \in S
    BY <1>1, <1>2, <1>10
  <2>2. ASSUME NEW i \in 1 .. N, i - 1 \in S PROVE i \in S
    <3>1. Hop(g)[i - 1] \in Link /\ F[Hop(g)[i - 1]] \in Link
      BY <1>4, <2>2
    <3>2. Hop(g)[i] = F[Hop(g)[i - 1]]
      BY <1>10, <3>1 DEF F
    <3>. QED  BY <1>2, <3>1, <3>2
  <2>3. 0 .. N \subseteq S
    <3>. HIDE DEF S
    <3>. QED  BY <1>2, <2>1, <2>2, UpTo
  <2>4. \A i \in 0 .. N : Hop(g)[i] \in Link
    BY <2>3
  <2>5. Hop(g) = [i \in 0 .. N |-> Hop(g)[i]]
    BY <1>9
  <2>. QED  BY <2>4, <2>5
<1>. QED  BY <1>2, <1>10, <1>11 DEF N, a, k

RouteEnds(g, n) ==
  /\ Hop(g)[n][2] \in Host
  /\ \A i \in 0 .. n - 1 :
       /\ Hop(g)[i][2] \in Switch
       /\ \A j \in 0 .. n - 1 : Hop(g)[i][2] = Hop(g)[j][2] => i = j
       /\ GetOutDev(Hop(g)[i][2], Pkt("BOUNCED", g[1], g[2])) = Back(Hop(g)[i])

\* How many switches a grant passes, and the ports that count it before it
\* takes link i of its way.
Steps(g) == CHOOSE n \in 1 .. Cardinality(Switch) : RouteEnds(g, n)
Past(g, i) == {Back(Hop(g)[j]) : j \in 0 .. i - 1}

LEMMA StepsEnd ==
  ASSUME SymmetricRoutes, NEW g \in Grants
  PROVE  /\ Steps(g) \in 1 .. Cardinality(Switch) /\ RouteEnds(g, Steps(g))
         /\ Cardinality(Switch) \in Nat
<1>1. \E n \in 1 .. Cardinality(Switch) : RouteEnds(g, n)
  BY DEF SymmetricRoutes, RouteEnds
<1>. QED  BY <1>1, HopRecursion DEF Steps

LEMMA LinkPair ==
  ASSUME NEW l \in Link
  PROVE  /\ l = <<l[1], l[2]>> /\ Back(l) \in Link /\ Back(Back(l)) = l
         /\ Back(l)[1] = l[2] /\ Back(l)[2] = l[1]
         /\ Back(l) \in Port <=> l[2] \in Switch
<1>1. l \in Node \X Node /\ <<l[2], l[1]>> \in Link
  BY NetworkAssumption
<1>2. l = <<l[1], l[2]>>
  BY <1>1
<1>. QED  BY <1>1, <1>2 DEF Back, Port

LEMMA Ways ==
  ASSUME SymmetricRoutes, NEW g \in Grants
  PROVE  LET n == Steps(g)
             H == Hop(g)
         IN /\ n \in Nat /\ n > 0
            /\ \A i \in 0 .. n : H[i] \in Link
            /\ H[0] = Uplink(Rcv[g[1]]) /\ H[0][1] \in Host /\ H[n][2] \in Host
            /\ \A i \in 0 .. n - 1 :
                 /\ H[i][2] \in Switch /\ Back(H[i]) \in Port
                 /\ H[i + 1] = GetOutDev(H[i][2], Pkt("GRANT", g[1], g[2]))
                 /\ H[i + 1][1] = H[i][2] /\ H[i + 1] \in Port
                 /\ GetOutDev(H[i][2], Pkt("BOUNCED", g[1], g[2])) = Back(H[i])
            /\ \A i \in 0 .. n : \A j \in 0 .. n : H[i] = H[j] => i = j
<1> DEFINE n == Steps(g)
           H == Hop(g)
           N == Cardinality(Switch)
<1>1. /\ n \in 1 .. N /\ N \in Nat /\ H[n][2] \in Host
      /\ \A i \in 0 .. n - 1 :
           /\ H[i][2] \in Switch
           /\ \A j \in 0 .. n - 1 : H[i][2] = H[j][2] => i = j
           /\ GetOutDev(H[i][2], Pkt("BOUNCED", g[1], g[2])) = Back(H[i])
  BY StepsEnd DEF RouteEnds
<1>2. /\ H \in [0 .. N -> Link] /\ H[0] = Uplink(Rcv[g[1]])
      /\ \A i \in 1 .. N : H[i] = IF H[i - 1][2] \in Host THEN H[i - 1]
                                  ELSE GetOutDev(H[i - 1][2], Pkt("GRANT", g[1], g[2]))
  BY HopRecursion
<1>. HIDE DEF n, H, N
<1>3. Rcv[g[1]] \in Host /\ H[0][1] \in Host /\ Switch \cap Host = {}
  <2>1. Rcv[g[1]] \in Host
    BY NetworkAssumption DEF Grants
  <2>. QED  BY <1>2, <2>1, HostLinks, NetworkAssumption
<1>4. \A i \in 0 .. n : H[i] \in Link
  BY <1>1, <1>2
<1>5. ASSUME NEW i \in 0 .. n - 1
      PROVE  /\ H[i][2] \in Switch /\ Back(H[i]) \in Port
             /\ H[i + 1] = GetOutDev(H[i][2], Pkt("GRANT", g[1], g[2]))
             /\ H[i + 1][1] = H[i][2] /\ H[i + 1] \in Port
             /\ GetOutDev(H[i][2], Pkt("BOUNCED", g[1], g[2])) = Back(H[i])
  <2>1. H[i][2] \in Switch /\ H[i] \in Link
    BY <1>1, <1>4
  <2>2. i + 1 \in 1 .. N /\ (i + 1) - 1 = i
    BY <1>1
  <2>3. H[i + 1] = GetOutDev(H[i][2], Pkt("GRANT", g[1], g[2]))
    BY <1>2, <1>3, <2>1, <2>2
  <2>4. H[i + 1][1] = H[i][2]
    BY <2>3 DEF GetOutDev
  <2>5. H[i + 1] \in Port
    BY <1>2, <2>1, <2>2, <2>4 DEF Port
  <2>. QED  BY <1>1, <2>1, <2>3, <2>4, <2>5, LinkPair
<1>6. ASSUME NEW i \in 0 .. n, NEW j \in 0 .. n, H[i] = H[j], i # j
      PROVE  FALSE
  <2>1. ASSUME NEW k \in 1 .. n
        PROVE  k - 1 \in 0 .. n - 1 /\ H[k][1] = H[k - 1][2] /\ H[k][1] \in Switch
    <3>1. k - 1 \in 0 .. n - 1 /\ (k - 1) + 1 = k
      BY <1>1
    <3>. QED  BY <1>5, <3>1
  <2>2. CASE i = 0 \/ j = 0
    <3>1. (i \in 1 .. n /\ j = 0) \/ (j \in 1 .. n /\ i = 0)
      BY <1>6, <2>2
    <3>. QED  BY <1>3, <1>6, <2>1, <3>1
  <2>3. CASE i # 0 /\ j # 0
    <3>1. i \in 1 .. n /\ j \in 1 .. n
      BY <2>3
    <3>2. H[i - 1][2] = H[j - 1][2] /\ i - 1 \in 0 .. n - 1 /\ j - 1 \in 0 .. n - 1
      BY <1>6, <2>1, <3>1
    <3>3. i - 1 = j - 1
      BY <1>1, <3>2
    <3>. QED  BY <1>6, <3>1, <3>3
  <2>. QED  BY <2>2, <2>3
<1>7. n \in Nat /\ n > 0
  BY <1>1
<1>. QED  BY <1>1, <1>2, <1>3, <1>4, <1>5, <1>6, <1>7 DEF n, H

\* The ports that count a grant on its way are those before its host.
LEMMA RouteIsPast ==
  ASSUME SymmetricRoutes, NEW g \in Grants, NEW p \in Port
  PROVE  <<p, g>> \in Route <=> p \in Past(g, Steps(g))
<1> DEFINE n == Steps(g)
           H == Hop(g)
           N == Cardinality(Switch)
<1>1. /\ n \in 1 .. N /\ N \in Nat
  BY StepsEnd
<1>2. /\ H \in [0 .. N -> Link]
      /\ \A i \in 1 .. N : H[i] = IF H[i - 1][2] \in Host THEN H[i - 1]
                                  ELSE GetOutDev(H[i - 1][2], Pkt("GRANT", g[1], g[2]))
  BY HopRecursion
<1>3. H[n][2] \in Host /\ \A i \in 0 .. n - 1 : Back(H[i]) \in Port
  BY Ways
<1>4. <<p, g>> \in Route <=> \E i \in 0 .. N : p = Back(H[i])
  <2>1. DOMAIN H = 0 .. N
    BY <1>2
  <2>2. <<p, g>> \in Route <=> \E l \in Range(H) : p = Back(l)
    BY DEF Route
  <2>. QED  BY <2>1, <2>2 DEF Range
<1>5. p \in Past(g, n) <=> \E i \in 0 .. n - 1 : p = Back(H[i])
  BY DEF Past
<1>. HIDE DEF n, H, N
<1>6. \A i \in 0 .. N : i >= n => H[i] = H[n]
  <2> DEFINE S == {i \in 0 .. N : i >= n => H[i] = H[n]}
  <2>1. 0 \in S
    BY <1>1
  <2>2. ASSUME NEW i \in 1 .. N, i - 1 \in S PROVE i \in S
    <3>1. CASE i <= n
      BY <1>1, <3>1
    <3>2. CASE i > n
      <4>1. H[i - 1] = H[n]
        BY <1>1, <2>2, <3>2
      <4>2. H[i] = H[i - 1]
        BY <1>2, <1>3, <4>1
      <4>. QED  BY <4>1, <4>2
    <3>. QED  BY <1>1, <3>1, <3>2
  <2>3. 0 .. N \subseteq S
    <3>. HIDE DEF S
    <3>. QED  BY <1>1, <2>1, <2>2, UpTo
  <2>. QED  BY <2>3
<1>7. ASSUME NEW i \in 0 .. N, p = Back(H[i]) PROVE i \in 0 .. n - 1
  <2>1. H[i][2] \in Switch
    BY <1>2, <1>7, LinkPair
  <2>2. ~(i >= n)
    BY <1>3, <1>6, <2>1, NetworkAssumption
  <2>. QED  BY <1>1, <2>2
<1>8. \A i \in 0 .. n - 1 : i \in 0 .. N
  BY <1>1
<1>9. <<p, g>> \in Route <=> p \in Past(g, n)
  BY <1>4, <1>5, <1>7, <1>8
<1>. QED  BY <1>9 DEF n

\* Where a packet turns depends on its kind and number only.
LEMMA SameWay ==
  ASSUME NEW x, NEW q \in Packet
  PROVE  GetOutDev(x, q) = GetOutDev(x, Pkt(q.kind, q.flow, q.seq))
<1>1. q.seq % SeqSpace = q.seq
  <2>1. q.seq \in 0 .. SeqSpace - 1 /\ SeqSpace \in Nat \ {0}
    BY NetworkAssumption DEF Packet, Seqs
  <2>. QED  BY <2>1
<1> DEFINE k == Pkt(q.kind, q.flow, q.seq)
<1>2. k.kind = q.kind /\ k.flow = q.flow /\ k.seq = q.seq
  BY <1>1 DEF Pkt
<1>. HIDE DEF k
<1>3. Dst(k) = Dst(q) /\ Hash(x, k) = Hash(x, q)
  BY <1>2 DEF Dst, Hash
<1>4. GetOutDev(x, q) = GetOutDev(x, k)
  BY <1>3 DEF GetOutDev
<1>. QED  BY <1>4 DEF k

(***************************************************************************)
(* Where grants are, and which ports count them there.                      *)
(***************************************************************************)

Id(q) == <<q.flow, q.seq>>
Place(kind, g, i) == IF kind = "GRANT" THEN Hop(g)[i] ELSE Back(Hop(g)[i])

\* A grant is on its way and a bounced one on the same way back.
AtPlace(q, l, i) ==
  /\ i \in 0 .. Steps(Id(q)) /\ l = Place(q.kind, Id(q), i)
  /\ q.kind = "BOUNCED" => i < Steps(Id(q))

OnWay ==
  /\ \A l \in Link : \A q \in In(wire[l]) :
       ~q.just /\ (IsGrant(q) => \E i \in Nat : AtPlace(q, l, i))
  /\ \A p \in Port : \A q \in In(ctl[p]) :
       IsGrant(q) => \E i \in Nat : AtPlace(q, p, i)

\* The packets at l that port p counts among the grants in G; a port that is
\* about to undo one still counts it.
Holding(p, G, l, undoing) ==
  {q \in Packet :
     /\ IsGrant(q) /\ Id(q) \in G
     /\ \E i \in Nat : /\ AtPlace(q, l, i)
                       /\ p \in Past(Id(q), IF undoing /\ Undoes(q) THEN i + 1 ELSE i)}

HoldSets(p, G) ==
  [wire |-> [l \in Link |-> Holding(p, G, l, FALSE)],
   ctl  |-> [x \in Port |-> Holding(p, G, x, TRUE)],
   dat  |-> [x \in Port |-> {}]]

LEMMA IdIsGrant ==
  ASSUME NEW q \in Packet
  PROVE  Id(q) \in Grants /\ Id(q)[1] = q.flow /\ Id(q)[2] = q.seq
BY DEF Packet, Grants, Id

LEMMA PastFacts ==
  ASSUME SymmetricRoutes, NEW g \in Grants
  PROVE  /\ Past(g, 0) = {}
         /\ \A i \in 0 .. Steps(g) - 1 :
              /\ Past(g, i + 1) = Past(g, i) \cup {Back(Hop(g)[i])}
              /\ Back(Hop(g)[i]) \notin Past(g, i)
<1> DEFINE n == Steps(g)
           H == Hop(g)
<1>1. /\ n \in Nat /\ \A i \in 0 .. n : H[i] \in Link
      /\ \A i \in 0 .. n : \A j \in 0 .. n : H[i] = H[j] => i = j
  BY Ways
<1>2. Past(g, 0) = {}
  BY DEF Past
<1>. HIDE DEF n, H
<1>3. ASSUME NEW i \in 0 .. n - 1
      PROVE  /\ {Back(H[j]) : j \in 0 .. (i + 1) - 1} = {Back(H[j]) : j \in 0 .. i - 1} \cup {Back(H[i])}
             /\ Back(H[i]) \notin {Back(H[j]) : j \in 0 .. i - 1}
  <2>1. 0 .. (i + 1) - 1 = (0 .. i - 1) \cup {i}
    BY <1>1
  <2>2. ASSUME NEW j \in 0 .. i - 1 PROVE Back(H[i]) # Back(H[j])
    <3>1. i \in 0 .. n /\ j \in 0 .. n /\ i # j
      BY <1>1
    <3>2. H[i] \in Link /\ H[j] \in Link /\ H[i] # H[j]
      BY <1>1, <3>1
    <3>3. Back(Back(H[i])) = H[i] /\ Back(Back(H[j])) = H[j]
      BY <3>2, LinkPair
    <3>. QED  BY <3>2, <3>3
  <2>. QED  BY <2>1, <2>2
<1>. QED  BY <1>2, <1>3 DEF Past, n, H

\* A grant is at one place of its way only.
LEMMA OnePlace ==
  ASSUME SymmetricRoutes, NEW q \in Packet, IsGrant(q), NEW l, NEW i, NEW j,
         AtPlace(q, l, i), AtPlace(q, l, j)
  PROVE  i = j
<1>1. Id(q) \in Grants
  BY IdIsGrant
<1> DEFINE n == Steps(Id(q))
           H == Hop(Id(q))
<1>2. /\ \A k \in 0 .. n : H[k] \in Link
      /\ \A k \in 0 .. n : \A m \in 0 .. n : H[k] = H[m] => k = m
  BY <1>1, Ways
<1>3. i \in 0 .. n /\ j \in 0 .. n
  BY DEF AtPlace
<1>4. H[i] = H[j] \/ Back(H[i]) = Back(H[j])
  BY DEF AtPlace, Place
<1>. HIDE DEF n, H
<1>5. H[i] = H[j]
  <2>1. Back(Back(H[i])) = H[i] /\ Back(Back(H[j])) = H[j]
    BY <1>2, <1>3, LinkPair
  <2>. QED  BY <1>4, <2>1
<1>. QED  BY <1>2, <1>3, <1>5

\* What a packet adds to the grants a port counts.
LEMMA OneHeld ==
  ASSUME SymmetricRoutes, NEW q \in Packet, NEW p, NEW G, NEW l
  PROVE  /\ ~IsGrant(q) => \A b \in BOOLEAN : One(q, Holding(p, G, l, b)) = 0
         /\ \A b \in BOOLEAN : \A i \in Nat : IsGrant(q) /\ AtPlace(q, l, i) =>
              One(q, Holding(p, G, l, b))
                = IF /\ Id(q) \in G
                     /\ p \in Past(Id(q), IF b /\ Undoes(q) THEN i + 1 ELSE i)
                  THEN 1 ELSE 0
<1>1. ~IsGrant(q) => \A b \in BOOLEAN : q \notin Holding(p, G, l, b)
  BY DEF Holding
<1>2. ASSUME NEW b \in BOOLEAN, NEW i \in Nat, IsGrant(q), AtPlace(q, l, i)
      PROVE  q \in Holding(p, G, l, b) <=>
               /\ Id(q) \in G
               /\ p \in Past(Id(q), IF b /\ Undoes(q) THEN i + 1 ELSE i)
  <2>1. \A j \in Nat : AtPlace(q, l, j) => j = i
    BY <1>2, OnePlace
  <2>. QED  BY <1>2, <2>1 DEF Holding
<1>. QED  BY <1>1, <1>2 DEF One

\* A switch sends a grant to the next link of its way, or back by the link it
\* came from; a bounced one goes on back.
LEMMA PassPlaces ==
  ASSUME SymmetricRoutes, NEW p \in Port, NEW q \in Packet, NEW out \in Port, NEW k \in Packet,
         Passes(p, q, out, k), IsGrant(q), ~q.just, NEW i \in Nat,
         AtPlace(q, <<p[2], p[1]>>, i)
  PROVE  /\ Id(k) = Id(q) /\ IsGrant(k)
         /\ \/ /\ k.just /\ k.kind = "BOUNCED" /\ AtPlace(k, out, i) /\ UNCHANGED <<state, held>>
            \/ /\ k.kind = "GRANT" /\ AtPlace(k, out, i + 1)
               /\ i \in 0 .. Steps(Id(q)) - 1 /\ p = Back(Hop(Id(q))[i])
               /\ state' = [state EXCEPT ![p].qp = @ + Credit]
               /\ held' = [held EXCEPT ![p][Id(q)] = @ + 1]
            \/ /\ k = q /\ k.kind = "BOUNCED" /\ i > 0 /\ AtPlace(k, out, i - 1)
               /\ UNCHANGED <<state, held>>
<1> DEFINE g == Id(q)
           n == Steps(g)
           H == Hop(g)
           l == <<p[2], p[1]>>
<1>1. g \in Grants /\ g[1] = q.flow /\ g[2] = q.seq
  BY IdIsGrant
<1>2. /\ n \in Nat
      /\ \A j \in 0 .. n : H[j] \in Link
      /\ H[0][1] \in Host /\ H[n][2] \in Host
      /\ \A j \in 0 .. n - 1 :
           /\ H[j][2] \in Switch
           /\ H[j + 1] = GetOutDev(H[j][2], Pkt("GRANT", g[1], g[2]))
           /\ H[j + 1][1] = H[j][2]
           /\ GetOutDev(H[j][2], Pkt("BOUNCED", g[1], g[2])) = Back(H[j])
  BY <1>1, Ways
<1>3. /\ p = Back(l) /\ l = Back(p) /\ p[1] \in Switch /\ l[2] = p[1]
      /\ Switch \cap Host = {}
  BY LinkPair, NetworkAssumption DEF Port, Back
<1>4. k.flow = q.flow /\ k.seq = q.seq /\ Id(k) = g /\ IsGrant(k)
  <2>1. k.flow = q.flow /\ k.seq = q.seq /\ (q.kind # "GRANT" => k = q)
        /\ (q.kind = "GRANT" => k.kind \in {"GRANT", "BOUNCED"})
    BY PassesFacts
  <2>. QED  BY <2>1 DEF Id, IsGrant
<1>5. /\ i \in 0 .. n /\ l = Place(q.kind, g, i)
      /\ q.kind = "BOUNCED" => i < n
  BY DEF AtPlace
<1>6. GetOutDev(p[1], q) = GetOutDev(p[1], Pkt(q.kind, g[1], g[2]))
  BY <1>1, SameWay
<1>7. CASE q.kind = "GRANT"
  <2>1. l = H[i] /\ i \in 0 .. n - 1
    <3>1. l = H[i]
      BY <1>5, <1>7 DEF Place
    <3>2. i # n
      <4>. HIDE DEF l, H, n
      <4>. QED  BY <1>2, <1>3, <3>1
    <3>. QED  BY <1>2, <1>5, <3>1, <3>2
  <2>2. p = Back(H[i])
    BY <1>3, <2>1
  <2>3. CASE /\ out = p /\ k = [q EXCEPT !.kind = "BOUNCED", !.just = TRUE]
             /\ UNCHANGED <<state, held>>
    <3>1. k.just /\ k.kind = "BOUNCED"
      BY <2>3 DEF Packet
    <3>2. AtPlace(k, out, i)
      BY <1>2, <1>4, <2>1, <2>2, <2>3, <3>1 DEF AtPlace, Place
    <3>. QED  BY <1>4, <2>3, <3>1, <3>2
  <2>4. CASE /\ out = GetOutDev(p[1], q) /\ k = q
             /\ state' = [state EXCEPT ![p].qp = @ + Credit]
             /\ held' = [held EXCEPT ![p][<<q.flow, q.seq>>] = @ + 1]
    <3>1. out = H[i + 1]
      <4>1. p[1] = H[i][2]
        BY <1>3, <2>1
      <4>2. GetOutDev(H[i][2], Pkt("GRANT", g[1], g[2])) = H[i + 1]
        BY <1>2, <2>1
      <4>. QED  BY <1>6, <1>7, <2>4, <4>1, <4>2
    <3>2. AtPlace(k, out, i + 1)
      <4>1. i + 1 \in 0 .. n
        BY <1>2, <2>1
      <4>2. out = Place(k.kind, g, i + 1) /\ k.kind = "GRANT"
        BY <1>7, <2>4, <3>1 DEF Place
      <4>. QED  BY <1>4, <4>1, <4>2 DEF AtPlace
    <3>3. <<q.flow, q.seq>> = Id(q)
      BY DEF Id
    <3>. QED  BY <1>4, <1>7, <2>1, <2>2, <2>4, <3>2, <3>3
  <2>. QED  BY <1>7, <2>3, <2>4 DEF Passes
<1>8. CASE q.kind = "BOUNCED"
  <2>1. /\ out = GetOutDev(p[1], q) /\ k = q /\ UNCHANGED <<state, held>>
    BY <1>8 DEF Passes
  <2>2. l = Back(H[i]) /\ i \in 0 .. n - 1 /\ H[i] \in Link
    BY <1>2, <1>5, <1>8 DEF Place
  <2>3. l[2] = H[i][1]
    BY <2>2, LinkPair
  <2>4. i # 0
    <3>. HIDE DEF l, H, n
    <3>. QED  BY <1>2, <1>3, <2>3
  <2>5. i - 1 \in 0 .. n - 1 /\ (i - 1) + 1 = i
    BY <1>2, <2>2, <2>4
  <2>6. H[i - 1][2] = p[1] /\ GetOutDev(H[i - 1][2], Pkt("BOUNCED", g[1], g[2])) = Back(H[i - 1])
    <3>. HIDE DEF l, H, n
    <3>. QED  BY <1>2, <1>3, <2>3, <2>5
  <2>7. out = Back(H[i - 1])
    BY <1>6, <1>8, <2>1, <2>6
  <2>8. AtPlace(k, out, i - 1)
    <3>1. out = Place(k.kind, g, i - 1)
      BY <1>8, <2>1, <2>7 DEF Place
    <3>2. i - 1 \in 0 .. n /\ i - 1 < n
      BY <1>2, <2>5
    <3>. QED  BY <1>4, <3>1, <3>2 DEF AtPlace
  <2>. QED  BY <1>4, <1>8, <2>1, <2>4, <2>8
<1>. QED  BY <1>7, <1>8 DEF IsGrant

LEMMA JoinsElements ==
  ASSUME NEW I, NEW X, NEW f \in [I -> Seq(X)], NEW c \in I, NEW e \in X, NEW g,
         Joins(f, g, c, e), NEW x \in I, NEW q \in In(g[x])
  PROVE  q \in In(f[x]) \/ (x = c /\ q = e)
<1>1. q \in In([f EXCEPT ![c] = Append(@, e)][x])
  BY DEF Joins
<1>. QED  BY <1>1, EnqueueElements

LEMMA LeavesElements ==
  ASSUME NEW I, NEW X, NEW f \in [I -> Seq(X)], NEW c \in I, f[c] # <<>>, NEW g,
         Leaves(f, g, c)
  PROVE  Head(f[c]) \in In(f[c]) /\ \A x \in I : In(g[x]) \subseteq In(f[x])
<1>1. /\ Head(f[c]) \in In(f[c])
      /\ \A x \in I : In([f EXCEPT ![c] = Tail(@)][x]) \subseteq In(f[x])
  BY DequeueElements
<1>. QED  BY <1>1 DEF Leaves

LEMMA HoldPlaces ==
  ASSUME NEW p, NEW G
  PROVE  /\ \A l \in Link : HoldSets(p, G).wire[l] = Holding(p, G, l, FALSE)
         /\ \A x \in Port : /\ HoldSets(p, G).ctl[x] = Holding(p, G, x, TRUE)
                            /\ HoldSets(p, G).dat[x] = {}
BY DEF HoldSets

\* A reservation is the only thing a switch adds to what its ports count.
LEMMA SwitchHolds ==
  ASSUME SymmetricRoutes, CreditPlaces, Typed, Sized, Books, OnWay,
         NEW p \in Port, SwitchReceiveFromDevice(p[1], p[2])
  PROVE  /\ OnWay' /\ UNCHANGED <<accepted, drained>>
         /\ \/ /\ UNCHANGED <<state, held>>
               /\ \A a \in Port : \A G \in SUBSET Grants :
                    InNet(HoldSets(a, G))' = InNet(HoldSets(a, G))
            \/ \E g \in Grants :
                 /\ held' = [held EXCEPT ![p][g] = @ + 1]
                 /\ state' = [state EXCEPT ![p].qp = @ + Credit]
                 /\ \A a \in Port : \A G \in SUBSET Grants :
                      InNet(HoldSets(a, G))'
                        = InNet(HoldSets(a, G)) + (IF a = p /\ g \in G THEN 1 ELSE 0)
<1>1. PICK out \in Port, k \in Packet, q \in Packet :
        LET l == <<p[2], p[1]>>
        IN /\ l \in Link /\ wire[l] # <<>> /\ q = Head(wire[l])
           /\ Leaves(wire, wire', l) /\ Passes(p, q, out, k) /\ Enqueue(out, k)
           /\ UNCHANGED <<hostVars, accepted, drained>>
  BY SwitchMoves
<1> DEFINE l == <<p[2], p[1]>>
<1>2. /\ l \in Link /\ wire[l] # <<>> /\ q = Head(wire[l])
      /\ Leaves(wire, wire', l) /\ Passes(p, q, out, k) /\ Enqueue(out, k)
      /\ UNCHANGED <<accepted, drained>>
  BY <1>1
<1>. HIDE DEF l
<1>3. /\ wire \in [Link -> Seq(Packet)] /\ ctl \in [Port -> Seq(Packet)]
  BY DEF Typed
<1>4. q \in In(wire[l]) /\ \A x \in Link : In(wire'[x]) \subseteq In(wire[x])
  BY <1>2, <1>3, LeavesElements
<1>5. ~q.just /\ (IsGrant(q) => \E i \in Nat : AtPlace(q, l, i))
  BY <1>2, <1>4 DEF OnWay
<1>6. /\ IsControl(k) <=> IsControl(q)
      /\ ~IsGrant(q) => k = q
      /\ IsGrant(q) => IsControl(q)
  BY <1>2, PassesFacts, KindCounts DEF IsGrant
<1>7. ctl' = ctl \/ Joins(ctl, ctl', out, k)
  BY <1>2 DEF Enqueue, queueVars, Joins
<1>8. /\ \A S : InNet(S) \in Nat
      /\ \A s : One(q, s) \in {0, 1} /\ One(k, s) \in {0, 1}
  BY NetworkCounts DEF One
<1>9. ASSUME IsGrant(k) => \E i \in Nat : AtPlace(k, out, i)
      PROVE  OnWay'
  <2>1. ASSUME NEW x \in Port, NEW e \in In(ctl'[x]), IsGrant(e)
        PROVE  \E i \in Nat : AtPlace(e, x, i)
    <3>1. CASE ctl' = ctl
      BY <2>1, <3>1 DEF OnWay
    <3>2. CASE Joins(ctl, ctl', out, k)
      <4>1. e \in In(ctl[x]) \/ (x = out /\ e = k)
        BY <1>3, <2>1, <3>2, JoinsElements
      <4>. QED  BY <1>9, <2>1, <4>1 DEF OnWay
    <3>. QED  BY <1>7, <3>1, <3>2
  <2>2. ASSUME NEW x \in Link, NEW e \in In(wire'[x])
        PROVE  ~e.just /\ (IsGrant(e) => \E i \in Nat : AtPlace(e, x, i))
    BY <1>4, <2>2 DEF OnWay
  <2>. QED  BY <2>1, <2>2 DEF OnWay
<1>10. ASSUME NEW a \in Port, NEW G \in SUBSET Grants
       PROVE  \/ InNet(HoldSets(a, G))'
                   = InNet(HoldSets(a, G)) - One(q, Holding(a, G, l, FALSE))
                     + (IF IsControl(k) THEN One(k, Holding(a, G, out, TRUE)) ELSE 0)
              \/ /\ ~IsControl(q)
                 /\ InNet(HoldSets(a, G))'
                      = InNet(HoldSets(a, G)) - One(q, Holding(a, G, l, FALSE))
  <2> DEFINE S == HoldSets(a, G)
  <2>1. /\ S.wire[l] = Holding(a, G, l, FALSE) /\ S.ctl[out] = Holding(a, G, out, TRUE)
        /\ One(k, S.dat[out]) = 0
    BY <1>2, HoldPlaces DEF One
  <2>. HIDE DEF S
  <2>2. \/ InNet(S)' = InNet(S) - One(Head(wire[l]), S.wire[l])
                       + One(k, IF IsControl(k) THEN S.ctl[out] ELSE S.dat[out])
        \/ /\ IsControl(k) => ~CheckCreditAdmission(out)
           /\ InNet(S)' = InNet(S) - One(Head(wire[l]), S.wire[l])
    BY <1>2, SwitchCounts
  <2>3. IsControl(q) => CheckCreditAdmission(out)
    BY <1>2, RoomForControl
  <2>4. \/ InNet(S)' = InNet(S) - One(q, Holding(a, G, l, FALSE))
                       + (IF IsControl(k) THEN One(k, Holding(a, G, out, TRUE)) ELSE 0)
        \/ /\ ~IsControl(q)
           /\ InNet(S)' = InNet(S) - One(q, Holding(a, G, l, FALSE))
    BY <1>2, <1>6, <2>1, <2>2, <2>3
  <2>. QED  BY <2>4 DEF S
<1>11. CASE ~IsGrant(q)
  <2>1. k = q /\ UNCHANGED <<state, held>>
    BY <1>2, <1>6, <1>11 DEF Passes, IsGrant
  <2>2. OnWay'
    BY <1>9, <1>11, <2>1
  <2>3. ASSUME NEW a \in Port, NEW G \in SUBSET Grants
        PROVE  InNet(HoldSets(a, G))' = InNet(HoldSets(a, G))
    <3> DEFINE S == HoldSets(a, G)
               x == One(q, Holding(a, G, l, FALSE))
               y == One(k, Holding(a, G, out, TRUE))
    <3>1. x = 0 /\ y = 0
      BY <1>11, <2>1, OneHeld
    <3>2. InNet(S) \in Nat
      BY <1>8
    <3>3. \/ InNet(S)' = InNet(S) - x + (IF IsControl(k) THEN y ELSE 0)
          \/ InNet(S)' = InNet(S) - x
      BY <1>10
    <3>. HIDE DEF S, x, y
    <3>4. InNet(S)' = InNet(S)
      BY <3>1, <3>2, <3>3
    <3>. QED  BY <3>4 DEF S
  <2>. QED  BY <1>2, <2>1, <2>2, <2>3
<1>12. CASE IsGrant(q)
  <2>1. PICK i \in Nat : AtPlace(q, l, i)
    BY <1>5, <1>12
  <2>2. /\ Id(k) = Id(q) /\ IsGrant(k)
        /\ \/ /\ k.just /\ k.kind = "BOUNCED" /\ AtPlace(k, out, i) /\ UNCHANGED <<state, held>>
           \/ /\ k.kind = "GRANT" /\ AtPlace(k, out, i + 1)
              /\ i \in 0 .. Steps(Id(q)) - 1 /\ p = Back(Hop(Id(q))[i])
              /\ state' = [state EXCEPT ![p].qp = @ + Credit]
              /\ held' = [held EXCEPT ![p][Id(q)] = @ + 1]
           \/ /\ k = q /\ k.kind = "BOUNCED" /\ i > 0 /\ AtPlace(k, out, i - 1)
              /\ UNCHANGED <<state, held>>
    BY <1>2, <1>5, <1>12, <2>1, PassPlaces DEF l
  <2>3. Id(q) \in Grants /\ IsControl(k) /\ IsControl(q)
    BY <1>6, <1>12, IdIsGrant
  <2>4. ASSUME NEW a \in Port, NEW G \in SUBSET Grants
        PROVE  /\ InNet(HoldSets(a, G))'
                    = InNet(HoldSets(a, G)) - One(q, Holding(a, G, l, FALSE))
                      + One(k, Holding(a, G, out, TRUE))
               /\ One(q, Holding(a, G, l, FALSE))
                    = IF Id(q) \in G /\ a \in Past(Id(q), i) THEN 1 ELSE 0
               /\ InNet(HoldSets(a, G)) \in Nat
    <3> DEFINE S == HoldSets(a, G)
               x == One(q, Holding(a, G, l, FALSE))
               y == One(k, Holding(a, G, out, TRUE))
    <3>1. InNet(S) \in Nat
      BY <1>8
    <3>2. x = IF Id(q) \in G /\ a \in Past(Id(q), i) THEN 1 ELSE 0
      BY <1>12, <2>1, OneHeld
    <3>3. \/ InNet(S)' = InNet(S) - x + (IF IsControl(k) THEN y ELSE 0)
          \/ ~IsControl(q) /\ InNet(S)' = InNet(S) - x
      BY <1>10
    <3>4. InNet(S)' = InNet(S) - x + y
      <4>. HIDE DEF S, x, y
      <4>. QED  BY <2>3, <3>3
    <3>. QED  BY <3>1, <3>2, <3>4
  <2>5. OnWay'
    <3>1. \E j \in Nat : AtPlace(k, out, j)
      BY <2>1, <2>2
    <3>. QED  BY <1>9, <3>1
  <2>6. CASE k.just /\ k.kind = "BOUNCED" /\ AtPlace(k, out, i) /\ UNCHANGED <<state, held>>
    <3>1. ASSUME NEW a \in Port, NEW G \in SUBSET Grants
          PROVE  InNet(HoldSets(a, G))' = InNet(HoldSets(a, G))
      <4>1. One(k, Holding(a, G, out, TRUE))
              = IF Id(k) \in G /\ a \in Past(Id(k), i) THEN 1 ELSE 0
        <5>1. ~Undoes(k)
          BY <2>6 DEF Undoes
        <5>. QED  BY <2>1, <2>2, <2>6, <5>1, OneHeld
      <4> DEFINE S == HoldSets(a, G)
                 x == One(q, Holding(a, G, l, FALSE))
                 y == One(k, Holding(a, G, out, TRUE))
      <4>7. /\ InNet(S)' = InNet(S) - x + y /\ InNet(S) \in Nat
            /\ x = IF Id(q) \in G /\ a \in Past(Id(q), i) THEN 1 ELSE 0
        BY <2>4
      <4>8. InNet(S)' = InNet(S)
        <5>. HIDE DEF S, x
        <5>1. y = IF Id(q) \in G /\ a \in Past(Id(q), i) THEN 1 ELSE 0
          BY <2>2, <4>1
        <5>. HIDE DEF y
        <5>. QED  BY <4>7, <5>1
      <4>. QED  BY <4>8 DEF S
    <3>. QED  BY <1>2, <2>5, <2>6, <3>1
  <2>7. CASE /\ k.kind = "GRANT" /\ AtPlace(k, out, i + 1)
             /\ i \in 0 .. Steps(Id(q)) - 1 /\ p = Back(Hop(Id(q))[i])
             /\ state' = [state EXCEPT ![p].qp = @ + Credit]
             /\ held' = [held EXCEPT ![p][Id(q)] = @ + 1]
    <3>1. ASSUME NEW a \in Port, NEW G \in SUBSET Grants
          PROVE  InNet(HoldSets(a, G))'
                   = InNet(HoldSets(a, G)) + (IF a = p /\ Id(q) \in G THEN 1 ELSE 0)
      <4>1. One(k, Holding(a, G, out, TRUE))
              = IF Id(k) \in G /\ a \in Past(Id(k), i + 1) THEN 1 ELSE 0
        <5>1. ~Undoes(k) /\ i + 1 \in Nat
          BY <2>1, <2>7 DEF Undoes
        <5>. QED  BY <2>2, <2>7, <5>1, OneHeld
      <4>2. /\ Past(Id(q), i + 1) = Past(Id(q), i) \cup {p}
            /\ p \notin Past(Id(q), i)
        BY <2>3, <2>7, PastFacts
      <4>3. \/ a = p /\ a \notin Past(Id(q), i) /\ a \in Past(Id(q), i + 1)
            \/ a # p /\ (a \in Past(Id(q), i) <=> a \in Past(Id(q), i + 1))
        BY <4>2
      <4> DEFINE S == HoldSets(a, G)
                 x == One(q, Holding(a, G, l, FALSE))
                 y == One(k, Holding(a, G, out, TRUE))
      <4>7. /\ InNet(S)' = InNet(S) - x + y /\ InNet(S) \in Nat
            /\ x = IF Id(q) \in G /\ a \in Past(Id(q), i) THEN 1 ELSE 0
        BY <2>4
      <4>8. InNet(S)' = InNet(S) + (IF a = p /\ Id(q) \in G THEN 1 ELSE 0)
        <5>. HIDE DEF S, x
        <5>1. y = IF Id(q) \in G /\ a \in Past(Id(q), i + 1) THEN 1 ELSE 0
          BY <2>2, <4>1
        <5>. HIDE DEF y
        <5>. QED  BY <4>7, <5>1, <4>3
      <4>. QED  BY <4>8 DEF S
    <3>. QED  BY <1>2, <2>3, <2>5, <2>7, <3>1
  <2>8. CASE /\ k = q /\ k.kind = "BOUNCED" /\ i > 0 /\ AtPlace(k, out, i - 1)
             /\ UNCHANGED <<state, held>>
    <3>1. ASSUME NEW a \in Port, NEW G \in SUBSET Grants
          PROVE  InNet(HoldSets(a, G))' = InNet(HoldSets(a, G))
      <4>1. One(k, Holding(a, G, out, TRUE))
              = IF Id(k) \in G /\ a \in Past(Id(k), i) THEN 1 ELSE 0
        <5>1. Undoes(k) /\ i - 1 \in Nat /\ (i - 1) + 1 = i
          BY <1>5, <2>1, <2>8 DEF Undoes
        <5>. QED  BY <2>2, <2>8, <5>1, OneHeld
      <4> DEFINE S == HoldSets(a, G)
                 x == One(q, Holding(a, G, l, FALSE))
                 y == One(k, Holding(a, G, out, TRUE))
      <4>7. /\ InNet(S)' = InNet(S) - x + y /\ InNet(S) \in Nat
            /\ x = IF Id(q) \in G /\ a \in Past(Id(q), i) THEN 1 ELSE 0
        BY <2>4
      <4>8. InNet(S)' = InNet(S)
        <5>. HIDE DEF S, x
        <5>1. y = IF Id(q) \in G /\ a \in Past(Id(q), i) THEN 1 ELSE 0
          BY <2>2, <4>1
        <5>. HIDE DEF y
        <5>. QED  BY <4>7, <5>1
      <4>. QED  BY <4>8 DEF S
    <3>. QED  BY <1>2, <2>5, <2>8, <3>1
  <2>. QED  BY <2>2, <2>6, <2>7, <2>8
<1>. QED  BY <1>11, <1>12

\* A port gives back what it counted when a grant bounced elsewhere leaves by it.
LEMMA TransmitHolds ==
  ASSUME SymmetricRoutes, Typed, Sized, OnWay, NEW p \in Port,
         TransmitCredit(p) \/ TransmitData(p)
  PROVE  /\ OnWay' /\ UNCHANGED accepted
         /\ \E q \in Packet :
              /\ UpdateCBPortState(p, q) /\ Id(q) \in Grants
              /\ \A a \in Port : \A G \in SUBSET Grants :
                   InNet(HoldSets(a, G))'
                     = InNet(HoldSets(a, G))
                       - (IF Undoes(q) /\ a = p /\ Id(q) \in G THEN 1 ELSE 0)
<1>1. PICK q \in Packet :
        /\ Leaving(p, q) /\ Joins(wire, wire', p, Untagged(q))
        /\ UpdateCBPortState(p, q) /\ UNCHANGED <<hostVars, accepted>>
  BY TransmitMoves
<1> DEFINE k == Untagged(q)
<1>2. /\ k \in Packet /\ ~k.just /\ k.kind = q.kind /\ k.flow = q.flow /\ k.seq = q.seq
      /\ Id(k) = Id(q) /\ (IsGrant(k) <=> IsGrant(q))
      /\ \A l, i : AtPlace(k, l, i) <=> AtPlace(q, l, i)
  BY UntaggedFacts DEF Id, IsGrant, AtPlace
<1>10. Joins(wire, wire', p, k)
  BY <1>1
<1>. HIDE DEF k
<1>3. /\ wire \in [Link -> Seq(Packet)] /\ ctl \in [Port -> Seq(Packet)]
      /\ dat \in [Port -> Seq(Packet)] /\ p \in Link
  BY Finite DEF Typed
<1>4. /\ ctl' = ctl \/ (Leaves(ctl, ctl', p) /\ ctl[p] # <<>>)
      /\ IsGrant(q) => ctl[p] # <<>> /\ q = Head(ctl[p]) /\ \E i \in Nat : AtPlace(q, p, i)
  <2>1. CASE ctl[p] # <<>> /\ q = Head(ctl[p]) /\ Leaves(ctl, ctl', p)
    <3>1. q \in In(ctl[p])
      BY <1>3, <2>1, LeavesElements
    <3>. QED  BY <2>1, <3>1 DEF OnWay
  <2>2. CASE dat[p] # <<>> /\ q = Head(dat[p]) /\ Leaves(dat, dat', p) /\ ctl' = ctl
    <3>1. q \in In(dat[p])
      BY <1>3, <2>2, LeavesElements
    <3>2. ~IsGrant(q)
      BY <3>1, KindCounts DEF Sized
    <3>. QED  BY <2>2, <3>2
  <2>. QED  BY <1>1, <2>1, <2>2 DEF Leaving
<1>5. OnWay'
  <2>1. ASSUME NEW x \in Link, NEW e \in In(wire'[x])
        PROVE  ~e.just /\ (IsGrant(e) => \E i \in Nat : AtPlace(e, x, i))
    <3>1. k \in Packet /\ x \in Link /\ e \in In(wire'[x])
      BY <1>2, <2>1
    <3>2. e \in In(wire[x]) \/ (x = p /\ e = k)
      BY <1>3, <1>10, <3>1, JoinsElements
    <3>. QED  BY <1>2, <1>4, <3>2 DEF OnWay
  <2>2. ASSUME NEW x \in Port, NEW e \in In(ctl'[x]), IsGrant(e)
        PROVE  \E i \in Nat : AtPlace(e, x, i)
    <3>1. e \in In(ctl[x])
      BY <1>3, <1>4, <2>2, LeavesElements
    <3>. QED  BY <2>2, <3>1 DEF OnWay
  <2>. QED  BY <2>1, <2>2 DEF OnWay
<1>6. Id(q) \in Grants
  BY IdIsGrant
<1>7. ASSUME NEW a \in Port, NEW G \in SUBSET Grants
      PROVE  InNet(HoldSets(a, G))'
               = InNet(HoldSets(a, G)) - (IF Undoes(q) /\ a = p /\ Id(q) \in G THEN 1 ELSE 0)
  <2> DEFINE S == HoldSets(a, G)
             x == One(q, Holding(a, G, p, TRUE))
             y == One(k, Holding(a, G, p, FALSE))
  <2>1. /\ S.wire[p] = Holding(a, G, p, FALSE) /\ S.ctl[p] = Holding(a, G, p, TRUE)
        /\ One(q, S.dat[p]) = 0
    BY <1>3, HoldPlaces DEF One
  <2>2. InNet(S) \in Nat
    BY NetworkCounts
  <2>3. \/ InNet(S)' = InNet(S) - x + y
        \/ ~IsGrant(q) /\ InNet(S)' = InNet(S) - 0 + y
    <3>. HIDE DEF S
    <3>1. \/ /\ ctl[p] # <<>> /\ q = Head(ctl[p])
             /\ InNet(S)' = InNet(S) - One(q, S.ctl[p]) + One(k, S.wire[p])
          \/ /\ dat[p] # <<>> /\ q = Head(dat[p])
             /\ InNet(S)' = InNet(S) - One(q, S.dat[p]) + One(k, S.wire[p])
      BY <1>1, TransmitCounts DEF k
    <3>2. ASSUME dat[p] # <<>>, q = Head(dat[p]) PROVE ~IsGrant(q)
      <4>1. dat[p] \in Seq(Packet) /\ dat[p][1] = q /\ 1 \in 1 .. Len(dat[p])
        BY <1>3, <3>2
      <4>2. q \in In(dat[p])
        BY <4>1 DEF In
      <4>. QED  BY <4>2, KindCounts DEF Sized
    <3>. QED  BY <2>1, <3>1, <3>2
  <2>4. CASE ~IsGrant(q)
    <3>1. x = 0 /\ y = 0 /\ ~Undoes(q)
      BY <1>2, <2>4, OneHeld DEF Undoes, IsGrant
    <3>. HIDE DEF S, x, y
    <3>2. InNet(S)' = InNet(S)
      BY <2>2, <2>3, <3>1
    <3>. QED  BY <2>2, <3>1, <3>2 DEF S
  <2>5. CASE IsGrant(q)
    <3>1. PICK i \in Nat : AtPlace(q, p, i)
      BY <1>4, <2>5
    <3>2. /\ x = IF Id(q) \in G /\ a \in Past(Id(q), IF Undoes(q) THEN i + 1 ELSE i)
                 THEN 1 ELSE 0
          /\ y = IF Id(q) \in G /\ a \in Past(Id(q), i) THEN 1 ELSE 0
      <4>1. AtPlace(k, p, i) /\ IsGrant(k)
        BY <1>2, <2>5, <3>1
      <4>. QED  BY <1>2, <2>5, <3>1, <4>1, OneHeld
    <3>3. Undoes(q) => /\ Past(Id(q), i + 1) = Past(Id(q), i) \cup {p}
                       /\ p \notin Past(Id(q), i)
      <4>1. ASSUME Undoes(q) PROVE i \in 0 .. Steps(Id(q)) - 1 /\ p = Back(Hop(Id(q))[i])
        <5>1. Steps(Id(q)) \in Nat
          BY <1>6, Ways
        <5>. QED  BY <3>1, <4>1, <5>1 DEF AtPlace, Place, Undoes
      <4>. QED  BY <1>6, <4>1, PastFacts
    <3>4. CASE Undoes(q)
      <4>1. \/ a = p /\ a \notin Past(Id(q), i) /\ a \in Past(Id(q), i + 1)
            \/ a # p /\ (a \in Past(Id(q), i) <=> a \in Past(Id(q), i + 1))
        BY <3>3, <3>4
      <4>. HIDE DEF S, x, y
      <4>2. x - y = IF a = p /\ Id(q) \in G THEN 1 ELSE 0
        BY <3>2, <3>4, <4>1
      <4>3. x \in Nat /\ y \in Nat
        BY <3>2
      <4>4. InNet(S)' = InNet(S) - (x - y)
        BY <2>2, <2>3, <2>5, <4>3
      <4>. QED  BY <3>4, <4>2, <4>4 DEF S
    <3>5. CASE ~Undoes(q)
      <4>. HIDE DEF S, x, y
      <4>1. x = y /\ x \in Nat
        BY <3>2, <3>5
      <4>2. InNet(S)' = InNet(S)
        BY <2>2, <2>3, <2>5, <4>1
      <4>. QED  BY <2>2, <3>5, <4>2 DEF S
    <3>. QED  BY <3>4, <3>5
  <2>. QED  BY <2>4, <2>5
<1>. QED  BY <1>1, <1>5, <1>6, <1>7

\* A grant starts at the first link of its way, where no port counts it.
LEMMA SendHolds ==
  ASSUME SymmetricRoutes, Typed, OnWay, NEW h \in Host, NEW k \in Packet,
         Send(h, k), UNCHANGED queueVars, ~k.just,
         IsGrant(k) => k.kind = "GRANT" /\ h = Rcv[k.flow]
  PROVE  /\ OnWay'
         /\ \A a \in Port : \A G \in SUBSET Grants :
              InNet(HoldSets(a, G))' = InNet(HoldSets(a, G))
<1> DEFINE l == Uplink(h)
<1>1. l \in Link /\ Joins(wire, wire', l, k) /\ ctl' = ctl
  BY HostLinks DEF Send, Joins, queueVars
<1>2. ASSUME IsGrant(k) PROVE AtPlace(k, l, 0) /\ Past(Id(k), 0) = {}
  <2>1. Id(k) \in Grants /\ Id(k)[1] = k.flow
    BY IdIsGrant
  <2>2. Steps(Id(k)) \in Nat /\ Steps(Id(k)) > 0 /\ Hop(Id(k))[0] = Uplink(Rcv[k.flow])
    BY <2>1, Ways
  <2>3. Past(Id(k), 0) = {}
    BY <2>1, PastFacts
  <2>. QED  BY <1>2, <2>2, <2>3 DEF AtPlace, Place
<1>3. wire \in [Link -> Seq(Packet)]
  BY DEF Typed
<1>. HIDE DEF l
<1>4. OnWay'
  <2>1. ASSUME NEW x \in Link, NEW e \in In(wire'[x])
        PROVE  ~e.just /\ (IsGrant(e) => \E i \in Nat : AtPlace(e, x, i))
    <3>1. e \in In(wire[x]) \/ (x = l /\ e = k)
      BY <1>1, <1>3, <2>1, JoinsElements
    <3>. QED  BY <1>2, <3>1 DEF OnWay
  <2>. QED  BY <1>1, <2>1 DEF OnWay
<1>5. ASSUME NEW a \in Port, NEW G \in SUBSET Grants
      PROVE  InNet(HoldSets(a, G))' = InNet(HoldSets(a, G))
  <2> DEFINE S == HoldSets(a, G)
  <2>1. S.wire[l] = Holding(a, G, l, FALSE)
    BY <1>1, HoldPlaces
  <2>2. One(k, Holding(a, G, l, FALSE)) = 0
    BY <1>2, OneHeld
  <2>3. InNet(S)' = InNet(S) + One(k, S.wire[l]) /\ InNet(S) \in Nat
    <3>. HIDE DEF S
    <3>. QED  BY SendCounts, NetworkCounts DEF l
  <2>4. InNet(S)' = InNet(S)
    <3>1. InNet(S)' = InNet(S) + 0
      BY <2>1, <2>2, <2>3
    <3>. HIDE DEF S
    <3>. QED  BY <2>3, <3>1
  <2>. QED  BY <2>4
<1>. QED  BY <1>4, <1>5

\* A grant reaches its sender past all ports of its route, and its receiver,
\* when it bounced, past none.
LEMMA ReceiveHolds ==
  ASSUME SymmetricRoutes, Typed, OnWay, NEW h \in Host, HostReceive(h)
  PROVE  /\ OnWay'
         /\ \/ /\ UNCHANGED accepted
               /\ \A a \in Port : \A G \in SUBSET Grants :
                    InNet(HoldSets(a, G))' = InNet(HoldSets(a, G))
            \/ \E g \in Grants :
                 /\ accepted' = [accepted EXCEPT ![g] = @ + 1]
                 /\ \A a \in Port : \A G \in SUBSET Grants :
                      InNet(HoldSets(a, G))'
                        = InNet(HoldSets(a, G))
                          - (IF <<a, g>> \in Route /\ g \in G THEN 1 ELSE 0)
<1> DEFINE l == Downlink(h)
           k == Head(wire[l])
<1>1. /\ l \in Link /\ wire[l] # <<>> /\ k \in Packet /\ Leaves(wire, wire', l)
      /\ \A S : InNet(S)' = InNet(S) - One(k, S.wire[l])
  BY HostReceiveCounts
<1>2. l[2] = h /\ ctl' = ctl
  BY HostLinks DEF HostReceive, Elsewhere, queueVars
<1>3. IF k.kind = "GRANT" THEN accepted' = [accepted EXCEPT ![Id(k)] = @ + 1]
      ELSE accepted' = accepted
  BY DEF HostReceive, Id
<1>4. wire \in [Link -> Seq(Packet)]
  BY DEF Typed
<1>. HIDE DEF l
<1>5. k \in In(wire[l]) /\ \A x \in Link : In(wire'[x]) \subseteq In(wire[x])
  BY <1>1, <1>4, LeavesElements
<1>. HIDE DEF k
<1>6. OnWay'
  BY <1>2, <1>5 DEF OnWay
<1>7. Id(k) \in Grants
  BY <1>1, IdIsGrant
<1>8. ASSUME NEW a \in Port, NEW G \in SUBSET Grants
      PROVE  InNet(HoldSets(a, G))' = InNet(HoldSets(a, G)) - One(k, Holding(a, G, l, FALSE))
  BY <1>1, HoldPlaces
<1>9. ASSUME NEW a \in Port, NEW G \in SUBSET Grants, One(k, Holding(a, G, l, FALSE)) = 0
      PROVE  InNet(HoldSets(a, G))' = InNet(HoldSets(a, G))
  <2> DEFINE S == HoldSets(a, G)
  <2>1. InNet(S)' = InNet(S) - 0 /\ InNet(S) \in Nat
    BY <1>8, <1>9, NetworkCounts
  <2>2. InNet(S)' = InNet(S)
    <3>. HIDE DEF S
    <3>. QED  BY <2>1
  <2>. QED  BY <2>2
<1>10. CASE ~IsGrant(k)
  <2>1. accepted' = accepted
    BY <1>3, <1>10 DEF IsGrant
  <2>2. ASSUME NEW a \in Port, NEW G \in SUBSET Grants
        PROVE  InNet(HoldSets(a, G))' = InNet(HoldSets(a, G))
    <3>1. One(k, Holding(a, G, l, FALSE)) = 0
      BY <1>1, <1>10, OneHeld
    <3>. QED  BY <1>9, <3>1
  <2>. QED  BY <1>6, <2>1, <2>2
<1>11. CASE IsGrant(k)
  <2> DEFINE g == Id(k)
             n == Steps(g)
             H == Hop(g)
  <2>1. PICK i \in Nat : AtPlace(k, l, i)
    BY <1>1, <1>5, <1>11 DEF OnWay
  <2>2. /\ n \in Nat /\ n > 0
        /\ \A j \in 0 .. n - 1 : H[j][2] \in Switch /\ H[j + 1][1] = H[j][2]
        /\ \A j \in 0 .. n : H[j] \in Link
    BY <1>7, Ways
  <2>3. h \notin Switch
    BY NetworkAssumption
  <2>4. /\ i \in 0 .. n /\ l = IF k.kind = "GRANT" THEN H[i] ELSE Back(H[i])
        /\ k.kind = "BOUNCED" => i < n
    BY <2>1 DEF AtPlace, Place
  <2>. HIDE DEF n, H
  <2>5. ASSUME NEW a \in Port, NEW G \in SUBSET Grants
        PROVE  One(k, Holding(a, G, l, FALSE)) = IF g \in G /\ a \in Past(g, i) THEN 1 ELSE 0
    BY <1>1, <1>11, <2>1, OneHeld
  <2>6. CASE k.kind = "GRANT"
    <3>1. i = n
      BY <1>2, <2>2, <2>3, <2>4, <2>6
    <3>2. accepted' = [accepted EXCEPT ![g] = @ + 1]
      BY <1>3, <2>6
    <3>3. ASSUME NEW a \in Port, NEW G \in SUBSET Grants
          PROVE  InNet(HoldSets(a, G))'
                   = InNet(HoldSets(a, G))
                     - (IF <<a, g>> \in Route /\ g \in G THEN 1 ELSE 0)
      <4>1. <<a, g>> \in Route <=> a \in Past(g, n)
        BY <1>7, RouteIsPast DEF n
      <4>. HIDE DEF g
      <4>. QED  BY <1>8, <2>5, <3>1, <4>1
    <3>. QED  BY <1>6, <1>7, <3>2, <3>3
  <2>7. CASE k.kind = "BOUNCED"
    <3>1. i = 0
      <4>1. ASSUME i # 0 PROVE FALSE
        <5>1. i - 1 \in 0 .. n - 1 /\ (i - 1) + 1 = i /\ H[i] \in Link
          BY <2>2, <2>4, <4>1
        <5>2. H[i][1] \in Switch /\ H[(i - 1) + 1][1] = H[i - 1][2]
          BY <2>2, <5>1
        <5>3. Back(H[i])[2] = H[i][1]
          BY <5>1, LinkPair
        <5>. QED  BY <1>2, <2>3, <2>4, <2>7, <5>2, <5>3
      <4>. QED  BY <4>1
    <3>2. Past(g, i) = {}
      BY <1>7, <3>1, PastFacts
    <3>3. accepted' = accepted
      BY <1>3, <2>7
    <3>4. ASSUME NEW a \in Port, NEW G \in SUBSET Grants
          PROVE  InNet(HoldSets(a, G))' = InNet(HoldSets(a, G))
      <4>1. One(k, Holding(a, G, l, FALSE)) = 0
        BY <2>5, <3>2
      <4>. QED  BY <1>9, <4>1
    <3>. QED  BY <1>6, <3>3, <3>4
  <2>. QED  BY <1>11, <2>6, <2>7 DEF IsGrant
<1>. QED  BY <1>10, <1>11

(***************************************************************************)
(* What a port holds: the grants that passed it and reached their sender,   *)
(* and those that are still between it and either end of their way.         *)
(***************************************************************************)

AcceptedPast(p) == [g \in Grants |-> IF <<p, g>> \in Route THEN accepted[g] ELSE 0]

HeldLedger ==
  /\ held \in [Port -> [Grants -> Int]]
  /\ \A p \in Port : \A G \in SUBSET Grants :
       SumFunctionOnSet(held[p], G)
         = SumFunctionOnSet(AcceptedPast(p), G) + InNet(HoldSets(p, G))

LEMMA AcceptedPastNat ==
  ASSUME Counters, NEW p
  PROVE  /\ AcceptedPast(p) \in [Grants -> Nat]
         /\ \A G \in SUBSET Grants : SumFunctionOnSet(AcceptedPast(p), G) \in Nat
<1>1. AcceptedPast(p) \in [Grants -> Nat]
  BY DEF AcceptedPast, Counters
<1>2. ASSUME NEW G \in SUBSET Grants PROVE SumFunctionOnSet(AcceptedPast(p), G) \in Nat
  <2>1. IsFiniteSet(G) /\ \A x \in G : AcceptedPast(p)[x] \in Nat
    BY <1>1, Finite, FS_Subset
  <2>. QED  BY <2>1, SumNat
<1>. QED  BY <1>1, <1>2

LEMMA InitHolds == Init => OnWay /\ HeldLedger
<1> SUFFICES ASSUME Init PROVE OnWay /\ HeldLedger
  OBVIOUS
<1>1. OnWay
  BY DEF Init, OnWay, In
<1>2. held \in [Port -> [Grants -> Int]]
  BY DEF Init
<1>3. ASSUME NEW p \in Port, NEW G \in SUBSET Grants
      PROVE  /\ SumFunctionOnSet(held[p], G) = 0
             /\ SumFunctionOnSet(AcceptedPast(p), G) = 0
             /\ InNet(HoldSets(p, G)) = 0
  <2>1. IsFiniteSet(G) /\ \A g \in G : held[p][g] = 0 /\ AcceptedPast(p)[g] = 0
    BY Finite, FS_Subset DEF Init, AcceptedPast
  <2>2. SumFunctionOnSet(held[p], G) = 0
    BY <2>1, SumZero
  <2>3. SumFunctionOnSet(AcceptedPast(p), G) = 0
    BY <2>1, SumZero
  <2>. QED  BY <2>2, <2>3, InitEmpty
<1>. QED  BY <1>1, <1>2, <1>3 DEF HeldLedger

\* A port counts a grant, or gives one back.
Adds(p, g, c) == held' = [held EXCEPT ![p][g] = @ + c]

LEMMA HeldSums ==
  ASSUME held \in [Port -> [Grants -> Int]], NEW p \in Port, NEW g \in Grants, NEW c \in Int,
         Adds(p, g, c), NEW a \in Port, NEW G \in SUBSET Grants
  PROVE  /\ SumFunctionOnSet(held[a], G) \in Int
         /\ SumFunctionOnSet(held'[a], G)
              = SumFunctionOnSet(held[a], G) + (IF a = p /\ g \in G THEN c ELSE 0)
<1> DEFINE A == held[a]
           B == held'[a]
           hit == a = p /\ g \in G
<1>1. /\ IsFiniteSet(G) /\ \A x \in G : A[x] \in Int /\ B[x] \in Int
      /\ hit => g \in G /\ A[g] \in Int /\ B[g] = A[g] + c
      /\ hit => \A x \in G \ {g} : B[x] = A[x]
      /\ ~hit => \A x \in G : B[x] = A[x]
  BY Finite, FS_Subset DEF Adds
<1>2. /\ SumFunctionOnSet(A, G) \in Int
      /\ SumFunctionOnSet(B, G) = SumFunctionOnSet(A, G) + (IF hit THEN c ELSE 0)
  <2>. HIDE DEF A, B, hit
  <2>1. SumFunctionOnSet(A, G) \in Int
    BY <1>1, SumInt
  <2>2. CASE hit
    <3>1. SumFunctionOnSet(B, G) = SumFunctionOnSet(A, G) + B[g] - A[g]
      BY <1>1, <2>2, SumUpdate
    <3>. QED  BY <1>1, <2>1, <2>2, <3>1
  <2>3. CASE ~hit
    <3>1. SumFunctionOnSet(B, G) = SumFunctionOnSet(A, G)
      BY <1>1, <2>3, SumCongruent
    <3>. QED  BY <2>1, <2>3, <3>1
  <2>. QED  BY <2>1, <2>2, <2>3
<1>. QED  BY <1>2

LEMMA HeldMoves ==
  ASSUME Typed, Counters, HeldLedger, UNCHANGED accepted,
         NEW p \in Port, NEW g \in Grants, NEW c \in Int,
         Adds(p, g, c),
         \A a \in Port : \A G \in SUBSET Grants :
           InNet(HoldSets(a, G))'
             = InNet(HoldSets(a, G)) + (IF a = p /\ g \in G THEN c ELSE 0)
  PROVE  HeldLedger'
<1>1. held' \in [Port -> [Grants -> Int]] /\ held \in [Port -> [Grants -> Int]]
  BY DEF HeldLedger, Adds
<1>2. ASSUME NEW a \in Port, NEW G \in SUBSET Grants
      PROVE  SumFunctionOnSet(held'[a], G)
               = SumFunctionOnSet(AcceptedPast(a), G)' + InNet(HoldSets(a, G))'
  <2>1. SumFunctionOnSet(held'[a], G)
          = SumFunctionOnSet(held[a], G) + (IF a = p /\ g \in G THEN c ELSE 0)
    BY <1>1, HeldSums
  <2>2. AcceptedPast(a)' = AcceptedPast(a)
    BY DEF AcceptedPast
  <2>3. SumFunctionOnSet(held[a], G)
          = SumFunctionOnSet(AcceptedPast(a), G) + InNet(HoldSets(a, G))
    BY DEF HeldLedger
  <2>4. /\ SumFunctionOnSet(AcceptedPast(a), G) \in Nat
        /\ InNet(HoldSets(a, G)) \in Nat
    BY AcceptedPastNat, NetworkCounts
  <2>5. InNet(HoldSets(a, G))'
          = InNet(HoldSets(a, G)) + (IF a = p /\ g \in G THEN c ELSE 0)
    OBVIOUS
  <2>. QED  BY <2>1, <2>2, <2>3, <2>4, <2>5
<1>. QED  BY <1>1, <1>2 DEF HeldLedger

\* A grant reaches its sender.
LEMMA HeldDelivered ==
  ASSUME Typed, Counters, HeldLedger, UNCHANGED held,
         NEW g \in Grants, accepted' = [accepted EXCEPT ![g] = @ + 1],
         \A a \in Port : \A G \in SUBSET Grants :
           InNet(HoldSets(a, G))'
             = InNet(HoldSets(a, G)) - (IF <<a, g>> \in Route /\ g \in G THEN 1 ELSE 0)
  PROVE  HeldLedger'
<1>1. /\ accepted \in [Grants -> Nat] /\ accepted'[g] = accepted[g] + 1
      /\ accepted' \in [Grants -> Nat]
      /\ \A x \in Grants \ {g} : accepted'[x] = accepted[x]
  BY DEF Counters
<1>2. ASSUME NEW a \in Port, NEW G \in SUBSET Grants
      PROVE  SumFunctionOnSet(held[a], G)
               = SumFunctionOnSet(AcceptedPast(a), G)' + InNet(HoldSets(a, G))'
  <2> DEFINE A == AcceptedPast(a)
             B == [x \in Grants |-> IF <<a, x>> \in Route THEN accepted'[x] ELSE 0]
             c == IF <<a, g>> \in Route THEN 1 ELSE 0
  <2>1. AcceptedPast(a)' = B
    BY DEF AcceptedPast
  <2>2. /\ A \in [Grants -> Nat] /\ B \in [Grants -> Nat] /\ B[g] = A[g] + c
        /\ \A x \in Grants \ {g} : B[x] = A[x]
    BY <1>1 DEF AcceptedPast
  <2>3. c \in {0, 1}
    OBVIOUS
  <2>4. InNet(HoldSets(a, G))' = InNet(HoldSets(a, G)) - (IF g \in G THEN c ELSE 0)
    OBVIOUS
  <2>5. SumFunctionOnSet(held[a], G) = SumFunctionOnSet(A, G) + InNet(HoldSets(a, G))
    BY DEF HeldLedger
  <2>6. SumFunctionOnSet(A, G) \in Nat /\ InNet(HoldSets(a, G)) \in Nat
    BY AcceptedPastNat, NetworkCounts
  <2>. HIDE DEF A, B, c
  <2>7. IsFiniteSet(G) /\ \A x \in G : A[x] \in Int /\ B[x] \in Int
    BY <2>2, Finite, FS_Subset
  <2>8. SumFunctionOnSet(B, G) = SumFunctionOnSet(A, G) + (IF g \in G THEN c ELSE 0)
    <3>1. CASE g \in G
      <4>1. SumFunctionOnSet(B, G) = SumFunctionOnSet(A, G) + B[g] - A[g]
        BY <2>2, <2>7, <3>1, SumUpdate
      <4>. QED  BY <2>2, <2>3, <2>6, <3>1, <4>1
    <3>2. CASE g \notin G
      <4>1. SumFunctionOnSet(B, G) = SumFunctionOnSet(A, G)
        BY <2>2, <2>7, <3>2, SumCongruent
      <4>. QED  BY <2>6, <3>2, <4>1
    <3>. QED  BY <3>1, <3>2
  <2>9. SumFunctionOnSet(AcceptedPast(a), G)' = SumFunctionOnSet(B, G)
    BY <2>1
  <2>. QED  BY <2>3, <2>4, <2>5, <2>6, <2>8, <2>9
<1>. QED  BY <1>2 DEF HeldLedger

LEMMA HeldSame ==
  ASSUME HeldLedger, UNCHANGED <<accepted, held>>,
         \A a \in Port : \A G \in SUBSET Grants :
           InNet(HoldSets(a, G))' = InNet(HoldSets(a, G))
  PROVE  HeldLedger'
<1>1. \A a : AcceptedPast(a)' = AcceptedPast(a)
  BY DEF AcceptedPast
<1>. QED  BY <1>1 DEF HeldLedger

LEMMA NextHolds ==
  ASSUME SymmetricRoutes, CreditPlaces, IInv, Sized, Books, OnWay, HeldLedger, [Next]_vars
  PROVE  OnWay' /\ HeldLedger'
<1>0. Typed /\ Counters
  BY DEF IInv, Books
<1>1. ASSUME NEW p \in Port, SwitchReceiveFromDevice(p[1], p[2])
      PROVE  OnWay' /\ HeldLedger'
  <2>1. /\ OnWay' /\ UNCHANGED accepted
        /\ \/ /\ UNCHANGED held
              /\ \A a \in Port : \A G \in SUBSET Grants :
                   InNet(HoldSets(a, G))' = InNet(HoldSets(a, G))
           \/ \E g \in Grants :
                /\ held' = [held EXCEPT ![p][g] = @ + 1]
                /\ \A a \in Port : \A G \in SUBSET Grants :
                     InNet(HoldSets(a, G))'
                       = InNet(HoldSets(a, G)) + (IF a = p /\ g \in G THEN 1 ELSE 0)
    BY <1>0, <1>1, SwitchHolds
  <2>2. \A g : held' = [held EXCEPT ![p][g] = @ + 1] => Adds(p, g, 1)
    BY DEF Adds
  <2>. QED  BY <1>0, <2>1, <2>2, HeldSame, HeldMoves
<1>2. ASSUME NEW p \in Port, TransmitCredit(p) \/ TransmitData(p)
      PROVE  OnWay' /\ HeldLedger'
  <2>1. OnWay' /\ UNCHANGED accepted
    BY <1>0, <1>2, TransmitHolds
  <2>2. PICK q \in Packet :
          /\ UpdateCBPortState(p, q) /\ Id(q) \in Grants
          /\ \A a \in Port : \A G \in SUBSET Grants :
               InNet(HoldSets(a, G))'
                 = InNet(HoldSets(a, G))
                   - (IF Undoes(q) /\ a = p /\ Id(q) \in G THEN 1 ELSE 0)
    BY <1>0, <1>2, TransmitHolds
  <2>3. \A a \in Port : \A G \in SUBSET Grants : InNet(HoldSets(a, G)) \in Nat
    BY <1>0, NetworkCounts
  <2>4. CASE Undoes(q)
    <3>1. held' = [held EXCEPT ![p][Id(q)] = @ - 1]
      BY <2>2, <2>4 DEF UpdateCBPortState, Id
    <3>0. PICK c \in Int : c = -1
      OBVIOUS
    <3>2. Adds(p, Id(q), c)
      BY <2>2, <3>0, <3>1 DEF HeldLedger, Adds
    <3>3. ASSUME NEW a \in Port, NEW G \in SUBSET Grants
          PROVE  InNet(HoldSets(a, G))'
                   = InNet(HoldSets(a, G)) + (IF a = p /\ Id(q) \in G THEN c ELSE 0)
      <4> DEFINE S == HoldSets(a, G)
      <4>1. /\ InNet(S)' = InNet(S) - (IF a = p /\ Id(q) \in G THEN 1 ELSE 0)
            /\ InNet(S) \in Nat
        BY <2>2, <2>3, <2>4
      <4>2. InNet(S)' = InNet(S) + (IF a = p /\ Id(q) \in G THEN c ELSE 0)
        <5>. HIDE DEF S
        <5>. QED  BY <3>0, <4>1
      <4>. QED  BY <4>2
    <3>. QED  BY <1>0, <2>1, <2>2, <3>2, <3>3, HeldMoves
  <2>5. CASE ~Undoes(q)
    <3>1. held' = held
      BY <2>2, <2>5 DEF UpdateCBPortState
    <3>2. ASSUME NEW a \in Port, NEW G \in SUBSET Grants
          PROVE  InNet(HoldSets(a, G))' = InNet(HoldSets(a, G))
      <4> DEFINE S == HoldSets(a, G)
      <4>1. InNet(S)' = InNet(S) - 0 /\ InNet(S) \in Nat
        BY <2>2, <2>3, <2>5
      <4>2. InNet(S)' = InNet(S)
        <5>. HIDE DEF S
        <5>. QED  BY <4>1
      <4>. QED  BY <4>2
    <3>. QED  BY <2>1, <3>1, <3>2, HeldSame
  <2>. QED  BY <2>4, <2>5
<1>3. ASSUME NEW h \in Host, NEW k \in Packet, Send(h, k), UNCHANGED queueVars, ~k.just,
             IsGrant(k) => k.kind = "GRANT" /\ h = Rcv[k.flow], UNCHANGED <<held, accepted>>
      PROVE  OnWay' /\ HeldLedger'
  BY <1>0, <1>3, SendHolds, HeldSame
<1>4. ASSUME NEW f \in Flow, SendGrant(f) \/ SendData(f)
      PROVE  OnWay' /\ HeldLedger'
  <2>1. granted[f] \in Int /\ next[f] \in Int /\ Rcv[f] \in Host /\ Snd[f] \in Host
    BY <1>0, NetworkAssumption DEF Typed
  <2>2. Pkt("GRANT", f, granted[f]) \in Packet /\ Pkt("SCHEDULED", f, next[f]) \in Packet
    BY <2>1, PktType DEF Kind, Data
  <2>3. /\ Pkt("GRANT", f, granted[f]).kind = "GRANT" /\ ~Pkt("GRANT", f, granted[f]).just
        /\ Pkt("GRANT", f, granted[f]).flow = f
        /\ ~IsGrant(Pkt("SCHEDULED", f, next[f])) /\ ~Pkt("SCHEDULED", f, next[f]).just
    BY DEF Pkt, IsGrant
  <2>4. UNCHANGED queueVars /\ UNCHANGED <<held, accepted>>
    BY <1>4 DEF SendGrant, SendData, Elsewhere
  <2>5. Send(Rcv[f], Pkt("GRANT", f, granted[f])) \/ Send(Snd[f], Pkt("SCHEDULED", f, next[f]))
    BY <1>4 DEF SendGrant, SendData
  <2>. QED  BY <1>3, <2>1, <2>2, <2>3, <2>4, <2>5
<1>5. ASSUME NEW pkt \in extras, SendExtra(pkt)
      PROVE  OnWay' /\ HeldLedger'
  <2>1. /\ pkt \in Packet /\ ~pkt.just /\ ~IsGrant(pkt)
        /\ Rcv[pkt.flow] \in Host /\ Snd[pkt.flow] \in Host
    BY ExtraKinds, NetworkAssumption
  <2>2. UNCHANGED queueVars /\ UNCHANGED <<held, accepted>>
    BY <1>5 DEF SendExtra, Elsewhere
  <2>3. Send(Rcv[pkt.flow], pkt) \/ Send(Snd[pkt.flow], pkt)
    BY <1>5 DEF SendExtra
  <2>. QED  BY <1>3, <2>1, <2>2, <2>3
<1>6. ASSUME NEW h \in Host, HostReceive(h)
      PROVE  OnWay' /\ HeldLedger'
  <2>1. UNCHANGED held
    BY <1>6 DEF HostReceive, Elsewhere
  <2>. QED  BY <1>0, <1>6, <2>1, ReceiveHolds, HeldSame, HeldDelivered
<1>7. CASE UNCHANGED vars
  <2>1. wire' = wire /\ ctl' = ctl /\ dat' = dat /\ UNCHANGED <<held, accepted>>
    BY <1>7 DEF vars, queueVars
  <2>2. OnWay'
    BY <2>1 DEF OnWay
  <2>3. \A S : InNet(S)' = InNet(S)
    BY <2>1 DEF InNet
  <2>. QED  BY <2>1, <2>2, <2>3, HeldSame
<1>. QED  BY <1>1, <1>2, <1>4, <1>5, <1>6, <1>7 DEF Next

\* No grant under way, none counted for one.
LEMMA QuietHolds ==
  ASSUME Typed, Quiet, NEW p, NEW G
  PROVE  InNet(HoldSets(p, G)) = 0
<1> DEFINE S == HoldSets(p, G)
<1>1. /\ wire \in [Link -> Seq(Packet)] /\ ctl \in [Port -> Seq(Packet)]
      /\ dat \in [Port -> Seq(Packet)]
  BY DEF Typed
<1>2. /\ \A l \in Link : \A i \in 1 .. Len(wire[l]) : wire[l][i] \notin S.wire[l]
      /\ \A x \in Port : \A i \in 1 .. Len(ctl[x]) : ctl[x][i] \notin S.ctl[x]
      /\ \A x \in Port : \A i \in 1 .. Len(dat[x]) : dat[x][i] \notin S.dat[x]
  <2>1. /\ \A l \in Link : DOMAIN wire[l] = 1 .. Len(wire[l])
        /\ \A x \in Port : DOMAIN ctl[x] = 1 .. Len(ctl[x])
    BY <1>1
  <2>. QED  BY <2>1, HoldPlaces DEF Quiet, Holding
<1>. HIDE DEF S
<1>3. TotalAt(S.wire, wire, Link) = 0
  BY <1>1, <1>2, Finite, TotalAtZero
<1>4. TotalAt(S.ctl, ctl, Port) = 0
  BY <1>1, <1>2, Finite, TotalAtZero
<1>5. TotalAt(S.dat, dat, Port) = 0
  BY <1>1, <1>2, Finite, TotalAtZero
<1>6. InNet(S) = 0
  BY <1>3, <1>4, <1>5 DEF InNet
<1>. QED  BY <1>6 DEF S

\* The ledger for a single grant.
LEMMA HeldAlone ==
  ASSUME Typed, Counters, HeldLedger, NEW p \in Port, NEW g \in Grants
  PROVE  /\ held[p][g] = AcceptedPast(p)[g] + InNet(HoldSets(p, {g}))
         /\ held[p][g] \in Nat
<1>1. ASSUME NEW f \in [Grants -> Int]
      PROVE  SumFunctionOnSet(f, {g}) = f[g]
  <2>1. IsFiniteSet({g}) /\ g \in {g} /\ {g} \ {g} = {} /\ \A x \in {g} : f[x] \in Int
    BY FS_Singleton
  <2>2. SumFunctionOnSet(f, {g}) = f[g] + SumFunctionOnSet(f, {g} \ {g})
    BY <2>1, SumElement
  <2>. QED  BY <2>1, <2>2, SumEmpty
<1>2. /\ held[p] \in [Grants -> Int] /\ AcceptedPast(p) \in [Grants -> Nat]
      /\ InNet(HoldSets(p, {g})) \in Nat
  BY AcceptedPastNat, NetworkCounts DEF HeldLedger
<1>3. SumFunctionOnSet(held[p], {g})
        = SumFunctionOnSet(AcceptedPast(p), {g}) + InNet(HoldSets(p, {g}))
  BY DEF HeldLedger
<1>4. SumFunctionOnSet(held[p], {g}) = held[p][g]
  BY <1>1, <1>2
<1>5. SumFunctionOnSet(AcceptedPast(p), {g}) = AcceptedPast(p)[g]
  <2>1. AcceptedPast(p) \in [Grants -> Int]
    BY <1>2
  <2>. QED  BY <1>1, <2>1
<1>. QED  BY <1>2, <1>3, <1>4, <1>5

\* Where every packet is, what the hosts and the ports know of it.
Ledgers == IInv /\ Sized /\ Books /\ OnWay /\ HeldLedger

LEMMA LedgersInvariant ==
  ASSUME SymmetricRoutes, CreditPlaces
  PROVE  Spec => []Ledgers
<1>1. Init => Ledgers
  BY InitKeeps, InitSized, InitBooks, InitHolds DEF Ledgers
<1>2. Ledgers /\ [Next]_vars => Ledgers'
  <2> SUFFICES ASSUME Ledgers, [Next]_vars PROVE Ledgers'
    OBVIOUS
  <2>1. IInv /\ Sized /\ Books /\ OnWay /\ HeldLedger
    BY DEF Ledgers
  <2>2. IInv' /\ Sized' /\ Books' /\ OnWay' /\ HeldLedger'
    BY <2>1, NextKeeps, NextSized, NextBooks, NextHolds
  <2>. QED  BY <2>2 DEF Ledgers
<1>. QED  BY <1>1, <1>2, PTL DEF Spec

\* Two switches never agree on a bounce: each takes a BOUNCED grant off the
\* account of the port it leaves by (Undoes), on its own.  With symmetric
\* routes that is every account its GRANT was put on, and no other, wherever
\* it was turned round and whatever was sent in between.
THEOREM BouncesUndoEveryHop ==
  ASSUME SymmetricRoutes, CreditPlaces
  PROVE  Spec => []BounceUndoesEveryHop
<1>1. Ledgers => BounceUndoesEveryHop
  <2> SUFFICES ASSUME Ledgers, Quiet, NEW p \in Port, NEW g \in Grants
               PROVE  held[p][g] = IF <<p, g>> \in Route THEN accepted[g] ELSE 0
    BY DEF BounceUndoesEveryHop
  <2>1. Typed /\ Counters /\ HeldLedger
    BY DEF Ledgers, IInv, Books
  <2>2. held[p][g] = AcceptedPast(p)[g] + 0
    BY <2>1, HeldAlone, QuietHolds
  <2>3. AcceptedPast(p)[g] \in Nat
    BY <2>1, AcceptedPastNat
  <2>4. held[p][g] = AcceptedPast(p)[g]
    BY <2>2, <2>3
  <2>. QED  BY <2>4 DEF AcceptedPast
<1>. QED  BY <1>1, LedgersInvariant, PTL

(***************************************************************************)
(* Phantom queues.                                                          *)
(***************************************************************************)

\* No port ever counts more grants than there are packets to grant.
HeldTotals ==
  \A p \in Port : /\ SumFunctionOnSet(held[p], Grants) \in Nat
                  /\ SumFunctionOnSet(held[p], Grants) <= SumFunctionOnSet(Chunks, Flow)

LEMMA GrantTotals ==
  ASSUME Counters, FlowLedger
  PROVE  /\ SumFunctionOnSet(Chunks, Flow) \in Nat
         /\ SumFunctionOnSet(granted, Flow) <= SumFunctionOnSet(Chunks, Flow)
<1>1. \A f \in Flow : granted[f] \in Nat /\ Chunks[f] \in Nat /\ granted[f] <= Chunks[f]
  BY NetworkAssumption DEF Counters, FlowLedger
<1>2. SumFunctionOnSet(Chunks, Flow) \in Nat
  BY <1>1, Finite, SumNat
<1>3. SumFunctionOnSet(granted, Flow) <= SumFunctionOnSet(Chunks, Flow)
  BY <1>1, Finite, SumMonotone
<1>. QED  BY <1>2, <1>3

LEMMA LedgersBoundHeld == Ledgers => HeldTotals
<1> SUFFICES ASSUME Ledgers, NEW p \in Port
             PROVE  /\ SumFunctionOnSet(held[p], Grants) \in Nat
                    /\ SumFunctionOnSet(held[p], Grants) <= SumFunctionOnSet(Chunks, Flow)
  BY DEF HeldTotals
<1>1. Typed /\ Counters /\ FlowLedger /\ GrantLedger /\ HeldLedger
  BY DEF Ledgers, IInv, Books
<1> DEFINE S == HoldSets(p, Grants)
           A == AcceptedPast(p)
           T == Everywhere(AllGrants)
<1>2. /\ SumFunctionOnSet(held[p], Grants) = SumFunctionOnSet(A, Grants) + InNet(S)
      /\ SumFunctionOnSet(A, Grants) \in Nat /\ InNet(S) \in Nat /\ InNet(T) \in Nat
  BY <1>1, AcceptedPastNat, NetworkCounts DEF HeldLedger
<1>3. SumFunctionOnSet(A, Grants) <= SumFunctionOnSet(accepted, Grants)
  <2>1. \A g \in Grants : A[g] \in Int /\ accepted[g] \in Int /\ A[g] <= accepted[g]
    BY <1>1 DEF AcceptedPast, Counters
  <2>. HIDE DEF A
  <2>. QED  BY <2>1, Finite, SumMonotone
<1>4. InNet(S) <= InNet(T)
  <2>1. /\ \A l \in Link : S.wire[l] \subseteq T.wire[l]
        /\ \A x \in Port : S.ctl[x] \subseteq T.ctl[x] /\ S.dat[x] \subseteq T.dat[x]
    BY DEF HoldSets, Holding, Everywhere, AllGrants
  <2>2. /\ wire \in [Link -> Seq(Packet)] /\ ctl \in [Port -> Seq(Packet)]
        /\ dat \in [Port -> Seq(Packet)]
    BY <1>1 DEF Typed
  <2>. HIDE DEF S, T
  <2>3. TotalAt(S.wire, wire, Link) <= TotalAt(T.wire, wire, Link)
    BY <2>1, <2>2, Finite, TotalAtMonotone
  <2>4. TotalAt(S.ctl, ctl, Port) <= TotalAt(T.ctl, ctl, Port)
    BY <2>1, <2>2, Finite, TotalAtMonotone
  <2>5. TotalAt(S.dat, dat, Port) <= TotalAt(T.dat, dat, Port)
    BY <2>1, <2>2, Finite, TotalAtMonotone
  <2>6. /\ TotalAt(S.wire, wire, Link) \in Nat /\ TotalAt(T.wire, wire, Link) \in Nat
        /\ TotalAt(S.ctl, ctl, Port) \in Nat /\ TotalAt(T.ctl, ctl, Port) \in Nat
        /\ TotalAt(S.dat, dat, Port) \in Nat /\ TotalAt(T.dat, dat, Port) \in Nat
    BY <1>1, NetworkCounts
  <2>. QED  BY <2>3, <2>4, <2>5, <2>6 DEF InNet
<1>5. InNet(T) + SumFunctionOnSet(accepted, Grants) <= SumFunctionOnSet(granted, Flow)
  BY <1>1 DEF GrantLedger
<1>6. /\ SumFunctionOnSet(accepted, Grants) \in Nat /\ SumFunctionOnSet(granted, Flow) \in Nat
      /\ SumFunctionOnSet(Chunks, Flow) \in Nat
      /\ SumFunctionOnSet(granted, Flow) <= SumFunctionOnSet(Chunks, Flow)
  BY <1>1, BookTypes, GrantTotals
<1>. HIDE DEF S, A, T
<1>. QED  BY <1>2, <1>3, <1>4, <1>5, <1>6

PortsOk ==
  /\ state \in [Port -> [fc : {"NORMAL", "PAUSE"}, qp : Nat, stamped : BOOLEAN]]
  /\ drained \in [Port -> Nat]

\* What a transmission gives back and drains: bytes that are drained stay
\* covered, unless all credit there is has been drained.
LEMMA DrainCovers ==
  ASSUME NEW qp \in Nat, NEW drain \in Nat, NEW old \in Nat, NEW all \in Nat,
         NEW need \in Nat, need <= all, qp + old >= need
  PROVE  /\ Monus(qp, drain) \in Nat /\ Min({all, old + Min({qp, drain})}) \in Nat
         /\ Monus(qp, drain) + Min({all, old + Min({qp, drain})}) >= need
<1>1. ASSUME NEW m \in Nat, NEW n \in Nat PROVE Min({m, n}) = IF m <= n THEN m ELSE n
  BY DEF Min
<1> DEFINE off == Min({qp, drain})
<1>2. off = IF qp <= drain THEN qp ELSE drain
  BY <1>1
<1>3. off \in Nat
  BY <1>2
<1>. HIDE DEF off
<1>4. Min({all, old + off}) = IF all <= old + off THEN all ELSE old + off
  BY <1>1, <1>3
<1>5. /\ Monus(qp, drain) \in Nat /\ Min({all, old + off}) \in Nat
      /\ Monus(qp, drain) + Min({all, old + off}) >= need
  BY <1>2, <1>3, <1>4 DEF Monus
<1>. QED  BY <1>5 DEF off

\* What a port counts for a packet is a number, and takes off no more than a
\* bounced grant had put on.
LEMMA CountedFacts ==
  ASSUME NEW q \in Packet, NEW qp \in Nat
  PROVE  /\ Counted(qp, q) \in Nat
         /\ Counted(qp, q) >= qp - (IF Undoes(q) THEN Credit ELSE 0)
<1>1. Size(q) \in Nat /\ Credit \in Nat
  BY SizeAssumption DEF Size
<1>. QED  BY <1>1 DEF Counted, Monus, Packet, Kind, Signal, Data, Undoes

LEMMA CreditTimes ==
  ASSUME NEW n \in Nat
  PROVE  /\ Credit * n \in Nat /\ Credit * (n + 1) = Credit * n + Credit
         /\ n > 0 => Credit * (n + -1) = Credit * n - Credit
<1>1. Credit \in Nat
  BY SizeAssumption
<1>. QED  BY <1>1

LEMMA NextCovered ==
  ASSUME SymmetricRoutes, CreditPlaces, Ledgers, HeldTotals, HeldTotals',
         PortsOk, ReservationsCovered, [Next]_vars
  PROVE  PortsOk' /\ ReservationsCovered'
<1>0. Typed /\ Sized /\ Books /\ OnWay /\ held \in [Port -> [Grants -> Int]]
  BY DEF Ledgers, IInv, HeldLedger
<1>1. ASSUME UNCHANGED <<state, held, drained>> PROVE PortsOk' /\ ReservationsCovered'
  BY <1>1 DEF PortsOk, ReservationsCovered
<1>2. \A g \in Grants : \A a \in Port : \A c \in Int : \A p \in Port : Adds(p, g, c) =>
        SumFunctionOnSet(held'[a], Grants)
          = SumFunctionOnSet(held[a], Grants) + (IF a = p THEN c ELSE 0)
  BY <1>0, HeldSums
<1>3. Credit \in Nat
  BY SizeAssumption
<1>4. ASSUME NEW p \in Port, SwitchReceiveFromDevice(p[1], p[2])
      PROVE  PortsOk' /\ ReservationsCovered'
  <2>1. /\ UNCHANGED drained
        /\ \/ UNCHANGED <<state, held>>
           \/ \E g \in Grants : /\ held' = [held EXCEPT ![p][g] = @ + 1]
                                /\ state' = [state EXCEPT ![p].qp = @ + Credit]
    BY <1>0, <1>4, SwitchHolds
  <2>2. CASE UNCHANGED <<state, held>>
    BY <1>1, <2>1, <2>2
  <2>3. ASSUME NEW g \in Grants, held' = [held EXCEPT ![p][g] = @ + 1],
               state' = [state EXCEPT ![p].qp = @ + Credit]
        PROVE  PortsOk' /\ ReservationsCovered'
    <3>1. PortsOk'
      BY <1>3, <2>1, <2>3 DEF PortsOk
    <3>2. ASSUME NEW a \in Port
          PROVE  state'[a].qp + drained'[a] >= Credit * SumFunctionOnSet(held'[a], Grants)
      <4> DEFINE n == SumFunctionOnSet(held[a], Grants)
      <4>1. SumFunctionOnSet(held'[a], Grants) = n + (IF a = p THEN 1 ELSE 0)
        <5>1. Adds(p, g, 1)
          BY <2>3 DEF Adds
        <5>. QED  BY <1>2, <5>1
      <4>2. n \in Nat /\ state[a].qp + drained[a] >= Credit * n
        BY DEF HeldTotals, ReservationsCovered
      <4>3. /\ state[a].qp \in Nat /\ drained[a] \in Nat /\ drained'[a] = drained[a]
            /\ state'[a].qp = state[a].qp + (IF a = p THEN Credit ELSE 0)
        BY <1>3, <2>1, <2>3 DEF PortsOk
      <4>. HIDE DEF n
      <4>4. Credit * n \in Nat /\ Credit * (n + 1) = Credit * n + Credit
        BY <4>2, CreditTimes
      <4>5. CASE a = p
        <5>1. SumFunctionOnSet(held'[a], Grants) = n + 1
          BY <4>1, <4>5
        <5>. QED  BY <1>3, <4>2, <4>3, <4>4, <4>5, <5>1
      <4>6. CASE a # p
        <5>1. SumFunctionOnSet(held'[a], Grants) = n
          BY <4>1, <4>2, <4>6
        <5>. QED  BY <1>3, <4>2, <4>3, <4>4, <4>6, <5>1
      <4>. QED  BY <4>5, <4>6
    <3>. QED  BY <3>1, <3>2 DEF ReservationsCovered
  <2>. QED  BY <2>1, <2>2, <2>3
<1>5. ASSUME NEW p \in Port, TransmitCredit(p) \/ TransmitData(p)
      PROVE  PortsOk' /\ ReservationsCovered'
  <2>1. PICK q \in Packet : UpdateCBPortState(p, q) /\ Id(q) \in Grants
    BY <1>0, <1>5, TransmitHolds
  <2>2. PICK drain \in Nat :
          /\ state' = [state EXCEPT ![p] =
               [fc |-> FcAfter(p), qp |-> Monus(Counted(state[p].qp, q), drain),
                stamped |-> TRUE]]
          /\ drained' = [drained EXCEPT ![p] =
               Min({AllCredit, @ + Min({Counted(state[p].qp, q), drain})})]
    BY <2>1, SizeAssumption DEF UpdateCBPortState
  <2>3. \/ Undoes(q) /\ Adds(p, Id(q), -1)
        \/ ~Undoes(q) /\ UNCHANGED held
    <3>1. held' = IF Undoes(q) THEN [held EXCEPT ![p][Id(q)] = @ - 1] ELSE held
      BY <2>1 DEF UpdateCBPortState, Id
    <3>2. [held EXCEPT ![p][Id(q)] = @ - 1] = [held EXCEPT ![p][Id(q)] = @ + -1]
      BY <1>0, <2>1
    <3>. QED  BY <3>1, <3>2 DEF Adds
  <2>4. FcAfter(p) \in {"NORMAL", "PAUSE"}
    BY DEF FcAfter
  <2> DEFINE qp == Counted(state[p].qp, q)
             n == SumFunctionOnSet(held'[p], Grants)
             m == SumFunctionOnSet(held[p], Grants)
             c == IF Undoes(q) THEN Credit ELSE 0
             total == SumFunctionOnSet(Chunks, Flow)
  <2>5. state[p].qp \in Nat /\ drained[p] \in Nat
    BY DEF PortsOk
  <2>6. qp \in Nat /\ qp >= state[p].qp - c /\ c \in Nat
    BY <1>3, <2>5, CountedFacts
  <2>7. /\ m \in Nat /\ n \in Nat /\ n <= total
        /\ state[p].qp + drained[p] >= Credit * m
    BY DEF HeldTotals, ReservationsCovered
  <2>8. total \in Nat /\ AllCredit = Credit * total /\ AllCredit \in Nat
    <3>1. total \in Nat
      BY <1>0, GrantTotals DEF Books
    <3>. QED  BY <1>3, <3>1 DEF AllCredit
  <2>9. n = m + (IF Undoes(q) THEN -1 ELSE 0)
    BY <1>2, <2>1, <2>3, <2>7
  <2>10. \A a \in Port \ {p} :
           SumFunctionOnSet(held'[a], Grants) = SumFunctionOnSet(held[a], Grants)
    <3>1. ASSUME NEW a \in Port \ {p}, Undoes(q), Adds(p, Id(q), -1)
          PROVE  SumFunctionOnSet(held'[a], Grants) = SumFunctionOnSet(held[a], Grants)
      <4>1. SumFunctionOnSet(held'[a], Grants) = SumFunctionOnSet(held[a], Grants) + 0
        BY <1>2, <2>1, <3>1
      <4>2. SumFunctionOnSet(held[a], Grants) \in Nat
        BY DEF HeldTotals
      <4>. QED  BY <4>1, <4>2
    <3>. QED  BY <2>3, <3>1
  <2>. HIDE DEF qp, n, m, c, total
  <2>11. Credit * n = Credit * m - c /\ Credit * n \in Nat /\ Credit * m \in Nat
    <3>1. CASE Undoes(q)
      <4>1. n = m + -1 /\ m > 0
        BY <2>7, <2>9, <3>1
      <4>2. Credit * n = Credit * m - Credit /\ Credit * n \in Nat /\ Credit * m \in Nat
        BY <2>7, <4>1, CreditTimes
      <4>. QED  BY <3>1, <4>2 DEF c
    <3>2. CASE ~Undoes(q)
      <4>1. n = m /\ Credit * m \in Nat
        BY <2>7, <2>9, <3>2, CreditTimes
      <4>. QED  BY <3>2, <4>1 DEF c
    <3>. QED  BY <3>1, <3>2
  <2>12. Credit * n <= AllCredit
    BY <1>3, <2>7, <2>8, TimesMonotone
  <2>13. qp + drained[p] >= Credit * n
    <3> DEFINE r == Credit * n
               s == Credit * m
    <3>1. r = s - c /\ r \in Nat /\ s \in Nat /\ state[p].qp + drained[p] >= s
      BY <2>7, <2>11
    <3>2. qp + drained[p] >= r
      <4>. HIDE DEF r, s
      <4>. QED  BY <2>5, <2>6, <3>1
    <3>. QED  BY <3>2
  <2>14. /\ Monus(qp, drain) \in Nat /\ Min({AllCredit, drained[p] + Min({qp, drain})}) \in Nat
         /\ Monus(qp, drain) + Min({AllCredit, drained[p] + Min({qp, drain})}) >= Credit * n
    <3> DEFINE need == Credit * n
    <3>1. need \in Nat /\ need <= AllCredit /\ qp + drained[p] >= need
      BY <2>11, <2>12, <2>13
    <3>2. /\ Monus(qp, drain) \in Nat /\ Min({AllCredit, drained[p] + Min({qp, drain})}) \in Nat
          /\ Monus(qp, drain) + Min({AllCredit, drained[p] + Min({qp, drain})}) >= need
      <4>. HIDE DEF need
      <4>. QED  BY <2>5, <2>6, <2>8, <3>1, DrainCovers
    <3>. QED  BY <3>2
  <2>15. /\ state'[p].qp = Monus(qp, drain)
         /\ drained'[p] = Min({AllCredit, drained[p] + Min({qp, drain})})
    BY <2>2 DEF PortsOk, qp
  <2>16. PortsOk'
    BY <2>2, <2>4, <2>14 DEF PortsOk, qp
  <2>17. ASSUME NEW a \in Port
         PROVE  state'[a].qp + drained'[a] >= Credit * SumFunctionOnSet(held'[a], Grants)
    <3>1. CASE a = p
      BY <2>14, <2>15, <3>1 DEF n
    <3>2. CASE a # p
      <4>1. state'[a] = state[a] /\ drained'[a] = drained[a]
        BY <2>2, <3>2 DEF PortsOk
      <4>. QED  BY <2>10, <3>2, <4>1 DEF ReservationsCovered
    <3>. QED  BY <3>1, <3>2
  <2>. QED  BY <2>16, <2>17 DEF ReservationsCovered
<1>6. CASE \/ \E f \in Flow : SendGrant(f) \/ SendData(f)
           \/ \E pkt \in extras : SendExtra(pkt)
           \/ \E h \in Host : HostReceive(h)
  BY <1>1, <1>6 DEF SendGrant, SendData, SendExtra, HostReceive, Elsewhere
<1>7. CASE UNCHANGED vars
  BY <1>1, <1>7 DEF vars
<1>. QED  BY <1>4, <1>5, <1>6, <1>7 DEF Next

LEMMA PortsInvariant ==
  ASSUME SymmetricRoutes, CreditPlaces
  PROVE  Spec => [](PortsOk /\ ReservationsCovered)
<1>1. Init => PortsOk /\ ReservationsCovered
  <2> SUFFICES ASSUME Init PROVE PortsOk /\ ReservationsCovered
    OBVIOUS
  <2>1. PortsOk
    BY DEF Init, PortsOk
  <2>2. ASSUME NEW p \in Port
        PROVE  state[p].qp + drained[p] >= Credit * SumFunctionOnSet(held[p], Grants)
    <3>1. \A g \in Grants : held[p][g] = 0
      BY DEF Init
    <3>2. SumFunctionOnSet(held[p], Grants) = 0
      BY <3>1, Finite, SumZero
    <3>. QED  BY <3>2, SizeAssumption DEF Init
  <2>. QED  BY <2>1, <2>2 DEF ReservationsCovered
<1>2. /\ Ledgers /\ HeldTotals /\ HeldTotals'
      /\ PortsOk /\ ReservationsCovered /\ [Next]_vars
      => (PortsOk /\ ReservationsCovered)'
  BY NextCovered
<1>. QED  BY <1>1, <1>2, LedgersInvariant, LedgersBoundHeld, PTL DEF Spec

\* A port counts a grant before it is known whether a switch further on will
\* turn it round, and gives back Credit for a grant (UpdateCBPortState), never
\* for data.  Whatever the drains and thresholds, what is left on a phantom
\* queue covers every grant the port still counts: it is only reduced for
\* one the port has counted, and by the bytes the line has drained.
THEOREM ReservationsAreCovered ==
  ASSUME SymmetricRoutes, CreditPlaces
  PROVE  Spec => []ReservationsCovered
BY PortsInvariant, PTL

\* Accounts that are not guarded stay among the naturals: held is reduced for
\* every bounce and granted for every BOUNCED that arrives (HostReceive), but
\* neither below 0, and the MMU knows what its queues hold.
THEOREM TypeCorrect ==
  ASSUME SymmetricRoutes, CreditPlaces
  PROVE  Spec => []TypeOK
<1>1. Ledgers /\ PortsOk => TypeOK
  <2> SUFFICES ASSUME Ledgers, PortsOk PROVE TypeOK
    OBVIOUS
  <2>1. Typed /\ Sized /\ Counters /\ HeldLedger
    BY DEF Ledgers, IInv, Books
  <2>2. held \in [Port -> [Grants -> Nat]]
    BY <2>1, HeldAlone DEF HeldLedger
  <2>. QED  BY <2>1, <2>2 DEF TypeOK, Typed, Sized, Counters, PortsOk
<1>. QED  BY <1>1, LedgersInvariant, PortsInvariant, PTL
=============================================================================
