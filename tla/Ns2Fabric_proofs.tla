-------------------------- MODULE Ns2Fabric_proofs --------------------------
(***************************************************************************)
(* Theorems about Ns2Fabric, for every topology, hash, size and threshold:  *)
(* PAUSE follows the phantom queue, a bounced grant retraces its way, and   *)
(* a phantom queue covers the credit of the packets its port counts.        *)
(***************************************************************************)
EXTENDS Ns2Fabric, SumTheorems

\* update_port_state keeps the shape of an entry, leaves its phantom queue
\* alone and pauses the port when that queue is over XOFF.
LEMMA UpdateSettles ==
  ASSUME NEW status \in PPassPortStatus, NEW queue
  PROVE  /\ UpdatePortState(status, queue) \in PPassPortStatus
         /\ UpdatePortState(status, queue).pqlen > Xoff
              => UpdatePortState(status, queue).paused
  BY DEF UpdatePortState, Exceeds, PPassPortStatus

\* drain_phantom_queue keeps the shape of an entry.
LEMMA DrainTyped ==
  ASSUME NEW status \in PPassPortStatus, NEW drain \in Nat
  PROVE  DrainPhantomQueue(status, drain) \in PPassPortStatus
<1> DEFINE left == IF drain > status.pqlen THEN 0 ELSE status.pqlen - drain
<1>1. left \in Nat
  <2>1. status.pqlen \in Nat
    BY DEF PPassPortStatus
  <2>2. QED
    BY <2>1
<1>2. DrainPhantomQueue(status, drain)
        = [status EXCEPT !.timed = TRUE, !.pqlen = left]
  BY DEF DrainPhantomQueue
<1> HIDE DEF left
<1>3. QED
  BY <1>1, <1>2 DEF PPassPortStatus

\* ppass_egress on a phantom queue keeps the shape of an entry.
LEMMA CountedTyped ==
  ASSUME NEW status \in PPassPortStatus, NEW pkt, NEW justBounced
  PROVE  Counted(status, pkt, justBounced) \in PPassPortStatus
  BY SizeAssumption DEF Counted, Size, PPassPortStatus

\* A port that is settled: a proper entry, paused when over XOFF.
Settled(status) ==
  status \in PPassPortStatus /\ (status.pqlen > Xoff => status.paused)

\* The inductive invariant: PausedWhenOver alone does not say that the table
\* is one, nor that the numbers in it can be compared.
IInv == /\ port = [p \in Port |-> port[p]]
        /\ \A p \in Port : Settled(port[p])
        /\ drains \subseteq Nat

\* Whatever packet leaves, ppass_egress settles the port.
LEMMA EgressSettles ==
  ASSUME NEW status \in PPassPortStatus, NEW queue, NEW pkt, NEW justBounced,
         NEW drain \in Nat
  PROVE  Settled(PpassEgress(status, queue, pkt, justBounced, drain))
<1>1. Counted(DrainPhantomQueue(status, drain), pkt, justBounced) \in PPassPortStatus
  BY DrainTyped, CountedTyped
<1>2. QED
  BY <1>1, UpdateSettles DEF PpassEgress, Settled

\* ppass_ingress settles the port a grant comes in by.
LEMMA AcceptSettles ==
  ASSUME NEW status \in PPassPortStatus, NEW queue
  PROVE  Settled(AcceptCredit(status, queue))
<1>1. [status EXCEPT !.pqlen = @ + Credit] \in PPassPortStatus
  BY SizeAssumption DEF PPassPortStatus
<1>2. QED
  BY <1>1, UpdateSettles DEF AcceptCredit, Settled

\* classify leaves every port settled if the ingress port was.
LEMMA ClassifySettles ==
  ASSUME IInv, NEW p \in Port, NEW status, Settled(status), NEW pkt, NEW out,
         NEW justBounced, Classify(p, status, pkt, out, justBounced)
  PROVE  IInv'
<1> DEFINE before == [port EXCEPT ![p] = status]
<1>1. /\ before = [q \in Port |-> before[q]]
      /\ \A q \in Port : Settled(before[q])
  BY DEF IInv
<1>2. PICK drain \in IF before[out].timed THEN drains ELSE {0} :
        port' = [before EXCEPT ![out] =
                   PpassEgress(before[out], QueueBytes(out), pkt, justBounced, drain)]
  BY DEF Classify
<1>3. drain \in Nat /\ drains' = drains
  BY DEF IInv, Classify
<1>4. CASE out \in Port
  <2>1. before[out] \in PPassPortStatus
    BY <1>1, <1>4 DEF Settled
  <2>2. Settled(PpassEgress(before[out], QueueBytes(out), pkt, justBounced, drain))
    BY <1>3, <2>1, EgressSettles
  <2> HIDE DEF before
  <2>3. QED
    BY <1>1, <1>2, <1>3, <1>4, <2>2 DEF IInv
<1>5. CASE out \notin Port
  <2> HIDE DEF before
  <2>1. QED
    BY <1>1, <1>2, <1>3, <1>5 DEF IInv
<1>6. QED
  BY <1>4, <1>5

\* A step that is not of a classifier leaves port_status_map_ alone.
LEMMA Elsewhere ==
  ASSUME IInv, UNCHANGED <<port, drains>>
  PROVE  IInv'
  BY DEF IInv

\* Initially every port is empty and released.
LEMMA InitSettled == Init => IInv
<1>1. [pqlen |-> 0, paused |-> FALSE, timed |-> FALSE] \in PPassPortStatus
  BY DEF PPassPortStatus
<1>2. ~(0 > Xoff)
  BY SizeAssumption
<1>3. QED
  BY <1>1, <1>2, SizeAssumption DEF Init, IInv, Settled

\* One step per action.
LEMMA NextSettles == IInv /\ [Next]_vars => IInv'
<1> SUFFICES ASSUME IInv, [Next]_vars PROVE IInv'
  OBVIOUS
<1>1. ASSUME NEW l \in Link, l[2] \notin Host, BounceGrant(l[1], l[2])
      PROVE  IInv'
  <2>1. <<l[2], l[1]>> \in Port
    BY <1>1 DEF Link, Port, Adjacent, Node
  <2>2. Settled(Updated(<<l[2], l[1]>>))
    BY <2>1, UpdateSettles DEF IInv, Updated, Settled
  <2>3. QED
    BY <1>1, <2>1, <2>2, ClassifySettles DEF BounceGrant
<1>2. ASSUME NEW l \in Link, l[2] \notin Host, AcceptGrant(l[1], l[2])
      PROVE  IInv'
  <2>1. <<l[2], l[1]>> \in Port
    BY <1>2 DEF Link, Port, Adjacent, Node
  <2>2. Updated(<<l[2], l[1]>>) \in PPassPortStatus
    BY <2>1, UpdateSettles DEF IInv, Updated, Settled
  <2>3. Settled(AcceptCredit(Updated(<<l[2], l[1]>>), QueueBytes(<<l[2], l[1]>>)))
    BY <2>2, AcceptSettles
  <2>4. QED
    BY <1>2, <2>1, <2>3, ClassifySettles DEF AcceptGrant
<1>3. ASSUME NEW l \in Link, l[2] \notin Host, Forward(l[1], l[2])
      PROVE  IInv'
  <2>1. <<l[2], l[1]>> \in Port
    BY <1>3 DEF Link, Port, Adjacent, Node
  <2>2. Settled(Updated(<<l[2], l[1]>>))
    BY <2>1, UpdateSettles DEF IInv, Updated, Settled
  <2>3. QED
    BY <1>3, <2>1, <2>2, ClassifySettles DEF Forward
<1>4. ASSUME NEW p \in Port, Deque(p) PROVE IInv'
  BY <1>4, Elsewhere DEF Deque
<1>5. CASE RequestGrants
  BY <1>5, Elsewhere DEF RequestGrants
<1>6. CASE SendUnsolicited
  BY <1>6, Elsewhere DEF SendUnsolicited
<1>7. CASE SendGrant
  BY <1>7, Elsewhere DEF SendGrant
<1>8. CASE ReceiveGrant
  BY <1>8, Elsewhere DEF ReceiveGrant, Take
<1>9. CASE Receive
  BY <1>9, Elsewhere DEF Receive, Take
<1>10. CASE UNCHANGED vars
  BY <1>10, Elsewhere DEF vars
<1>11. QED
  BY <1>1, <1>2, <1>3, <1>4, <1>5, <1>6, <1>7, <1>8, <1>9, <1>10 DEF Next

\* In every network, with any physical queues and any drain, a port whose
\* phantom queue is over XOFF is paused before the next grant reaches it.
THEOREM OverIsPaused == Spec => []PausedWhenOver
<1>1. IInv => PausedWhenOver
  BY DEF IInv, Settled, PausedWhenOver
<1>2. QED
  BY InitSettled, NextSettles, <1>1, PTL DEF Spec

\* The entry of every port keeps its type: in particular no revocation and
\* no drain takes a phantom queue below zero.
THEOREM EntriesTyped == Spec => [](port \in [Port -> PPassPortStatus])
<1>1. IInv => port \in [Port -> PPassPortStatus]
  BY DEF IInv, Settled
<1>2. QED
  BY InitSettled, NextSettles, <1>1, PTL DEF Spec

(***************************************************************************)
(* Where packets are.  A grant with sequence number n goes from Rcv to Snd  *)
(* by the links Rev(Near), Rev(Middle(n)) and Rev(Far(n)), and its credit   *)
(* is counted by the ports Near, Middle(n) and Far(n), by which data with   *)
(* that number, and the grant if it is bounced, come back.                  *)
(***************************************************************************)

Rev(l) == <<l[2], l[1]>>
Via(n) == Up[Hash[<<Rcv, Snd, n>>]]
Near == <<TorOf[Rcv], Rcv>>
Middle(n) == <<Via(n), TorOf[Rcv]>>
Far(n) == <<TorOf[Snd], Via(n)>>

\* A grant on its way to the sender: the ports behind it hold its credit.
GrantOk(l, q) ==
  /\ q.src = Rcv /\ q.dst = Snd /\ q.seq \in Seqs
  /\ \/ l = Rev(Near) /\ q.held = {}
     \/ l = Rev(Middle(q.seq)) /\ q.held = {Near}
     \/ l = Rev(Far(q.seq)) /\ q.held = {Near, Middle(q.seq)}
     \/ l = <<TorOf[Snd], Snd>> /\ q.held = {Near, Middle(q.seq), Far(q.seq)}

\* A grant on its way back: the ports still before it hold its credit.
BackOk(l, q) ==
  /\ q.type = "grant" /\ q.seq \in Seqs
  /\ \/ l = Near /\ q.held = {}
     \/ l = Middle(q.seq) /\ q.held = {Near}
     \/ l = Far(q.seq) /\ q.held = {Near, Middle(q.seq)}

\* Data takes the way of the grant that has its number; the credit it uses is
\* held on the way of the grant that paid for it.
RequestOk(l, q) ==
  /\ q.seq \in Seqs
  /\ l \in {Uplink(Snd), Far(q.seq), Middle(q.seq), Near}
  /\ ~q.unsol => q.paid \in Seqs /\ q.held = {Near, Middle(q.paid), Far(q.paid)}

PacketOk(l, q) ==
  /\ q \in Packet
  /\ ~IsFreshGrant(q) => q.src = Snd /\ q.dst = Rcv /\ l[2] # Snd
  /\ IsFreshGrant(q) => GrantOk(l, q)
  /\ q.bounced => BackOk(l, q)
  /\ q.type = "request" => RequestOk(l, q)

Carried ==
  /\ \A l \in Link : \A q \in In(wire[l]) : PacketOk(l, q)
  /\ \A p \in Port : \A q \in In(ctl[p]) : PacketOk(p, q) /\ IsControl(q)
  /\ \A p \in Port : \A q \in In(dat[p]) : PacketOk(p, q) /\ ~IsControl(q)

\* TypeOK, but for the lower bound of granted: what the receiver takes back
\* must have been granted, which is a matter of counting (below).
Queued ==
  /\ ns \in [Tor -> [Host -> DOMAIN Up]]
  /\ ctl \in [Port -> Seq(Packet)] /\ dat \in [Port -> Seq(Packet)]
  /\ wire \in [Link -> Seq(Packet)]
Shaped ==
  /\ port \in [Port -> PPassPortStatus] /\ drains \subseteq Nat
  /\ asked \in {"no", "asked", "known"}
  /\ granted \in Int /\ granted <= Packets /\ sent \in 0 .. Packets
  /\ stray \in BOOLEAN /\ bounces \in Nat

\* The ways, as links and ports of the network.
LEMMA Ways ==
  /\ \A n \in Seqs : /\ Via(n) \in Aggr
                     /\ {Middle(n), Far(n)} \subseteq Port
                     /\ {Rev(Middle(n)), Rev(Far(n))} \subseteq Port
  /\ Near \in Port /\ <<TorOf[Snd], Snd>> \in Port
  /\ Rev(Near) \in Link /\ Uplink(Snd) \in Link /\ Uplink(Rcv) = Rev(Near)
  /\ Port \subseteq Link
<1>1. \A n \in Seqs : Via(n) \in Aggr
  <2>1. ASSUME NEW n \in Seqs PROVE Hash[<<Rcv, Snd, n>>] \in DOMAIN Up
    <3>1. <<Rcv, Snd, n>> \in Host \X Host \X Seqs
      BY TopologyAssumption
    <3>. QED  BY <3>1, TopologyAssumption
  <2>2. \A i \in DOMAIN Up : Up[i] \in Aggr
    BY TopologyAssumption
  <2>. QED  BY <2>1, <2>2 DEF Via
<1>2. TorOf[Rcv] \in Tor /\ TorOf[Snd] \in Tor /\ Rcv \in Host /\ Snd \in Host
  BY TopologyAssumption
<1>. QED
  BY <1>1, <1>2, TopologyAssumption
  DEF Link, Port, Node, Adjacent, Near, Middle, Far, Rev, Uplink

\* Links between a switch and its neighbours go both ways.
LEMMA Backwards ==
  ASSUME NEW l \in Link, l[2] \notin Host
  PROVE  /\ Rev(l) \in Port /\ Rev(Rev(l)) = l
         /\ l = <<l[1], l[2]>>
  BY DEF Link, Port, Node, Adjacent, Rev

LEMMA Finite == IsFiniteSet(Link) /\ IsFiniteSet(Port)
<1>1. IsFiniteSet(Tor \cup Aggr)
  BY TopologyAssumption, FS_Union
<1>2. IsFiniteSet(Node)
  BY <1>1, TopologyAssumption, FS_Union DEF Node
<1>3. IsFiniteSet(Node \X Node)
  BY <1>2, FS_Product
<1>. QED  BY <1>3, FS_Subset DEF Link, Port

\* Where the next switch sends data and bounced grants.
LEMMA WayBack ==
  ASSUME NEW q, q.dst = Rcv, q.src = Snd, q.seq \in Seqs,
         q.type = "request" \/ q.bounced, q.type # "grant_req"
  PROVE  /\ OutPort(TorOf[Snd], q) = Far(q.seq)
         /\ OutPort(Via(q.seq), q) = Middle(q.seq)
         /\ OutPort(TorOf[Rcv], q) = Near
<1>1. /\ Via(q.seq) \in Aggr /\ TorOf[Rcv] \in Tor /\ TorOf[Snd] \in Tor
      /\ TorOf[Rcv] # TorOf[Snd] /\ Tor \cap Aggr = {}
  BY Ways, TopologyAssumption
<1>. QED  BY <1>1 DEF OutPort, MultiPath, Slot, HashKey, Via, Far, Middle, Near

\* Where the next switch sends a grant.
LEMMA WayOut ==
  ASSUME NEW q, q.dst = Snd, q.src = Rcv, q.seq \in Seqs, IsFreshGrant(q)
  PROVE  /\ OutPort(TorOf[Rcv], q) = Rev(Middle(q.seq))
         /\ OutPort(Via(q.seq), q) = Rev(Far(q.seq))
         /\ OutPort(TorOf[Snd], q) = <<TorOf[Snd], Snd>>
<1>1. /\ Via(q.seq) \in Aggr /\ TorOf[Rcv] \in Tor /\ TorOf[Snd] \in Tor
      /\ TorOf[Rcv] # TorOf[Snd] /\ Tor \cap Aggr = {}
  BY Ways, TopologyAssumption
<1>. QED  BY <1>1 DEF OutPort, MultiPath, Slot, HashKey, Via, Far, Middle, Rev, IsFreshGrant

\* A GRANT_REQ, whatever turn the forwarder takes, is not sent to the sender.
LEMMA WayOfRequest ==
  ASSUME Queued, NEW q, q.dst = Rcv, q.type = "grant_req", ~q.bounced,
         NEW l \in Link, l[2] \notin Host
  PROVE  OutPort(l[2], q) \in Port /\ OutPort(l[2], q)[2] # Snd
<1>1. /\ l[2] \in Tor \cup Aggr /\ Rcv \in Host /\ Snd \in Host /\ Rcv # Snd
      /\ TorOf[Rcv] \in Tor
      /\ Tor \cap Aggr = {} /\ Tor \cap Host = {} /\ Aggr \cap Host = {}
  BY TopologyAssumption DEF Link, Node
<1>2. CASE l[2] \in Tor /\ TorOf[Rcv] # l[2]
  <2>1. ns[l[2]][Rcv] \in DOMAIN Up
    BY <1>1, <1>2 DEF Queued
  <2>2. Up[ns[l[2]][Rcv]] \in Aggr
    BY <2>1, TopologyAssumption
  <2>3. OutPort(l[2], q) = <<l[2], Up[ns[l[2]][Rcv]]>>
    BY <1>2 DEF OutPort, MultiPath, Slot
  <2>. QED  BY <1>1, <1>2, <2>2, <2>3 DEF Port, Link, Node, Adjacent
<1>3. CASE l[2] \in Tor /\ TorOf[Rcv] = l[2]
  <2>1. OutPort(l[2], q) = <<l[2], Rcv>>
    BY <1>3 DEF OutPort, MultiPath
  <2>. QED  BY <1>1, <1>3, <2>1 DEF Port, Link, Node, Adjacent
<1>4. CASE l[2] \in Aggr
  <2>1. OutPort(l[2], q) = <<l[2], TorOf[Rcv]>>
    BY <1>1, <1>4 DEF OutPort, MultiPath
  <2>. QED  BY <1>1, <1>4, <2>1 DEF Port, Link, Node, Adjacent
<1>. QED  BY <1>1, <1>2, <1>3, <1>4

\* ppass_egress changes only the mark of a packet and what is held for it; of
\* a grant it has just turned round, only the mark.
LEMMA LeavingPacket ==
  ASSUME NEW q \in Packet, NEW status, NEW queue, NEW p \in Port
  PROVE  LET k == Leaving(status, queue, q, p, FALSE)
         IN /\ k \in Packet
            /\ k.type = q.type /\ k.seq = q.seq /\ k.src = q.src /\ k.dst = q.dst
            /\ k.bounced = q.bounced /\ k.unsol = q.unsol /\ k.paid = q.paid
            /\ k.held = IF q.bounced THEN q.held \ {p} ELSE q.held
<1> DEFINE mark == q.ce \/ (q.type # "grant" /\ Exceeds(status, queue, Pthr))
           left == IF q.bounced THEN q.held \ {p} ELSE q.held
           k == [q EXCEPT !.ce = mark, !.held = left]
<1>1. mark \in BOOLEAN
  OBVIOUS
<1>2. left \in SUBSET Port
  BY DEF Packet
<1>3. Leaving(status, queue, q, p, FALSE) = k
  BY DEF Leaving, Revokes
<1>. HIDE DEF mark, left
<1>. QED  BY <1>1, <1>2, <1>3 DEF Packet, left

LEMMA BouncedPacket ==
  ASSUME NEW q \in Packet, NEW status, NEW queue, NEW p \in Port
  PROVE  LET k == Leaving(status, queue, q, p, TRUE)
         IN /\ k \in Packet
            /\ k.type = q.type /\ k.seq = q.seq /\ k.src = q.src /\ k.dst = q.dst
            /\ k.bounced = q.bounced /\ k.held = q.held
<1> DEFINE mark == q.ce \/ (q.type # "grant" /\ Exceeds(status, queue, Pthr))
           k == [q EXCEPT !.ce = mark, !.held = q.held]
<1>1. mark \in BOOLEAN
  OBVIOUS
<1>2. Leaving(status, queue, q, p, TRUE) = k
  BY DEF Leaving, Revokes
<1>. HIDE DEF mark
<1>. QED  BY <1>1, <1>2 DEF Packet

\* A packet that is not a fresh grant goes on along its way.
LEMMA ForwardKeepsWay ==
  ASSUME Queued, NEW l \in Link, l[2] \notin Host, NEW q, PacketOk(l, q),
         ~IsFreshGrant(q)
  PROVE  /\ OutPort(l[2], q) \in Port
         /\ \A status, queue :
              PacketOk(OutPort(l[2], q),
                       Leaving(status, queue, q, OutPort(l[2], q), FALSE))
         /\ q.bounced => OutPort(l[2], q) \in q.held
<1> DEFINE n == q.seq
           out == OutPort(l[2], q)
<1>0. /\ q \in Packet /\ q.src = Snd /\ q.dst = Rcv /\ l[2] # Snd
      /\ q.bounced => BackOk(l, q)
      /\ q.type = "request" => RequestOk(l, q)
  BY DEF PacketOk
<1>1. ASSUME NEW status, NEW queue, out \in Port,
             ~q.bounced => out[2] # Snd,
             q.bounced => \/ out = Middle(n) /\ q.held \ {out} = {Near}
                          \/ out = Near /\ q.held \ {out} = {},
             q.type = "request" => out \in {Far(n), Middle(n), Near}
      PROVE  PacketOk(out, Leaving(status, queue, q, out, FALSE))
  <2> DEFINE k == Leaving(status, queue, q, out, FALSE)
  <2>1. /\ k \in Packet
        /\ k.type = q.type /\ k.seq = q.seq /\ k.src = q.src /\ k.dst = q.dst
        /\ k.bounced = q.bounced /\ k.unsol = q.unsol /\ k.paid = q.paid
        /\ k.held = IF q.bounced THEN q.held \ {out} ELSE q.held
    <3>. HIDE DEF out, k
    <3>1. q \in Packet /\ out \in Port
      BY <1>0, <1>1
    <3>. QED  BY <3>1, LeavingPacket DEF k
  <2>2. q.bounced => q.type = "grant" /\ n \in Seqs
    BY <1>0 DEF BackOk
  <2>3. ~IsFreshGrant(k)
    BY <2>1 DEF IsFreshGrant
  <2>4. q.bounced => out[2] # Snd
    BY <1>1, <2>2, Ways, TopologyAssumption DEF Middle, Near
  <2>5. k.bounced => BackOk(out, k)
    BY <1>1, <2>1, <2>2 DEF BackOk
  <2>6. k.type = "request" => RequestOk(out, k)
    <3>1. ASSUME q.type = "request" PROVE ~q.bounced
      BY <2>2, <3>1
    <3>. QED  BY <1>0, <1>1, <2>1, <3>1 DEF RequestOk
  <2>. HIDE DEF k, out
  <2>7. PacketOk(out, k)
    BY <1>0, <1>1, <2>1, <2>3, <2>4, <2>5, <2>6 DEF PacketOk
  <2>. QED  BY <2>7 DEF k
<1>2. /\ Rcv \in Host /\ Snd \in Host /\ Rcv # Snd /\ TorOf[Rcv] \in Tor
      /\ TorOf[Snd] \in Tor /\ TorOf[Rcv] # TorOf[Snd]
      /\ Tor \cap Aggr = {} /\ Tor \cap Host = {} /\ Aggr \cap Host = {}
  BY TopologyAssumption
<1>3. CASE q.bounced
  <2>1. BackOk(l, q)
    BY <1>0, <1>3
  <2>2. n \in Seqs /\ q.type = "grant"
    BY <2>1 DEF BackOk
  <2>3. Via(n) \in Aggr /\ Middle(n) \in Port /\ Near \in Port
    BY <2>2, Ways
  <2>4. CASE l = Middle(n) /\ q.held = {Near}
    <3>1. out = Near
      BY <1>0, <1>3, <2>2, <2>4, WayBack DEF Middle
    <3>. QED  BY <1>1, <1>3, <2>2, <2>3, <2>4, <3>1
  <2>5. CASE l = Far(n) /\ q.held = {Near, Middle(n)}
    <3>1. out = Middle(n)
      BY <1>0, <1>3, <2>2, <2>5, WayBack DEF Far
    <3>2. Near # Middle(n)
      BY <1>2 DEF Near, Middle
    <3>. QED  BY <1>1, <1>3, <2>2, <2>3, <2>5, <3>1, <3>2
  <2>6. l # Near
    BY <1>2 DEF Near
  <2>. QED  BY <2>1, <2>4, <2>5, <2>6 DEF BackOk
<1>4. CASE q.type = "request" /\ ~q.bounced
  <2>1. RequestOk(l, q)
    BY <1>0, <1>4
  <2>2. n \in Seqs
    BY <2>1 DEF RequestOk
  <2>3. out \in {Far(n), Middle(n), Near}
    BY <1>0, <1>2, <1>4, <2>1, <2>2, WayBack DEF RequestOk, Uplink, Far, Middle, Near
  <2>4. out \in Port /\ out[2] # Snd
    <3>1. Far(n) \in Port /\ Middle(n) \in Port /\ Near \in Port /\ Via(n) \in Aggr
      BY <2>2, Ways
    <3>2. Far(n)[2] # Snd /\ Middle(n)[2] # Snd /\ Near[2] # Snd
      BY <1>2, <3>1 DEF Far, Middle, Near
    <3>. HIDE DEF out
    <3>. QED  BY <2>3, <3>1, <3>2
  <2>. QED  BY <1>1, <1>4, <2>3, <2>4
<1>5. CASE q.type = "grant_req" /\ ~q.bounced
  <2>1. out \in Port /\ out[2] # Snd
    BY <1>0, <1>5, WayOfRequest
  <2>. QED  BY <1>1, <1>5, <2>1
<1>. QED  BY <1>0, <1>3, <1>4, <1>5 DEF IsFreshGrant, Packet

\* A grant that is let pass goes on along its way, and the port it came by
\* holds its credit.
LEMMA AcceptKeepsWay ==
  ASSUME NEW l \in Link, l[2] \notin Host, NEW q, PacketOk(l, q), IsFreshGrant(q)
  PROVE  /\ OutPort(l[2], q) \in Port
         /\ \A status, queue :
              PacketOk(OutPort(l[2], q),
                Leaving(status, queue, Holds(q, Rev(l)), OutPort(l[2], q), FALSE))
<1> DEFINE n == q.seq
           out == OutPort(l[2], q)
           h == Holds(q, Rev(l))
<1>0. q \in Packet /\ GrantOk(l, q) /\ n \in Seqs /\ q.src = Rcv /\ q.dst = Snd
      /\ q.type = "grant" /\ ~q.bounced
  BY DEF PacketOk, GrantOk, IsFreshGrant
<1>1. /\ h \in Packet /\ h.type = q.type /\ h.seq = n /\ h.src = Rcv /\ h.dst = Snd
      /\ h.bounced = q.bounced /\ h.held = q.held \cup {Rev(l)}
  BY <1>0, Backwards DEF Holds, Packet
<1>2. /\ Rcv \in Host /\ Snd \in Host /\ Rcv # Snd /\ TorOf[Rcv] \in Tor
      /\ TorOf[Snd] \in Tor /\ TorOf[Rcv] # TorOf[Snd]
      /\ Tor \cap Aggr = {} /\ Tor \cap Host = {} /\ Aggr \cap Host = {}
  BY TopologyAssumption
<1>3. Via(n) \in Aggr
  BY <1>0, Ways
<1>4. \/ l = Rev(Near) /\ q.held = {}
      \/ l = Rev(Middle(n)) /\ q.held = {Near}
      \/ l = Rev(Far(n)) /\ q.held = {Near, Middle(n)}
  <2>1. l # <<TorOf[Snd], Snd>>
    BY <1>2
  <2>. QED  BY <1>0, <2>1 DEF GrantOk
<1>5. \/ out = Rev(Middle(n)) /\ h.held = {Near}
      \/ out = Rev(Far(n)) /\ h.held = {Near, Middle(n)}
      \/ out = <<TorOf[Snd], Snd>> /\ h.held = {Near, Middle(n), Far(n)}
  <2>1. CASE l = Rev(Near) /\ q.held = {}
    BY <1>0, <1>1, <2>1, WayOut DEF Rev, Near
  <2>2. CASE l = Rev(Middle(n)) /\ q.held = {Near}
    BY <1>0, <1>1, <2>2, WayOut DEF Rev, Middle
  <2>3. CASE l = Rev(Far(n)) /\ q.held = {Near, Middle(n)}
    BY <1>0, <1>1, <2>3, WayOut DEF Rev, Far
  <2>. QED  BY <1>4, <2>1, <2>2, <2>3
<1>6. out \in Port
  BY <1>0, <1>5, Ways
<1>7. ASSUME NEW status, NEW queue
      PROVE  PacketOk(out, Leaving(status, queue, h, out, FALSE))
  <2> DEFINE k == Leaving(status, queue, h, out, FALSE)
  <2>1. /\ k \in Packet /\ k.type = "grant" /\ k.seq = n /\ k.src = Rcv /\ k.dst = Snd
        /\ ~k.bounced /\ k.held = h.held
    <3>. HIDE DEF out, h, k
    <3>1. h \in Packet /\ out \in Port
      BY <1>1, <1>6
    <3>2. /\ k \in Packet /\ k.type = h.type /\ k.seq = h.seq /\ k.src = h.src
          /\ k.dst = h.dst /\ k.bounced = h.bounced
          /\ k.held = IF h.bounced THEN h.held \ {out} ELSE h.held
      BY <3>1, LeavingPacket, ZenonT(40) DEF k
    <3>. QED  BY <1>0, <1>1, <3>2
  <2>2. GrantOk(out, k)
    BY <1>0, <1>5, <2>1 DEF GrantOk
  <2>. HIDE DEF k, out, h
  <2>3. PacketOk(out, k)
    BY <2>1, <2>2 DEF PacketOk, IsFreshGrant
  <2>. QED  BY <2>3 DEF k
<1>. QED  BY <1>6, <1>7

\* A grant that is bounced starts on its way back.
LEMMA BounceKeepsWay ==
  ASSUME NEW l \in Link, l[2] \notin Host, NEW q, PacketOk(l, q), IsFreshGrant(q)
  PROVE  \A status, queue :
           PacketOk(Rev(l), Leaving(status, queue, BounceCredit(q), Rev(l), TRUE))
<1> DEFINE n == q.seq
           b == BounceCredit(q)
<1>0. q \in Packet /\ GrantOk(l, q) /\ n \in Seqs /\ q.src = Rcv /\ q.dst = Snd
      /\ q.type = "grant" /\ ~q.bounced
  BY DEF PacketOk, GrantOk, IsFreshGrant
<1>1. /\ b \in Packet /\ b.type = "grant" /\ b.seq = n /\ b.src = Snd /\ b.dst = Rcv
      /\ b.bounced /\ b.held = q.held
  BY <1>0 DEF BounceCredit, Packet
<1>2. /\ Rcv \in Host /\ Snd \in Host /\ TorOf[Rcv] \in Tor /\ TorOf[Snd] \in Tor
      /\ Via(n) \in Aggr /\ Rcv # Snd
      /\ Tor \cap Host = {} /\ Aggr \cap Host = {}
  BY <1>0, Ways, TopologyAssumption
<1>3. \/ Rev(l) = Near /\ q.held = {}
      \/ Rev(l) = Middle(n) /\ q.held = {Near}
      \/ Rev(l) = Far(n) /\ q.held = {Near, Middle(n)}
  <2>1. l # <<TorOf[Snd], Snd>>
    BY <1>2
  <2>2. Rev(Rev(Near)) = Near /\ Rev(Rev(Middle(n))) = Middle(n) /\ Rev(Rev(Far(n))) = Far(n)
    BY DEF Rev, Near, Middle, Far
  <2>. QED  BY <1>0, <2>1, <2>2 DEF GrantOk
<1>4. Rev(l) \in Port /\ Rev(l)[2] # Snd
  BY <1>2, <1>3, Backwards DEF Near, Middle, Far
<1>5. ASSUME NEW status, NEW queue
      PROVE  PacketOk(Rev(l), Leaving(status, queue, b, Rev(l), TRUE))
  <2> DEFINE k == Leaving(status, queue, b, Rev(l), TRUE)
  <2>1. /\ k \in Packet /\ k.type = "grant" /\ k.seq = n /\ k.src = Snd /\ k.dst = Rcv
        /\ k.bounced /\ k.held = q.held
    <3>. HIDE DEF b, k
    <3>1. b \in Packet /\ Rev(l) \in Port
      BY <1>1, <1>4
    <3>2. /\ k \in Packet /\ k.type = b.type /\ k.seq = b.seq /\ k.src = b.src
          /\ k.dst = b.dst /\ k.bounced = b.bounced /\ k.held = b.held
      BY <3>1, BouncedPacket, ZenonT(40) DEF k
    <3>. QED  BY <1>0, <1>1, <3>2
  <2>2. BackOk(Rev(l), k)
    BY <1>0, <1>3, <2>1 DEF BackOk
  <2>. HIDE DEF k, b
  <2>3. PacketOk(Rev(l), k)
    BY <1>4, <2>1, <2>2 DEF PacketOk, IsFreshGrant
  <2>. QED  BY <2>3 DEF k
<1>. QED  BY <1>5

(***************************************************************************)
(* How many packets of a set S are in the network.                          *)
(***************************************************************************)

Waiting(S) == Total(S, ctl, Port) + Total(S, dat, Port)
InNetwork(S) == Total(S, wire, Link) + Waiting(S)
One(S, q) == IF q \in S THEN 1 ELSE 0

LEMMA NetworkCounts ==
  ASSUME Queued, NEW S
  PROVE  /\ Total(S, wire, Link) \in Nat /\ Total(S, ctl, Port) \in Nat
         /\ Total(S, dat, Port) \in Nat
<1>1. Total(S, wire, Link) \in Nat
  BY Finite, TotalNat DEF Queued
<1>2. Total(S, ctl, Port) \in Nat
  BY Finite, TotalNat DEF Queued
<1>3. Total(S, dat, Port) \in Nat
  BY Finite, TotalNat DEF Queued
<1>. QED  BY <1>1, <1>2, <1>3

\* A packet joins one queue of a port, or is dropped.
LEMMA EnqueKeeps ==
  ASSUME Queued, Carried, NEW p \in Port, NEW e, PacketOk(p, e), Enque(p, e)
  PROVE  /\ ctl' \in [Port -> Seq(Packet)] /\ dat' \in [Port -> Seq(Packet)]
         /\ \A x \in Port : \A q \in In(ctl'[x]) : PacketOk(x, q) /\ IsControl(q)
         /\ \A x \in Port : \A q \in In(dat'[x]) : PacketOk(x, q) /\ ~IsControl(q)
         /\ \A S : /\ Total(S, ctl', Port) + Total(S, dat', Port) \in Nat
                   /\ Total(S, ctl', Port) + Total(S, dat', Port) <= Waiting(S) + One(S, e)
<1>0. ctl \in [Port -> Seq(Packet)] /\ dat \in [Port -> Seq(Packet)] /\ e \in Packet
  BY DEF Queued, PacketOk
<1>1. /\ \A x \in Port : \A q \in In(ctl[x]) : PacketOk(x, q) /\ IsControl(q)
      /\ \A x \in Port : \A q \in In(dat[x]) : PacketOk(x, q) /\ ~IsControl(q)
  BY DEF Carried
<1>2. \A S : /\ Total(S, ctl, Port) \in Nat /\ Total(S, dat, Port) \in Nat
             /\ One(S, e) \in {0, 1}
  BY NetworkCounts DEF One
<1>3. CASE ctl' = ctl /\ dat' = dat
  <2>1. \A S : Total(S, ctl, Port) + Total(S, dat, Port) <= Waiting(S) + One(S, e)
    BY <1>2 DEF Waiting
  <2>2. \A S : Total(S, ctl, Port) + Total(S, dat, Port) \in Nat
    BY <1>2
  <2>. QED  BY <1>0, <1>1, <1>3, <2>1, <2>2
<1>4. CASE ctl' = [ctl EXCEPT ![p] = Append(@, e)] /\ dat' = dat /\ IsControl(e)
  <2>1. ctl' \in [Port -> Seq(Packet)]
    BY <1>0, <1>4
  <2>2. ASSUME NEW x \in Port, NEW q \in In(ctl'[x])
        PROVE  PacketOk(x, q) /\ IsControl(q)
    <3>1. q \in In([ctl EXCEPT ![p] = Append(@, e)][x])
      BY <1>4, <2>2
    <3>2. q \in In(ctl[x]) \/ (x = p /\ q = e)
      BY <1>0, <3>1, EnqueueElements
    <3>. QED  BY <1>1, <1>4, <3>2
  <2>3. ASSUME NEW S
        PROVE  Total(S, ctl', Port) = Total(S, ctl, Port) + One(S, e)
    <3>1. Joins(ctl, ctl', p, e)
      BY <1>4 DEF Joins
    <3>. QED  BY <1>0, <3>1, Finite, TotalAppend DEF One
  <2>4. \A S : Total(S, ctl', Port) + Total(S, dat, Port) = Waiting(S) + One(S, e)
    BY <1>2, <2>3 DEF Waiting
  <2>5. \A S : Waiting(S) + One(S, e) \in Nat
    BY <1>2 DEF Waiting
  <2>6. \A S : Waiting(S) + One(S, e) <= Waiting(S) + One(S, e)
    BY <2>5
  <2>7. dat' = dat
    BY <1>4
  <2>. QED  BY <1>0, <1>1, <2>1, <2>2, <2>4, <2>5, <2>6, <2>7
<1>5. CASE dat' = [dat EXCEPT ![p] = Append(@, e)] /\ ctl' = ctl /\ ~IsControl(e)
  <2>1. dat' \in [Port -> Seq(Packet)]
    BY <1>0, <1>5
  <2>2. ASSUME NEW x \in Port, NEW q \in In(dat'[x])
        PROVE  PacketOk(x, q) /\ ~IsControl(q)
    <3>1. q \in In([dat EXCEPT ![p] = Append(@, e)][x])
      BY <1>5, <2>2
    <3>2. q \in In(dat[x]) \/ (x = p /\ q = e)
      BY <1>0, <3>1, EnqueueElements
    <3>. QED  BY <1>1, <1>5, <3>2
  <2>3. ASSUME NEW S
        PROVE  Total(S, dat', Port) = Total(S, dat, Port) + One(S, e)
    <3>1. Joins(dat, dat', p, e)
      BY <1>5 DEF Joins
    <3>. QED  BY <1>0, <3>1, Finite, TotalAppend DEF One
  <2>4. \A S : Total(S, ctl, Port) + Total(S, dat', Port) = Waiting(S) + One(S, e)
    BY <1>2, <2>3 DEF Waiting
  <2>5. \A S : Waiting(S) + One(S, e) \in Nat
    BY <1>2 DEF Waiting
  <2>6. \A S : Waiting(S) + One(S, e) <= Waiting(S) + One(S, e)
    BY <2>5
  <2>7. ctl' = ctl
    BY <1>5
  <2>. QED  BY <1>0, <1>1, <2>1, <2>2, <2>4, <2>5, <2>6, <2>7
<1>. QED  BY <1>3, <1>4, <1>5 DEF Enque

\* classify: the first packet of a link leaves it, and e joins a port.
Passes(l, out, e) == wire' = [wire EXCEPT ![l] = Tail(@)] /\ Enque(out, e)

LEMMA PassKeeps ==
  ASSUME Queued, Carried, NEW l \in Link, wire[l] # <<>>, NEW out \in Port,
         NEW e, PacketOk(out, e), Passes(l, out, e),
         ns' \in [Tor -> [Host -> DOMAIN Up]]
  PROVE  /\ Queued' /\ Carried'
         /\ \A S : /\ InNetwork(S)' \in Nat
                   /\ InNetwork(S)' <= InNetwork(S) - One(S, Head(wire[l])) + One(S, e)
<1>0. wire \in [Link -> Seq(Packet)] /\ wire' = [wire EXCEPT ![l] = Tail(@)]
  BY DEF Queued, Passes
<1>1. /\ ctl' \in [Port -> Seq(Packet)] /\ dat' \in [Port -> Seq(Packet)]
      /\ \A x \in Port : \A q \in In(ctl'[x]) : PacketOk(x, q) /\ IsControl(q)
      /\ \A x \in Port : \A q \in In(dat'[x]) : PacketOk(x, q) /\ ~IsControl(q)
      /\ \A S : /\ Total(S, ctl', Port) + Total(S, dat', Port) \in Nat
                /\ Total(S, ctl', Port) + Total(S, dat', Port) <= Waiting(S) + One(S, e)
  BY EnqueKeeps DEF Passes
<1>2. wire' \in [Link -> Seq(Packet)]
  BY <1>0
<1>3. \A x \in Link : In(wire'[x]) \subseteq In(wire[x])
  BY <1>0, DequeueElements
<1>4. Carried'
  BY <1>1, <1>3 DEF Carried, PacketOk, GrantOk, BackOk, RequestOk, IsFreshGrant, IsControl
<1>5. ASSUME NEW S
      PROVE  /\ InNetwork(S)' \in Nat
             /\ InNetwork(S)' <= InNetwork(S) - One(S, Head(wire[l])) + One(S, e)
  <2>0. Total(S, wire', Link) \in Nat
    BY <1>2, Finite, TotalNat
  <2>1. Total(S, wire', Link) = Total(S, wire, Link) - One(S, Head(wire[l]))
    <3>1. Leaves(wire, wire', l)
      BY <1>0 DEF Leaves
    <3>2. wire \in [Link -> Seq(Packet)]
      BY <1>0
    <3>. QED  BY <3>1, <3>2, Finite, TotalTail DEF One
  <2>2. /\ Total(S, wire, Link) \in Nat /\ Waiting(S) \in Nat
        /\ One(S, Head(wire[l])) \in {0, 1} /\ One(S, e) \in {0, 1}
    BY NetworkCounts DEF Waiting, One
  <2>3. InNetwork(S)' = Total(S, wire', Link) + (Total(S, ctl', Port) + Total(S, dat', Port))
    BY DEF InNetwork, Waiting
  <2>. QED  BY <1>1, <2>0, <2>1, <2>2, <2>3 DEF InNetwork
<1>. QED  BY <1>1, <1>2, <1>4, <1>5 DEF Queued

\* What classify does with the packet, the tables apart.
LEMMA ClassifyPasses ==
  ASSUME NEW l \in Link, l[2] \notin Host, NEW status, NEW pkt, NEW out,
         NEW justBounced, Classify(Rev(l), status, pkt, out, justBounced)
  PROVE  \E s, queue : Passes(l, out, Leaving(s, queue, pkt, out, justBounced))
<1>1. <<Rev(l)[2], Rev(l)[1]>> = l
  BY Backwards DEF Rev
<1>2. \E s, queue : Enque(out, Leaving(s, queue, pkt, out, justBounced))
  BY DEF Classify
<1>3. wire' = [wire EXCEPT ![<<Rev(l)[2], Rev(l)[1]>>] = Tail(@)]
  BY DEF Classify
<1>. QED  BY <1>1, <1>2, <1>3 DEF Passes

\* deque moves the first packet of a port's queue to its link.
LEMMA DequeKeeps ==
  ASSUME Queued, Carried, NEW p \in Port, Deque(p)
  PROVE  /\ Queued' /\ Carried'
         /\ \A S : InNetwork(S)' = InNetwork(S)
<1> DEFINE Moved(q, r, e) ==
      /\ q[p] # <<>> /\ e = Head(q[p])
      /\ r = [q EXCEPT ![p] = Tail(@)]
      /\ wire' = [wire EXCEPT ![p] = Append(@, e)]
<1>0. /\ ctl \in [Port -> Seq(Packet)] /\ dat \in [Port -> Seq(Packet)]
      /\ wire \in [Link -> Seq(Packet)] /\ p \in Link
      /\ ns' = ns
  BY Ways DEF Queued, Deque
<1>1. /\ \A l \in Link : \A q \in In(wire[l]) : PacketOk(l, q)
      /\ \A x \in Port : \A q \in In(ctl[x]) : PacketOk(x, q) /\ IsControl(q)
      /\ \A x \in Port : \A q \in In(dat[x]) : PacketOk(x, q) /\ ~IsControl(q)
  BY DEF Carried
<1>2. ASSUME NEW q, NEW r, NEW e, q \in [Port -> Seq(Packet)], Moved(q, r, e),
             \A y \in In(q[p]) : PacketOk(p, y)
      PROVE  /\ r \in [Port -> Seq(Packet)] /\ wire' \in [Link -> Seq(Packet)]
             /\ \A x \in Port : In(r[x]) \subseteq In(q[x])
             /\ \A l \in Link : \A y \in In(wire'[l]) : PacketOk(l, y)
             /\ \A S : /\ Total(S, r, Port) = Total(S, q, Port) - One(S, e)
                       /\ Total(S, wire', Link) = Total(S, wire, Link) + One(S, e)
  <2>1. /\ q[p] # <<>> /\ e = Head(q[p]) /\ r = [q EXCEPT ![p] = Tail(@)]
        /\ wire' = [wire EXCEPT ![p] = Append(@, e)]
    BY <1>2
  <2>2. e \in In(q[p]) /\ \A x \in Port : In(r[x]) \subseteq In(q[x])
    BY <1>2, <2>1, DequeueElements
  <2>3. PacketOk(p, e) /\ e \in Packet
    BY <1>2, <2>2 DEF PacketOk
  <2>4. r \in [Port -> Seq(Packet)] /\ wire' \in [Link -> Seq(Packet)]
    BY <1>0, <1>2, <2>1, <2>3
  <2>5. ASSUME NEW l \in Link, NEW y \in In(wire'[l])
        PROVE  PacketOk(l, y)
    <3>1. y \in In([wire EXCEPT ![p] = Append(@, e)][l])
      BY <2>1, <2>5
    <3>2. y \in In(wire[l]) \/ (l = p /\ y = e)
      BY <1>0, <2>3, <3>1, EnqueueElements
    <3>. QED  BY <1>1, <2>3, <3>2
  <2>6. ASSUME NEW S
        PROVE  /\ Total(S, r, Port) = Total(S, q, Port) - One(S, e)
               /\ Total(S, wire', Link) = Total(S, wire, Link) + One(S, e)
    <3>1. Leaves(q, r, p) /\ Joins(wire, wire', p, e) /\ q[p] # <<>> /\ Head(q[p]) = e
      BY <2>1 DEF Leaves, Joins
    <3>2. Total(S, r, Port) = Total(S, q, Port) - One(S, e)
      BY <1>2, <3>1, Finite, TotalTail DEF One
    <3>3. Total(S, wire', Link) = Total(S, wire, Link) + One(S, e)
      BY <1>0, <2>3, <3>1, Finite, TotalAppend DEF One
    <3>. QED  BY <3>2, <3>3
  <2>. QED  BY <2>2, <2>4, <2>5, <2>6
<1>3. \A S : /\ Total(S, ctl, Port) \in Nat /\ Total(S, dat, Port) \in Nat
             /\ Total(S, wire, Link) \in Nat
             /\ \A e : One(S, e) \in {0, 1}
  BY NetworkCounts DEF One
<1>4. CASE Moved(ctl, ctl', Head(ctl[p])) /\ dat' = dat
  <2> DEFINE e == Head(ctl[p])
  <2>1. /\ ctl' \in [Port -> Seq(Packet)] /\ wire' \in [Link -> Seq(Packet)]
        /\ \A x \in Port : In(ctl'[x]) \subseteq In(ctl[x])
        /\ \A l \in Link : \A y \in In(wire'[l]) : PacketOk(l, y)
        /\ \A S : /\ Total(S, ctl', Port) = Total(S, ctl, Port) - One(S, e)
                  /\ Total(S, wire', Link) = Total(S, wire, Link) + One(S, e)
    <3>. HIDE DEF Moved, e
    <3>1. \A y \in In(ctl[p]) : PacketOk(p, y)
      BY <1>1
    <3>2. Moved(ctl, ctl', e)
      BY <1>4 DEF e
    <3>. QED  BY <1>0, <1>2, <3>1, <3>2
  <2>2. Carried'
    BY <1>1, <1>4, <2>1
    DEF Carried, PacketOk, GrantOk, BackOk, RequestOk, IsFreshGrant, IsControl
  <2>3. Queued'
    BY <1>0, <1>4, <2>1 DEF Queued
  <2>. HIDE DEF e, Moved
  <2>4. ASSUME NEW S PROVE InNetwork(S)' = InNetwork(S)
    <3>1. InNetwork(S)' = Total(S, wire', Link) + (Total(S, ctl', Port) + Total(S, dat, Port))
      BY <1>4 DEF InNetwork, Waiting
    <3>. QED  BY <1>3, <2>1, <3>1 DEF InNetwork, Waiting
  <2>. QED  BY <2>2, <2>3, <2>4
<1>5. CASE Moved(dat, dat', Head(dat[p])) /\ ctl' = ctl
  <2> DEFINE e == Head(dat[p])
  <2>1. /\ dat' \in [Port -> Seq(Packet)] /\ wire' \in [Link -> Seq(Packet)]
        /\ \A x \in Port : In(dat'[x]) \subseteq In(dat[x])
        /\ \A l \in Link : \A y \in In(wire'[l]) : PacketOk(l, y)
        /\ \A S : /\ Total(S, dat', Port) = Total(S, dat, Port) - One(S, e)
                  /\ Total(S, wire', Link) = Total(S, wire, Link) + One(S, e)
    <3>. HIDE DEF Moved, e
    <3>1. \A y \in In(dat[p]) : PacketOk(p, y)
      BY <1>1
    <3>2. Moved(dat, dat', e)
      BY <1>5 DEF e
    <3>. QED  BY <1>0, <1>2, <3>1, <3>2
  <2>2. Carried'
    BY <1>1, <1>5, <2>1
    DEF Carried, PacketOk, GrantOk, BackOk, RequestOk, IsFreshGrant, IsControl
  <2>3. Queued'
    BY <1>0, <1>5, <2>1 DEF Queued
  <2>. HIDE DEF e, Moved
  <2>4. ASSUME NEW S PROVE InNetwork(S)' = InNetwork(S)
    <3>1. InNetwork(S)' = Total(S, wire', Link) + (Total(S, ctl, Port) + Total(S, dat', Port))
      BY <1>5 DEF InNetwork, Waiting
    <3>. QED  BY <1>3, <2>1, <3>1 DEF InNetwork, Waiting
  <2>. QED  BY <2>2, <2>3, <2>4
<1>. QED  BY <1>4, <1>5 DEF Deque

\* A host puts a packet on its link.
LEMMA SendKeeps ==
  ASSUME Queued, Carried, NEW h \in {Rcv, Snd}, NEW e, PacketOk(Uplink(h), e),
         Send(h, e), UNCHANGED <<ns, ctl, dat>>
  PROVE  /\ Queued' /\ Carried'
         /\ \A S : InNetwork(S)' = InNetwork(S) + One(S, e)
<1> DEFINE l == Uplink(h)
<1>0. /\ wire \in [Link -> Seq(Packet)] /\ l \in Link /\ e \in Packet
      /\ wire' = [wire EXCEPT ![l] = Append(@, e)]
  BY Ways DEF Queued, Send, PacketOk
<1>. HIDE DEF l
<1>1. wire' \in [Link -> Seq(Packet)]
  BY <1>0
<1>2. ASSUME NEW x \in Link, NEW y \in In(wire'[x])
      PROVE  PacketOk(x, y)
  <2>1. y \in In([wire EXCEPT ![l] = Append(@, e)][x])
    BY <1>0, <1>2
  <2>2. y \in In(wire[x]) \/ (x = l /\ y = e)
    BY <1>0, <2>1, EnqueueElements
  <2>. QED  BY <2>2 DEF Carried, l
<1>3. Carried'
  BY <1>2 DEF Carried, PacketOk, GrantOk, BackOk, RequestOk, IsFreshGrant, IsControl
<1>4. ASSUME NEW S PROVE InNetwork(S)' = InNetwork(S) + One(S, e)
  <2>1. Joins(wire, wire', l, e) /\ wire \in [Link -> Seq(Packet)]
    BY <1>0 DEF Joins
  <2>2. Total(S, wire', Link) = Total(S, wire, Link) + One(S, e)
    <3>1. l \in Link /\ e \in Packet
      BY <1>0
    <3>. QED  BY <2>1, <3>1, Finite, TotalAppend DEF One
  <2>3. Waiting(S)' = Waiting(S)
    BY DEF Waiting
  <2>4. Total(S, wire, Link) \in Nat /\ Waiting(S) \in Nat /\ One(S, e) \in {0, 1}
    BY NetworkCounts DEF Waiting, One
  <2>5. InNetwork(S)' = Total(S, wire', Link) + Waiting(S)
    BY <2>3 DEF InNetwork
  <2>. QED  BY <2>2, <2>4, <2>5 DEF InNetwork
<1>. QED  BY <1>1, <1>3, <1>4 DEF Queued

\* A host takes a packet from its link.
LEMMA TakeKeeps ==
  ASSUME Queued, Carried, NEW l \in Link, wire[l] # <<>>,
         wire' = [wire EXCEPT ![l] = Tail(@)], UNCHANGED <<ns, ctl, dat>>
  PROVE  /\ Queued' /\ Carried'
         /\ \A S : InNetwork(S)' = InNetwork(S) - One(S, Head(wire[l]))
<1>0. wire \in [Link -> Seq(Packet)]
  BY DEF Queued
<1>1. wire' \in [Link -> Seq(Packet)]
  BY <1>0
<1>2. \A x \in Link : In(wire'[x]) \subseteq In(wire[x])
  BY <1>0, DequeueElements
<1>3. Carried'
  BY <1>2 DEF Carried, PacketOk, GrantOk, BackOk, RequestOk, IsFreshGrant, IsControl
<1>4. Leaves(wire, wire', l)
  BY DEF Leaves
<1>5. ASSUME NEW S PROVE InNetwork(S)' = InNetwork(S) - One(S, Head(wire[l]))
  <2>2. Total(S, wire', Link) = Total(S, wire, Link) - One(S, Head(wire[l]))
    BY <1>0, <1>4, Finite, TotalTail DEF One
  <2>3. Waiting(S)' = Waiting(S)
    BY DEF Waiting
  <2>4. Total(S, wire, Link) \in Nat /\ Waiting(S) \in Nat /\ One(S, Head(wire[l])) \in {0, 1}
    BY NetworkCounts DEF Waiting, One
  <2>5. InNetwork(S)' = Total(S, wire', Link) + Waiting(S)
    BY <2>3 DEF InNetwork
  <2>. QED  BY <2>2, <2>4, <2>5 DEF InNetwork
<1>. QED  BY <1>1, <1>3, <1>5 DEF Queued

\* A host takes a packet from its link and answers it.
LEMMA AnswerKeeps ==
  ASSUME Queued, Carried, NEW l \in Link, wire[l] # <<>>,
         NEW up \in Link, NEW e, PacketOk(up, e), UNCHANGED <<ns, ctl, dat>>,
         wire' = [[wire EXCEPT ![l] = Tail(@)] EXCEPT ![up] = Append(@, e)]
  PROVE  /\ Queued' /\ Carried'
         /\ \A S : InNetwork(S)' = InNetwork(S) - One(S, Head(wire[l])) + One(S, e)
<1> DEFINE rest == [wire EXCEPT ![l] = Tail(@)]
<1>0. /\ wire \in [Link -> Seq(Packet)] /\ rest \in [Link -> Seq(Packet)]
      /\ e \in Packet
  BY DEF Queued, PacketOk
<1>2. \A x \in Link : In(rest[x]) \subseteq In(wire[x])
  BY <1>0, DequeueElements
<1>3. Leaves(wire, rest, l) /\ Joins(rest, wire', up, e)
  BY DEF Leaves, Joins
<1>4. wire' = [rest EXCEPT ![up] = Append(@, e)]
  OBVIOUS
<1>. HIDE DEF rest
<1>1. wire' \in [Link -> Seq(Packet)]
  <2>1. Append(rest[up], e) \in Seq(Packet)
    BY <1>0
  <2> DEFINE longer == Append(rest[up], e)
  <2>2. wire' = [rest EXCEPT ![up] = longer]
    BY <1>4
  <2>. HIDE DEF longer
  <2>. QED  BY <1>0, <2>1, <2>2 DEF longer
<1>5. ASSUME NEW x \in Link, NEW y \in In(wire'[x])
      PROVE  PacketOk(x, y)
  <2>1. y \in In([rest EXCEPT ![up] = Append(@, e)][x])
    BY <1>4, <1>5
  <2>2. y \in In(rest[x]) \/ (x = up /\ y = e)
    BY <1>0, <2>1, EnqueueElements
  <2>. QED  BY <1>2, <2>2 DEF Carried
<1>6. Carried'
  BY <1>5 DEF Carried, PacketOk, GrantOk, BackOk, RequestOk, IsFreshGrant, IsControl
<1>7. ASSUME NEW S
      PROVE  InNetwork(S)' = InNetwork(S) - One(S, Head(wire[l])) + One(S, e)
  <2>1. Total(S, rest, Link) = Total(S, wire, Link) - One(S, Head(wire[l]))
    BY <1>0, <1>3, Finite, TotalTail DEF One
  <2>2. Total(S, wire', Link) = Total(S, rest, Link) + One(S, e)
    BY <1>0, <1>3, Finite, TotalAppend DEF One
  <2>3. Waiting(S)' = Waiting(S)
    BY DEF Waiting
  <2>4. /\ Total(S, wire, Link) \in Nat /\ Waiting(S) \in Nat
        /\ One(S, Head(wire[l])) \in {0, 1} /\ One(S, e) \in {0, 1}
    BY NetworkCounts DEF Waiting, One
  <2>5. InNetwork(S)' = Total(S, wire', Link) + Waiting(S)
    BY <2>3 DEF InNetwork
  <2>. QED  BY <2>1, <2>2, <2>4, <2>5 DEF InNetwork
<1>. QED  BY <1>1, <1>6, <1>7 DEF Queued

(***************************************************************************)
(* The steps.  For each, what it does to the packets in the network: of     *)
(* grants, and of packets whose credit a port x holds.                      *)
(***************************************************************************)

Grants == {q \in Packet : q.type = "grant"}
Holding(x) == {q \in Packet : x \in q.held}

\* A grant takes away from what the receiver has granted when it comes back.
GrantsKnown == InNetwork(Grants) <= granted

\* No more packets hold credit of port x than before.
Fewer(x) == InNetwork(Holding(x))' <= InNetwork(Holding(x))

LEMMA FirstOfLink ==
  ASSUME Queued, Carried, NEW l \in Link, wire[l] # <<>>
  PROVE  PacketOk(l, Head(wire[l])) /\ Head(wire[l]) \in Packet
<1>1. Head(wire[l]) \in In(wire[l])
  BY DequeueElements DEF Queued
<1>. QED  BY <1>1 DEF Carried, PacketOk

LEMMA CountsInt ==
  ASSUME Queued, NEW S
  PROVE  InNetwork(S) \in Nat
  BY NetworkCounts DEF InNetwork, Waiting

LEMMA CountsLater ==
  ASSUME Queued', NEW S
  PROVE  InNetwork(S)' \in Nat
<1>1. /\ wire' \in [Link -> Seq(Packet)] /\ ctl' \in [Port -> Seq(Packet)]
      /\ dat' \in [Port -> Seq(Packet)]
  BY DEF Queued
<1>2. Total(S, wire', Link) \in Nat
  BY <1>1, Finite, TotalNat
<1>3. Total(S, ctl', Port) \in Nat
  BY <1>1, Finite, TotalNat
<1>4. Total(S, dat', Port) \in Nat
  BY <1>1, Finite, TotalNat
<1>. QED  BY <1>2, <1>3, <1>4 DEF InNetwork, Waiting

\* GRANT_REQ, and the unsolicited packet of another message.
LEMMA OpeningStep ==
  ASSUME Shaped, Queued, Carried, GrantsKnown, RequestGrants \/ SendUnsolicited
  PROVE  Shaped' /\ Queued' /\ Carried' /\ GrantsKnown' /\ \A x : Fewer(x)
<1> DEFINE e == IF RequestGrants THEN Fresh("grant_req", 0, Snd, Rcv)
                ELSE [Fresh("request", 1, Snd, Rcv) EXCEPT !.unsol = TRUE]
<1>0. 1 \in Seqs /\ 0 \in 0 .. Packets /\ Seqs \subseteq 0 .. Packets
  BY SizeAssumption DEF Seqs
<1>1. /\ Rcv \in Host /\ Snd \in Host /\ TorOf[Snd] # Snd
  BY TopologyAssumption
<1>2. /\ e \in Packet /\ e.type # "grant" /\ ~e.bounced /\ e.src = Snd /\ e.dst = Rcv
      /\ e.held = {}
      /\ e.type = "request" => e.seq = 1 /\ e.unsol
  BY <1>0, <1>1 DEF Fresh, Packet
<1>3. Send(Snd, e) /\ UNCHANGED <<ns, ctl, dat>>
  BY DEF RequestGrants, SendUnsolicited
<1>. HIDE DEF e
<1>4. PacketOk(Uplink(Snd), e)
  BY <1>0, <1>1, <1>2 DEF PacketOk, IsFreshGrant, RequestOk, Uplink
<1>5. /\ Queued' /\ Carried' /\ \A S : InNetwork(S)' = InNetwork(S) + One(S, e)
  BY <1>3, <1>4, SendKeeps
<1>6. One(Grants, e) = 0 /\ \A x : One(Holding(x), e) = 0
  BY <1>2 DEF One, Grants, Holding
<1>7. \A S : InNetwork(S) \in Nat
  BY CountsInt
<1>8. \A x : Fewer(x)
  BY <1>5, <1>6, <1>7 DEF Fewer
<1>9. Shaped' /\ granted' = granted
  BY DEF Shaped, RequestGrants, SendUnsolicited
<1>10. GrantsKnown'
  BY <1>5, <1>6, <1>7, <1>9 DEF GrantsKnown
<1>. QED  BY <1>5, <1>8, <1>9, <1>10

\* The receiver grants one more packet.
LEMMA GrantStep ==
  ASSUME Shaped, Queued, Carried, GrantsKnown, SendGrant
  PROVE  Shaped' /\ Queued' /\ Carried' /\ GrantsKnown' /\ \A x : Fewer(x)
<1> DEFINE e == Fresh("grant", granted', Rcv, Snd)
<1>0. /\ granted \in Int /\ granted < Packets /\ granted' = granted + 1
      /\ InNetwork(Grants) \in Nat /\ InNetwork(Grants) <= granted
      /\ Packets \in Nat
  BY CountsInt, SizeAssumption DEF Shaped, SendGrant, GrantsKnown
<1>1. granted' \in Seqs /\ granted' \in 0 .. Packets /\ 0 \in 0 .. Packets
  BY <1>0 DEF Seqs
<1>2. Rcv \in Host /\ Snd \in Host
  BY TopologyAssumption
<1>3. /\ e \in Packet /\ e.type = "grant" /\ ~e.bounced /\ e.src = Rcv /\ e.dst = Snd
      /\ e.held = {} /\ e.seq \in Seqs
  BY <1>1, <1>2 DEF Fresh, Packet
<1>4. Send(Rcv, e) /\ UNCHANGED <<ns, ctl, dat>>
  BY DEF SendGrant
<1>. HIDE DEF e
<1>5. PacketOk(Uplink(Rcv), e)
  BY <1>3, Ways DEF PacketOk, IsFreshGrant, GrantOk
<1>6. /\ Queued' /\ Carried' /\ \A S : InNetwork(S)' = InNetwork(S) + One(S, e)
  BY <1>4, <1>5, SendKeeps
<1>7. One(Grants, e) = 1 /\ \A x : One(Holding(x), e) = 0
  BY <1>3 DEF One, Grants, Holding
<1>8. \A S : InNetwork(S) \in Nat
  BY CountsInt
<1>9. \A x : Fewer(x)
  BY <1>6, <1>7, <1>8 DEF Fewer
<1>10. Shaped'
  BY <1>0 DEF Shaped, SendGrant
<1>11. GrantsKnown'
  BY <1>0, <1>6, <1>7 DEF GrantsKnown
<1>. QED  BY <1>6, <1>9, <1>10, <1>11

\* What a grant finds at the sender.
LEMMA AtSender ==
  ASSUME NEW q, PacketOk(<<TorOf[Snd], Snd>>, q)
  PROVE  /\ q.type = "grant" /\ q.seq \in Seqs
         /\ q.held = {Near, Middle(q.seq), Far(q.seq)}
<1>1. IsFreshGrant(q) /\ GrantOk(<<TorOf[Snd], Snd>>, q)
  BY DEF PacketOk
<1>2. /\ Rcv \in Host /\ Snd \in Host /\ TorOf[Rcv] \in Tor /\ TorOf[Snd] \in Tor
      /\ Tor \cap Host = {} /\ Aggr \cap Host = {} /\ Via(q.seq) \in Aggr
  <2>1. q.seq \in Seqs
    BY <1>1 DEF GrantOk
  <2>. QED  BY <2>1, Ways, TopologyAssumption
<1>. QED  BY <1>1, <1>2 DEF GrantOk, IsFreshGrant, Rev, Near, Middle, Far

\* The sender answers a grant with the next packet.
LEMMA ReceiveGrantStep ==
  ASSUME Shaped, Queued, Carried, GrantsKnown, ReceiveGrant
  PROVE  Shaped' /\ Queued' /\ Carried' /\ GrantsKnown' /\ \A x : Fewer(x)
<1> DEFINE l == <<TorOf[Snd], Snd>>
           grant == Head(wire[l])
           e == [Fresh("request", sent', Snd, Rcv) EXCEPT
                   !.paid = grant.seq, !.held = grant.held]
<1>0. wire[l] # <<>> /\ UNCHANGED <<ns, ctl, dat>> /\ granted' = granted
  BY DEF ReceiveGrant, Take
<1>1. l \in Link /\ Uplink(Snd) \in Link
  BY Ways
<1>2. PacketOk(l, grant) /\ grant \in Packet
  BY <1>0, <1>1, FirstOfLink
<1>3. /\ grant.type = "grant" /\ grant.seq \in Seqs
      /\ grant.held = {Near, Middle(grant.seq), Far(grant.seq)}
  BY <1>2, AtSender
<1>4. Packets \in Nat /\ sent \in 0 .. Packets
  BY SizeAssumption DEF Shaped
<1>5. \A S : InNetwork(S) \in Nat
  BY CountsInt
<1>6. Shaped'
  BY <1>4 DEF Shaped, ReceiveGrant, Take
<1>7. One(Grants, grant) = 1
  BY <1>2, <1>3 DEF One, Grants
<1>8. CASE sent = Packets
  <2>1. wire' = [wire EXCEPT ![l] = Tail(@)]
    BY <1>8 DEF ReceiveGrant
  <2>. HIDE DEF l, e, grant
  <2>2. /\ Queued' /\ Carried'
        /\ \A S : InNetwork(S)' = InNetwork(S) - One(S, grant)
    BY <1>0, <1>1, <2>1, TakeKeeps DEF grant
  <2>3. \A x : One(Holding(x), grant) \in {0, 1}
    BY DEF One
  <2>4. \A x : Fewer(x)
    BY <1>5, <2>2, <2>3 DEF Fewer
  <2>5. GrantsKnown'
    BY <1>0, <1>5, <1>7, <2>2 DEF GrantsKnown, Shaped
  <2>. QED  BY <1>6, <2>2, <2>4, <2>5
<1>9. CASE sent # Packets
  <2>0. sent' \in Seqs /\ sent' \in 0 .. Packets /\ Seqs \subseteq 0 .. Packets
    BY <1>4, <1>9 DEF ReceiveGrant, Seqs
  <2>1. wire' = [[wire EXCEPT ![l] = Tail(@)] EXCEPT ![Uplink(Snd)] = Append(@, e)]
    BY <1>9 DEF ReceiveGrant
  <2>2. /\ e \in Packet /\ e.type = "request" /\ ~e.bounced /\ e.src = Snd /\ e.dst = Rcv
        /\ e.seq = sent' /\ e.paid = grant.seq /\ e.held = grant.held
    <3>1. /\ Rcv \in Host /\ Snd \in Host
          /\ grant.held \in SUBSET Port /\ grant.seq \in 0 .. Packets
      BY <1>2, TopologyAssumption DEF Packet
    <3>. HIDE DEF grant
    <3>. QED  BY <2>0, <3>1 DEF Fresh, Packet
  <2>. HIDE DEF e
  <2>3. TorOf[Snd] # Snd
    BY TopologyAssumption
  <2>4. PacketOk(Uplink(Snd), e)
    BY <1>3, <2>0, <2>2, <2>3 DEF PacketOk, IsFreshGrant, RequestOk, Uplink
  <2>5. /\ Queued' /\ Carried'
        /\ \A S : InNetwork(S)' = InNetwork(S) - One(S, grant) + One(S, e)
    <3>. HIDE DEF l, grant
    <3>. QED  BY <1>0, <1>1, <2>1, <2>4, AnswerKeeps DEF grant
  <2>6. One(Grants, e) = 0 /\ \A x : One(Holding(x), e) = One(Holding(x), grant)
    <3>. HIDE DEF grant
    <3>. QED  BY <1>2, <2>2 DEF One, Grants, Holding
  <2>. HIDE DEF l, grant
  <2>7. \A x : One(Holding(x), grant) \in {0, 1}
    BY DEF One
  <2>8. \A x : Fewer(x)
    BY <1>5, <2>5, <2>6, <2>7 DEF Fewer
  <2>9. GrantsKnown'
    BY <1>0, <1>5, <1>7, <2>5, <2>6 DEF GrantsKnown, Shaped
  <2>. QED  BY <1>6, <2>5, <2>8, <2>9
<1>. QED  BY <1>8, <1>9

\* The receiver takes data, a GRANT_REQ or a grant that was bounced.
LEMMA ReceiveStep ==
  ASSUME Shaped, Queued, Carried, GrantsKnown, Receive
  PROVE  Shaped' /\ Queued' /\ Carried' /\ GrantsKnown' /\ \A x : Fewer(x)
<1> DEFINE q == Head(wire[Near])
<1>0. /\ wire[Near] # <<>> /\ UNCHANGED <<ns, ctl, dat>> /\ Near \in Link
      /\ wire' = [wire EXCEPT ![Near] = Tail(@)]
      /\ granted' = IF q.type = "grant" THEN granted - 1 ELSE granted
  BY Ways DEF Receive, Take, Near
<1>1. q \in Packet
  BY <1>0, FirstOfLink
<1>. HIDE DEF q
<1>2. /\ Queued' /\ Carried'
      /\ \A S : InNetwork(S)' = InNetwork(S) - One(S, q)
  BY <1>0, TakeKeeps DEF q
<1>3. \A S : InNetwork(S) \in Nat /\ One(S, q) \in {0, 1}
  BY CountsInt DEF One
<1>4. \A x : Fewer(x)
  BY <1>2, <1>3 DEF Fewer
<1>5. One(Grants, q) = IF q.type = "grant" THEN 1 ELSE 0
  BY <1>1 DEF One, Grants
<1>6. granted \in Int /\ granted' \in Int /\ granted <= Packets
  BY <1>0 DEF Shaped
<1>7. GrantsKnown'
  BY <1>0, <1>2, <1>3, <1>5, <1>6 DEF GrantsKnown
<1>8. Shaped'
  <2>1. granted' \in Int /\ granted' <= Packets
    BY <1>0, <1>6, SizeAssumption
  <2>2. bounces' \in Nat
    BY DEF Shaped, Receive
  <2>3. asked' \in {"no", "asked", "known"}
    BY DEF Shaped, Receive
  <2>. QED  BY <2>1, <2>2, <2>3 DEF Shaped, Receive, Take
<1>. QED  BY <1>2, <1>4, <1>7, <1>8

\* update_port_state, accept_credit and drain_phantom_queue, as they change
\* the length of a phantom queue.
LEMMA Lengths ==
  ASSUME NEW status \in PPassPortStatus, NEW queue
  PROVE  /\ UpdatePortState(status, queue).pqlen = status.pqlen
         /\ AcceptCredit(status, queue).pqlen = status.pqlen + Credit
         /\ DrainPhantomQueue(status, 0).pqlen = status.pqlen
         /\ status.pqlen \in Nat
<1>1. status.pqlen \in Nat /\ status.pqlen - 0 = status.pqlen /\ ~(0 > status.pqlen)
  BY DEF PPassPortStatus
<1>2. UpdatePortState(status, queue).pqlen = status.pqlen
  BY DEF UpdatePortState, PPassPortStatus
<1>3. AcceptCredit(status, queue).pqlen = status.pqlen + Credit
  BY DEF AcceptCredit, UpdatePortState, PPassPortStatus
<1>4. DrainPhantomQueue(status, 0).pqlen
        = IF 0 > status.pqlen THEN 0 ELSE status.pqlen - 0
  BY DEF DrainPhantomQueue, PPassPortStatus
<1>. QED  BY <1>1, <1>2, <1>3, <1>4

\* What a port's phantom queue of length n is after ppass_egress, if nothing
\* is drained: at least this.
Left(n, revoked) == IF revoked THEN (IF Credit > n THEN 0 ELSE n - Credit) ELSE n

LEMMA EgressLength ==
  ASSUME NEW status \in PPassPortStatus, NEW queue, NEW pkt, NEW justBounced
  PROVE  PpassEgress(status, queue, pkt, justBounced, 0).pqlen
           >= Left(status.pqlen, Revokes(pkt, justBounced))
<1> DEFINE kept == DrainPhantomQueue(status, 0)
           counted == Counted(kept, pkt, justBounced)
<1>0. kept \in PPassPortStatus /\ kept.pqlen = status.pqlen /\ counted \in PPassPortStatus
  BY DrainTyped, CountedTyped, Lengths
<1>. HIDE DEF kept
<1>1. CASE Revokes(pkt, justBounced)
  <2>1. counted.pqlen = IF Credit > kept.pqlen THEN 0 ELSE kept.pqlen - Credit
    BY <1>0, <1>1 DEF Counted, PPassPortStatus
  <2>. QED  BY <1>0, <1>1, <2>1, Lengths, SizeAssumption
            DEF PpassEgress, Left, kept, PPassPortStatus
<1>2. CASE ~Revokes(pkt, justBounced)
  <2>1. Size(pkt) \in Nat
    BY SizeAssumption DEF Size
  <2>2. counted.pqlen \in {kept.pqlen, kept.pqlen + Size(pkt)}
    BY <1>0, <1>2, <2>1 DEF Counted, PPassPortStatus
  <2>. QED  BY <1>0, <1>2, <2>1, <2>2, Lengths
            DEF PpassEgress, Left, kept, PPassPortStatus
<1>. QED  BY <1>1, <1>2

\* classify, as it changes the length of the phantom queues.
LengthsAfter(p, n, out, revoked) ==
  \A x \in Port :
    LET before == IF x = p THEN n ELSE port[x].pqlen
    IN port'[x].pqlen >= IF x = out THEN Left(before, revoked) ELSE before

LEMMA ClassifyLengths ==
  ASSUME IInv, drains = {0}, NEW p \in Port, NEW status, Settled(status), NEW pkt,
         NEW out \in Port, NEW justBounced, Classify(p, status, pkt, out, justBounced)
  PROVE  LengthsAfter(p, status.pqlen, out, Revokes(pkt, justBounced))
<1> DEFINE before == [port EXCEPT ![p] = status]
<1>1. /\ before = [q \in Port |-> before[q]]
      /\ \A q \in Port : before[q] \in PPassPortStatus
      /\ \A q \in Port : before[q] = IF q = p THEN status ELSE port[q]
  BY DEF IInv, Settled
<1>2. PICK drain \in IF before[out].timed THEN drains ELSE {0} :
        port' = [before EXCEPT ![out] =
                   PpassEgress(before[out], QueueBytes(out), pkt, justBounced, drain)]
  BY DEF Classify
<1>3. drain = 0
  BY <1>2
<1> DEFINE after == PpassEgress(before[out], QueueBytes(out), pkt, justBounced, 0)
<1>4. after.pqlen >= Left(before[out].pqlen, Revokes(pkt, justBounced))
  BY <1>1, EgressLength
<1>5. port' = [before EXCEPT ![out] = after]
  BY <1>2, <1>3
<1>6. \A x \in Port : before[x].pqlen \in Nat
  BY <1>1 DEF PPassPortStatus
<1>. HIDE DEF before, after
<1>7. ASSUME NEW x \in Port
      PROVE  port'[x].pqlen >= IF x = out THEN Left(before[x].pqlen, Revokes(pkt, justBounced))
                               ELSE before[x].pqlen
  BY <1>1, <1>4, <1>5, <1>6, <1>7
<1>. QED  BY <1>1, <1>7 DEF LengthsAfter

\* classify leaves the hosts alone.
LEMMA ClassifyShape ==
  ASSUME Shaped, IInv', UNCHANGED <<hostVars, drains>>
  PROVE  Shaped'
  BY DEF Shaped, hostVars, IInv, Settled

\* The forwarder's turn stays one of its slots.
LEMMA TurnTyped ==
  ASSUME Queued, NEW s, NEW q \in Packet, TakeTurn(s, q)
  PROVE  ns' \in [Tor -> [Host -> DOMAIN Up]]
<1>1. /\ Len(Up) \in Nat \ {0} /\ DOMAIN Up = 1 .. Len(Up)
      /\ ns \in [Tor -> [Host -> DOMAIN Up]] /\ q.dst \in Host
  BY TopologyAssumption, SMTT(30) DEF Queued, Packet
<1>2. CASE MultiPath(s, q)
  <2> DEFINE next == (ns[s][q.dst] % Len(Up)) + 1
  <2>1. s \in Tor
    BY <1>2 DEF MultiPath
  <2>2. ns[s][q.dst] \in 1 .. Len(Up)
    BY <1>1, <2>1
  <2>3. next \in 1 .. Len(Up)
    BY <1>1, <2>2
  <2>4. ns' = [ns EXCEPT ![s][q.dst] = next]
    BY <1>2 DEF TakeTurn
  <2>. HIDE DEF next
  <2>. QED  BY <1>1, <2>1, <2>3, <2>4
<1>3. CASE ~MultiPath(s, q)
  BY <1>1, <1>3 DEF TakeTurn
<1>. QED  BY <1>2, <1>3

\* Credit that port p holds is there once more.
Once(x, p) == IF x = p THEN 1 ELSE 0
Gains(p) == \A x : InNetwork(Holding(x))' <= InNetwork(Holding(x)) + Once(x, p)

\* A grant that is bounced is counted by nobody but by its size.
LEMMA BounceStep ==
  ASSUME IInv, IInv', Shaped, Queued, Carried, GrantsKnown,
         NEW l \in Link, l[2] \notin Host, BounceGrant(l[1], l[2])
  PROVE  /\ Shaped' /\ Queued' /\ Carried' /\ GrantsKnown' /\ \A x : Fewer(x)
         /\ drains = {0} => LengthsAfter(Rev(l), port[Rev(l)].pqlen, Rev(l), FALSE)
<1> DEFINE q == Head(wire[l])
           b == BounceCredit(q)
<1>0. l = <<l[1], l[2]>> /\ Rev(l) \in Port /\ Rev(l) = <<l[2], l[1]>>
  BY Backwards DEF Rev
<1>1. /\ wire[l] # <<>> /\ IsFreshGrant(q) /\ UNCHANGED ns
      /\ Classify(Rev(l), Updated(Rev(l)), b, Rev(l), TRUE)
  BY <1>0 DEF BounceGrant, Arriving
<1>2. PacketOk(l, q) /\ q \in Packet
  BY <1>1, FirstOfLink
<1>. HIDE DEF q
<1>3. \E s, queue : Passes(l, Rev(l), Leaving(s, queue, b, Rev(l), TRUE))
  <2>. HIDE DEF b
  <2>. QED  BY <1>1, ClassifyPasses
<1>4. PICK s, queue : Passes(l, Rev(l), Leaving(s, queue, b, Rev(l), TRUE))
  BY <1>3
<1> DEFINE e == Leaving(s, queue, b, Rev(l), TRUE)
<1>5. PacketOk(Rev(l), e)
  BY <1>1, <1>2, BounceKeepsWay
<1>6. e.type = q.type /\ e.held = q.held
  <2>1. b \in Packet /\ b.type = q.type /\ b.held = q.held
    BY <1>2 DEF BounceCredit, Packet
  <2>. HIDE DEF b
  <2>2. e.type = b.type /\ e.held = b.held
    BY <1>0, <2>1, BouncedPacket DEF e
  <2>. QED  BY <2>1, <2>2
<1>. HIDE DEF e
<1>7. /\ Queued' /\ Carried'
      /\ \A S : /\ InNetwork(S)' \in Nat
                /\ InNetwork(S)' <= InNetwork(S) - One(S, q) + One(S, e)
  <2>1. ns' \in [Tor -> [Host -> DOMAIN Up]]
    BY <1>1 DEF Queued
  <2>2. Passes(l, Rev(l), e)
    BY <1>4 DEF e
  <2>. QED  BY <1>0, <1>1, <1>5, <2>1, <2>2, PassKeeps DEF q
<1>8. \A S : /\ InNetwork(S) \in Nat /\ InNetwork(S)' \in Nat
             /\ One(S, q) \in {0, 1} /\ One(S, e) \in {0, 1}
  BY <1>7, CountsInt DEF One
<1>9. One(Grants, e) = One(Grants, q) /\ \A x : One(Holding(x), e) = One(Holding(x), q)
  BY <1>2, <1>5, <1>6 DEF One, Grants, Holding, PacketOk
<1>10. \A x : Fewer(x)
  BY <1>7, <1>8, <1>9 DEF Fewer
<1>11. UNCHANGED <<hostVars, drains>>
  BY <1>1 DEF Classify
<1>12. Shaped' /\ granted' = granted
  BY <1>11, ClassifyShape DEF hostVars
<1>13. GrantsKnown'
  BY <1>7, <1>8, <1>9, <1>12 DEF GrantsKnown, Shaped
<1>14. ASSUME drains = {0}
       PROVE  LengthsAfter(Rev(l), port[Rev(l)].pqlen, Rev(l), FALSE)
  <2>1. port[Rev(l)] \in PPassPortStatus
    BY <1>0 DEF IInv, Settled
  <2>2. Settled(Updated(Rev(l))) /\ Updated(Rev(l)).pqlen = port[Rev(l)].pqlen
    BY <2>1, UpdateSettles, Lengths DEF Updated, Settled
  <2>. HIDE DEF b
  <2>3. LengthsAfter(Rev(l), Updated(Rev(l)).pqlen, Rev(l), Revokes(b, TRUE))
    BY <1>0, <1>1, <1>14, <2>2, ClassifyLengths
  <2>4. Revokes(b, TRUE) = FALSE
    BY DEF Revokes
  <2>. QED  BY <2>2, <2>3, <2>4
<1>. QED  BY <1>7, <1>10, <1>12, <1>13, <1>14

\* The credit of a grant that passes is counted where it comes in.
LEMMA AcceptStep ==
  ASSUME IInv, IInv', Shaped, Queued, Carried, GrantsKnown,
         NEW l \in Link, l[2] \notin Host, AcceptGrant(l[1], l[2])
  PROVE  /\ Shaped' /\ Queued' /\ Carried' /\ GrantsKnown' /\ Gains(Rev(l))
         /\ drains = {0} => \E out \in Port :
              LengthsAfter(Rev(l), port[Rev(l)].pqlen + Credit, out, FALSE)
<1> DEFINE q == Head(wire[l])
           h == Holds(q, Rev(l))
           out == OutPort(l[2], q)
           status == AcceptCredit(Updated(Rev(l)), QueueBytes(Rev(l)))
<1>0. l = <<l[1], l[2]>> /\ Rev(l) \in Port /\ Rev(l) = <<l[2], l[1]>>
  BY Backwards DEF Rev
<1>1. /\ wire[l] # <<>> /\ IsFreshGrant(q) /\ TakeTurn(l[2], q)
      /\ Classify(Rev(l), status, h, out, FALSE)
  BY <1>0 DEF AcceptGrant, Arriving
<1>2. PacketOk(l, q) /\ q \in Packet
  BY <1>1, FirstOfLink
<1>. HIDE DEF q, status
<1>3. out \in Port
  BY <1>1, <1>2, AcceptKeepsWay
<1>4. \E s, queue : Passes(l, out, Leaving(s, queue, h, out, FALSE))
  <2>. HIDE DEF h, out
  <2>. QED  BY <1>1, ClassifyPasses
<1>5. PICK s, queue : Passes(l, out, Leaving(s, queue, h, out, FALSE))
  BY <1>4
<1> DEFINE e == Leaving(s, queue, h, out, FALSE)
<1>6. PacketOk(out, e)
  BY <1>1, <1>2, AcceptKeepsWay
<1>7. h \in Packet /\ h.type = q.type /\ ~h.bounced /\ h.held = q.held \cup {Rev(l)}
  BY <1>0, <1>1, <1>2 DEF Holds, Packet, IsFreshGrant
<1>8. e.type = q.type /\ e.held = q.held \cup {Rev(l)}
  <2>. HIDE DEF h, out
  <2>1. /\ e \in Packet
        /\ e.type = h.type /\ e.seq = h.seq /\ e.src = h.src /\ e.dst = h.dst
        /\ e.bounced = h.bounced /\ e.unsol = h.unsol /\ e.paid = h.paid
        /\ e.held = IF h.bounced THEN h.held \ {out} ELSE h.held
    BY <1>3, <1>7, LeavingPacket, ZenonT(40) DEF e
  <2>. QED  BY <1>7, <2>1
<1>. HIDE DEF e, out, h
<1>9. /\ Queued' /\ Carried'
      /\ \A S : /\ InNetwork(S)' \in Nat
                /\ InNetwork(S)' <= InNetwork(S) - One(S, q) + One(S, e)
  <2>1. ns' \in [Tor -> [Host -> DOMAIN Up]]
    BY <1>1, <1>2, TurnTyped
  <2>2. Passes(l, out, e)
    BY <1>5 DEF e
  <2>. QED  BY <1>1, <1>3, <1>6, <2>1, <2>2, PassKeeps DEF q
<1>10. \A S : /\ InNetwork(S) \in Nat /\ InNetwork(S)' \in Nat
              /\ One(S, q) \in {0, 1} /\ One(S, e) \in {0, 1}
  BY <1>9, CountsInt DEF One
<1>11. /\ One(Grants, e) = One(Grants, q)
       /\ \A x : One(Holding(x), e) <= One(Holding(x), q) + Once(x, Rev(l))
  <2>1. e \in Packet
    BY <1>6 DEF PacketOk
  <2>2. One(Grants, e) = One(Grants, q)
    BY <1>2, <1>8, <2>1 DEF One, Grants
  <2>3. ASSUME NEW x PROVE One(Holding(x), e) <= One(Holding(x), q) + Once(x, Rev(l))
    BY <1>2, <1>8, <2>1 DEF One, Holding, Once
  <2>. QED  BY <2>2, <2>3
<1>12. Gains(Rev(l))
  <2>1. \A x : Once(x, Rev(l)) \in {0, 1}
    BY DEF Once
  <2>. QED  BY <1>9, <1>10, <1>11, <2>1 DEF Gains
<1>13. UNCHANGED <<hostVars, drains>>
  BY <1>1 DEF Classify
<1>14. Shaped' /\ granted' = granted
  BY <1>13, ClassifyShape DEF hostVars
<1>15. GrantsKnown'
  BY <1>9, <1>10, <1>11, <1>14 DEF GrantsKnown, Shaped
<1>16. ASSUME drains = {0}
       PROVE  LengthsAfter(Rev(l), port[Rev(l)].pqlen + Credit, out, FALSE)
  <2>1. port[Rev(l)] \in PPassPortStatus
    BY <1>0 DEF IInv, Settled
  <2>2. Updated(Rev(l)) \in PPassPortStatus /\ Updated(Rev(l)).pqlen = port[Rev(l)].pqlen
    BY <2>1, UpdateSettles, Lengths DEF Updated
  <2>3. Settled(status) /\ status.pqlen = port[Rev(l)].pqlen + Credit
    BY <2>2, AcceptSettles, Lengths DEF status
  <2>4. LengthsAfter(Rev(l), status.pqlen, out, Revokes(h, FALSE))
    BY <1>0, <1>1, <1>3, <1>16, <2>3, ClassifyLengths
  <2>5. Revokes(h, FALSE) = FALSE
    BY <1>7 DEF Revokes
  <2>. QED  BY <2>3, <2>4, <2>5
<1>. QED  BY <1>3, <1>9, <1>12, <1>14, <1>15, <1>16

\* A packet that goes on; the port by which a bounced grant leaves held its
\* credit, and does no longer.
LEMMA ForwardStep ==
  ASSUME IInv, IInv', Shaped, Queued, Carried, GrantsKnown,
         NEW l \in Link, l[2] \notin Host, Forward(l[1], l[2])
  PROVE  /\ Shaped' /\ Queued' /\ Carried' /\ GrantsKnown' /\ \A x : Fewer(x)
         /\ drains = {0} => \E out \in Port :
              \/ LengthsAfter(Rev(l), port[Rev(l)].pqlen, out, FALSE)
              \/ /\ LengthsAfter(Rev(l), port[Rev(l)].pqlen, out, TRUE)
                 /\ InNetwork(Holding(out))' <= InNetwork(Holding(out)) - 1
<1> DEFINE q == Head(wire[l])
<1>0. l = <<l[1], l[2]>> /\ Rev(l) \in Port /\ Rev(l) = <<l[2], l[1]>>
  BY Backwards DEF Rev
<1>1. /\ wire[l] # <<>> /\ ~IsFreshGrant(q) /\ TakeTurn(l[2], q)
      /\ Classify(Rev(l), Updated(Rev(l)), q, OutPort(l[2], q), FALSE)
  BY <1>0 DEF Forward, Arriving
<1>2. PacketOk(l, q) /\ q \in Packet
  BY <1>1, FirstOfLink
<1>. HIDE DEF q
<1>3. PICK out \in Port : out = OutPort(l[2], q) /\ (q.bounced => out \in q.held)
  BY <1>1, <1>2, ForwardKeepsWay
<1>4. \E s, queue : Passes(l, out, Leaving(s, queue, q, out, FALSE))
  BY <1>1, <1>3, ClassifyPasses
<1>5. PICK s, queue : Passes(l, out, Leaving(s, queue, q, out, FALSE))
  BY <1>4
<1> DEFINE e == Leaving(s, queue, q, out, FALSE)
<1>6. PacketOk(out, e)
  BY <1>1, <1>2, <1>3, ForwardKeepsWay
<1>8. e.type = q.type /\ e.held = IF q.bounced THEN q.held \ {out} ELSE q.held
  <2>0. q \in Packet /\ out \in Port
    BY <1>2, <1>3
  <2>1. /\ e \in Packet
        /\ e.type = q.type /\ e.seq = q.seq /\ e.src = q.src /\ e.dst = q.dst
        /\ e.bounced = q.bounced /\ e.unsol = q.unsol /\ e.paid = q.paid
        /\ e.held = IF q.bounced THEN q.held \ {out} ELSE q.held
    BY <2>0, LeavingPacket
  <2>. QED  BY <2>1
<1>. HIDE DEF e
<1>9. /\ Queued' /\ Carried'
      /\ \A S : /\ InNetwork(S)' \in Nat
                /\ InNetwork(S)' <= InNetwork(S) - One(S, q) + One(S, e)
  <2>1. ns' \in [Tor -> [Host -> DOMAIN Up]]
    BY <1>1, <1>2, TurnTyped
  <2>2. Passes(l, out, e)
    BY <1>5 DEF e
  <2>. QED  BY <1>1, <1>3, <1>6, <2>1, <2>2, PassKeeps DEF q
<1>10. \A S : /\ InNetwork(S) \in Nat /\ InNetwork(S)' \in Nat
              /\ One(S, q) \in {0, 1} /\ One(S, e) \in {0, 1}
  BY <1>9, CountsInt DEF One
<1>11. /\ One(Grants, e) = One(Grants, q)
       /\ \A x : One(Holding(x), e) <= One(Holding(x), q)
       /\ q.bounced => One(Holding(out), e) = 0 /\ One(Holding(out), q) = 1
  <2>1. e \in Packet
    BY <1>6 DEF PacketOk
  <2>2. One(Grants, e) = One(Grants, q)
    BY <1>2, <1>8, <2>1 DEF One, Grants
  <2>3. ASSUME NEW x PROVE One(Holding(x), e) <= One(Holding(x), q)
    BY <1>2, <1>8, <2>1 DEF One, Holding
  <2>4. q.bounced => One(Holding(out), e) = 0 /\ One(Holding(out), q) = 1
    BY <1>2, <1>3, <1>8, <2>1 DEF One, Holding
  <2>. QED  BY <2>2, <2>3, <2>4
<1>12. \A x : Fewer(x)
  BY <1>9, <1>10, <1>11 DEF Fewer
<1>13. UNCHANGED <<hostVars, drains>>
  BY <1>1 DEF Classify
<1>14. Shaped' /\ granted' = granted
  BY <1>13, ClassifyShape DEF hostVars
<1>15. GrantsKnown'
  BY <1>9, <1>10, <1>11, <1>14 DEF GrantsKnown, Shaped
<1>16. ASSUME drains = {0}
       PROVE  \/ LengthsAfter(Rev(l), port[Rev(l)].pqlen, out, FALSE)
              \/ /\ LengthsAfter(Rev(l), port[Rev(l)].pqlen, out, TRUE)
                 /\ InNetwork(Holding(out))' <= InNetwork(Holding(out)) - 1
  <2>1. port[Rev(l)] \in PPassPortStatus
    BY <1>0 DEF IInv, Settled
  <2>2. Settled(Updated(Rev(l))) /\ Updated(Rev(l)).pqlen = port[Rev(l)].pqlen
    BY <2>1, UpdateSettles, Lengths DEF Updated, Settled
  <2>3. LengthsAfter(Rev(l), Updated(Rev(l)).pqlen, out, Revokes(q, FALSE))
    BY <1>0, <1>1, <1>3, <1>16, <2>2, ClassifyLengths
  <2>4. CASE q.bounced
    <3>1. Revokes(q, FALSE) = TRUE
      BY <2>4 DEF Revokes
    <3>2. InNetwork(Holding(out))' <= InNetwork(Holding(out)) - 1
      BY <1>9, <1>10, <1>11, <2>4
    <3>. QED  BY <2>2, <2>3, <3>1, <3>2
  <2>5. CASE ~q.bounced
    <3>1. Revokes(q, FALSE) = FALSE
      BY <2>5 DEF Revokes
    <3>. QED  BY <2>2, <2>3, <3>1
  <2>. QED  BY <2>4, <2>5
<1>. QED  BY <1>3, <1>9, <1>12, <1>14, <1>15, <1>16

(***************************************************************************)
(* The theorems.                                                           *)
(***************************************************************************)

\* The inductive invariant.  TypeOK alone is not inductive: that granted does
\* not become negative depends on where a returning grant comes from.
Known == IInv /\ Shaped /\ Queued /\ Carried /\ GrantsKnown

LEMMA EmptyTotal ==
  ASSUME NEW S, NEW I, IsFiniteSet(I), NEW f, f = [i \in I |-> <<>>]
  PROVE  Total(S, f, I) = 0
<1> DEFINE c == [i \in I |-> CountIn(S, f[i])]
<1>1. ASSUME NEW i \in I PROVE c[i] = 0
  <2>1. PlacesOf(S, f[i]) = {}
    BY DEF PlacesOf
  <2>. QED  BY <2>1, FS_EmptySet DEF CountIn
<1>. HIDE DEF c
<1>2. SumFunctionOnSet(c, I) = 0
  BY <1>1, SumZero
<1>. QED  BY <1>2 DEF Total, c

LEMMA InitEmpty == Init => \A S : InNetwork(S) = 0
<1> SUFFICES ASSUME Init, NEW S PROVE InNetwork(S) = 0
  OBVIOUS
<1>1. Total(S, wire, Link) = 0
  BY Finite, EmptyTotal DEF Init
<1>2. Total(S, ctl, Port) = 0
  BY Finite, EmptyTotal DEF Init
<1>3. Total(S, dat, Port) = 0
  BY Finite, EmptyTotal DEF Init
<1>. QED  BY <1>1, <1>2, <1>3 DEF InNetwork, Waiting

LEMMA InitKnown == Init => Known
<1> SUFFICES ASSUME Init PROVE Known
  OBVIOUS
<1>1. IInv
  BY InitSettled
<1>2. Shaped
  <2>1. port \in [Port -> PPassPortStatus] /\ drains \subseteq Nat
    BY <1>1 DEF IInv, Settled
  <2>2. Packets \in Nat
    BY SizeAssumption
  <2>3. stray \in BOOLEAN
    BY DEF Init
  <2>4. /\ granted \in Int /\ granted <= Packets /\ sent \in 0 .. Packets
        /\ bounces \in Nat
    BY <2>2 DEF Init
  <2>5. asked \in {"no", "asked", "known"}
    BY DEF Init
  <2>. QED  BY <2>1, <2>3, <2>4, <2>5 DEF Shaped
<1>3. Queued
  <2>1. 1 \in DOMAIN Up
    BY TopologyAssumption
  <2>2. <<>> \in Seq(Packet)
    OBVIOUS
  <2>. QED  BY <2>1, <2>2 DEF Queued, Init
<1>4. Carried
  BY DEF Carried, Init, In
<1>5. GrantsKnown
  BY InitEmpty DEF GrantsKnown, Init
<1>. QED  BY <1>1, <1>2, <1>3, <1>4, <1>5 DEF Known

\* One step per action.
LEMMA NextKnown == Known /\ [Next]_vars => Known'
<1> SUFFICES ASSUME Known, [Next]_vars PROVE Known'
  OBVIOUS
<1> USE DEF Known
<1>0. IInv'
  BY NextSettles
<1>1. ASSUME NEW l \in Link, l[2] \notin Host, BounceGrant(l[1], l[2]) PROVE Known'
  BY <1>0, <1>1, BounceStep
<1>2. ASSUME NEW l \in Link, l[2] \notin Host, AcceptGrant(l[1], l[2]) PROVE Known'
  BY <1>0, <1>2, AcceptStep
<1>3. ASSUME NEW l \in Link, l[2] \notin Host, Forward(l[1], l[2]) PROVE Known'
  BY <1>0, <1>3, ForwardStep
<1>4. ASSUME NEW p \in Port, Deque(p) PROVE Known'
  <2>1. Queued' /\ Carried' /\ InNetwork(Grants)' = InNetwork(Grants)
    BY <1>4, DequeKeeps
  <2>2. Shaped' /\ granted' = granted
    BY <1>4 DEF Shaped, Deque, hostVars
  <2>. QED  BY <1>0, <2>1, <2>2 DEF GrantsKnown
<1>5. CASE RequestGrants \/ SendUnsolicited
  BY <1>0, <1>5, OpeningStep
<1>6. CASE SendGrant
  BY <1>0, <1>6, GrantStep
<1>7. CASE ReceiveGrant
  BY <1>0, <1>7, ReceiveGrantStep
<1>8. CASE Receive
  BY <1>0, <1>8, ReceiveStep
<1>9. CASE UNCHANGED vars
  <2>1. /\ ns' = ns /\ ctl' = ctl /\ dat' = dat /\ wire' = wire /\ granted' = granted
        /\ Shaped'
    BY <1>9 DEF vars, hostVars, Shaped
  <2>2. Queued' /\ Carried'
    BY <2>1 DEF Queued, Carried, PacketOk, GrantOk, BackOk, RequestOk, IsFreshGrant, IsControl
  <2>3. GrantsKnown'
    BY <2>1 DEF GrantsKnown, InNetwork, Waiting
  <2>. QED  BY <1>0, <2>1, <2>2, <2>3
<1>. QED  BY <1>1, <1>2, <1>3, <1>4, <1>5, <1>6, <1>7, <1>8, <1>9 DEF Next

\* The state keeps its type; in particular the receiver never takes back more
\* grants than it gave, and granted stays between 0 and the message's length.
THEOREM TypeCorrect == Spec => []TypeOK
<1>1. Known => TypeOK
  <2>1. ASSUME Known PROVE TypeOK
    <3>1. InNetwork(Grants) \in Nat /\ InNetwork(Grants) <= granted
      BY <2>1, CountsInt DEF Known, GrantsKnown
    <3>2. granted \in 0 .. Packets
      BY <2>1, <3>1, SizeAssumption DEF Known, Shaped
    <3>. QED  BY <2>1, <3>2 DEF Known, TypeOK, Shaped, Queued
  <2>. QED  BY <2>1
<1>. QED  BY InitKnown, NextKnown, <1>1, PTL DEF Spec

\* A grant that was bounced anywhere on its way retraces it: when it is back
\* no switch counts its credit any more, however hashes and turns fall.
THEOREM BouncesUndoEveryHop == Spec => []BounceUndoesEveryHop
<1>1. Known => BounceUndoesEveryHop
  <2> SUFFICES ASSUME Known, NEW l \in Link, l[2] \in Host, NEW i \in DOMAIN wire[l],
                      wire[l][i].bounced
               PROVE  wire[l][i].held = {}
    BY DEF BounceUndoesEveryHop
  <2> DEFINE q == wire[l][i]
  <2>1. q \in In(wire[l])
    BY DEF In, Known, Queued
  <2>2. PacketOk(l, q)
    BY <2>1 DEF Known, Carried
  <2>. HIDE DEF q
  <2>3. BackOk(l, q)
    BY <2>2 DEF PacketOk, q
  <2>4. TorOf[Rcv] \notin Host /\ Via(q.seq) \notin Host
    BY <2>3, Ways, TopologyAssumption DEF BackOk
  <2>5. q.held = {}
    BY <2>3, <2>4 DEF BackOk, Middle, Far
  <2>. QED  BY <2>5 DEF q
<1>. QED  BY InitKnown, NextKnown, <1>1, PTL DEF Spec

\* Data waits only at ports that have counted the grant with its number.
THEOREM DataStaysOnGrantedPath == Spec => []DataFollowsItsGrant
<1>1. Known => DataFollowsItsGrant
  <2> SUFFICES ASSUME Known, NEW p \in Port, NEW i \in DOMAIN dat[p],
                      ~dat[p][i].unsol, dat[p][i].paid = dat[p][i].seq
               PROVE  p \in dat[p][i].held
    BY DEF DataFollowsItsGrant
  <2> DEFINE q == dat[p][i]
  <2>1. q \in In(dat[p])
    <3>1. dat[p] \in Seq(Packet)
      BY DEF Known, Queued
    <3>2. i \in 1 .. Len(dat[p])
      BY <3>1
    <3>. QED  BY <3>2 DEF In
  <2>2. PacketOk(p, q) /\ ~IsControl(q)
    BY <2>1 DEF Known, Carried
  <2>. HIDE DEF q
  <2>3. RequestOk(p, q)
    BY <2>2 DEF PacketOk, IsControl
  <2>4. p # Uplink(Snd)
    BY TopologyAssumption DEF Port, Uplink
  <2>5. p \in q.held
    BY <2>3, <2>4 DEF RequestOk, q
  <2>. QED  BY <2>5 DEF q
<1>. QED  BY InitKnown, NextKnown, <1>1, PTL DEF Spec

(***************************************************************************)
(* Credit.                                                                 *)
(***************************************************************************)

\* A product with Credit grows with its other factor.
LEMMA CreditTimes ==
  ASSUME NEW a \in Nat, NEW b \in Nat
  PROVE  /\ Credit * a \in Nat
         /\ a <= b => Credit * a <= Credit * b
         /\ a <= b + 1 => Credit * a <= Credit * b + Credit
         /\ a <= b - 1 => Credit * a <= Credit * b - Credit /\ Credit <= Credit * b
<1>1. Credit \in Nat
  BY SizeAssumption
<1>2. ASSUME NEW m \in Nat, NEW n \in Nat, m <= n PROVE Credit * m <= Credit * n
  <2>1. PICK d \in Nat : n = m + d
    <3>1. n - m \in Nat /\ n = m + (n - m)
      BY <1>2
    <3>. QED  BY <3>1
  <2>2. Credit * n = Credit * m + Credit * d
    BY <1>1, <2>1
  <2>3. Credit * m \in Nat /\ Credit * d \in Nat
    BY <1>1
  <2>. QED  BY <2>2, <2>3
<1>3. Credit * a \in Nat /\ Credit * b \in Nat
  BY <1>1
<1>4. a <= b + 1 => Credit * a <= Credit * (b + 1)
  BY <1>2
<1>5. Credit * (b + 1) = Credit * b + Credit
  BY <1>1
<1>6. ASSUME a <= b - 1 PROVE Credit * a <= Credit * b - Credit /\ Credit <= Credit * b
  <2>1. Credit * (a + 1) <= Credit * b
    BY <1>2, <1>6
  <2>2. Credit * (a + 1) = Credit * a + Credit
    BY <1>1
  <2>. QED  BY <1>1, <1>3, <2>1, <2>2
<1>. QED  BY <1>1, <1>2, <1>3, <1>4, <1>5, <1>6

\* CoversOutstandingCredit, in the terms of the steps.
Covered == drains = {0} =>
  \A p \in Port : port[p].pqlen >= Credit * InNetwork(Holding(p))

\* A step of a host or of a queue leaves the phantom queues alone.
LEMMA CoveredElsewhere ==
  ASSUME Covered, Queued, Queued', IInv, UNCHANGED <<port, drains>>, \A x : Fewer(x)
  PROVE  Covered'
<1> SUFFICES ASSUME drains = {0}, NEW p \in Port
             PROVE  port[p].pqlen >= Credit * InNetwork(Holding(p))'
  BY DEF Covered
<1> DEFINE a == InNetwork(Holding(p))'
           b == InNetwork(Holding(p))
<1>1. a \in Nat /\ b \in Nat
  BY CountsLater, CountsInt
<1>2. a <= b
  BY DEF Fewer
<1>3. port[p].pqlen \in Nat /\ port[p].pqlen >= Credit * b
  BY DEF Covered, IInv, Settled, PPassPortStatus
<1>. HIDE DEF a, b
<1>4. Credit * a \in Nat /\ Credit * b \in Nat /\ Credit * a <= Credit * b
  BY <1>1, <1>2, CreditTimes
<1>5. port[p].pqlen >= Credit * a
  BY <1>3, <1>4
<1>. QED  BY <1>5 DEF a

\* A step of classify that revokes nothing: credit is held anew only by the
\* port where it came in, if there.
LEMMA CoveredKept ==
  ASSUME Covered, Queued, Queued', IInv, IInv', drains' = drains, NEW p \in Port, NEW out \in Port,
         NEW k \in {0, Credit}, drains = {0} => LengthsAfter(p, port[p].pqlen + k, out, FALSE),
         \A x : Fewer(x) \/ (k = Credit /\ x = p /\ Gains(p))
  PROVE  Covered'
<1> SUFFICES ASSUME drains = {0}, NEW x \in Port
             PROVE  port'[x].pqlen >= Credit * InNetwork(Holding(x))'
  BY DEF Covered
<1> DEFINE a == InNetwork(Holding(x))'
           b == InNetwork(Holding(x))
<1>1. a \in Nat /\ b \in Nat /\ Credit \in Nat
  BY CountsLater, CountsInt, SizeAssumption
<1>2. /\ port[x].pqlen \in Nat /\ port[x].pqlen >= Credit * b
      /\ port'[x].pqlen \in Nat
  BY DEF Covered, IInv, Settled, PPassPortStatus
<1>3. port'[x].pqlen >= IF x = p THEN port[p].pqlen + k ELSE port[x].pqlen
  BY DEF LengthsAfter, Left
<1>4. a <= b \/ (k = Credit /\ x = p /\ a <= b + 1)
  <2>1. Fewer(x) => a <= b
    BY DEF Fewer
  <2>2. Gains(p) /\ x = p => a <= b + 1
    BY DEF Gains, Once
  <2>. QED  BY <2>1, <2>2
<1>. HIDE DEF a, b
<1>5. /\ Credit * a \in Nat /\ Credit * b \in Nat
      /\ a <= b => Credit * a <= Credit * b
      /\ a <= b + 1 => Credit * a <= Credit * b + Credit
  BY <1>1, CreditTimes
<1>6. port'[x].pqlen >= Credit * a
  <2> DEFINE ca == Credit * a
             cb == Credit * b
  <2>. HIDE DEF ca, cb
  <2>1. /\ ca \in Nat /\ cb \in Nat /\ (a <= b => ca <= cb)
        /\ (a <= b + 1 => ca <= cb + Credit) /\ port[x].pqlen >= cb
    BY <1>2, <1>5 DEF ca, cb
  <2>2. port'[x].pqlen >= ca
    BY <1>1, <1>2, <1>3, <1>4, <2>1
  <2>. QED  BY <2>2 DEF ca
<1>. QED  BY <1>6 DEF a

\* A step of classify that revokes the credit of a grant at the port out.
LEMMA CoveredRevoked ==
  ASSUME Covered, Queued, Queued', IInv, IInv', drains' = drains, NEW p \in Port, NEW out \in Port,
         drains = {0}, LengthsAfter(p, port[p].pqlen, out, TRUE),
         \A x : Fewer(x), InNetwork(Holding(out))' <= InNetwork(Holding(out)) - 1
  PROVE  Covered'
<1> SUFFICES ASSUME NEW x \in Port
             PROVE  port'[x].pqlen >= Credit * InNetwork(Holding(x))'
  BY DEF Covered
<1> DEFINE a == InNetwork(Holding(x))'
           b == InNetwork(Holding(x))
<1>1. a \in Nat /\ b \in Nat /\ Credit \in Nat
  BY CountsLater, CountsInt, SizeAssumption
<1>2. /\ port[x].pqlen \in Nat /\ port[x].pqlen >= Credit * b
      /\ port'[x].pqlen \in Nat
  BY DEF Covered, IInv, Settled, PPassPortStatus
<1>3. port'[x].pqlen >= IF x = out
                        THEN (IF Credit > port[x].pqlen THEN 0 ELSE port[x].pqlen - Credit)
                        ELSE port[x].pqlen
  BY DEF LengthsAfter, Left
<1>4. a <= b /\ (x = out => a <= b - 1)
  BY DEF Fewer
<1>. HIDE DEF a, b
<1>5. /\ Credit * a \in Nat /\ Credit * b \in Nat
      /\ a <= b => Credit * a <= Credit * b
      /\ a <= b - 1 => Credit * a <= Credit * b - Credit /\ Credit <= Credit * b
  BY <1>1, CreditTimes
<1>6. port'[x].pqlen >= Credit * a
  <2> DEFINE ca == Credit * a
             cb == Credit * b
  <2>. HIDE DEF ca, cb
  <2>1. /\ ca \in Nat /\ cb \in Nat /\ (a <= b => ca <= cb)
        /\ (a <= b - 1 => ca <= cb - Credit /\ Credit <= cb) /\ port[x].pqlen >= cb
    BY <1>2, <1>5 DEF ca, cb
  <2>2. port'[x].pqlen >= ca
    BY <1>1, <1>2, <1>3, <1>4, <2>1
  <2>. QED  BY <2>2 DEF ca
<1>. QED  BY <1>6 DEF a

LEMMA NextCovered == Known /\ Known' /\ Covered /\ [Next]_vars => Covered'
<1> SUFFICES ASSUME Known, Known', Covered, [Next]_vars PROVE Covered'
  OBVIOUS
<1>0. /\ IInv /\ Shaped /\ Queued /\ Carried /\ GrantsKnown
      /\ IInv' /\ Queued'
      /\ Credit \in {0, Credit} /\ 0 \in {0, Credit}
  BY DEF Known
<1>1. ASSUME NEW l \in Link, l[2] \notin Host, BounceGrant(l[1], l[2]) PROVE Covered'
  <2>1. /\ \A x : Fewer(x)
        /\ drains = {0} => LengthsAfter(Rev(l), port[Rev(l)].pqlen, Rev(l), FALSE)
    BY <1>0, <1>1, BounceStep
  <2>2. Rev(l) \in Port /\ drains' = drains
    BY <1>1, Backwards DEF BounceGrant, Classify
  <2>3. port[Rev(l)].pqlen + 0 = port[Rev(l)].pqlen
    BY <1>0, <2>2 DEF IInv, Settled, PPassPortStatus
  <2>. QED  BY <1>0, <2>1, <2>2, <2>3, CoveredKept
<1>2. ASSUME NEW l \in Link, l[2] \notin Host, AcceptGrant(l[1], l[2]) PROVE Covered'
  <2>1. /\ Gains(Rev(l))
        /\ drains = {0} => \E out \in Port :
             LengthsAfter(Rev(l), port[Rev(l)].pqlen + Credit, out, FALSE)
    BY <1>0, <1>2, AcceptStep
  <2>2. Rev(l) \in Port /\ drains' = drains
    BY <1>2, Backwards DEF AcceptGrant, Classify
  <2>3. ASSUME NEW x, x # Rev(l) PROVE Fewer(x)
    <3>1. InNetwork(Holding(x))' <= InNetwork(Holding(x)) + 0
      BY <2>1, <2>3 DEF Gains, Once
    <3>2. InNetwork(Holding(x)) + 0 = InNetwork(Holding(x))
      BY <1>0, CountsInt
    <3>. QED  BY <3>1, <3>2 DEF Fewer
  <2>4. \A x : Fewer(x) \/ (Credit = Credit /\ x = Rev(l) /\ Gains(Rev(l)))
    BY <2>1, <2>3
  <2>5. PICK out \in Port :
          drains = {0} => LengthsAfter(Rev(l), port[Rev(l)].pqlen + Credit, out, FALSE)
    BY <2>1, <2>2
  <2>. QED  BY <1>0, <2>2, <2>4, <2>5, CoveredKept
<1>3. ASSUME NEW l \in Link, l[2] \notin Host, Forward(l[1], l[2]) PROVE Covered'
  <2>1. /\ \A x : Fewer(x)
        /\ drains = {0} => \E out \in Port :
             \/ LengthsAfter(Rev(l), port[Rev(l)].pqlen, out, FALSE)
             \/ /\ LengthsAfter(Rev(l), port[Rev(l)].pqlen, out, TRUE)
                /\ InNetwork(Holding(out))' <= InNetwork(Holding(out)) - 1
    BY <1>0, <1>3, ForwardStep
  <2>2. Rev(l) \in Port /\ drains' = drains
    BY <1>3, Backwards DEF Forward, Classify
  <2>3. port[Rev(l)].pqlen + 0 = port[Rev(l)].pqlen
    BY <1>0, <2>2 DEF IInv, Settled, PPassPortStatus
  <2>4. CASE drains # {0}
    BY <2>2, <2>4 DEF Covered
  <2>5. CASE drains = {0}
    <3>1. PICK out \in Port :
             \/ LengthsAfter(Rev(l), port[Rev(l)].pqlen, out, FALSE)
             \/ /\ LengthsAfter(Rev(l), port[Rev(l)].pqlen, out, TRUE)
                /\ InNetwork(Holding(out))' <= InNetwork(Holding(out)) - 1
      BY <2>1, <2>5
    <3>2. CASE LengthsAfter(Rev(l), port[Rev(l)].pqlen, out, FALSE)
      BY <1>0, <2>1, <2>2, <2>3, <3>2, CoveredKept
    <3>3. CASE /\ LengthsAfter(Rev(l), port[Rev(l)].pqlen, out, TRUE)
               /\ InNetwork(Holding(out))' <= InNetwork(Holding(out)) - 1
      BY <1>0, <2>1, <2>2, <2>5, <3>3, CoveredRevoked
    <3>. QED  BY <3>1, <3>2, <3>3
  <2>. QED  BY <2>4, <2>5
<1>4. ASSUME NEW p \in Port, Deque(p) PROVE Covered'
  <2>1. \A x : InNetwork(Holding(x))' = InNetwork(Holding(x))
    BY <1>0, <1>4, DequeKeeps
  <2>2. \A x : InNetwork(Holding(x)) \in Nat
    BY <1>0, CountsInt
  <2>3. \A x : Fewer(x)
    BY <2>1, <2>2 DEF Fewer
  <2>4. UNCHANGED <<port, drains>>
    BY <1>4 DEF Deque
  <2>. QED  BY <1>0, <2>3, <2>4, CoveredElsewhere
<1>5. CASE RequestGrants \/ SendUnsolicited
  <2>1. \A x : Fewer(x)
    BY <1>0, <1>5, OpeningStep
  <2>2. UNCHANGED <<port, drains>>
    BY <1>5 DEF RequestGrants, SendUnsolicited
  <2>. QED  BY <1>0, <2>1, <2>2, CoveredElsewhere
<1>6. CASE SendGrant
  <2>1. \A x : Fewer(x)
    BY <1>0, <1>6, GrantStep
  <2>2. UNCHANGED <<port, drains>>
    BY <1>6 DEF SendGrant
  <2>. QED  BY <1>0, <2>1, <2>2, CoveredElsewhere
<1>7. CASE ReceiveGrant
  <2>1. \A x : Fewer(x)
    BY <1>0, <1>7, ReceiveGrantStep
  <2>2. UNCHANGED <<port, drains>>
    BY <1>7 DEF ReceiveGrant, Take
  <2>. QED  BY <1>0, <2>1, <2>2, CoveredElsewhere
<1>8. CASE Receive
  <2>1. \A x : Fewer(x)
    BY <1>0, <1>8, ReceiveStep
  <2>2. UNCHANGED <<port, drains>>
    BY <1>8 DEF Receive, Take
  <2>. QED  BY <1>0, <2>1, <2>2, CoveredElsewhere
<1>9. CASE UNCHANGED vars
  <2>1. UNCHANGED <<port, drains, wire, ctl, dat>>
    BY <1>9 DEF vars
  <2>. QED  BY <2>1 DEF Covered, InNetwork, Waiting
<1>. QED  BY <1>1, <1>2, <1>3, <1>4, <1>5, <1>6, <1>7, <1>8, <1>9 DEF Next

\* The sum in CoversOutstandingCredit counts the packets that hold credit.
LEMMA CountingIsTotal ==
  ASSUME NEW x, NEW I, IsFiniteSet(I), NEW f \in [I -> Seq(Packet)]
  PROVE  Counting(x, f) = Total(Holding(x), f, I)
<1> DEFINE c == [l \in DOMAIN f |-> Cardinality({i \in DOMAIN f[l] : x \in f[l][i].held})]
           d == [i \in I |-> CountIn(Holding(x), f[i])]
<1>1. ASSUME NEW l \in I
      PROVE  {i \in DOMAIN f[l] : x \in f[l][i].held} = PlacesOf(Holding(x), f[l])
  <2>1. f[l] \in Seq(Packet)
    OBVIOUS
  <2>2. DOMAIN f[l] = 1 .. Len(f[l]) /\ \A i \in 1 .. Len(f[l]) : f[l][i] \in Packet
    BY <2>1
  <2>. QED  BY <2>2 DEF PlacesOf, Holding
<1>2. c = d
  BY <1>1 DEF CountIn
<1>3. DOMAIN d = I
  OBVIOUS
<1>4. Counting(x, f) = SumFunction(c)
  BY DEF Counting
<1>. HIDE DEF c, d
<1>5. SumFunction(d) = SumFunctionOnSet(d, I)
  BY <1>3 DEF SumFunction, SumFunctionOnSet, FoldFunction, FoldFunctionOnSet
<1>. QED  BY <1>2, <1>4, <1>5 DEF Total, d

\* Where nothing is drained the phantom queue of a port covers all credit that
\* is in the network through it: the revocation at a port takes away only what
\* that port counted for that grant, and stopping at zero hides no loss.
THEOREM CreditIsCovered == Spec => []CoversOutstandingCredit
<1>1. Init => Covered
  <2> SUFFICES ASSUME Init, NEW p \in Port
               PROVE  port[p].pqlen >= Credit * InNetwork(Holding(p))
    BY DEF Covered
  <2>1. InNetwork(Holding(p)) = 0 /\ port[p].pqlen = 0
    BY InitEmpty DEF Init
  <2>2. Credit * 0 = 0
    BY SizeAssumption
  <2>. QED  BY <2>1, <2>2
<1>2. Known /\ Covered => CoversOutstandingCredit
  <2> SUFFICES ASSUME Known, Covered, drains = {0}, NEW p \in Port
               PROVE  port[p].pqlen >= Credit * Outstanding(p)
    BY DEF CoversOutstandingCredit
  <2>1. Counting(p, wire) = Total(Holding(p), wire, Link)
    BY Finite, CountingIsTotal DEF Known, Queued
  <2>2. Counting(p, ctl) = Total(Holding(p), ctl, Port)
    BY Finite, CountingIsTotal DEF Known, Queued
  <2>3. Counting(p, dat) = Total(Holding(p), dat, Port)
    BY Finite, CountingIsTotal DEF Known, Queued
  <2>4. /\ Total(Holding(p), wire, Link) \in Nat /\ Total(Holding(p), ctl, Port) \in Nat
        /\ Total(Holding(p), dat, Port) \in Nat
    BY NetworkCounts DEF Known
  <2>5. Outstanding(p) = InNetwork(Holding(p))
    BY <2>1, <2>2, <2>3, <2>4 DEF Outstanding, InNetwork, Waiting
  <2>. QED  BY <2>5 DEF Covered
<1>. QED  BY InitKnown, NextKnown, <1>1, NextCovered, <1>2, PTL DEF Spec
=============================================================================
