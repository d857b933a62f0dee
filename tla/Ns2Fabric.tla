----------------------------- MODULE Ns2Fabric ------------------------------
(***************************************************************************)
(* The phantom-queue switch of the ns-2 simulation: DestHashClassifier     *)
(* (classifier-hash.cc), MultiPathForwarder (classifier-mpath.cc) and      *)
(* DPDQQueue (dpdq-queue.cc) on every switch of a two-tier network.        *)
(*                                                                         *)
(* A receiver grants the packets of one message to a sender in another     *)
(* rack; the sender answers each grant with a packet.  Top-of-rack switches *)
(* choose among the aggregation switches by a hash that a grant and the    *)
(* data of the same sequence number share, so that the data passes the     *)
(* ports whose phantom queue counted it.  Unlike the Tofino pipeline, a    *)
(* switch decides on the authoritative state, but drains the phantom queue *)
(* only when a packet leaves the port.                                     *)
(*                                                                         *)
(* Switches know their neighbours by interface label: <<s, n>> is the entry *)
(* of port_status_map_ of s for its link with n, and its queue towards n.  *)
(***************************************************************************)
EXTENDS Integers, Sequences, SequencesExt

CONSTANTS
  Tor, Aggr, Host,   \* nodes; every Tor is linked with every Aggr
  TorOf,             \* [Host -> Tor]
  Rcv, Snd,          \* receiver and sender, in different racks
  Up,                \* the slots of a MultiPathForwarder: a sequence of Aggr
  Hash,              \* crc32 % (maxslot_ + 1): [Host \X Host \X seq -> slot]
  Packets,           \* length of the message
  Credit, DataBytes, ControlBytes,  \* bytes of a grant's credit, of packets
  Xoff, Xon, Pthr,   \* xoff_bytes_, xon_bytes_, pthr_
  Drains,            \* values of rho_ * interval * line rate, rho_ > 0
  ControlLimit, DataLimit,  \* credit_limit_ and data_limit_, in bytes
  MaxBounces         \* bound: bounced grants after which none is sent anew

Node == Tor \cup Aggr \cup Host
Adjacent(m, n) ==
  \/ m \in Tor /\ n \in Aggr
  \/ m \in Aggr /\ n \in Tor
  \/ m \in Host /\ n = TorOf[m]
  \/ n \in Host /\ m = TorOf[n]
Link == {l \in Node \X Node : Adjacent(l[1], l[2])}
Port == {l \in Link : l[1] \notin Host}
Seqs == 1 .. Packets

ASSUME TopologyAssumption ==
  /\ IsFiniteSet(Tor) /\ IsFiniteSet(Aggr) /\ IsFiniteSet(Host)
  /\ Tor \cap Aggr = {} /\ Tor \cap Host = {} /\ Aggr \cap Host = {}
  /\ TorOf \in [Host -> Tor]
  /\ Rcv \in Host /\ Snd \in Host /\ TorOf[Rcv] # TorOf[Snd]
  /\ Up \in Seq(Aggr) /\ Up # <<>>
  /\ Hash \in [Host \X Host \X Seqs -> DOMAIN Up]

ASSUME SizeAssumption ==
  /\ {Packets, Credit, DataBytes, ControlBytes, Xoff} \subseteq Nat \ {0}
  /\ {Xon, Pthr, ControlLimit, DataLimit, MaxBounces} \subseteq Nat
  /\ Xon <= Xoff
  /\ Drains \subseteq Nat /\ 0 \in Drains

VARIABLES
  port,      \* port_status_map_: the PPassPortStatus of each port
  ns,        \* ns_ of the MultiPathForwarder of a Tor towards a host
  ctl, dat,  \* credit_q_ and data_q_ of each port
  wire,      \* packets on each directed link
  asked,     \* receiver: how far the GRANT_REQ has come
  granted,   \* receiver: seq_ of the message, in packets
  sent,      \* sender: packets of the message sent so far
  stray,     \* sender: an unsolicited packet of another message was sent
  bounces,   \* grants that came back
  drains     \* what may be drained at once: of Drains, or nothing (rho_ = 0)

hostVars == <<asked, granted, sent, stray, bounces>>
vars == <<port, ns, ctl, dat, wire, hostVars, drains>>

-----------------------------------------------------------------------------
(* Packets.  RESEND, which a switch counts like GRANT_REQ, is left out.     *)
(* paid is history: the seq of the grant that paid for a data packet, 0 for *)
(* none; held is history: the ports that count that grant's credit.         *)

Packet ==
  [type : {"grant", "request", "grant_req"}, seq : 0 .. Packets,
   src : Host, dst : Host, bounced : BOOLEAN, unsol : BOOLEAN, ce : BOOLEAN,
   paid : 0 .. Packets, held : SUBSET Port]

Fresh(type, seq, src, dst) ==
  [type |-> type, seq |-> seq, src |-> src, dst |-> dst, bounced |-> FALSE,
   unsol |-> FALSE, ce |-> FALSE, paid |-> 0, held |-> {}]

Size(pkt) == IF pkt.type = "request" THEN DataBytes ELSE ControlBytes

\* byteLength() of a queue.
Bytes(queue) == FoldLeft(LAMBDA sum, pkt : sum + Size(pkt), 0, queue)
QueueBytes(p) == Bytes(ctl[p]) + Bytes(dat[p])

-----------------------------------------------------------------------------
(* PPassPortStatus: a phantom queue pqlen, whether it is paused, and whether *)
(* last_time_ is set.  queue is the length in bytes of the egress queue.     *)

PPassPortStatus == [pqlen : Nat, paused : BOOLEAN, timed : BOOLEAN]

DrainPhantomQueue(status, drain) ==
  [status EXCEPT !.timed = TRUE,
                 !.pqlen = IF drain > @ THEN 0 ELSE @ - drain]

\* get_congestion_metric, the larger of the two lengths, is above a threshold.
Exceeds(status, queue, threshold) ==
  status.pqlen > threshold \/ queue > threshold

\* PAUSE above XOFF, NORMAL below XON, else as it was.
UpdatePortState(status, queue) ==
  [status EXCEPT !.paused =
     Exceeds(status, queue, Xoff) \/ (@ /\ Exceeds(status, queue, Xon - 1))]

-----------------------------------------------------------------------------
(* MultiPathForwarder and the route lookup of DestHashClassifier. *)

\* Data is hashed in its own direction.
HashKeyMutant(pkt) == <<pkt.src, pkt.dst, pkt.seq>>

\* The hash is that of the grant, also for its data and for its way back.
HashKey(pkt) ==
  IF pkt.type = "request" \/ pkt.bounced
  THEN <<pkt.dst, pkt.src, pkt.seq>>
  ELSE <<pkt.src, pkt.dst, pkt.seq>>

\* A Tor reaches other racks through a MultiPathForwarder, which takes the
\* next slot in turn for every packet and overrides it for those it hashes.
MultiPath(s, pkt) == s \in Tor /\ TorOf[pkt.dst] # s

Slot(s, pkt) ==
  IF pkt.type = "grant_req" THEN ns[s][pkt.dst] ELSE Hash[HashKey(pkt)]

OutPort(s, pkt) ==
  IF MultiPath(s, pkt) THEN <<s, Up[Slot(s, pkt)]>>
  ELSE IF s \in Tor THEN <<s, pkt.dst>> ELSE <<s, TorOf[pkt.dst]>>

TakeTurn(s, pkt) ==
  ns' = IF MultiPath(s, pkt)
        THEN [ns EXCEPT ![s][pkt.dst] = (@ % Len(Up)) + 1] ELSE ns

-----------------------------------------------------------------------------
(* DestHashClassifier: ppass_ingress and ppass_egress. *)

IsFreshGrant(pkt) == pkt.type = "grant" /\ ~pkt.bounced

\* bounce_credit turns the grant round.
BounceCredit(pkt) ==
  [pkt EXCEPT !.src = pkt.dst, !.dst = pkt.src, !.bounced = TRUE]

\* The state of the port is not updated once the credit is added.
AcceptCreditMutant(status, queue) == [status EXCEPT !.pqlen = @ + Credit]

\* ppass_ingress, credit of a grant that is let pass.
AcceptCredit(status, queue) ==
  UpdatePortState([status EXCEPT !.pqlen = @ + Credit], queue)

\* History of ppass_ingress: port p now counts the credit of the grant.
Holds(pkt, p) == [pkt EXCEPT !.held = @ \cup {p}]

\* A switch also revokes the credit of the grant it has just turned round.
RevokesOwnMutant(pkt, justBounced) == pkt.bounced

\* A returning grant is counted like any control packet.
RevokesMutant(pkt, justBounced) == FALSE

\* A bounced grant that passes revokes its credit; unless a switch turned it
\* round itself, when it is counted by its size like other control packets.
Revokes(pkt, justBounced) == pkt.bounced /\ ~justBounced

\* The subtraction does not stop at zero.
CountedMutant(status, pkt, justBounced) ==
  CASE Revokes(pkt, justBounced) -> [status EXCEPT !.pqlen = @ - Credit]
    [] ~Revokes(pkt, justBounced) /\ (pkt.unsol \/ pkt.type # "request") ->
         [status EXCEPT !.pqlen = @ + Size(pkt)]
    [] OTHER -> status

Counted(status, pkt, justBounced) ==
  CASE Revokes(pkt, justBounced) ->
         [status EXCEPT !.pqlen = IF Credit > @ THEN 0 ELSE @ - Credit]
    [] ~Revokes(pkt, justBounced) /\ (pkt.unsol \/ pkt.type # "request") ->
         [status EXCEPT !.pqlen = @ + Size(pkt)]
    [] OTHER -> status

\* ppass_egress: the new state of the port and what leaves by it.
PpassEgress(status, queue, pkt, justBounced, drain) ==
  UpdatePortState(
    Counted(DrainPhantomQueue(status, drain), pkt, justBounced), queue)

\* Credit of a returning grant is taken from the phantom queue, and the
\* history; the packet is marked if the port is congested.
Leaving(status, queue, pkt, p, justBounced) ==
  [pkt EXCEPT
     !.ce = @ \/ (pkt.type # "grant" /\ Exceeds(status, queue, Pthr)),
     !.held = IF Revokes(pkt, justBounced) THEN @ \ {p} ELSE @]

-----------------------------------------------------------------------------
(* DPDQQueue. *)

IsControl(pkt) == pkt.type # "request"

ShouldDrop(pkt, queue, limit) == limit > 0 /\ Bytes(queue) + Size(pkt) >= limit

Enque(p, pkt) ==
  IF IsControl(pkt)
  THEN /\ ctl' = IF ShouldDrop(pkt, ctl[p], ControlLimit) THEN ctl
                 ELSE [ctl EXCEPT ![p] = Append(@, pkt)]
       /\ UNCHANGED dat
  ELSE /\ dat' = IF ShouldDrop(pkt, dat[p], DataLimit) THEN dat
                 ELSE [dat EXCEPT ![p] = Append(@, pkt)]
       /\ UNCHANGED ctl

\* deque, and the transmission: credit_q_ goes first.
Deque(p) ==
  /\ \/ /\ ctl[p] # <<>>
        /\ ctl' = [ctl EXCEPT ![p] = Tail(@)]
        /\ wire' = [wire EXCEPT ![p] = Append(@, Head(ctl[p]))]
        /\ UNCHANGED dat
     \/ /\ ctl[p] = <<>> /\ dat[p] # <<>>
        /\ dat' = [dat EXCEPT ![p] = Tail(@)]
        /\ wire' = [wire EXCEPT ![p] = Append(@, Head(dat[p]))]
        /\ UNCHANGED ctl
  /\ UNCHANGED <<port, ns, hostVars, drains>>

-----------------------------------------------------------------------------
(* classify on the next packet from m, one action per way it takes.  out is *)
(* the port pkt leaves by, and status the entry of the ingress port p after *)
(* ppass_ingress: both may be of the same port.                             *)

Arriving(m, s) == Head(wire[<<m, s>>])

\* update_port_state at the start of ppass_ingress.
Updated(p) == UpdatePortState(port[p], QueueBytes(p))

Classify(p, status, pkt, out, justBounced) ==
  LET before == [port EXCEPT ![p] = status]
      queue  == QueueBytes(out)
  IN /\ wire' = [wire EXCEPT ![<<p[2], p[1]>>] = Tail(@)]
     /\ \E drain \in IF before[out].timed THEN drains ELSE {0} :
          LET after == PpassEgress(before[out], queue, pkt, justBounced, drain)
          IN /\ port' = [before EXCEPT ![out] = after]
             /\ Enque(out, Leaving(after, queue, pkt, out, justBounced))
     /\ UNCHANGED <<hostVars, drains>>

\* A paused port sends a grant straight back, by the slot of its interface.
\* (Every neighbour is itself a destination, with a slot of its own, so that
\* get_slot_for_iface_label finds one; its fallback is not modelled.)
BounceGrant(m, s) ==
  LET p == <<s, m>>
  IN /\ wire[<<m, s>>] # <<>>
     /\ IsFreshGrant(Arriving(m, s)) /\ Updated(p).paused
     /\ Classify(p, Updated(p), BounceCredit(Arriving(m, s)), p, TRUE)
     /\ UNCHANGED ns

AcceptGrant(m, s) ==
  LET p   == <<s, m>>
      pkt == Arriving(m, s)
  IN /\ wire[<<m, s>>] # <<>>
     /\ IsFreshGrant(pkt) /\ ~Updated(p).paused
     /\ Classify(p, AcceptCredit(Updated(p), QueueBytes(p)), Holds(pkt, p),
                 OutPort(s, pkt), FALSE)
     /\ TakeTurn(s, pkt)

Forward(m, s) ==
  LET pkt == Arriving(m, s)
  IN /\ wire[<<m, s>>] # <<>>
     /\ ~IsFreshGrant(pkt)
     /\ Classify(<<s, m>>, Updated(<<s, m>>), pkt, OutPort(s, pkt), FALSE)
     /\ TakeTurn(s, pkt)

-----------------------------------------------------------------------------
(* Hosts (external to these files; r2p2-cc-hybrid.cc names the seq of grants *)
(* and data).  Each message starts with a GRANT_REQ.                         *)

Uplink(h) == <<h, TorOf[h]>>
Send(h, pkt) == wire' = [wire EXCEPT ![Uplink(h)] = Append(@, pkt)]

RequestGrants ==
  /\ asked = "no"
  /\ asked' = "asked"
  /\ Send(Snd, Fresh("grant_req", 0, Snd, Rcv))
  /\ UNCHANGED <<port, ns, ctl, dat, drains, granted, sent, stray, bounces>>

SendUnsolicited ==
  /\ ~stray
  /\ stray' = TRUE
  /\ Send(Snd, [Fresh("request", 1, Snd, Rcv) EXCEPT !.unsol = TRUE])
  /\ UNCHANGED <<port, ns, ctl, dat, drains, asked, granted, sent, bounces>>

SendGrant ==
  /\ asked = "known" /\ granted < Packets /\ bounces <= MaxBounces
  /\ granted' = granted + 1
  /\ Send(Rcv, Fresh("grant", granted', Rcv, Snd))
  /\ UNCHANGED <<port, ns, ctl, dat, drains, asked, sent, stray, bounces>>

Take(h) ==
  /\ wire[<<TorOf[h], h>>] # <<>>
  /\ UNCHANGED <<port, ns, ctl, dat, drains, stray>>

\* A grant pays for the next packet, whatever the seq of the grant is.
ReceiveGrant ==
  LET grant == Head(wire[<<TorOf[Snd], Snd>>])
      rest == [wire EXCEPT ![<<TorOf[Snd], Snd>>] = Tail(@)]
  IN /\ Take(Snd)
     /\ sent' = IF sent < Packets THEN sent + 1 ELSE sent
     /\ wire' = IF sent = Packets THEN rest
                ELSE [rest EXCEPT ![Uplink(Snd)] = Append(@,
                        [Fresh("request", sent', Snd, Rcv) EXCEPT
                           !.paid = grant.seq, !.held = grant.held])]
     /\ UNCHANGED <<asked, granted, bounces>>

Receive ==
  LET pkt == Head(wire[<<TorOf[Rcv], Rcv>>])
  IN /\ Take(Rcv)
     /\ wire' = [wire EXCEPT ![<<TorOf[Rcv], Rcv>>] = Tail(@)]
     /\ asked' = IF pkt.type = "grant_req" THEN "known" ELSE asked
     /\ granted' = IF pkt.type = "grant" THEN granted - 1 ELSE granted
     /\ bounces' = IF pkt.type = "grant" THEN bounces + 1 ELSE bounces
     /\ UNCHANGED sent

-----------------------------------------------------------------------------
Init ==
  /\ port = [p \in Port |-> [pqlen |-> 0, paused |-> FALSE, timed |-> FALSE]]
  /\ ns = [t \in Tor |-> [h \in Host |-> 1]]
  /\ ctl = [p \in Port |-> <<>>]
  /\ dat = [p \in Port |-> <<>>]
  /\ wire = [l \in Link |-> <<>>]
  /\ asked = "no" /\ granted = 0 /\ sent = 0 /\ stray = FALSE /\ bounces = 0
  /\ drains \in {Drains, {0}}

Next ==
  \/ \E l \in Link : l[2] \notin Host /\
       (BounceGrant(l[1], l[2]) \/ AcceptGrant(l[1], l[2]) \/ Forward(l[1], l[2]))
  \/ \E p \in Port : Deque(p)
  \/ RequestGrants \/ SendUnsolicited \/ SendGrant \/ ReceiveGrant \/ Receive

Spec == Init /\ [][Next]_vars

-----------------------------------------------------------------------------
(* Properties. *)

\* The tables, queues and links hold what switches and hosts put in them.
TypeOK ==
  /\ port \in [Port -> PPassPortStatus]
  /\ ns \in [Tor -> [Host -> DOMAIN Up]]
  /\ ctl \in [Port -> Seq(Packet)] /\ dat \in [Port -> Seq(Packet)]
  /\ wire \in [Link -> Seq(Packet)]
  /\ asked \in {"no", "asked", "known"}
  /\ granted \in 0 .. Packets /\ sent \in 0 .. Packets
  /\ stray \in BOOLEAN /\ bounces \in Nat
  /\ drains \subseteq Nat

\* Whatever moves a phantom queue over XOFF - credit at ingress, or a packet
\* counted at egress - has the port paused before the next grant arrives.
PausedWhenOver ==
  \A p \in Port : port[p].pqlen > Xoff => port[p].paused

\* A bounced grant is back at its receiver only when no switch on its way
\* still counts its credit: bounced grants retrace the path of the grant.
BounceUndoesEveryHop ==
  \A l \in Link : l[2] \in Host =>
    \A i \in DOMAIN wire[l] : wire[l][i].bounced => wire[l][i].held = {}

\* "symmetric hash for GRANT and REQUEST packets" (classifier-mpath.cc): data
\* that carries the seq of the grant that paid for it waits only at ports
\* whose phantom queue has counted that grant.
DataFollowsItsGrant ==
  \A p \in Port : \A i \in DOMAIN dat[p] :
    LET pkt == dat[p][i]
    IN ~pkt.unsol /\ pkt.paid = pkt.seq => p \in pkt.held

\* The packets in the network whose credit port p still counts.
Counting(p, queues) ==
  SumFunction([l \in DOMAIN queues |->
                 Cardinality({i \in DOMAIN queues[l] : p \in queues[l][i].held})])
Outstanding(p) == Counting(p, wire) + Counting(p, ctl) + Counting(p, dat)

\* Where nothing is drained, a phantom queue covers all credit whose data has
\* to come by: "Revoke the reservation that was created while the
\* original credit moved downstream" (classifier-hash.cc), and no other's.
CoversOutstandingCredit ==
  drains = {0} => \A p \in Port : port[p].pqlen >= Credit * Outstanding(p)
=============================================================================
