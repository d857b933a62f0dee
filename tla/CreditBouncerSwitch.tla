------------------------ MODULE CreditBouncerSwitch -------------------------
(***************************************************************************)
(* The switches of ns-3 CreditBouncer: SwitchNode (switch-node.cc) with    *)
(* credit bounce, dynamic thresholds and symmetric routing on, and the     *)
(* dedicated MMU SwitchCbMmu (switch-cb-mmu.cc), in any network.           *)
(*                                                                         *)
(* A port counts a grant that arrives on it in its phantom queue, before   *)
(* the switch knows whether the grant is admitted to the queue it leaves   *)
(* by.  It decides on PAUSE only when it transmits, on the phantom queue   *)
(* as it was before the packet and before the drain.                       *)
(*                                                                         *)
(* Port <<x, y>> of switch x leads to y.  Logs, ECN marks and the byte     *)
(* counters that only feed them are left out; m_dataSharedBytesByPort      *)
(* always equals m_dataQueueBytes.                                         *)
(***************************************************************************)
EXTENDS Integers, Sequences, SequencesExt, FiniteSetsExt

CONSTANTS
  Switch, Host,
  Link,              \* pairs of neighbours, in both directions
  RtTable,           \* m_rtTable: [Switch -> [Host -> sequence of nodes]]
  Flow, Rcv, Snd,    \* flows, the host that grants and the one that sends
  SeqSpace, Chunks,  \* number of sequence numbers, of scheduled packets of a flow
  SymmetricHash,     \* [Flow -> [Seqs -> Nat]]
  EcmpHash,          \* [Switch -> [Host -> Nat]], by m_ecmpSeed of a switch
  Extras,            \* sets of other packets: those of one of them are sent
  Credit, DataBytes, ControlBytes,
  MaxBuffer, CreditLimit,       \* of SwitchCbMmu, the first per switch
  FcNum, FcDen,                 \* m_creditbouncerDynamicAlpha
  AdmNum, AdmDen,               \* m_dataAdmissionAlpha
  XoffMargin, FcMargin,
  Drains,            \* bytes a port may drain between two transmissions
  MaxGrants          \* bound: grants sent in all, 0 for no bound

Node == Switch \cup Host
Port == {l \in Link : l[1] \in Switch}
PortsOf(x) == {p \in Port : p[1] = x}
Seqs == 0 .. SeqSpace - 1
Grants == Flow \X Seqs

ASSUME NetworkAssumption ==
  /\ Switch \cap Host = {}
  /\ Link \subseteq Node \X Node /\ IsFiniteSet(Link)
  /\ \A l \in Link : <<l[2], l[1]>> \in Link
  /\ \A x \in Switch, h \in Host :
       /\ RtTable[x][h] \in Seq(Node) /\ RtTable[x][h] # <<>>
       /\ \A i \in DOMAIN RtTable[x][h] : <<x, RtTable[x][h][i]>> \in Link
  /\ \A h \in Host : \E x \in Switch : <<h, x>> \in Link
  /\ Rcv \in [Flow -> Host] /\ Snd \in [Flow -> Host]
  /\ SeqSpace \in Nat \ {0} /\ Chunks \in [Flow -> 0 .. SeqSpace]
  /\ IsFiniteSet(Flow) /\ SymmetricHash \in [Flow -> [Seqs -> Nat]]
  /\ EcmpHash \in [Switch -> [Host -> Nat]]

ASSUME SizeAssumption ==
  /\ {Credit, DataBytes, ControlBytes, FcDen, AdmDen} \subseteq Nat \ {0}
  /\ {CreditLimit, FcNum, AdmNum, XoffMargin, FcMargin, MaxGrants} \subseteq Nat
  /\ MaxBuffer \in [Switch -> Nat]
  /\ AdmNum <= AdmDen
  /\ Drains \subseteq Nat \ {0}

VARIABLES
  state,            \* m_creditbouncerPortState of a port
  creditQueueBytes, dataQueueBytes,   \* of SwitchCbMmu, per port
  dataSharedUsed,   \* of SwitchCbMmu, per switch
  ctl, dat,         \* BEgressQueue of a port: its queue 0 and its queue 1
  wire,             \* packets on each directed link
  granted,          \* receiver: grants of a flow that are out or were used
  avail, next,      \* sender: credit it holds, packets it has sent
  extras,           \* packets of Extras still to be sent
  grants,           \* grants sent in all, if MaxGrants bounds them
  held,             \* history: how often a port counts a grant
  accepted,         \* history: grants that reached their sender
  drained           \* history: bytes a port has drained, up to AllCredit

mmuVars == <<creditQueueBytes, dataQueueBytes, dataSharedUsed>>
queueVars == <<ctl, dat>>
hostVars == <<granted, avail, next, extras, grants>>
vars == <<state, mmuVars, queueVars, wire, hostVars, held, accepted, drained>>

-----------------------------------------------------------------------------
(* Packets.  just is the CbJustBouncedTag.  GRANT and RESEND travel to the  *)
(* sender of their flow, all others to its receiver.                        *)

Signal == {"GRANT_REQ", "RESEND"}
Data == {"SCHEDULED", "UNSCHEDULED"}
Kind == {"GRANT", "BOUNCED"} \cup Signal \cup Data
Packet == [kind : Kind, flow : Flow, seq : Seqs, just : BOOLEAN]

Pkt(kind, f, n) == [kind |-> kind, flow |-> f, seq |-> n % SeqSpace, just |-> FALSE]

ASSUME ExtrasAssumption ==
  /\ Extras \subseteq SUBSET [kind : Signal \cup {"UNSCHEDULED"}, flow : Flow,
                              seq : Seqs, just : {FALSE}]
  /\ \A e \in Extras : IsFiniteSet(e)

Dst(pkt) == IF pkt.kind \in {"GRANT", "RESEND"} THEN Snd[pkt.flow] ELSE Rcv[pkt.flow]

\* IsCreditBouncerControlPacket, which is what GetDedicatedCbQueueIndex asks.
IsControl(pkt) == pkt.kind \notin Data
Size(pkt) == IF IsControl(pkt) THEN ControlBytes ELSE DataBytes

\* A grant, its way back and the data of its number have the same hash, in
\* both directions and at every switch; signals do not.
Hash(x, pkt) ==
  IF pkt.kind \in Signal THEN EcmpHash[x][Dst(pkt)]
  ELSE SymmetricHash[pkt.flow][pkt.seq]

GetOutDev(x, pkt) ==
  LET hops == RtTable[x][Dst(pkt)]
  IN <<x, hops[(Hash(x, pkt) % Len(hops)) + 1]>>

-----------------------------------------------------------------------------
(* SwitchCbMmu. *)

Monus(a, b) == IF a > b THEN a - b ELSE 0

\* Bs: the buffer without the credit queues, for data of all ports.
DataShared(x) ==
  Monus(MaxBuffer[x], CreditLimit * Cardinality(PortsOf(x)))

\* The rule looks at the queue as it is before the packet.
CheckDataAdmissionMutant(p) ==
  dataQueueBytes[p] * AdmDen
    <= AdmNum * Monus(DataShared(p[1]), dataSharedUsed[p[1]])

\* The last place of the credit queue is never used.
CheckCreditAdmissionMutant(p) == creditQueueBytes[p] + ControlBytes < CreditLimit

CheckCreditAdmission(p) == creditQueueBytes[p] + ControlBytes <= CreditLimit

CheckDataAdmission(p) ==
  (dataQueueBytes[p] + DataBytes) * AdmDen
    <= AdmNum * Monus(DataShared(p[1]), dataSharedUsed[p[1]])

\* SendToDev from the admission on: a packet that is not admitted is dropped.
Enqueue(p, pkt) ==
  \/ /\ IsControl(pkt) /\ CheckCreditAdmission(p)
     /\ creditQueueBytes' = [creditQueueBytes EXCEPT ![p] = @ + ControlBytes]
     /\ ctl' = [ctl EXCEPT ![p] = Append(@, pkt)]
     /\ UNCHANGED <<dataQueueBytes, dataSharedUsed, dat>>
  \/ /\ ~IsControl(pkt) /\ CheckDataAdmission(p)
     /\ dataQueueBytes' = [dataQueueBytes EXCEPT ![p] = @ + DataBytes]
     /\ dataSharedUsed' = [dataSharedUsed EXCEPT ![p[1]] = @ + DataBytes]
     /\ dat' = [dat EXCEPT ![p] = Append(@, pkt)]
     /\ UNCHANGED <<creditQueueBytes, ctl>>
  \/ /\ ~(IF IsControl(pkt) THEN CheckCreditAdmission(p) ELSE CheckDataAdmission(p))
     /\ UNCHANGED <<mmuVars, queueVars>>

-----------------------------------------------------------------------------
(* SendToDev on the next packet from y.  in is the port towards y, the one   *)
(* the packet came in by: data that answers a grant will leave by it.        *)

Arriving(x, y) == Head(wire[<<y, x>>])

ReceiveFrom(x, y) ==
  /\ wire[<<y, x>>] # <<>>
  /\ wire' = [wire EXCEPT ![<<y, x>>] = Tail(@)]
  /\ UNCHANGED <<hostVars, accepted, drained>>

\* The port is paused: the grant turns round and leaves by it.
BounceGrant(x, y) ==
  LET in == <<x, y>>
      pkt == Arriving(x, y)
  IN /\ ReceiveFrom(x, y)
     /\ pkt.kind = "GRANT" /\ state[in].fc = "PAUSE"
     /\ Enqueue(in, [pkt EXCEPT !.kind = "BOUNCED", !.just = TRUE])
     /\ UNCHANGED <<state, held>>

ReserveGrant(x, y) ==
  LET in == <<x, y>>
      pkt == Arriving(x, y)
  IN /\ ReceiveFrom(x, y)
     /\ pkt.kind = "GRANT" /\ state[in].fc = "NORMAL"
     /\ state' = [state EXCEPT ![in].qp = @ + Credit]
     /\ held' = [held EXCEPT ![in][<<pkt.flow, pkt.seq>>] = @ + 1]
     /\ Enqueue(GetOutDev(x, pkt), pkt)

Forward(x, y) ==
  LET pkt == Arriving(x, y)
  IN /\ ReceiveFrom(x, y)
     /\ pkt.kind # "GRANT"
     /\ Enqueue(GetOutDev(x, pkt), pkt)
     /\ UNCHANGED <<state, held>>

-----------------------------------------------------------------------------
(* UpdateCBPortStateOnTransmit of a packet that leaves by port p, once       *)
(* SwitchNotifyDequeue has taken it off the accounts: hence the primes.      *)

QueueLength(p) == creditQueueBytes'[p] + dataQueueBytes'[p]

\* The dynamic thresholds: an idle switch lets phantom queues grow further.
Xoff(p) ==
  Monus(QueueLength(p)
        + (FcNum * Monus(DataShared(p[1]),
                         SumFunctionOnSet(dataQueueBytes', PortsOf(p[1]))))
            \div FcDen,
        XoffMargin)
Xon(p) == Monus(Xoff(p), FcMargin)

\* PAUSE is never left.
FcAfterMutant(p) ==
  IF state[p].fc = "PAUSE" THEN "PAUSE"
  ELSE IF Max({QueueLength(p), state[p].qp}) > Xoff(p) THEN "PAUSE" ELSE "NORMAL"

\* qp is still what it was before the packet.
FcAfter(p) ==
  LET compare == Max({QueueLength(p), state[p].qp})
  IN IF state[p].fc = "NORMAL"
     THEN IF compare > Xoff(p) THEN "PAUSE" ELSE "NORMAL"
     ELSE IF compare < Xon(p) THEN "NORMAL" ELSE "PAUSE"

\* The switch that turned a grant round takes it off its phantom queue, too.
UndoesMutant(pkt) == pkt.kind = "BOUNCED"

\* A grant that was turned round elsewhere has been counted on its way out.
Undoes(pkt) == pkt.kind = "BOUNCED" /\ ~pkt.just

\* Scheduled data pays for its reservation when it leaves.
CountedMutant(qp, pkt) ==
  CASE Undoes(pkt) -> Monus(qp + Size(pkt), Credit)
    [] pkt.kind = "SCHEDULED" -> Monus(qp, Credit)
    [] pkt.kind \in Signal \cup {"GRANT", "UNSCHEDULED"} -> qp + Size(pkt)
    [] OTHER -> qp

\* The phantom queue counts every packet no grant has reserved room for.
Counted(qp, pkt) ==
  CASE Undoes(pkt) -> Monus(qp + Size(pkt), Credit)
    [] pkt.kind \in Signal \cup {"GRANT", "UNSCHEDULED"} -> qp + Size(pkt)
    [] OTHER -> qp

\* All credit there may be: what is drained beyond it does not matter.
AllCredit == Credit * SumFunctionOnSet(Chunks, Flow)

UpdateCBPortState(p, pkt) ==
  LET qp == Counted(state[p].qp, pkt)
  IN /\ \E drain \in IF state[p].stamped THEN Drains ELSE {0} :
          /\ state' = [state EXCEPT ![p] =
               [fc |-> FcAfter(p), qp |-> Monus(qp, drain), stamped |-> TRUE]]
          /\ drained' = [drained EXCEPT ![p] = Min({AllCredit, @ + Min({qp, drain})})]
     /\ held' = IF Undoes(pkt)
                THEN [held EXCEPT ![p][<<pkt.flow, pkt.seq>>] = @ - 1] ELSE held

\* A grant that was turned round keeps its CbJustBouncedTag on the wire.
TransmitMutant(p, pkt) ==
  /\ UpdateCBPortState(p, pkt)
  /\ wire' = [wire EXCEPT ![p] = Append(@, pkt)]
  /\ UNCHANGED <<hostVars, accepted>>

\* DequeueAndTransmit, SwitchNotifyDequeue: queue 0 goes first.
Transmit(p, pkt) ==
  /\ UpdateCBPortState(p, pkt)
  /\ wire' = [wire EXCEPT ![p] = Append(@, [pkt EXCEPT !.just = FALSE])]
  /\ UNCHANGED <<hostVars, accepted>>

TransmitCredit(p) ==
  /\ ctl[p] # <<>>
  /\ ctl' = [ctl EXCEPT ![p] = Tail(@)]
  /\ creditQueueBytes' = [creditQueueBytes EXCEPT ![p] = Monus(@, ControlBytes)]
  /\ UNCHANGED <<dat, dataQueueBytes, dataSharedUsed>>
  /\ Transmit(p, Head(ctl[p]))

TransmitData(p) ==
  /\ ctl[p] = <<>> /\ dat[p] # <<>>
  /\ dat' = [dat EXCEPT ![p] = Tail(@)]
  /\ dataQueueBytes' = [dataQueueBytes EXCEPT ![p] = Monus(@, DataBytes)]
  /\ dataSharedUsed' =
       [dataSharedUsed EXCEPT ![p[1]] = Monus(@, Min({DataBytes, dataQueueBytes[p]}))]
  /\ UNCHANGED <<ctl, creditQueueBytes>>
  /\ Transmit(p, Head(dat[p]))

-----------------------------------------------------------------------------
(* Hosts, which RdmaCreditBouncer models in detail.  A grant has the number  *)
(* of grants out before it, and buys the next packet whatever its number is. *)

Uplink(h) == CHOOSE l \in Link : l[1] = h
Downlink(h) == CHOOSE l \in Link : l[2] = h
Send(h, pkt) == wire' = [wire EXCEPT ![Uplink(h)] = Append(@, pkt)]
Elsewhere == UNCHANGED <<state, mmuVars, queueVars, held, drained>>

SendGrant(f) ==
  /\ granted[f] < Chunks[f]
  /\ IF MaxGrants = 0 THEN UNCHANGED grants
     ELSE grants < MaxGrants /\ grants' = grants + 1
  /\ granted' = [granted EXCEPT ![f] = @ + 1]
  /\ Send(Rcv[f], Pkt("GRANT", f, granted[f]))
  /\ UNCHANGED <<avail, next, extras, accepted>> /\ Elsewhere

SendData(f) ==
  /\ avail[f] > 0
  /\ avail' = [avail EXCEPT ![f] = @ - 1]
  /\ next' = [next EXCEPT ![f] = @ + 1]
  /\ Send(Snd[f], Pkt("SCHEDULED", f, next[f]))
  /\ UNCHANGED <<granted, extras, grants, accepted>> /\ Elsewhere

SendExtra(pkt) ==
  /\ pkt \in extras
  /\ extras' = extras \ {pkt}
  /\ Send(IF Dst(pkt) = Snd[pkt.flow] THEN Rcv[pkt.flow] ELSE Snd[pkt.flow], pkt)
  /\ UNCHANGED <<granted, avail, next, grants, accepted>> /\ Elsewhere

HostReceive(h) ==
  LET pkt == Head(wire[Downlink(h)])
  IN /\ wire[Downlink(h)] # <<>>
     /\ wire' = [wire EXCEPT ![Downlink(h)] = Tail(@)]
     /\ IF pkt.kind = "GRANT"
        THEN /\ avail' = [avail EXCEPT ![pkt.flow] = @ + 1]
             /\ accepted' = [accepted EXCEPT ![<<pkt.flow, pkt.seq>>] = @ + 1]
        ELSE UNCHANGED <<avail, accepted>>
     /\ granted' = IF pkt.kind = "BOUNCED" THEN [granted EXCEPT ![pkt.flow] = @ - 1]
                   ELSE granted
     /\ UNCHANGED <<next, extras, grants>> /\ Elsewhere

-----------------------------------------------------------------------------
Init ==
  /\ state = [p \in Port |-> [fc |-> "NORMAL", qp |-> 0, stamped |-> FALSE]]
  /\ creditQueueBytes = [p \in Port |-> 0]
  /\ dataQueueBytes = [p \in Port |-> 0]
  /\ dataSharedUsed = [x \in Switch |-> 0]
  /\ ctl = [p \in Port |-> <<>>]
  /\ dat = [p \in Port |-> <<>>]
  /\ wire = [l \in Link |-> <<>>]
  /\ granted = [f \in Flow |-> 0]
  /\ avail = [f \in Flow |-> 0]
  /\ next = [f \in Flow |-> 0]
  /\ extras \in Extras
  /\ grants = 0
  /\ held = [p \in Port |-> [g \in Grants |-> 0]]
  /\ accepted = [g \in Grants |-> 0]
  /\ drained = [p \in Port |-> 0]

SwitchReceiveFromDevice(x, y) ==
  BounceGrant(x, y) \/ ReserveGrant(x, y) \/ Forward(x, y)

Next ==
  \/ \E p \in Port : \/ SwitchReceiveFromDevice(p[1], p[2])
                     \/ TransmitCredit(p) \/ TransmitData(p)
  \/ \E f \in Flow : SendGrant(f) \/ SendData(f)
  \/ \E pkt \in extras : SendExtra(pkt)
  \/ \E h \in Host : HostReceive(h)

Spec == Init /\ [][Next]_vars

\* Links and queues move on, a receiver that has demand grants again and a
\* sender with credit sends.  A port that is free takes a packet at once, and
\* few credits come back at a time: a data packet does not wait for ever for
\* an empty queue 0.  Nothing is assumed of Extras.
Fairness ==
  /\ \A p \in Port : /\ WF_vars(SwitchReceiveFromDevice(p[1], p[2]))
                     /\ WF_vars(TransmitCredit(p)) /\ SF_vars(TransmitData(p))
  /\ \A f \in Flow : WF_vars(SendGrant(f)) /\ WF_vars(SendData(f))
  /\ \A h \in Host : WF_vars(HostReceive(h))

FairSpec == Spec /\ Fairness

-----------------------------------------------------------------------------
(* Properties. *)

\* The state of ports, queues, links and hosts is well formed, and the MMU
\* knows what its queues hold.
TypeOK ==
  /\ state \in [Port -> [fc : {"NORMAL", "PAUSE"}, qp : Nat, stamped : BOOLEAN]]
  /\ ctl \in [Port -> Seq(Packet)] /\ dat \in [Port -> Seq(Packet)]
  /\ wire \in [Link -> Seq(Packet)]
  /\ creditQueueBytes = [p \in Port |-> ControlBytes * Len(ctl[p])]
  /\ dataQueueBytes = [p \in Port |-> DataBytes * Len(dat[p])]
  /\ granted \in [Flow -> Nat] /\ avail \in [Flow -> Nat] /\ next \in [Flow -> Nat]
  /\ extras \subseteq Packet /\ grants \in Nat
  /\ held \in [Port -> [Grants -> Nat]] /\ accepted \in [Grants -> Nat]
  /\ drained \in [Port -> Nat]

\* "Reserve a small fixed credit queue per egress port. Data queue uses the
\* remaining shared memory budget Bs" (switch-cb-mmu.cc): drops at full queues
\* and data of several ports in the shared part never take more than there is.
WithinBuffers ==
  /\ \A p \in Port : creditQueueBytes[p] <= CreditLimit
  /\ \A x \in Switch : dataSharedUsed[x] <= DataShared(x)

IsGrant(pkt) == pkt.kind \in {"GRANT", "BOUNCED"}
Quiet ==
  /\ \A l \in Link : ~\E i \in DOMAIN wire[l] : IsGrant(wire[l][i])
  /\ \A p \in Port : ~\E i \in DOMAIN ctl[p] : IsGrant(ctl[p][i])

\* The way of a grant, link by link.
Hop(g) ==
  LET hop[i \in 0 .. Cardinality(Switch)] ==
        IF i = 0 THEN Uplink(Rcv[g[1]])
        ELSE IF hop[i - 1][2] \in Host THEN hop[i - 1]
        ELSE GetOutDev(hop[i - 1][2], Pkt("GRANT", g[1], g[2]))
  IN hop

Back(l) == <<l[2], l[1]>>

\* The ports that count a grant on its way: <<x, y>> when it comes from y.
Route ==
  UNION {{<<p, g>> : p \in {Back(l) : l \in Range(Hop(g))} \cap Port}
         : g \in Grants}

\* What the symmetric hash and the routing tables have to ensure: a grant
\* reaches a host without a loop, and turns back link by link from anywhere.
SymmetricRoutes ==
  \A g \in Grants : \E n \in 1 .. Cardinality(Switch) :
    /\ Hop(g)[n][2] \in Host
    /\ \A i \in 0 .. n - 1 :
         /\ Hop(g)[i][2] \in Switch
         /\ \A j \in 0 .. n - 1 : Hop(g)[i][2] = Hop(g)[j][2] => i = j
         /\ GetOutDev(Hop(g)[i][2], Pkt("BOUNCED", g[1], g[2])) = Back(Hop(g)[i])

\* A credit queue has a place for every control packet there may be.
CreditPlaces ==
  \A e \in Extras :
    ControlBytes * (SumFunctionOnSet(Chunks, Flow)
                    + Cardinality({pkt \in e : IsControl(pkt)})) <= CreditLimit

\* When no grant is under way in either direction, every port on the way of a
\* grant counts it as often as it reached its sender: a bounce anywhere has
\* undone it at all switches before, and nowhere else.
BounceUndoesEveryHop ==
  Quiet => \A p \in Port, g \in Grants :
             held[p][g] = IF <<p, g>> \in Route THEN accepted[g] ELSE 0

\* A phantom queue covers the credit it has counted and not given back, but
\* for what the line has drained: neither a bounce nor the data of a grant
\* takes credit off that belongs to another one.
ReservationsCovered ==
  \A p \in Port :
    state[p].qp + drained[p] >= Credit * SumFunctionOnSet(held[p], Grants)

\* However often a grant is turned round, on a phantom queue that only its
\* own transmissions drain, all packets of a flow are paid for in the end.
GrantsAccepted == <>(\A f \in Flow : next[f] = Chunks[f])

-----------------------------------------------------------------------------
(* The hosts see a CreditNetwork. *)

Alike(q) ==
  {[kind |-> q.kind, flow |-> q.flow, seq |-> q.seq, just |-> j] : j \in BOOLEAN}

Copies(queues, q) ==
  SumFunctionOnSet(
    [l \in DOMAIN queues |->
       Cardinality({i \in 1 .. Len(queues[l]) : queues[l][i] \in Alike(q)})],
    DOMAIN queues)

Underway ==
  [q \in [kind : Kind, flow : Flow, seq : Seqs] |->
     Copies(wire, q) + Copies(ctl, q) + Copies(dat, q)]

Abstract ==
  INSTANCE CreditNetwork WITH SeqNo <- Seqs, Lossy <- Data, net <- Underway

\* Whatever the switches do, a packet a host sent arrives once, or is data
\* dropped at a full queue, or is a grant that arrives bounced: the network
\* the receiver's accounts rely on.
ImplementsNetwork == Abstract!Spec
=============================================================================
