---------------------------- MODULE TofinoFabric ----------------------------
(***************************************************************************)
(* The DPDQ pipeline of src/tofino/dpdq.p4 on every switch of a network.   *)
(*                                                                         *)
(* Each switch keeps, for each of its ports, the authoritative phantom     *)
(* queue and PAUSE state in the egress pipeline and a replica of the PAUSE *)
(* bit in the ingress pipeline.  The two meet only through the traffic     *)
(* manager (packets going from ingress to egress) and through the mirror   *)
(* clones an egress sends back to ingress over the recirculation port.     *)
(* The interleaving of those two paths is what the module is about.        *)
(*                                                                         *)
(* Ports are named by the neighbour they lead to: <<s, n>> is the port of  *)
(* switch s towards n.  The hosts are external: dpdq.p4 only fixes the     *)
(* messages they exchange.                                                 *)
(***************************************************************************)
EXTENDS Integers, Sequences, FiniteSets

CONSTANTS
  Switch, Host,  \* nodes
  Link,          \* directed links <<m, n>>, in both directions
  NextHop,       \* table ipv4_forward: [Switch -> [Host -> neighbour]]
  Token,         \* the packets that may be in the network at one time
  Kind,          \* what each token starts as: "grant", "data" or "signal"
  From, To,      \* hosts a token starts at and is addressed to
  Amount,        \* hdr.dpdq.credit of a grant
  XoffBytes, XonBytes, EcnBytes,  \* DPDQ_XOFF_TRIGGER_BYTES, ...
  XoffCells, XonCells, EcnCells,  \* DPDQ_XOFF_TRIGGER_CELLS, ...
  DataBytes, SignalBytes,         \* DPDQ_APPROX_*_BYTES
  Drains,        \* values of min(elapsed, cap) << DPDQ_DRAIN_SHIFT
  Word,          \* 2^32: the modulus of Port_Qp_Reg
  MaxSync        \* bound: mirror clones of one port on their way to ingress

Node == Switch \cup Host
Port == {l \in Link : l[1] \in Switch}

ASSUME TopologyAssumption ==
  /\ Switch \cap Host = {}
  /\ Link \subseteq Node \X Node
  /\ \A l \in Link : l[1] # l[2] /\ <<l[2], l[1]>> \in Link
  /\ NextHop \in [Switch -> [Host -> Node]]
  /\ \A s \in Switch, h \in Host : <<s, NextHop[s][h]>> \in Link
  /\ \A h \in Host : \E l \in Link : l[1] = h /\ l[2] \in Switch

ASSUME TokenAssumption ==
  /\ Kind \in [Token -> {"grant", "data", "signal"}]
  /\ From \in [Token -> Host]
  /\ To \in [Token -> Host]
  /\ Amount \in [Token -> Nat]

ASSUME ThresholdAssumption ==
  /\ {XoffBytes, XonBytes, EcnBytes, XoffCells, XonCells, EcnCells} \subseteq Nat
  /\ XonBytes <= XoffBytes /\ XonCells <= XoffCells
  /\ DataBytes \in Nat /\ SignalBytes \in Nat
  /\ Drains \subseteq Nat /\ 0 \in Drains
  /\ Word \in Nat \ {0} /\ XoffBytes < Word
  /\ MaxSync \in Nat \ {0}

VARIABLES
  qp,       \* Egress.Port_Qp_Reg
  fc,       \* Egress.Port_Fc_State_Reg: TRUE is PAUSE
  stamped,  \* Egress.Timestamp_Reg is not 0
  replica,  \* Ingress.Ingress_Fc_State_Reg
  sync,     \* mirror clones (the paused bit) of a port, towards ingress
  ctl, dat, \* traffic manager: control queue 0 and data queue 1 of a port
  wire,     \* packets on each directed link
  idle      \* tokens at their source host, not in the network

vars == <<qp, fc, stamped, replica, sync, ctl, dat, wire, idle>>

-----------------------------------------------------------------------------
(* Packets.  REQUEST and REPLY are "data", GRANT_REQ and RESEND "signal":  *)
(* the pipeline treats the members of each pair alike.  shim and port are  *)
(* the dpdq_internal header and hdr.dpdq.reserved, valid between ingress   *)
(* and egress only.  held is history: the ports whose phantom queue counts *)
(* the credit of a grant, or the credit that paid for a data packet.       *)

PacketAt(P) ==
  [tok : Token, type : {"grant", "data", "signal"}, src : Host, dst : Host,
   bounced : BOOLEAN, unsched : BOOLEAN, marked : BOOLEAN,
   shim : {"none", "add", "subtract"}, port : P, held : SUBSET Port]

Packet == PacketAt(Link)

Uplink(h) == CHOOSE l \in Link : l[1] = h /\ l[2] \in Switch

\* A packet as the host puts it on its link.
Fresh(t, type, src, dst, unsched) ==
  [tok |-> t, type |-> type, src |-> src, dst |-> dst,
   bounced |-> FALSE, unsched |-> unsched, marked |-> FALSE,
   shim |-> "none", port |-> Uplink(src), held |-> {}]

-----------------------------------------------------------------------------
(* Ingress. *)

\* Mutations of the code, one for each property, are named ...Mutant: they
\* are used by no action and show that the property can fail.

\* The grant is accepted without its shim.
AcceptCreditMutant(pkt, inPort) == [pkt EXCEPT !.port = inPort]

\* accept_credit: a shim for the port the grant came in on.
AcceptCredit(pkt, inPort) == [pkt EXCEPT !.shim = "add", !.port = inPort]

\* A local bounce subtracts at once what was never added.
BounceSubtractsMutant(pkt, inPort) ==
  [pkt EXCEPT !.src = pkt.dst, !.dst = pkt.src, !.bounced = TRUE,
              !.shim = "subtract", !.port = inPort]

\* The grant is sent back without being turned round.
BounceUnturnedMutant(pkt, inPort) == [pkt EXCEPT !.port = inPort]

\* bounce_credit_to: back out of the ingress port, with no shim.
BounceCreditTo(pkt, inPort) ==
  [pkt EXCEPT !.src = pkt.dst, !.dst = pkt.src, !.bounced = TRUE, !.port = inPort]

\* A returning grant is forwarded without revoking its credit.
AcceptRemoteBounceMutant(pkt, outPort) == [pkt EXCEPT !.port = outPort]

\* accept_remote_bounce: a shim for the port the bounced grant leaves by.
AcceptRemoteBounce(pkt, outPort) ==
  [pkt EXCEPT !.shim = "subtract", !.port = outPort]

\* packet_classify: the class itself is a function of type and unsched.
Classify(pkt, outPort) == [pkt EXCEPT !.port = outPort]

\* Control.apply of Ingress on the next packet from m, one action per way it
\* takes; Dequeue, ToControl and ToData are what the ways share.
Arriving(m, s) == Head(wire[<<m, s>>])
OutPort(m, s) == <<s, NextHop[s][Arriving(m, s).dst]>>

Dequeue(m, s) ==
  /\ wire[<<m, s>>] # <<>>
  /\ wire' = [wire EXCEPT ![<<m, s>>] = Tail(@)]
  /\ UNCHANGED <<qp, fc, stamped, replica, sync, idle>>

ToControl(p, pkt) == ctl' = [ctl EXCEPT ![p] = Append(@, pkt)] /\ UNCHANGED dat
ToData(p, pkt) == dat' = [dat EXCEPT ![p] = Append(@, pkt)] /\ UNCHANGED ctl

BounceGrant(m, s) ==
  /\ Dequeue(m, s)
  /\ Arriving(m, s).type = "grant" /\ ~Arriving(m, s).bounced /\ replica[<<s, m>>]
  /\ ToControl(<<s, m>>, BounceCreditTo(Arriving(m, s), <<s, m>>))

AcceptGrant(m, s) ==
  /\ Dequeue(m, s)
  /\ Arriving(m, s).type = "grant" /\ ~Arriving(m, s).bounced /\ ~replica[<<s, m>>]
  /\ ToControl(OutPort(m, s), AcceptCredit(Arriving(m, s), <<s, m>>))

ForwardBounced(m, s) ==
  /\ Dequeue(m, s)
  /\ Arriving(m, s).type = "grant" /\ Arriving(m, s).bounced
  /\ ToControl(OutPort(m, s), AcceptRemoteBounce(Arriving(m, s), OutPort(m, s)))

ForwardSignal(m, s) ==
  /\ Dequeue(m, s)
  /\ Arriving(m, s).type = "signal"
  /\ ToControl(OutPort(m, s), Classify(Arriving(m, s), OutPort(m, s)))

ForwardData(m, s) ==
  /\ Dequeue(m, s)
  /\ Arriving(m, s).type = "data"
  /\ ToData(OutPort(m, s), Classify(Arriving(m, s), OutPort(m, s)))

Ingress(m, s) ==
  \/ BounceGrant(m, s) \/ AcceptGrant(m, s) \/ ForwardBounced(m, s)
  \/ ForwardSignal(m, s) \/ ForwardData(m, s)

\* A later clone overtakes an earlier one.
SyncReorderedMutant(p) ==
  /\ sync[p] # <<>>
  /\ replica' = [replica EXCEPT ![p] = sync[p][Len(sync[p])]]
  /\ sync' = [sync EXCEPT ![p] = SubSeq(@, 1, Len(@) - 1)]
  /\ UNCHANGED <<qp, fc, stamped, ctl, dat, wire, idle>>

\* The clone is dropped before the register is written.
SyncDroppedMutant(p) ==
  /\ sync[p] # <<>>
  /\ sync' = [sync EXCEPT ![p] = Tail(@)]
  /\ UNCHANGED <<qp, fc, stamped, replica, ctl, dat, wire, idle>>

\* A mirror clone comes back: it writes the replica and is dropped.
SyncIngress(p) ==
  /\ sync[p] # <<>>
  /\ replica' = [replica EXCEPT ![p] = Head(sync[p])]
  /\ sync' = [sync EXCEPT ![p] = Tail(@)]
  /\ UNCHANGED <<qp, fc, stamped, ctl, dat, wire, idle>>

-----------------------------------------------------------------------------
(* Egress. *)

\* The subtraction does not stop at zero.
SubtractQpMutant(v, amount) == v - amount

\* add_qp_action and subtract_qp_action.
AddQp(v, amount) == (v + amount) % Word
SubtractQp(v, amount) == IF v < amount THEN 0 ELSE v - amount

\* Bytes that approximate_effect_table adds for the class of a packet.
ClassBytes(pkt) ==
  CASE pkt.type = "signal"             -> SignalBytes
    [] pkt.type = "data" /\ pkt.unsched -> DataBytes
    [] OTHER                            -> 0

\* The single net update of a packet of size bytes after a drain.
NetUpdate(v, size, drain) ==
  IF drain < size THEN AddQp(v, size - drain) ELSE SubtractQp(v, drain - size)

\* The Qp operation a packet carries out of the switch, with the drain the
\* timestamp register allows.
QpAfter(pkt, drain) ==
  LET v == qp[pkt.port]
  IN CASE pkt.shim = "add"      -> AddQp(v, Amount[pkt.tok])
       [] pkt.shim = "subtract" -> SubtractQp(v, Amount[pkt.tok])
       [] pkt.shim = "none" /\ pkt.type # "grant" ->
            NetUpdate(v, ClassBytes(pkt), drain)
       [] OTHER                 -> v

\* compute_threshold_mins and update_fc_state_action: the PAUSE state of a
\* port whose Qp is v and whose dequeued queue is depth cells long.
FcAfter(old, v, depth) ==
  \/ v >= XoffBytes \/ depth >= XoffCells
  \/ old /\ ~(v < XonBytes /\ depth < XonCells)

Marked(pkt, v, depth) ==
  \/ pkt.marked
  \/ pkt.type = "data" /\ (v >= EcnBytes \/ depth >= EcnCells)

Held(pkt) ==
  CASE pkt.shim = "add"      -> pkt.held \cup {pkt.port}
    [] pkt.shim = "subtract" -> pkt.held \ {pkt.port}
    [] OTHER                 -> pkt.held

\* Control.apply of Egress on pkt, leaving port p whose queue then has depth
\* packets.  Only a transmit-side update (update_fc = 1) looks at PAUSE.
Transmit(p, pkt, depth, drain) ==
  LET timed    == pkt.shim = "none" /\ pkt.type # "grant"
      updateFc == timed \/ pkt.shim = "subtract"
      v        == QpAfter(pkt, drain)
      newFc    == IF updateFc THEN FcAfter(fc[p], v, depth) ELSE fc[p]
      out      == [pkt EXCEPT !.shim = "none", !.held = Held(pkt),
                     !.marked = IF updateFc THEN Marked(pkt, v, depth) ELSE @]
  IN /\ drain = 0 \/ (timed /\ stamped[p])
     /\ qp' = [qp EXCEPT ![pkt.port] = v]
     /\ stamped' = [stamped EXCEPT ![p] = @ \/ timed]
     /\ fc' = [fc EXCEPT ![p] = newFc]
     /\ sync' = [sync EXCEPT ![p] = IF newFc # fc[p] THEN Append(@, newFc) ELSE @]
     /\ wire' = [wire EXCEPT ![p] = Append(@, out)]
     /\ UNCHANGED <<replica, idle>>

\* Strict priority of logical queue 0 (README.md, "Control-Plane Setup", 6).
EgressControl(p) ==
  /\ ctl[p] # <<>> /\ Len(sync[p]) < MaxSync
  /\ ctl' = [ctl EXCEPT ![p] = Tail(@)]
  /\ UNCHANGED dat
  /\ \E d \in Drains : Transmit(p, Head(ctl[p]), Len(ctl[p]) - 1, d)

EgressData(p) ==
  /\ ctl[p] = <<>> /\ dat[p] # <<>> /\ Len(sync[p]) < MaxSync
  /\ dat' = [dat EXCEPT ![p] = Tail(@)]
  /\ UNCHANGED ctl
  /\ \E d \in Drains : Transmit(p, Head(dat[p]), Len(dat[p]) - 1, d)

-----------------------------------------------------------------------------
(* Hosts (external).  A receiver sends a grant, the sender answers with the *)
(* scheduled data it pays for; unscheduled data and signals need no credit. *)
(* The token is idle again once its packet is consumed.                     *)

HostSend(t) ==
  /\ t \in idle
  /\ idle' = idle \ {t}
  /\ LET pkt == Fresh(t, Kind[t], From[t], To[t], Kind[t] = "data")
     IN wire' = [wire EXCEPT ![Uplink(From[t])] = Append(@, pkt)]
  /\ UNCHANGED <<qp, fc, stamped, replica, sync, ctl, dat>>

HostReceive(l) ==
  LET pkt == Head(wire[l])
      reply == [Fresh(pkt.tok, "data", pkt.dst, pkt.src, FALSE) EXCEPT !.held = pkt.held]
      rest == [wire EXCEPT ![l] = Tail(@)]
  IN /\ l[2] \in Host /\ wire[l] # <<>>
     /\ IF pkt.type = "grant" /\ ~pkt.bounced
        THEN /\ wire' = [rest EXCEPT ![Uplink(pkt.dst)] = Append(@, reply)]
             /\ UNCHANGED idle
        ELSE wire' = rest /\ idle' = idle \cup {pkt.tok}
     /\ UNCHANGED <<qp, fc, stamped, replica, sync, ctl, dat>>

-----------------------------------------------------------------------------
Init ==
  /\ qp = [p \in Port |-> 0]
  /\ fc = [p \in Port |-> FALSE]
  /\ stamped = [p \in Port |-> FALSE]
  /\ replica = [p \in Port |-> FALSE]
  /\ sync = [p \in Port |-> <<>>]
  /\ ctl = [p \in Port |-> <<>>]
  /\ dat = [p \in Port |-> <<>>]
  /\ wire = [l \in Link |-> <<>>]
  /\ idle = Token

Next ==
  \/ \E l \in Link : l[2] \in Switch /\ Ingress(l[1], l[2])
  \/ \E p \in Port : SyncIngress(p)
  \/ \E p \in Port : EgressControl(p)
  \/ \E p \in Port : EgressData(p)
  \/ \E t \in Token : HostSend(t)
  \/ \E l \in Link : HostReceive(l)

\* The pipelines and the links never stop; hosts may stay silent.
Fairness ==
  /\ \A l \in Link : WF_vars(l[2] \in Switch /\ Ingress(l[1], l[2]))
  /\ \A p \in Port : WF_vars(SyncIngress(p))
  /\ \A p \in Port : WF_vars(EgressControl(p))
  /\ \A p \in Port : WF_vars(EgressData(p))
  /\ \A l \in Link : WF_vars(HostReceive(l))

Spec == Init /\ [][Next]_vars
FairSpec == Spec /\ Fairness

-----------------------------------------------------------------------------
(* Routes.  The three properties of the credit below rest on more than the  *)
(* pipeline: a grant adds its credit at the port it comes in on, a returning *)
(* one subtracts at the port it leaves by, and data waits at the port it     *)
(* leaves by.  The three are one port only if ipv4_forward takes both        *)
(* directions over the same switches.                                        *)

\* w[0] = h, the switches w[1] .. w[n], w[n + 1] = k: the way from h to k, in
\* both directions.
Route(w, n, h, k) ==
  /\ w[0] = h /\ w[n + 1] = k /\ h # k
  /\ \A i \in 1 .. n : w[i] \in Switch
  /\ \A i, j \in 1 .. n : w[i] = w[j] => i = j
  /\ Uplink(h) = <<h, w[1]>> /\ Uplink(k) = <<k, w[n]>>
  /\ \A i \in 1 .. n : NextHop[w[i]][k] = w[i + 1] /\ NextHop[w[i]][h] = w[i - 1]

SymmetricRoutes ==
  \A t \in Token : \E n \in 1 .. Cardinality(Switch) :
    \E w \in [0 .. n + 1 -> Node] : Route(w, n, From[t], To[t])

-----------------------------------------------------------------------------
(* Properties. *)

\* The registers, queues and links hold what the pipeline puts in them.
TypeOK ==
  /\ qp \in [Port -> 0 .. Word - 1]
  /\ fc \in [Port -> BOOLEAN]
  /\ stamped \in [Port -> BOOLEAN]
  /\ replica \in [Port -> BOOLEAN]
  /\ sync \in [Port -> Seq(BOOLEAN)]
  /\ ctl \in [Port -> Seq(PacketAt(Port))]
  /\ dat \in [Port -> Seq(PacketAt(Port))]
  /\ wire \in [Link -> Seq(Packet)]
  /\ idle \subseteq Token

\* The ingress replica is never lost or reordered: it is the authoritative
\* PAUSE state as it was before the mirror clones still under way, each of
\* which is a real transition.  (Clones are sent on change only, so one that
\* repeated or skipped a state would leave the replica wrong for good.)
SyncChain ==
  \A p \in Port :
    LET history == <<replica[p]>> \o sync[p]
    IN /\ history[Len(history)] = fc[p]
       /\ \A i \in 1 .. Len(history) - 1 : history[i] # history[i + 1]

\* "Credit that was not accepted cannot later subtract from Qp" (README.md):
\* the subtraction a returning grant carries is for a port that counts it.
SubtractsOnlyAccepted ==
  \A p \in Port : \A i \in 1 .. Len(ctl[p]) :
    ctl[p][i].shim = "subtract" => ctl[p][i].port \in ctl[p][i].held

\* A bounced grant gets back to its receiver only after every switch that
\* had accepted it has taken it out of its phantom queue again.
BounceUndoesEveryHop ==
  \A l \in Link : l[2] \in Host =>
    \A i \in 1 .. Len(wire[l]) : wire[l][i].bounced => wire[l][i].held = {}

\* Scheduled data waits only at ports whose phantom queue has counted the
\* credit that pays for it: Qp foresees the queue every grant will build.
ScheduledDataWasCounted ==
  \A p \in Port : \A i \in 1 .. Len(dat[p]) :
    ~dat[p][i].unsched => p \in dat[p][i].held

\* Where a token travels as a grant, accepted so far or bounced.
GrantInside(t) ==
  LET IsGrant(q) == \E i \in 1 .. Len(q) : q[i].tok = t /\ q[i].type = "grant"
  IN \/ \E l \in Link : IsGrant(wire[l])
     \/ \E p \in Port : IsGrant(ctl[p])

\* No grant is lost and none is bounced to and fro for ever: it ends up used
\* by its sender's data or back, bounced, at its receiver.  (No such claim
\* holds of data, which strict priority lets control traffic starve.)
GrantResolves ==
  \A t \in Token : GrantInside(t) ~> ~GrantInside(t)

\* A PAUSE reaches ingress unless it is withdrawn first, and so does its end.
ReplicaCatchesUp ==
  \A p \in Port : replica[p] # fc[p] ~> replica[p] = fc[p]

\* README.md, "Tofino-Specific Notes": transmit-side updates "compare the
\* actual egress port's Qp and physical queue depth".  So a paused port would
\* not be released while its data queue is at or over XON.
ReleasedOnlyWhenShort ==
  [][\A p \in Port : fc[p] /\ ~fc'[p] => Len(dat'[p]) < XonCells]_vars
=============================================================================
