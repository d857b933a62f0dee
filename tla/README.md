# A TLA+ verification of DPDQ

DPDQ is a credit-based transport for datacentres. A receiver grants credit, a
sender spends it on data, and every switch keeps a *phantom queue* (`Qp`) that
counts the data each accepted grant will bring. A switch whose phantom queue is
too long goes to PAUSE and *bounces* further grants, so that they return to
their receiver. The repository holds the switch as a Tofino program
(`src/tofino`), host and switch as an ns-2 simulation (`src/dpdq-ns2`) and a
simulator derived from HPCC for ns-3 (`src/dpdq-ns3`).

## Inventory

| component | state it keeps | operations | interacts with |
|---|---|---|---|
| Tofino pipeline, `tofino/dpdq.p4` | `Port_Qp_Reg`, `Port_Fc_State_Reg`, `Timestamp_Reg` (egress), `Ingress_Fc_State_Reg` (ingress replica) | accept, bounce, forward, classify (ingress); net Qp update, PAUSE decision, ECN, mirror clone (egress); write of the replica | ingress to egress by the traffic manager, egress to ingress by mirror clones over the recirculation port |
| ns-2 host transport, `R2p2CCHybrid` | `budget_bytes_`, `srpb_bytes_` and `max_srpb_bytes_` per sender, `InboundMsgState` per message; `avail_credit_bytes_` per receiver, `OutboundMsgState` per message, `resend_pending_` | poll (grants, data, resend timeouts, cleanup), recv of GRANT_REQ, GRANT, bounced GRANT, data, RESEND | messages to peers; switch fabric bounces grants and marks data |
| ns-2 host policies, `r2p2-hybrid-support` | deficits and quanta per receiver, message lists | `want_to_send`, `select_msg_to_send`, ts / srpt / equal policies | called by `send_data` and `send_grants` |
| ns-2 switch fabric, `DestHashClassifier`, `MultiPathForwarder`, `DPDQQueue` | phantom queue, PAUSE and last update per port; hash and round-robin slots; queue contents | `ppass_ingress`, `ppass_egress`, `bounce_credit`, `drain`, path choice, priority enqueue | packets, physical queue length |
| r2p2 session layer | client and server request maps, uplink queue | request and reply matching, packetisation | above and below the transport |
| ns-3 CreditBouncer host, `RdmaHw` (`rdma-hw.cc`) | queue pairs; one `ReceiverState` per receiver with a pool of credit; one `RdmaRxQueuePair` per message and one `SenderState` per sender with budget, demand and outstanding credit; the global bucket; the grant timer | announce or self-allocate, spend credit, grant on a tick, receive data, RESEND, bounced grants, AIMD, completion and clean-up of states | packets through the switches; NIC round robin and timers |
| ns-3 CreditBouncer switch, `SwitchNode`, `SwitchCbMmu` | per port the phantom queue, PAUSE and the time of the last transmission; credit and data bytes queued; shared data bytes of the switch | route by a symmetric hash, reserve or bounce a grant, admit or drop, update the port when it transmits | hosts' packets; `BEgressQueue` with queue 0 first |
| ns-3 PFC, `SwitchMmu`, rate control | shared buffer counts, PFC state, rates | admission, pause and resume, rate loops | packets and PFC frames |
| baselines (micro, homa, xpass, pFabric), scripts, vendored simulators | - | evaluation only | - |

What is hard, and which component has it:

- *stale state*: Tofino ingress decides on a replica one mirror loop old; the
  simulators' switches drain the phantom queue and decide on PAUSE only when a
  port transmits; in ns-3 an entry per peer is erased with the last open message
  and comes back with a late packet;
- *ordering*: data may overtake its GRANT_REQ, a retransmission its original, a
  bounce may arrive after the data of its message was paid for otherwise;
- *sharing*: credit that a receiver grants for one message pays for any message
  of that pair (SRPT at the sender), while the receiver accounts by message;
- *loss and timeouts*: RESEND whether data was lost or only late; lost GRANT_REQ
  and GRANT are not repeated;
- *partial failure*: the ns-3 switch reserves room for a grant that it may then
  drop for want of a place in the credit queue;
- *symmetry*: a grant, its data and its way back choose their paths by hashes of
  different headers;
- *bounds*: global budget, bucket and window per sender; `Qp` in 32 bits; the
  buffer of a switch shared by its ports; bytes with headers and padding, cut in
  different portions by grants and by data.

What makes each component correct: for a switch, that the phantom queue counts
exactly the credit whose data has to come by, that PAUSE follows it and ends, and
that a bounced grant is undone at each hop it passed and nowhere else; for a
host, that credit is conserved, no packet is delivered twice or lost, every
message can still obtain the credit it needs, and the timer that grants it runs;
for switch and host together, that the switches are the network the hosts'
accounts assume.

## Modules

| module | models |
|---|---|
| `TofinoFabric` | `dpdq.p4` on every switch of a network: registers, traffic manager, mirror clones, links |
| `Ns2Fabric` | the phantom-queue switch of ns-2 on every switch of a two-tier network |
| `R2p2CCHybrid` | the credit loop of the ns-2 host, sender and receiver, over a network that loses, bounces and reorders |
| `RdmaCreditBouncer` | the CreditBouncer host of ns-3: senders of one receiver, in bytes |
| `CreditBouncerSwitch` | the CreditBouncer switch of ns-3 on every switch of any network, with simple hosts |
| `CreditNetwork` | what hosts may expect of the switches between them: the abstract network that `CreditBouncerSwitch` implements |
| `TofinoFabric_proofs`, `Ns2Fabric_proofs`, `CreditBouncerSwitch_proofs` | theorems about these modules |
| `RdmaCreditBouncer_proofs`, `RdmaCredit_proofs` | theorems about `RdmaCreditBouncer`: its types, budget and clock; the accounts of credit and of demand |
| `R2p2CCHybrid_proofs`, `R2p2CCHybridCredit_proofs` | theorems about `R2p2CCHybrid`: its types; delivery and the receiver's accounts |
| `SumTheorems` | sums over finite sets, and how many elements of a kind are in a family of queues |
| `MCTofinoFabric` | receiver - switch B - switch A - sender |
| `MCNs2Fabric` | receiver and sender in two racks, two aggregation switches |
| `MCR2p2CCHybrid` | one receiver, two senders, up to three messages |
| `MCRdmaCreditBouncer`, `MCRdmaWorkloads` | the same for ns-3; two workloads of one sender, `Scheduled` and `Mixed`, chosen in the initial state |
| `MCCreditBouncerSwitch` | a diamond of switches with an end switch, and a line of two |

### TofinoFabric

Each port of a switch is `<<switch, neighbour>>`. `qp`, `fc`, `stamped` and
`replica` are the four registers; `ctl` and `dat` the logical queues 0 and 1 of
the port in the traffic manager; `sync` the clones on the recirculation loop;
`wire` the packets on a link. Mirror loop and traffic manager are separate
queues, so every interleaving of them occurs.

| actions | code |
|---|---|
| `BounceGrant`, `AcceptGrant`, `ForwardBounced`, `ForwardSignal`, `ForwardData` | the ways through `Ingress.apply` |
| `SyncIngress` | `Ingress.apply` on a `dpdq_sync` clone |
| `EgressControl`, `EgressData` | `Egress.apply` (`Transmit`) and the deparser's mirror on the head of a logical queue; queue 0 has strict priority as the README's control-plane setup configures it |
| `HostSend`, `HostReceive` | hosts, external |

REQUEST and REPLY are one class ("data"), GRANT_REQ and RESEND another
("signal"). Time is abstracted to the drain that the timestamp register yields,
any member of `Drains` once the port has a timestamp. `held` is history: the
ports that count a packet's credit. Depth is counted in packets; Tofino counts
cells. `MaxSync` bounds the clones of one port.

### R2p2CCHybrid

One unit of credit, a grant, pays for one packet; bytes, headers and padding are
abstracted, so a message is `1 .. Size[m]`. The three receiver policies and the
deficit scheduler differ in an order, and the module takes any; the choice among
messages to the same receiver (`want_to_send`, with the override for an
unannounced message) is kept, because it decides whose credit pays for whom. The
ECN and multi-bit loops of `update_nw_state` and `update_sn_state` appear only
as "any packet may set the window to any of `Windows`".

| actions | code |
|---|---|
| `ActivateUnsolicited`, `ActivateScheduled` | the two loops at the head of `send_data` |
| `SendData`, `SendOneRetransmission` | the rest of `send_data`, `send_one_retransmission` |
| `ReceiveGrant`, `ReceiveBounced` | `received_credit` |
| `HandleResend`, `CleanupFinished` | `handle_resend`, `cleanup_finished_messages` |
| `ReceiveRequest`, `ReceiveData`, `ReceiveAgain` | `recv` on GRANT_REQ, on data and on a retransmission, with `received_data` |
| `SendCredit`, `RemoveGranted` | `send_credit_policy_common` |
| `CheckResendTimeouts` | `check_resend_timeouts`, at any time |
| `Lose`, `Bounce` | the network, external |

`Overtaken` says what the network may reorder: "request", data that overtakes
its GRANT_REQ; "original", a retransmission that overtakes its original.
Everything else is unordered in every run. `twice`, `lostCredit` and `unrevoked`
are history.

### Ns2Fabric

`port` is `port_status_map_` (phantom queue, PAUSE, whether it was ever drained);
`ctl` and `dat` are `credit_q_` and `data_q_` of `DPDQQueue`; `ns` is the round
robin of a `MultiPathForwarder`; `wire` the packets on a link.

| actions | code |
|---|---|
| `BounceGrant`, `AcceptGrant`, `Forward` | `DestHashClassifier::classify` on the next packet of a link with its `ppass_ingress`, the choice of a path, `ppass_egress`, and `enque` or drop, in one step as in the simulator |
| `Deque` | `DPDQQueue::deque` and the transmission |
| `RequestGrants`, `SendUnsolicited`, `SendGrant`, `ReceiveGrant`, `Receive` | the two hosts, external; `seq` as `r2p2-cc-hybrid.cc` numbers grants and data |

The drain, `rho_ * interval * rate`, is any member of `drains`, and 0 for the first
packet of a port. `drains` is `Drains` or `{0}` (`rho_ = 0`), chosen in the initial
state: `CoversOutstandingCredit` can hold only where nothing is drained, all
else is checked for both. Both racks number the slots of the
aggregation switches alike (`Up`), which the order of route installation has to
ensure. The sender answers a grant with its *next* packet, so after a bounce, or
when grants overtake each other, the data has another `seq` than its grant and takes
another path: `DataFollowsItsGrant` is about packets for which the two agree.

### RdmaCreditBouncer

One receiver and its senders. `receiverStates` and `senderStates` are the two
maps of `RdmaHw` with the entries a packet creates (`GetReceiverState`,
`GetSenderState`) and a completed message erases (`Forget`). Bytes are
those of the code, with small numbers: `AddHeader`, `RemoveHeader`,
`AlignChunks` are its conversions between payload and wire bytes, with the pad of
a short frame, and grants and data cut a message in different portions.

| actions | code |
|---|---|
| `AddQueuePair`, `GetNxtPacket` | a message starts; the NIC serves its queue pair: classification with self-allocation, GRANT_REQ, or data |
| `ReceiveGrantReq`, `ReceiveData`, `ReceiveResend`, `ReceiveGrant`, `ReceiveBounced` | `ReceiveCreditBouncer` by kind of packet, with the AIMD update and completion of data |
| `CreditGrantTick` | the timer: one grant (`IssueCreditGrant`), and whether it runs on |
| `HandleCreditBouncerResendTimeout` | RESEND of what the bitmap misses, at any time while fewer than `MaxInFlight` packets are in the network |
| `Bounce`, `Lose` | the network, external |

Round robin and SRPT among messages are any order; AIMD picks any cap of `Caps`,
clipped as in the code. `EarlyData` says whether data may overtake its GRANT_REQ.

### CreditBouncerSwitch

Port `<<x, y>>` of switch `x` leads to `y`. `state` is
`m_creditbouncerPortState`, `creditQueueBytes`, `dataQueueBytes` and
`dataSharedUsed` are `SwitchCbMmu`, `ctl` and `dat` the queues 0 and 1 of
`BEgressQueue`. The configuration is that of `config-dpdq-ccfc.txt`: bounce,
dynamic thresholds, dedicated MMU and symmetric routing on. The
data admission factor is at most 1, as it is there and by default
(`switch-cb-mmu.cc:97`); with a larger one `WithinBuffers` would not hold.

| actions | code |
|---|---|
| `BounceGrant`, `ReserveGrant`, `Forward` | `SendToDev` on the next packet of a link, to the end: routing, bounce or reservation, admission, enqueue or drop |
| `TransmitCredit`, `TransmitData` | `DequeueAndTransmit`, `SwitchNotifyDequeue` and `UpdateCBPortStateOnTransmit` |
| `SendGrant`, `SendData`, `SendExtra`, `HostReceive` | the hosts, reduced to what the network sees of them |

Order matters inside them and is kept: a grant is counted before it is admitted,
PAUSE is decided on the phantom queue before the packet is added and the drain
taken off, but on the queue lengths after the packet left. Time is the drain: any
member of `Drains`, and 0 for a port's first packet. Between two transmissions
a line drains at least the packet it sent, so `Drains` has no 0. `held`,
`accepted` and `drained` are history. Sequence numbers have `SeqSpace` values and
wrap.

`CreditNetwork` is an unordered network that delivers each packet once, may turn
a GRANT round, and loses data only. The refinement mapping counts the copies of
each packet on links and in queues; a drop of a full queue is its `Lose`, a
bounce its `Bounce`, and forwarding stutters. Loss of data and of no control
packet but RESEND is what `RdmaCredit` and `RdmaLiveness` assume of their network.

## Runs

| run | expects | shows |
|---|---|---|
| `TofinoSafety` | pass | `TypeOK`, `SyncChain`, `SubtractsOnlyAccepted`, `BounceUndoesEveryHop`, `ScheduledDataWasCounted` with two grants and one unscheduled packet |
| `TofinoLiveness` | pass | `GrantResolves`, `ReplicaCatchesUp` |
| `Ns2Credit` | pass | `TypeOK`, `PausedWhenOver`, `BounceUndoesEveryHop`, `DataFollowsItsGrant`, `CoversOutstandingCredit`: two grants of one message, drained or not, bounced at any hop, with drops |
| `HostCredit` | pass | `TypeOK`, `CreditConserved`, `BudgetWithinMax`, `ReceivedWithinExpected`, `DeliveredExactlyOnce`, `NoCreditDebt`: two messages of one pair, or a scheduled and an unsolicited one of two senders; one loss of any kind, two bounces |
| `HostLiveness` | pass | `Delivered` in spite of lost data, retransmissions or RESEND and of a bounce |
| `HostLateOriginal` | violation | `assert(budget_bytes_ <= max_budget_bytes_)` when an original comes late |
| `RdmaCredit` | pass | the receiver's accounts, its grant timer and the states per peer, for two messages of one sender that spend one pool: two scheduled ones, or one scheduled and one that gives itself credit; grants of two chunks, padded last chunks, one loss, one bounce |
| `RdmaLiveness` | pass | `Completes`: two senders of a message each contend for a global bucket that holds the grant of one; `CreditFitsBucket` and `GlobalIsOutstanding` for it |
| `RdmaLateCopy` | violation | a late copy leaves a `SenderState` marked enabled that was never initialised (`rdma-hw.h:126`) |
| `RdmaDoneDemand` | violation | a message that completes on another's grant leaves demand that is no message's (`rdma-hw.h:129`) |
| `SwitchCredit` | pass | `TypeOK`, `WithinBuffers`, `BounceUndoesEveryHop`, `ReservationsCovered` in the diamond |
| `SwitchLiveness` | pass | `ImplementsNetwork` and `GrantsAccepted` in the line |

What the ns-3 properties say: `TickServesDemand`, the timer never stops while a
message it could serve waits; `BudgetFloor`, budget and outstanding credit of a
sender never shrink below a cap together, so that a sender that has nothing
outstanding can be granted; `CreditIsCounted`, credit that can still become data
is counted as outstanding; `CreditFitsBucket`, the credit of all senders
that can still become data fits the global bucket, but for what they gave themselves;
`GrantedIsOutstanding`, a sender is charged for all the payload its messages were
granted and did not receive; `OutstandingInScheduled` and `DemandInScheduled`, it is
charged for no more than that, and its demand is what all its messages, done or not,
were not granted, where no message gives itself credit; `GlobalIsOutstanding`, the
bucket counts what the senders are charged for. `DemandIsOfItsMessages` says of demand
what the comment at `rdma-hw.h:129` does. `ReservationsCovered`: a phantom queue and what it
has drained cover all grants counted and not undone. `GrantsAccepted`: however
often a grant is bounced and sent again, it passes in the end.

Bounds. Two switches are the fewest at which a grant is accepted at one hop and
bounced at the next, so that the way back has something to undo; thresholds of
two and three units let the two grants, and the control and data queue of a
port, each reach XOFF and XON; `Word = 8` is small enough that `Qp` wraps, as a
32-bit register would. In `Ns2Fabric` each grant alone takes a port over XOFF,
and a drain empties it again, so that the second grant may be
bounced at the first, second or third switch; two slots with different hashes
for the two directions show a path that is not mirrored; the queue limits drop
the second packet of a kind. For the ns-2 host, two packets per message give a gap and a
frontier; a budget of two packets makes messages wait for each other; one loss
and up to two bounces give each kind of failure at each point. For the ns-3
host, `RdmaCredit` has messages of 7, 9 and 5 bytes in chunks of 4, the last of 3, 1 and
1 byte: one byte is padded, three are a short frame and four a full one. A grant or a
self-allocation covers up to two chunks, so that grants and data
divide a message, and pad, differently. The message of 5 bytes is not above the threshold of 8 on
the wire and takes what room the pool has: all of itself, or only its first chunk (class
`unscheduled`) when the pool holds a grant. The other message of `Mixed` has 9 bytes, 8 in
its first grant, so that it may spend the rest of that self-allocation on its last chunk
before the receiver has granted it or heard of the announcement. Caps of one and two packets make AIMD bite. In
`RdmaLiveness` a bucket of 8 holds the 7 bytes that one message takes on the wire, so
that the senders wait for each other; the cap is that of a grant, since a sender with a
cap below one is never granted. In the diamond the receiver's switch
has two equal paths and an end switch behind them, buffers of 10 and 14
make all three thresholds differ, the credit queue holds three
control packets, and `MaxGrants = 3` lets one bounced grant be sent again; the
extra signal or unscheduled packet takes the other path. The line has no bound on
grants: every loop of bounces is in the graph. `CHECK_DEADLOCK FALSE` stands only
where the system stops when every message is done or its packets have passed,
which is everywhere but in `TofinoFabric`.

Fairness. `TofinoFabric`: weak fairness of each pipeline, link and mirror loop,
which never stop in hardware; hosts may stay silent. `R2p2CCHybrid`: weak
fairness of delivery by the network, of each receive handler and of the steps of
`poll`, which its timer reschedules for ever. `RdmaCreditBouncer`: weak fairness
of scheduled events, of the NIC's round robin over queue pairs and of delivery.
A lost GRANT or GRANT_REQ is never recovered by the code, so both liveness runs
lose only what the code repairs. `CreditBouncerSwitch`: weak
fairness of links, hosts and queue 0, and *strong* fairness of a port's data
queue. With weak fairness alone, bounced grants can keep queue 0 busy whenever
data could leave, the queue of data stays long and PAUSE never ends. The
code's strict priority does not exclude this; the rates do, as a host has at most
its outstanding grants under way, and each has to cross the link before it comes
back. `GrantsAccepted` is to be read with that assumption.

## Claims that order and loss refute

`HostLateOriginal`, `RdmaLateCopy` and `RdmaDoneDemand` refute a statement of the
code; others fall for the same causes and have no run of their own. A run that
shows one is made by the change given here.

- `RdmaDoneDemand` loses no packet and bounces none. The receiver grants the first of
  two equal messages, the sender spends the grant on the second, which completes, and
  `CleanupCreditBouncerSenderState` (`rdma-hw.cc:670`) erases it with its demand still in
  `m_pendingDemandDataBytes`. The first message has no demand left, its data was
  never sent, and a RESEND for it is ignored (`rdma-hw.cc:2650`): with `FairSpec` and
  `Completes` the same constants show that it waits for ever. What does hold is
  `DemandIsAccounted`: the bytes that the sender still counts are exactly those
  that completed messages were not granted.
- `Completes` also fails if the first packet of a self-allocated message may be lost:
  it is its announcement, and the sender keeps no timer.
- `assert(data_bytes_received_ <= data_bytes_expected_)` fails when data overtakes
  its GRANT_REQ, as the bitmap exists from the request on: `HostLateOriginal` with
  two messages of three packets from `s1`, `m1` and `m2`, so that credit for one pays
  for the other before it is announced, `Overtaken = {"request"}` and
  `ReceivedWithinExpected`.
- The same in ns-3: `RdmaCredit` with `EarlyData = TRUE` violates
  `OutstandingInScheduled`, `GrantedIsOutstanding` and `CreditIsCounted`.
- `r2p2-cc-hybrid.cc:778`, a bounced credit revokes bytes granted before: it
  revokes only what is outstanding of *its* message, which is nothing when the
  data was paid for with credit of another. `NoCreditDebt` counts this credit and
  shows that there is no third way to lose any.
- `tofino/README.md:206`, transmit-side updates "compare the actual egress port's Qp and
  physical queue depth": the depth they compare (`dpdq.p4:404`) is that of the queue which
  dequeued this packet, so a control packet of an empty control queue releases a port
  whose data queue is long. `TofinoSafety` with `Token = {g1, u1, u2, q1}` and the
  property `ReleasedOnlyWhenShort` shows it.
- `tofino/README.md:197`, a stale NORMAL accepts one extra credit: it accepts
  every grant that arrives within one mirror delay; two are enough.
- `assert(budget_bytes_ <= max_budget_bytes_)` (`r2p2-cc-hybrid.cc:1297`) fails without
  any loss once unsolicited messages are longer than a packet, as the thresholds of the
  experiments allow (up to 162500 bytes in `scripts/r2p2/coord/config`): `HostCredit`
  with `Workload = {{m1, m2}}`, `UnsolThresh = 2`, `Size2 = 3` and no loss or bounce violates
  `BudgetWithinMax` in 15 steps. `m1` allocates two packets of credit to itself and
  sends one; the other pays for the last packet of `m2`, which overtakes the first of `m1`
  and replenishes the budget before the receiver has debited it. The comment in
  `send_data` knows of it ("PROBLEM when sender self-allocates credit but doesn't tell
  receiver", line 1027); the override of shortest-first for unannounced messages
  covers a first packet only. `HostCredit` has `UnsolThresh = 1`, where it holds.
- The exact accounts fail in the workload `Mixed` of `RdmaCredit`: there
  `OutstandingIsGrantedNotReceived` and `DemandIsAccounted` are violated by a
  trace of 14 states without loss or bounce. `m3` gives itself
  two chunks of credit and sends one, which is slow; `m2` pays for its last chunk, not granted
  yet, with the rest of it. When that chunk arrives before the announcement of `m3`, nothing is
  outstanding that it could pay back, and the account saturates at zero; and if
  it completes `m2`, the last message the receiver knows of, the sender's entry is erased together
  with the demand for that chunk. So the two are checked for the workload `Scheduled`.
  `GlobalIsOutstanding` holds with these constants, and fails in `Mixed` too with
  `Granularity = 4` and `Caps = {5, 9}`. What the receiver needs not to grant
  too much holds in both workloads: `CreditIsCounted` and `GrantedIsOutstanding`. It errs on
  the safe side.

## Theorems

Every invariant and action property of the runs is also a theorem, for every
value of the constants that meets the hypotheses named here, but for the
exceptions listed at the end of this section.

### Sums and queues

Accounts of credit are sums over messages, ports or packets. The community
modules define such a sum by recursion over a set, and the library's induction
theorems take an operator, which the provers cannot instantiate. `SumTheorems`
therefore argues by a smallest counterexample: among the subsets of a
finite set for which a fact fails there is one minimal for inclusion
(`SmallestSubset`), and the recursion takes an element off it. It shows that the
recursion has a value (`SumOnExists`), what a change of one element or of all does
to a sum (`SumUpdate`, `SumMonotone`, `SumPlus`), that it may be taken part by part
(`SumByParts`), and how the number of elements
of a kind in a family of queues follows `Append` and `Tail` (`TotalAtAppend`, `TotalAtTail`).

### The Tofino switch

`TofinoFabric_proofs` holds, for every topology, forwarding table, packet set and
threshold:

- `TypeCorrect`: `Spec => []TypeOK`. Each action preserves the type of each
  register, queue and link; the packet operators have typing lemmas of their own.
- `ReplicaIsDelayedState`: `Spec => []SyncChain`. The inductive invariant is
  `Chains`: at each port the replica, followed by the clones on their way, is a
  chain of alternating values that ends in the egress state. It is needed
  because `SyncChain` speaks of the concatenation, whose last element and whose
  tail the two ends of the loop change independently.
- `NetUpdateApproximates`: how the single net update of `Qp` differs from
  `max(0, Qp - drain) + size`.

The rest of it is about the credit of a grant, where routes are symmetric
(`SymmetricRoutes`: each grant has a route without a loop that the forwarding
tables follow in both directions). The hypothesis is needed: `accept_credit` adds at
the port a grant comes in by and a remote bounce subtracts at the port
it leaves by, and only symmetric tables make them the same port.

- `CreditStaysOnRoute`: `Spec => []CreditOnRoute`. None of the three
  properties below is inductive: each speaks of `held` at one moment of a packet's way. The
  invariant says where a packet may be and that its *position* on the route
  determines `held`: a grant that has reached `w[i]` is counted by the ports it left
  behind, a bounced one at `w[i]` by those it still has to pass, scheduled
  data by all.
- `BouncesSubtractOnlyAccepted`, `BouncesUndoEveryHop`, `ScheduledDataIsForeseen`: the
  properties `SubtractsOnlyAccepted`, `BounceUndoesEveryHop` and
  `ScheduledDataWasCounted` follow from it.

### The ns-2 switch

`Ns2Fabric_proofs` holds, for every network, hash, threshold, physical queue and drain:

- `OverIsPaused`: `Spec => []PausedWhenOver`. The inductive invariant `IInv` adds
  that every entry of `port_status_map_` has its type, without which the
  comparison with XOFF means nothing; `UpdateSettles` shows that
  `update_port_state` establishes it, and each handler ends in one.
- `EntriesTyped`: no revocation or drain makes a phantom queue negative.
- `TypeCorrect`, `BouncesUndoEveryHop`, `DataStaysOnGrantedPath`: `TypeOK`,
  `BounceUndoesEveryHop` and `DataFollowsItsGrant`, from
  `Known == IInv /\ Shaped /\ Queued /\ Carried /\ GrantsKnown`. `Carried` says, for
  each kind of packet and each place of the network, which ports count
  its credit: the hash fixes one aggregation switch for a grant and its
  data, and the slots (`Up`) are numbered alike in both racks. `GrantsKnown`
  bounds the grants in the network by the receiver's counter, without which a bounced
  grant could take the counter below zero.
- `CreditIsCovered`: `CoversOutstandingCredit`, from `Covered`: at each port the phantom
  queue is at least the sum of the credit of the packets, anywhere in the network,
  that the port counts.

### The ns-2 host

`R2p2CCHybrid_proofs` and `R2p2CCHybridCredit_proofs` hold for any number of hosts and
messages of any size, any budget, windows and thresholds, and any number of
losses and bounces:

- `TypeCorrect`: `TypeOK`, with `RetransmissionQueue`: `resend_pending_` holds
  messages that have something to send again.
- `ExactlyOnce` and `NeverReceivesMore`: `DeliveredExactlyOnce` and
  `ReceivedWithinExpected`, from `MessagesOk`: for each message, which packets are or
  were on their way, what its receiver marked, and whether its state is
  still there, by how far its sender is.
- `CreditIsConserved` and `CreditForEveryPacket`: `CreditConserved` and
  `NoCreditDebt`, from `Ledger`: what a sender's bucket lacks is the credit the
  sender holds and the parts of the messages between the two (packets under way, grants
  under way, packets lost), and what the budget lacks is the sum of what the
  buckets lack. A message's own account does not balance, since messages
  share credit; the pair's does.
- `BudgetIsBounded`: `BudgetWithinMax`, from `SilentCovered`: until its first packet
  is sent, the credit an unsolicited message allocated to itself stays in the sender's
  account, so no other message can spend it.

All but `TypeCorrect` are under the hypothesis `Overtaken = {}`: no packet overtakes its
GRANT_REQ and no retransmission its original. `HostCredit` has it, and
`HostLateOriginal` shows that without it they fail. `BudgetIsBounded` also needs
`OnePacketUnsolicited`: with longer ones it fails, as said above.

### The ns-3 host

`RdmaCreditBouncer_proofs` holds, for every set of senders and messages, all
sizes, thresholds and caps, and any bound on losses and bounces:

- `TypeCorrect`: `Spec => []TypeOK`; no unsigned account wraps.
- `BudgetKeepsFloor`: `Spec => []BudgetFloor`.
- `ClockServesDemand`: `Spec => []TickServesDemand`.

One inductive invariant, `IInv == SendOK /\ RecvOK /\ NetOK /\ TickOK`, carries the
three. `RecvOK` says that each `SenderState` is *sound*: typed, with the floor
that `BudgetFloor` is about. Neither is inductive
alone: the floor needs that cap and budget are numbers, and
that AIMD clips the budget only down to a cap; `TickOK` needs that a handler
that raises demand, budget or outstanding room reschedules the timer, which
`StoreAndSchedule` states once. `NetOK` keeps the bag of packets a bag and each
packet one that some action sends. The operators on accounts (`Charge`,
`Reclaim`, `UpdateSenderStateAimd`, `ApplyNewAnnouncement`, `ReceiveChunk`) and
the conversions of bytes have lemmas of their own.

`RdmaCredit_proofs` is about the accounts, for any number of senders, of messages that
share a sender's pool, of losses, bounces and copies. The hypotheses are about the
traffic:

- `OrderedRequests`: a GRANT_REQ is not lost and no data overtakes it. Without it the
  accounts fail, as said above.
- `FramesFit`: a full chunk fills the smallest frame, as it does with the code's numbers (68
  bytes around a payload of 1466, 84 at least, `rdma-hw.cc:47`). Sizes are any: the last
  frame of a message may be short and padded.

The two together are `Ordinary`, and all runs of the ns-3 host meet them. Messages of any
class share the pool of their sender, except where a theorem says otherwise.

- `OutstandingCoversCredit`: `CreditIsCounted`; `NoGrantComesLate`:
  `ReceiverEnabledMeansInitialised`; `BucketBoundsCredit`: `CreditFitsBucket`; all under
  `Ordinary`. The first bounds the credit a sender can still use (what its pool holds and
  what is in grants and bounces under way) by the outstanding account, and it is not
  inductive: a completed message erases states, and a late copy could bring them back with
  nothing outstanding. The invariant `CreditInv` keeps two ledgers per sender. `Ledger`:
  usable credit is at most what all its messages were *granted* less what they *sent*, each
  term in wire bytes; this is the sender's view, which survives the erasure of any state.
  `Counted`: it is at most what was lent and is unpaid, plus the outstanding account, the
  receiver's view. When the last open message completes, everything of it was sent, so
  `Ledger` says that no credit is left: that is why no grant comes late, why
  erasing the account loses nothing, and why the late copy of `RdmaLateCopy` does no harm
  to these. `BucketCovers` and `BucketHolds` are the same account for the bucket:
  the credit of all senders is in it, and it holds no more than its bound and what
  announcements brought. `SumByParts` turns the sum over messages into sums over senders.
  `HostInv` and `NetInv` say how far each message and packet is.

  Padding is what makes `Ledger` hard. A message is sent in other portions than it
  was granted in, a bounced grant may come back cut, because the account it was charged to has
  been paid back meanwhile, and what was cut is granted again in other frames; so what a
  message was granted *in wire bytes* depends on how. `Reserve` bounds what it may still be
  granted: its demand and its grants under way filled up to full frames, less what the
  tail of the message is short of one, where a part that can end in that tail is
  left. A grant takes from it at least what it costs (`ReserveTaken`), a bounce adds at most
  what comes back (`ReserveAdded`), and it is positive as long as there is demand.
- `ChargeCoversGranted`: `GrantedIsOutstanding`, under `Ordinary`. `Charged` says it
  of the account in the middle of a handler, where message and sender have already
  been changed and the stored states have not: each operator on accounts adds to the charge
  of the sender at least what it adds to what the message owes. A chunk is received whole and
  pays back at most its payload, also where the account saturates; a bounce returns to demand
  just what it takes off the charge; and a sender is forgotten only when all its messages are
  received, with nothing owed (`CompletedGranted`).
- `NoDemandIsLost`: `DemandIsAccounted`, under `Ordinary` and `Separate`: a message that has
  the pool of its sender to share gives itself no credit. Both workloads of `RdmaCredit` show
  why: it holds in `Scheduled` and fails in `Mixed`. `Matched` plays the part of `Charged`.
  What needs an argument is that the sender's entry goes away with its last open
  message: `Forgotten` says that then no message of it has demand. All of them are done, so
  each was sent in full; `Ledger` leaves no room for credit that was sent and not granted,
  hence all were granted in full.

### The ns-3 switch

`CreditBouncerSwitch_proofs` holds for every network, routing table, hash, packet set,
size, threshold and drain:

- `BuffersSuffice`: `Spec => []WithinBuffers`. `IInv == Accounts /\ Typed`: the shared
  bytes of a switch only grow by a packet that the rule admitted, and the
  rule bounds the *port's* queue by what is left of the *switch's* part; this
  bounds their sum because the factor is at most 1. `Typed` is needed because the
  packet at the head of a queue decides which account a step changes.
- `SwitchesAreNetwork`: `Spec => ImplementsNetwork`, if `CreditPlaces`: a credit queue
  has a place for every grant and signal the hosts may have under way. `Books`
  counts all packets on links and in queues against what the hosts sent:
  per flow (`FlowLedger`), grants (`GrantLedger`) and control packets
  (`ControlLedger`); `Sized` ties the MMU's bytes to the queues. From both,
  `RoomForControl`: no control packet is ever dropped. Then each step maps to
  a step of `CreditNetwork` or stutters: a bounce to `Bounce`, a dropped data packet to
  `Lose`, forwarding and transmission to nothing. `UnderwayCounts` shows that the
  mapping, which counts copies in queues, changes by one packet at a time.
- `BouncesUndoEveryHop`: `BounceUndoesEveryHop`, if `CreditPlaces` and `SymmetricRoutes`.
  The property speaks of a network without grants, and says nothing of the next
  one. The invariant behind it, `HeldLedger`, says for each port and each *set* of
  grants that what the port counts is the sum of those accepted
  past it and of those now between it and either end of their way. `OnWay` says that a
  grant is always at a place of its way; `RouteIsPast` and `OnePlace` that this place is
  unique and that the ports before it are the route. Sets are needed, not single
  grants, because `ReservationsCovered` sums over all; the counting lemmas
  are the same.
- `ReservationsAreCovered`: `ReservationsCovered`, by the same hypotheses. A drain is only
  recorded up to `AllCredit`; that the grants a port counts never exceed it
  (`LedgersBoundHeld`) comes from `HeldLedger`, `GrantLedger` and `FlowLedger`.
- `TypeCorrect`: `TypeOK`. That `held` is never negative is `HeldLedger` for a set of
  one grant; that `granted` is not, `FlowLedger`.

### Assumptions

The modules' assumptions on constants are `TopologyAssumption`, `TokenAssumption` and
`ThresholdAssumption` of `TofinoFabric`; `TopologyAssumption` and `SizeAssumption` of
`Ns2Fabric`; `MessageAssumption` and `CreditAssumption` of `R2p2CCHybrid`;
`MessageAssumption`, `FrameAssumption` and `CreditAssumption` of `RdmaCreditBouncer`;
`NetworkAssumption`, `SizeAssumption` and `ExtrasAssumption` of `CreditBouncerSwitch`.
TLC evaluates them in each run. Two hypotheses of theorems are evaluated by TLC in the
MC modules too, so that the runs are instances of the theorems: `SymmetricRoutes` as
`RoutesAssumption` of `MCTofinoFabric` and of `MCCreditBouncerSwitch`, and
`CreditPlaces` as `PlacesAssumption` of the latter.

### Only model-checked

- Liveness: `GrantResolves`, `ReplicaCatchesUp`, `Delivered`, `Completes`,
  `GrantsAccepted`. Fairness and ENABLED are beyond this prover.
- `OutstandingInScheduled` and `GlobalIsOutstanding`, the equalities behind
  `GrantedIsOutstanding` and `BucketBoundsCredit`. The accounts saturate: a chunk that is
  padded, or paid with credit nobody announced yet, may bring back more than is
  charged, and what is lost by it depends on sizes, caps and pools: none does in `Scheduled` and in
  `RdmaLiveness`. The direction a receiver needs in order not to grant
  too much is proved for all.
- `DemandInScheduled` in a set of messages of which some, that do not start, would give
  themselves credit; without those it is `NoDemandIsLost`.
- What a run refutes is a theorem only under hypotheses that the run does not meet
  (`BudgetWithinMax`), or not at all (`EnabledMeansInitialised`, `DemandIsOfItsMessages`).

## Not modelled, and the plan

1. The module `HybridPolicy`: deficit scheduler of `Receivers`, receiver policies
   and the empty list in `send_grants_ts_msg` (ns-2), order of grants in ns-3;
   several unsolicited messages of one pair, where the override of shortest-first
   (`r2p2-hybrid-support.cc:449`) meets the assertion on the budget; the REPLY of
   one packet.
2. A fault of control packets: a grant that finds the credit queue full leaves its
   reservation at the switches before (`switch-node.cc:884`). Runs and theorems
   are about credit queues that hold all control packets under way (`CreditPlaces`); with one
   place less and a RESEND in the network `ImplementsNetwork` fails, as a grant is lost.
3. `SwitchMmu`: shared buffer and PFC of the ns-3 switch in the mode without
   CreditBouncer's MMU, with `QbbNetDevice`'s pause timer: `Resume` asserts
   "Must be PAUSEd" (`qbb-net-device.cc:380`), which a resume frame that comes after
   the timer does not meet.
4. Composition of `R2p2CCHybrid` with `Ns2Fabric` with RESEND and REPLY; an abstract
   port that the three switches implement.
5. Proofs: how far the demand of a forgotten sender can be off when self-allocated
   messages share a pool; for which sizes no account of the ns-3 receiver saturates; the delivery of data in `CreditNetwork` itself, for the
   hosts above it.

Time itself is not modelled: a port that stays silent, a timestamp that wraps
or is 0 (`dpdq.p4:424`), and a grant bounced at a queue that would be empty by now
(`classifier-hash.cc:407`) appear only as a larger or smaller drain.

Left out for good: r2p2 session layer beyond "handed up", the baselines,
scripts, checksums, MAC rewriting, TTL, ECN marks (except their effect on windows
and caps) and tracing; and the vendored ns-2, ns-3, Tcl and Tk sources, which are
nearly all of the repository's lines and none of its protocol.
