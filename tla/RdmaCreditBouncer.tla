------------------------- MODULE RdmaCreditBouncer -------------------------
(***************************************************************************)
(* The CreditBouncer host of the ns-3 simulator (class RdmaHw): senders of *)
(* one receiver ask for credit, the receiver grants it on a timer tick out *)
(* of a global bucket and a budget per sender, a sender spends the credit  *)
(* of all its messages from one pool, and switches bounce grants back.     *)
(*                                                                         *)
(* Bytes are counted as in the code, payload and on the wire, with small   *)
(* frames.  A sender keeps one ReceiverState per receiver and a receiver   *)
(* one SenderState per sender; states of different receivers meet only in  *)
(* the order a NIC serves its queue pairs, here any order.  The order of   *)
(* grants (RR or SRPT) is any order, and AIMD picks any cap out of Caps.   *)
(* Timers fire at any time.  The network is external: it loses, bounces    *)
(* and reorders within the bounds below.                                   *)
(***************************************************************************)
EXTENDS Integers, FiniteSets, FiniteSetsExt, Bags

CONSTANTS
  Sender, Message,
  Src, Size,       \* sender and payload bytes of each message
  MTU,             \* m_mtu, payload of a full chunk
  Overhead,        \* headers and link overhead of a packet
  MinFrame,        \* CB_MIN_ETHERNET_ON_WIRE
  UnsolThresh,     \* m_creditbouncer_unsolicitedThresh_bytes, on the wire
  MaxSrpb,         \* m_creditbouncer_maxSrpb_bytes, on the wire
  GlobalBucket,    \* m_creditbouncer_globalBucket_bytes; 0 is no limit
  Granularity,     \* m_creditbouncer_grantGranularity_bytes, payload
  Caps,            \* values AIMD may give m_maxSrpbBytes, before clipping
  Lossy,           \* kinds of packets the network may lose
  MaxLosses, MaxBounces,  \* bounds: packets lost, grants bounced
  EarlyData,       \* whether data may overtake the GRANT_REQ of its message, as
                   \* it may when a switch hashes the two to different paths
  MaxInFlight      \* bound: a resend timer waits while more is in flight

ASSUME MessageAssumption ==
  /\ IsFiniteSet(Sender) /\ IsFiniteSet(Message)
  /\ Src \in [Message -> Sender]
  /\ Size \in [Message -> Nat \ {0}]

ASSUME FrameAssumption ==
  /\ MTU \in Nat \ {0} /\ Overhead \in Nat
  /\ MinFrame \in Nat \ {0} /\ Overhead < MinFrame

ASSUME CreditAssumption ==
  /\ UnsolThresh \in Nat /\ GlobalBucket \in Nat /\ Granularity \in Nat
  /\ MaxSrpb \in Nat \ {0}
  /\ Caps \subseteq 1 .. MaxSrpb /\ Caps # {}
  /\ EarlyData \in BOOLEAN

VARIABLES
  (* senders *)
  state,           \* "new", "active", "done" (snd_una = m_size)
  class,           \* m_usnsolCheckDone, m_isScheduled, m_hasScheduledPart
  self,            \* m_selfAllocCredit(Data)Bytes
  announced,       \* m_sentAnnouncement
  next,            \* snd_nxt, in chunks
  receiverStates,  \* m_receiverStates: the entry of the receiver, by sender
  (* receiver *)
  rxQp,            \* m_rxQpMap
  senderStates,    \* m_senderStates
  globalOut,       \* m_creditbouncer_globalOutstanding_bytes
  tick,            \* m_creditbouncer_grantTickEvent is running
  (* network *)
  net, losses, bounces

sendVars == <<state, class, self, announced, next, receiverStates>>
recvVars == <<rxQp, senderStates, globalOut, tick>>
netVars == <<net, losses, bounces>>
vars == <<sendVars, recvVars, netVars>>

(***************************************************************************)
(* Bytes.                                                                  *)
(***************************************************************************)
Least(a, b) == IF a <= b THEN a ELSE b
Most(a, b) == IF a <= b THEN b ELSE a
Minus(a, b) == IF a >= b THEN a - b ELSE 0

\* The bytes on the wire of a payload cut into packets.
AddHeader(payload, padFull) ==
  LET total == (payload \div MTU) * (MTU + Overhead)
      rest == payload % MTU
  IN IF rest > 0 THEN total + Most(rest + Overhead, MinFrame)
     ELSE IF padFull /\ payload > 0 THEN Most(total, MinFrame) ELSE total

\* The payload that a number of bytes on the wire carries.
RemoveHeader(wire) ==
  LET rest == wire % (MTU + Overhead)
  IN (wire \div (MTU + Overhead)) * MTU
     + IF rest >= MinFrame THEN Least(rest - Overhead, MTU) ELSE 0

\* A grant covers whole chunks, or all that is left.
AlignChunks(bytes, whole) ==
  IF bytes >= whole THEN whole ELSE (bytes \div MTU) * MTU

Count(bytes) == (bytes + MTU - 1) \div MTU
Chunk(m) == 0 .. Count(Size[m]) - 1
Payload(m, i) == Least(MTU, Size[m] - i * MTU)
Wire(m, i) == AddHeader(Payload(m, i), TRUE)

(***************************************************************************)
(* The per-peer states of a host, created when they are first asked for.   *)
(***************************************************************************)
Put(f, x, v) == [y \in DOMAIN f \cup {x} |-> IF y = x THEN v ELSE f[y]]

NewReceiverState == [enabled |-> FALSE, avail |-> 0, thresh |-> 0, msgs |-> {}]

NewSenderState ==
  [enabled |-> FALSE, ceiling |-> 0, cap |-> 0, srpb |-> 0, gran |-> 0,
   pending |-> 0, outData |-> 0, outWire |-> 0, msgs |-> {}]

NewRxQp ==
  [accounted |-> FALSE, pending |-> 0, chunks |-> {}, done |-> FALSE,
   timer |-> FALSE]

GetReceiverState(m) ==
  LET s == Src[m]
      old == IF s \in DOMAIN receiverStates THEN receiverStates[s]
             ELSE NewReceiverState
  IN [old EXCEPT !.msgs = @ \cup {m}]

GetSenderState(m) ==
  LET s == Src[m]
      old == IF s \in DOMAIN senderStates THEN senderStates[s]
             ELSE NewSenderState
  IN [old EXCEPT !.msgs = @ \cup {m}]

\* Mutant: forget the peer with its first message.
ForgetMutant(states, m) ==
  [x \in DOMAIN states \ {Src[m]} |-> states[x]]

\* The state of a peer goes away with the last message it lists.
Forget(states, m) ==
  LET s == Src[m]
      rest == states[s].msgs \ {m}
  IN IF s \notin DOMAIN states THEN states
     ELSE IF rest = {} THEN [x \in DOMAIN states \ {s} |-> states[x]]
     ELSE [states EXCEPT ![s].msgs = rest]

InitialisedSenderState(st) ==
  IF st.enabled THEN st
  ELSE [st EXCEPT !.enabled = TRUE, !.ceiling = MaxSrpb, !.cap = MaxSrpb,
                  !.srpb = MaxSrpb, !.gran = Granularity]

(***************************************************************************)
(* Packets.                                                                *)
(***************************************************************************)
GrantReq(m) == [kind |-> "GRANT_REQ", msg |-> m]
NoCredit == [data |-> 0, wire |-> 0]

Grant(m, data) ==
  [kind |-> "GRANT", msg |-> m, data |-> data, wire |-> AddHeader(data, TRUE)]
Bounced(g) == [g EXCEPT !.kind = "BOUNCED"]
Resend(m, range) == [kind |-> "RESEND", msg |-> m, range |-> range]

\* own: the credit the sender gave itself; a packet with some announces.
Data(m, i, own) == [kind |-> "REQUEST", msg |-> m, chunk |-> i, own |-> own]

Packet ==
  [kind : {"GRANT_REQ"}, msg : Message]
  \cup [kind : {"GRANT", "BOUNCED"}, msg : Message, data : Nat, wire : Nat]
  \cup [kind : {"RESEND"}, msg : Message, range : SUBSET Nat]
  \cup [kind : {"REQUEST"}, msg : Message, chunk : Nat, own : [data : Nat, wire : Nat]]

Sends(ps) == net' = net (+) SetToBag(ps)
InNet(p) == BagIn(p, net)
Replaces(p, ps) == net' = (net (-) SetToBag({p})) (+) SetToBag(ps)

Init ==
  /\ state = [m \in Message |-> "new"]
  /\ class = [m \in Message |-> "unknown"]
  /\ self = [m \in Message |-> NoCredit]
  /\ announced = [m \in Message |-> FALSE]
  /\ next = [m \in Message |-> 0]
  /\ receiverStates = <<>> /\ rxQp = <<>> /\ senderStates = <<>>
  /\ globalOut = 0 /\ tick = FALSE
  /\ net = EmptyBag /\ losses = 0 /\ bounces = 0

(***************************************************************************)
(* The sender.                                                             *)
(***************************************************************************)
AddQueuePair(m) ==
  LET st == GetReceiverState(m)
      ready == IF st.enabled THEN st
               ELSE [st EXCEPT !.enabled = TRUE, !.thresh = UnsolThresh]
  IN /\ state[m] = "new"
     /\ state' = [state EXCEPT ![m] = "active"]
     /\ receiverStates' = Put(receiverStates, Src[m], ready)
     /\ UNCHANGED <<class, self, announced, next, recvVars, netVars>>

\* The credit a short message gives itself: at most one budget, together with
\* the credit the sender already holds, but always a first packet.
SelfAllocation(m, st) ==
  LET size == Size[m]
      wire == AddHeader(size, FALSE)
      room == Most(Minus(MaxSrpb, st.avail), AddHeader(Least(size, MTU), TRUE))
      first == IF wire > MaxSrpb THEN RemoveHeader(MaxSrpb) ELSE size
      capped == IF (IF wire > MaxSrpb THEN AddHeader(first, TRUE) ELSE wire) > room
                THEN RemoveHeader(room) ELSE first
      data == AlignChunks(Least(capped, size), size)
  IN IF wire > st.thresh THEN NoCredit
     ELSE [data |-> data, wire |-> AddHeader(data, TRUE)]

\* The classification done before the first packet of a message.
Classify(m, st) ==
  LET own == SelfAllocation(m, st)
  IN IF class[m] # "unknown" THEN [class |-> class[m], self |-> self[m]]
     ELSE [self |-> own,
           class |-> CASE own.data = 0 -> "scheduled"
                       [] own.data = Size[m] -> "unsolicited"
                       [] OTHER -> "unscheduled"]

SendGrantReq(m, c) ==
  /\ c.class = "scheduled" /\ ~announced[m]
  /\ announced' = [announced EXCEPT ![m] = TRUE]
  /\ Sends({GrantReq(m)})
  /\ UNCHANGED next

\* Mutant: the pool is not asked whether it pays for the chunk.
SendDataMutant(m, c, avail) ==
  /\ c.class # "scheduled" \/ announced[m]
  /\ announced' = [announced EXCEPT ![m] = TRUE]
  /\ next' = [next EXCEPT ![m] = @ + 1]
  /\ Sends({Data(m, next[m], c.self)})

SendData(m, c, avail) ==
  /\ c.class # "scheduled" \/ announced[m]
  /\ Wire(m, next[m]) <= avail
  /\ announced' = [announced EXCEPT ![m] = TRUE]
  /\ next' = [next EXCEPT ![m] = @ + 1]
  /\ Sends({Data(m, next[m], c.self)})

\* The NIC serves a queue pair: its announcement, or data the pool pays for.
GetNxtPacket(m) ==
  LET st == [GetReceiverState(m) EXCEPT !.enabled = TRUE]
      c == Classify(m, st)
      avail == IF class[m] = "unknown" THEN st.avail + c.self.wire ELSE st.avail
      spent == IF c.class = "scheduled" /\ ~announced[m] THEN 0
               ELSE Wire(m, next[m])
  IN /\ state[m] = "active" /\ next[m] < Count(Size[m])
     /\ SendGrantReq(m, c) \/ SendData(m, c, avail)
     /\ class' = [class EXCEPT ![m] = c.class]
     /\ self' = [self EXCEPT ![m] = c.self]
     /\ receiverStates' =
          Put(receiverStates, Src[m], [st EXCEPT !.avail = avail - spent])
     /\ UNCHANGED <<state, recvVars, losses, bounces>>

\* A grant is credit for the pool, whatever the state of its message.
ReceiveGrant(p) ==
  LET st == GetReceiverState(p.msg)
  IN /\ receiverStates' = Put(receiverStates, Src[p.msg],
          [st EXCEPT !.enabled = TRUE, !.avail = @ + p.wire])
     /\ Replaces(p, {})
     /\ UNCHANGED <<state, class, self, announced, next, recvVars,
                    losses, bounces>>

\* Chunks that were sent before are sent again, without credit.
ReceiveResend(p) ==
  LET m == p.msg
      again == {i \in p.range : i < next[m]}
  IN /\ Replaces(p, {Data(m, i, NoCredit) : i \in again})
     /\ UNCHANGED <<sendVars, recvVars, losses, bounces>>

(***************************************************************************)
(* The receiver.  A handler works on an account: the state of the sender,  *)
(* the state of the message, and the bytes outstanding over all senders.   *)
(***************************************************************************)
\* GetRxQp and GetOrCreateSenderState: only a new rxQp initialises the state.
Open(m) ==
  LET st == GetSenderState(m)
  IN IF m \in DOMAIN rxQp THEN [st |-> st, q |-> rxQp[m], out |-> globalOut]
     ELSE [st |-> InitialisedSenderState(st), q |-> NewRxQp, out |-> globalOut]

Enable(a) == [a EXCEPT !.st.enabled = TRUE]

\* The AIMD loops move the cap of a sender within its ceiling.
UpdateSenderStateAimd(a, value) ==
  LET ceiling == IF a.st.ceiling > 0 THEN a.st.ceiling ELSE Most(1, a.st.cap)
      cap == Most(1, Least(ceiling, value))
  IN [a EXCEPT !.st.cap = cap, !.st.srpb = Least(@, cap)]

\* Mutant: the credit is not counted in the global bucket.
UncountedChargeMutant(a, data, wire) ==
  [a EXCEPT !.q.pending = Minus(@, data), !.st.pending = Minus(@, data),
            !.st.outData = @ + data, !.st.outWire = @ + wire,
            !.st.srpb = Minus(@, wire)]

\* Mutant: the message keeps the demand that now has credit.
DemandChargeMutant(a, data, wire) ==
  [a EXCEPT !.st.pending = Minus(@, data),
            !.st.outData = @ + data, !.st.outWire = @ + wire,
            !.st.srpb = Minus(@, wire), !.out = @ + wire]

\* Demand of a message gets credit, which is outstanding from now on.
Charge(a, data, wire) ==
  [a EXCEPT !.q.pending = Minus(@, data), !.st.pending = Minus(@, data),
            !.st.outData = @ + data, !.st.outWire = @ + wire,
            !.st.srpb = Minus(@, wire), !.out = @ + wire]

\* The first announcement brings the demand, less what the sender granted
\* itself.
ApplyNewAnnouncement(a, m, own) ==
  LET known == [a EXCEPT
        !.q.accounted = TRUE, !.q.timer = TRUE, !.q.chunks = {}, !.q.done = FALSE,
        !.q.pending = @ + Size[m], !.st.pending = @ + Size[m]]
  IN IF a.q.accounted THEN a
     ELSE Charge(known, Least(own.data, known.st.pending), own.wire)

\* Mutant: the budget gets payload back, not bytes on the wire.
ReclaimMutant(a, data, wire) ==
  [a EXCEPT
     !.st.outData = @ - data,
     !.st.outWire = Minus(@, wire),
     !.st.srpb = Least(@ + data, a.st.cap),
     !.out = Minus(@, wire)]

\* Credit that comes back, with data or bounced, returns to the budget.
Reclaim(a, data, wire) ==
  [a EXCEPT
     !.st.outData = @ - data,
     !.st.outWire = Minus(@, wire),
     !.st.srpb = Least(@ + wire, a.st.cap),
     !.out = Minus(@, wire)]

\* Mutant: a chunk that comes again pays back credit again.
ReceiveChunkMutant(a, m, i) ==
  LET used == Least(Payload(m, i), a.st.outData)
  IN Reclaim([a EXCEPT !.q.chunks = IF a.q.accounted THEN @ \cup {i} ELSE @],
             used, AddHeader(used, TRUE))

\* A chunk counts once; its payload pays back outstanding credit.
ReceiveChunk(a, m, i) ==
  LET used == Least(Payload(m, i), a.st.outData)
      counted == [a EXCEPT !.q.chunks = IF a.q.accounted THEN @ \cup {i} ELSE @]
  IN IF a.q.accounted /\ i \in a.q.chunks THEN a
     ELSE Reclaim(counted, used, AddHeader(used, TRUE))

Complete(q, m) == ~q.done /\ q.accounted /\ q.chunks = Chunk(m)

Demand(states) == \E s \in DOMAIN states : states[s].enabled /\ states[s].pending > 0

\* ScheduleCreditGrantTick, called or not.
Schedule(called, states) == tick' = (tick \/ (called /\ Demand(states)))

Store(a, m) ==
  /\ rxQp' = Put(rxQp, m, a.q)
  /\ senderStates' = Put(senderStates, Src[m], a.st)
  /\ globalOut' = a.out

\* The receiver finishes the queue pair of the sender by a direct call.
CompleteCreditBouncerSenderQp(m) ==
  /\ state' = [state EXCEPT ![m] = "done"]
  /\ next' = [next EXCEPT ![m] = Count(Size[m])]
  /\ receiverStates' = IF Src[m] \in DOMAIN receiverStates
                       THEN Forget(receiverStates, m) ELSE receiverStates

ReceiveGrantReq(p) ==
  LET m == p.msg
  IN \E value \in Caps :
       LET a == ApplyNewAnnouncement(
                  UpdateSenderStateAimd(Enable(Open(m)), value), m, NoCredit)
       IN /\ Store(a, m)
          /\ Schedule(a.st.pending > 0, senderStates')
          /\ Replaces(p, {})
          /\ UNCHANGED <<sendVars, losses, bounces>>

\* After the last chunk the state of the sender may be gone, and the code
\* reads its pending demand all the same: the tick may be scheduled or not.
ReceiveData(p) ==
  LET m == p.msg
      announce(a) == IF p.own = NoCredit THEN a ELSE ApplyNewAnnouncement(a, m, p.own)
  IN /\ EarlyData \/ ~InNet(GrantReq(m))
     /\ Replaces(p, {})
     /\ \E value \in Caps :
          LET a == ReceiveChunk(
                     announce(UpdateSenderStateAimd(Enable(Open(m)), value)), m, p.chunk)
              finished == [a EXCEPT !.q.done = TRUE, !.q.timer = FALSE]
              waiting == [a EXCEPT !.q.timer = a.q.accounted /\ ~a.q.done]
              states == Forget(Put(senderStates, Src[m], a.st), m)
          IN \/ /\ ~Complete(a.q, m)
                /\ Store(waiting, m)
                /\ Schedule(a.st.pending > 0, senderStates')
                /\ UNCHANGED sendVars
             \/ /\ Complete(a.q, m)
                /\ rxQp' = Put(rxQp, m, finished.q)
                /\ senderStates' = states
                /\ globalOut' = a.out
                /\ CompleteCreditBouncerSenderQp(m)
                /\ \E called \in (IF Src[m] \in DOMAIN states
                                  THEN {a.st.pending > 0} ELSE BOOLEAN) :
                     Schedule(called, states)
                /\ UNCHANGED <<class, self, announced>>
     /\ UNCHANGED <<losses, bounces>>

\* Mutant: the bounced demand is added to the sender, not to the message.
ReceiveBouncedMutant(p) ==
  LET m == p.msg
      open == Enable(Open(m))
      data == Least(p.data, open.st.outData)
      wire == Least(p.wire, open.st.outWire)
      a == [Reclaim(open, data, wire) EXCEPT
              !.st.pending = @ + data,
              !.q.timer = @ \/ (open.q.accounted /\ ~open.q.done)]
  IN /\ Replaces(p, {})
     /\ IF m \in DOMAIN rxQp
        THEN Store(a, m) /\ Schedule(a.st.pending > 0, senderStates')
        ELSE UNCHANGED recvVars
     /\ UNCHANGED <<sendVars, losses, bounces>>

\* A bounced grant becomes demand again, as far as credit is outstanding.
ReceiveBounced(p) ==
  LET m == p.msg
      open == Enable(Open(m))
      data == Least(p.data, open.st.outData)
      wire == Least(p.wire, open.st.outWire)
      a == [Reclaim(open, data, wire) EXCEPT
              !.st.pending = @ + data,
              !.q.pending = @ + data,
              !.q.timer = @ \/ (open.q.accounted /\ ~open.q.done)]
  IN /\ Replaces(p, {})
     /\ IF m \in DOMAIN rxQp
        THEN Store(a, m) /\ Schedule(a.st.pending > 0, senderStates')
        ELSE UNCHANGED recvVars
     /\ UNCHANGED <<sendVars, losses, bounces>>

\* The payload a message may be granted next.
Ask(st, q) ==
  LET unit == Most(IF st.gran > 0 THEN st.gran ELSE MTU, Least(q.pending, MTU))
  IN AlignChunks(Least(Least(q.pending, unit), st.pending), q.pending)

Grantable ==
  {m \in DOMAIN rxQp :
     /\ Src[m] \in DOMAIN senderStates
     /\ LET st == senderStates[Src[m]]
            ask == Ask(st, rxQp[m])
            wire == AddHeader(ask, TRUE)
        IN /\ st.enabled /\ st.pending > 0
           /\ m \in st.msgs /\ rxQp[m].pending > 0
           /\ st.outWire <= st.cap
           /\ ask > 0
           /\ GlobalBucket > 0 => globalOut + wire <= GlobalBucket
           /\ wire <= st.srpb}

IssueCreditGrant(m) ==
  LET a == Open(m)
      data == Ask(a.st, a.q)
  IN Store(Charge(a, data, AddHeader(data, TRUE)), m) /\ Sends({Grant(m, data)})

\* Mutant: the clock stops when nothing can be granted now.
CreditGrantTickMutant ==
  /\ tick
  /\ \/ /\ \E m \in Grantable : IssueCreditGrant(m)
        /\ tick' = Demand(senderStates')
     \/ /\ Grantable = {} /\ tick' = FALSE
        /\ UNCHANGED <<senderStates, rxQp, globalOut, net>>
  /\ UNCHANGED <<sendVars, losses, bounces>>

\* One grant per tick; the clock runs while an enabled sender has demand.
CreditGrantTick ==
  /\ tick
  /\ \/ \E m \in Grantable : IssueCreditGrant(m)
     \/ /\ Grantable = {}
        /\ UNCHANGED <<senderStates, rxQp, globalOut, net>>
  /\ tick' = Demand(senderStates')
  /\ UNCHANGED <<sendVars, losses, bounces>>

\* Mutant: the last chunk granted is left out.
MissingRangesMutant(m) ==
  LET q == rxQp[m]
      missing == 0 .. Count(Size[m] - Least(q.pending, Size[m])) - 2 \ q.chunks
  IN {r \in {(i .. j) : i \in missing, j \in missing} :
        /\ r # {} /\ r \subseteq missing
        /\ Min(r) - 1 \notin missing /\ Max(r) + 1 \notin missing}

\* The missing chunks below the granted frontier, by contiguous ranges.
MissingRanges(m) ==
  LET q == rxQp[m]
      limit == Count(Size[m] - Least(q.pending, Size[m]))
      missing == 0 .. limit - 1 \ q.chunks
  IN {r \in {(i .. j) : i \in missing, j \in missing} :
        /\ r # {} /\ r \subseteq missing
        /\ Min(r) - 1 \notin missing /\ Max(r) + 1 \notin missing}

HandleCreditBouncerResendTimeout(m) ==
  /\ m \in DOMAIN rxQp
  /\ rxQp[m].timer /\ BagCardinality(net) < MaxInFlight
  /\ LET q == rxQp[m]
         st == GetSenderState(m)
         limit == Count(Size[m] - Least(q.pending, Size[m]))
         again == st.pending > 0 \/ limit > Cardinality(q.chunks)
     IN /\ senderStates' = Put(senderStates, Src[m], st)
        /\ rxQp' = [rxQp EXCEPT ![m].timer = again]
        /\ Sends({Resend(m, r) : r \in MissingRanges(m)})
  /\ UNCHANGED <<sendVars, globalOut, tick, losses, bounces>>

(***************************************************************************)
(* The network (external).                                                 *)
(***************************************************************************)
Bounce(p) ==
  /\ p.kind = "GRANT" /\ bounces < MaxBounces
  /\ Replaces(p, {Bounced(p)})
  /\ bounces' = bounces + 1
  /\ UNCHANGED <<sendVars, recvVars, losses>>

Lose(p) ==
  /\ p.kind \in Lossy /\ losses < MaxLosses
  /\ Replaces(p, {})
  /\ losses' = losses + 1
  /\ UNCHANGED <<sendVars, recvVars, bounces>>

ReceiveCreditBouncer(p) ==
  \/ p.kind = "GRANT_REQ" /\ ReceiveGrantReq(p)
  \/ p.kind = "REQUEST" /\ ReceiveData(p)
  \/ p.kind = "GRANT" /\ ReceiveGrant(p)
  \/ p.kind = "BOUNCED" /\ ReceiveBounced(p)
  \/ p.kind = "RESEND" /\ ReceiveResend(p)

Next ==
  \/ \E m \in Message :
       \/ AddQueuePair(m)
       \/ GetNxtPacket(m)
       \/ HandleCreditBouncerResendTimeout(m)
  \/ CreditGrantTick
  \/ \E p \in DOMAIN net : ReceiveCreditBouncer(p) \/ Bounce(p) \/ Lose(p)

Spec == Init /\ [][Next]_vars

\* Packets about chunk i of a message; grants and announcements are about 0.
About(p, i) ==
  CASE p.kind = "REQUEST" -> p.chunk = i
    [] p.kind = "RESEND" -> i \in p.range
    [] OTHER -> i = 0

\* Scheduled events run, a NIC serves every queue pair (round robin) and the
\* network delivers what it neither loses nor bounces.
Fairness ==
  /\ WF_vars(CreditGrantTick)
  /\ \A m \in Message :
       /\ WF_vars(AddQueuePair(m))
       /\ WF_vars(GetNxtPacket(m))
       /\ WF_vars(HandleCreditBouncerResendTimeout(m))
       /\ \A i \in Chunk(m), kind \in {"GRANT_REQ", "REQUEST", "GRANT", "BOUNCED", "RESEND"} :
            WF_vars(\E p \in DOMAIN net : /\ p.msg = m /\ p.kind = kind /\ About(p, i)
                                          /\ ReceiveCreditBouncer(p))

FairSpec == Spec /\ Fairness

(***************************************************************************)
(* Properties.                                                             *)
(***************************************************************************)
\* Every account of RdmaHw stays a natural number: no unsigned subtraction of
\* the code wraps round, also with bounces, losses and copies.
TypeOK ==
  /\ state \in [Message -> {"new", "active", "done"}]
  /\ class \in [Message -> {"unknown", "scheduled", "unscheduled", "unsolicited"}]
  /\ self \in [Message -> [data : Nat, wire : Nat]]
  /\ announced \in [Message -> BOOLEAN]
  /\ next \in [Message -> Nat]
  /\ DOMAIN receiverStates \subseteq Sender
  /\ \A s \in DOMAIN receiverStates : receiverStates[s] \in
       [enabled : BOOLEAN, avail : Nat, thresh : Nat, msgs : SUBSET Message]
  /\ DOMAIN rxQp \subseteq Message
  /\ \A m \in DOMAIN rxQp : rxQp[m] \in
       [accounted : BOOLEAN, pending : Nat, chunks : SUBSET Nat, done : BOOLEAN,
        timer : BOOLEAN]
  /\ DOMAIN senderStates \subseteq Sender
  /\ \A s \in DOMAIN senderStates : senderStates[s] \in
       [enabled : BOOLEAN, ceiling : Nat, cap : Nat, srpb : Nat, gran : Nat,
        pending : Nat, outData : Nat, outWire : Nat, msgs : SUBSET Message]
  /\ globalOut \in Nat /\ tick \in BOOLEAN
  /\ IsABag(net) /\ \A p \in DOMAIN net : p \in Packet
  /\ losses \in Nat /\ bounces \in Nat

Messages(s) == {m \in Message : Src[m] = s}

\* rdma-hw.h:126: whether accounting has been initialized for this sender.
EnabledMeansInitialised ==
  \A s \in DOMAIN senderStates :
    senderStates[s].enabled => senderStates[s].ceiling = MaxSrpb

\* rdma-hw.h:91: whether accounting has been initialized for this receiver.
ReceiverEnabledMeansInitialised ==
  \A s \in DOMAIN receiverStates :
    receiverStates[s].enabled => receiverStates[s].thresh = UnsolThresh

\* rdma-hw.h:130: the payload still waiting for grants across all messages.
DemandIsOfItsMessages ==
  \A s \in DOMAIN senderStates :
    LET listed == senderStates[s].msgs
    IN senderStates[s].pending =
         SumFunctionOnSet([m \in listed |-> rxQp[m].pending], listed)

\* No demand is lost: a sender has all that its messages still want, also those
\* that are done, which the credit of another message paid for.
Pending(s) == IF s \in DOMAIN senderStates THEN senderStates[s].pending ELSE 0
Wanted(m) == IF m \in DOMAIN rxQp THEN rxQp[m].pending ELSE 0

DemandIsAccounted ==
  \A s \in Sender :
    Pending(s) = SumFunctionOnSet([m \in Messages(s) |-> Wanted(m)], Messages(s))

\* The grant clock never stops while there is demand it could serve.
TickServesDemand == Demand(senderStates) => tick

\* Whatever AIMD, losses and bounces do, what a sender has left of its budget
\* and what it has outstanding never fall below the smallest cap together: a
\* sender with nothing outstanding can always be granted a packet.
BudgetFloor ==
  \A s \in DOMAIN senderStates :
    LET st == senderStates[s]
    IN st.ceiling > 0 => \E c \in Caps : st.srpb + st.outWire >= c

\* What the receiver has outstanding for a sender, payload and on the wire.
OutData(s) == IF s \in DOMAIN senderStates THEN senderStates[s].outData ELSE 0
OutWire(s) == IF s \in DOMAIN senderStates THEN senderStates[s].outWire ELSE 0

\* The global bucket holds just what the senders have outstanding.
GlobalIsOutstanding ==
  globalOut = SumFunctionOnSet([s \in Sender |-> OutWire(s)], Sender)

\* Credit in the pool of a sender, and in grants on their way to it or back.
Held(s) == IF s \in DOMAIN receiverStates THEN receiverStates[s].avail ELSE 0

InFlight(s) == {p \in DOMAIN net : p.kind \in {"GRANT", "BOUNCED"} /\ Src[p.msg] = s}

Flying(s) == SumFunctionOnSet([p \in InFlight(s) |-> p.wire * net[p]], InFlight(s))

\* Credit spent on the chunks of a message that are sent and not received.
Known == {m \in DOMAIN rxQp : rxQp[m].accounted}
Got(m) == IF m \in DOMAIN rxQp THEN rxQp[m].chunks ELSE {}
First(m) == {i \in Chunk(m) : i < next[m]}
Unpaid(m) ==
  SumFunctionOnSet([i \in Chunk(m) |-> Wire(m, i)], First(m) \ Got(m))

\* Credit a sender may still use or has used for chunks not yet received.
Live(s) ==
  Held(s) + Flying(s)
    + SumFunctionOnSet([m \in Messages(s) |-> Unpaid(m)], Messages(s))

\* Credit a sender gave itself in an announcement that did not arrive yet.
Lent(m) == IF m \in Known THEN 0 ELSE self[m].wire
Unannounced(s) == SumFunctionOnSet([m \in Messages(s) |-> Lent(m)], Messages(s))

\* The receiver counts as outstanding every byte of credit that can still
\* become data.
CreditIsCounted == \A s \in Sender : Live(s) <= Unannounced(s) + OutWire(s)

\* The global bucket bounds the data that can be on its way to the receiver at
\* once, over all senders: what is more than the bucket the senders gave
\* themselves.
CreditFitsBucket ==
  GlobalBucket > 0 =>
    SumFunctionOnSet([s \in Sender |-> Live(s)], Sender)
      <= GlobalBucket + SumFunctionOnSet([m \in Message |-> self[m].wire], Message)

\* rdma-hw.h:132: the payload granted, over all messages, but not received.
Received(m) ==
  SumFunctionOnSet([i \in Chunk(m) |-> Payload(m, i)], Got(m))
Outstanding(m) ==
  IF m \in Known THEN Size[m] - rxQp[m].pending - Received(m) ELSE 0

\* Exact as long as no message spends credit another one gave itself.
OutstandingIsGrantedNotReceived ==
  \A s \in Sender :
    OutData(s) = SumFunctionOnSet([m \in Messages(s) |-> Outstanding(m)], Messages(s))

\* A sender is charged for all the payload its messages were granted and have
\* not received, whichever of them spent the credit of a grant.
GrantedIsOutstanding ==
  \A s \in Sender :
    SumFunctionOnSet([m \in Messages(s) |-> Outstanding(m)], Messages(s)) <= OutData(s)

\* Every message is received, although data is lost, grants bounce and senders
\* contend for the global bucket: the resend timer and the grant clock carry it.
Completes == \A m \in Message : <>(state[m] = "done")
=============================================================================
