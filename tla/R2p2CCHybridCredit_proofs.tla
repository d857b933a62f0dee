--------------------- MODULE R2p2CCHybridCredit_proofs ---------------------
(***************************************************************************)
(* Exactly-once delivery and the credit accounts of R2p2CCHybrid, for every *)
(* workload, budget and number of losses and bounces, when neither the      *)
(* GRANT_REQ of a message is overtaken by its data nor a packet by its own  *)
(* retransmission (Overtaken = {}); HostLateOriginal shows what happens     *)
(* otherwise.                                                              *)
(***************************************************************************)
EXTENDS R2p2CCHybrid_proofs

(***************************************************************************)
(* The messages.  What can be on its way for a message depends on how far   *)
(* its sender is and on what its receiver knows of it.                      *)
(***************************************************************************)

Idle(m) == state[m] \in {"absent", "new"}

\* Nothing of a message exists before it is submitted.
IdleClean(m) ==
  Idle(m) => /\ self[m] = 0 /\ sent[m] = 0 /\ ranges[m] = <<>> /\ ~announced[m]
             /\ passed[m] = {} /\ inbound[m] = NoState
             /\ \A p \in Packet : p.msg = m => net[p] = 0

\* A GRANT_REQ is the first the receiver hears of a scheduled message.
RequestFirst(m) ==
  /\ net[GrantReq(m)] \in {0, 1}
  /\ net[GrantReq(m)] = 1 =>
       ~Unsolicited(m) /\ ~inbound[m].known /\ passed[m] = {}
  /\ ~Unsolicited(m) => self[m] = 0

\* The original of a packet is on its way at most once, before it is handed
\* up, and only what was sent is asked for and sent again.
OriginalsFirst(m) ==
  /\ passed[m] \subseteq 1 .. sent[m]
  /\ \A i \in Index(m) :
       /\ net[Data(m, i)] \in {0, 1}
       /\ net[Data(m, i)] = 1 => i <= sent[m] /\ i \notin passed[m]
       /\ net[Again(m, i)] > 0 => i <= sent[m]
  /\ \A k \in 1 .. Len(ranges[m]) : ranges[m][k] \in 1 .. sent[m]

\* The receiver's state counts the packets handed up, in its bitmap too once
\* it knows the size; a message it does not know has handed up all or nothing.
StateCounts(m) ==
  /\ inbound[m].info => inbound[m].known
  /\ inbound[m].known /\ Unsolicited(m) => inbound[m].info
  /\ inbound[m].bitmap = IF inbound[m].info THEN passed[m] ELSE {}
  /\ inbound[m].known => inbound[m].received = Cardinality(passed[m])
  /\ ~inbound[m].known => inbound[m] = NoState /\ passed[m] \in {{}, Index(m)}

Retransmitting(m) ==
  \/ ranges[m] # <<>>
  \/ \E i \in Index(m) : net[Again(m, i)] > 0
  \/ \E i, j \in Index(m) : net[Resend(m, i, j)] > 0

\* Retransmission goes on only for a message whose size the receiver knows, or
\* that is complete.
ResendKnown(m) ==
  Retransmitting(m) => \/ inbound[m].info
                       \/ ~inbound[m].known /\ passed[m] = Index(m)

MessageOk(m) ==
  IdleClean(m) /\ RequestFirst(m) /\ OriginalsFirst(m) /\ StateCounts(m) /\ ResendKnown(m)

MessagesOk == twice = {} /\ \A m \in Msg : MessageOk(m)

(***************************************************************************)
(* The accounts.                                                           *)
(***************************************************************************)

\* Self-allocated credit the receiver has not heard of.
Unheard(m) == IF inbound[m].info \/ passed[m] # {} THEN 0 ELSE self[m]

\* What a message holds of the credit its receiver is short of.
CreditPart(m) ==
  net[GrantPkt(m)] + net[Bounced(m)] + lostCredit[m]
  + sent[m] - Cardinality(passed[m]) - Unheard(m)

Granted(m) ==
  IF inbound[m].known THEN inbound[m].granted
  ELSE IF passed[m] # {} THEN Size[m] ELSE self[m]

\* What a message holds of the grants made to it, less those grants.
GrantPart(m) ==
  net[GrantPkt(m)] + net[Bounced(m)] + lostCredit[m] + unrevoked[m] + sent[m] - Granted(m)

CreditParts == [m \in Msg |-> CreditPart(m)]
GrantParts == [m \in Msg |-> GrantPart(m)]
Shortage(r) == [s \in Host |-> MaxSrpb - srpb[r][s]]

\* The receiver's buckets and its budget are short by the same amounts, and
\* every grant is in the sender's account, spent, under way or lost.
Ledger ==
  /\ \A r, s \in Host :
       MaxSrpb - srpb[r][s] = avail[s][r] + SumFunctionOnSet(CreditParts, Between(s, r))
  /\ \A r, s \in Host :
       avail[s][r] + SumFunctionOnSet(GrantParts, Between(s, r)) = 0
  /\ \A r \in Host : MaxBudget - budget[r] = SumFunctionOnSet(Shortage(r), Host)

\* Self-allocated credit of a message of which nothing was sent.
Silent(m) == IF sent[m] = 0 THEN self[m] ELSE 0

SilentParts == [m \in Msg |-> Silent(m)]

\* Until its first packet is sent, the credit an unsolicited message allocated
\* to itself stays in the account: no other message can spend it.
SilentCovered ==
  /\ \A m \in Msg : /\ self[m] <= 1
                    /\ Silent(m) > 0 <=> state[m] = "active" /\ ~announced[m]
  /\ \A s, r \in Host :
       SumFunctionOnSet(SilentParts, Between(s, r)) <= avail[s][r]

OnePacketUnsolicited == \A m \in Msg : Unsolicited(m) => Size[m] = 1

(***************************************************************************)
(* Steps.                                                                  *)
(***************************************************************************)

\* A step that concerns message m only.
Elsewhere(m) ==
  /\ \A x \in Msg \ {m} :
       /\ state'[x] = state[x] /\ announced'[x] = announced[x] /\ self'[x] = self[x]
       /\ sent'[x] = sent[x] /\ ranges'[x] = ranges[x] /\ inbound'[x] = inbound[x]
       /\ passed'[x] = passed[x] /\ lostCredit'[x] = lostCredit[x]
       /\ unrevoked'[x] = unrevoked[x]
  /\ \A p \in Packet : p.msg # m => net'[p] = net[p]

LEMMA PacketMsg ==
  ASSUME NEW m, NEW i, NEW j
  PROVE  /\ GrantReq(m).msg = m /\ GrantPkt(m).msg = m /\ Bounced(m).msg = m
         /\ Data(m, i).msg = m /\ Again(m, i).msg = m /\ Resend(m, i, j).msg = m
  BY DEF GrantReq, GrantPkt, Bounced, Data, Again, Resend, Pkt

LEMMA PacketsApart ==
  ASSUME NEW m, NEW i, NEW j
  PROVE  /\ GrantReq(m) # GrantPkt(m) /\ GrantReq(m) # Bounced(m) /\ GrantPkt(m) # Bounced(m)
         /\ \A k : /\ Data(m, i) = Data(m, k) => i = k
                   /\ Again(m, i) = Again(m, k) => i = k
                   /\ Data(m, i) # Again(m, k) 
         /\ Data(m, i) \notin {GrantReq(m), GrantPkt(m), Bounced(m)}
         /\ Again(m, i) \notin {GrantReq(m), GrantPkt(m), Bounced(m)}
         /\ Resend(m, i, j) \notin {GrantReq(m), GrantPkt(m), Bounced(m)}
         /\ \A k : Resend(m, i, j) # Data(m, k) /\ Resend(m, i, j) # Again(m, k)
  BY DEF GrantReq, GrantPkt, Bounced, Data, Again, Resend, Pkt

LEMMA MessageElsewhere ==
  ASSUME NEW m \in Msg, Elsewhere(m), NEW x \in Msg \ {m}, MessageOk(x)
  PROVE  MessageOk(x)'
<1>1. \A p \in Packet : p.msg = x => net'[p] = net[p]
  BY DEF Elsewhere
<1>2. /\ net'[GrantReq(x)] = net[GrantReq(x)]
      /\ \A i \in Index(x) : /\ net'[Data(x, i)] = net[Data(x, i)]
                             /\ net'[Again(x, i)] = net[Again(x, i)]
      /\ \A i, j \in Index(x) : net'[Resend(x, i, j)] = net[Resend(x, i, j)]
  <2>1. net'[GrantReq(x)] = net[GrantReq(x)]
    BY <1>1, PacketKinds, PacketMsg
  <2>2. ASSUME NEW i \in Index(x)
        PROVE  net'[Data(x, i)] = net[Data(x, i)] /\ net'[Again(x, i)] = net[Again(x, i)]
    BY <1>1, PacketKinds, PacketMsg
  <2>3. ASSUME NEW i \in Index(x), NEW j \in Index(x)
        PROVE  net'[Resend(x, i, j)] = net[Resend(x, i, j)]
    BY <1>1, PacketKinds, PacketMsg
  <2>. QED  BY <2>1, <2>2, <2>3
<1>3. IdleClean(x)'
  BY <1>1 DEF MessageOk, IdleClean, Idle, Elsewhere
<1>4. RequestFirst(x)'
  BY <1>2 DEF MessageOk, RequestFirst, Unsolicited, Elsewhere
<1>5. OriginalsFirst(x)'
  BY <1>2 DEF MessageOk, OriginalsFirst, Index, Elsewhere
<1>6. StateCounts(x)'
  BY DEF MessageOk, StateCounts, Unsolicited, Index, Elsewhere
<1>7. ResendKnown(x)'
  BY <1>2 DEF MessageOk, ResendKnown, Retransmitting, Index, Elsewhere
<1>. QED  BY <1>3, <1>4, <1>5, <1>6, <1>7 DEF MessageOk

LEMMA MessageTypes ==
  ASSUME TypeOK, NEW m \in Msg
  PROVE  /\ Size[m] \in Nat \ {0} /\ Src[m] \in Host /\ Dst[m] \in Host
         /\ sent[m] \in Nat /\ sent[m] <= Size[m] /\ self[m] \in Nat
         /\ ranges[m] \in Seq(Nat) /\ inbound[m] \in MsgState /\ passed[m] \in SUBSET Nat
         /\ lostCredit[m] \in Nat /\ unrevoked[m] \in Nat
         /\ net[GrantReq(m)] \in Nat /\ net[GrantPkt(m)] \in Nat /\ net[Bounced(m)] \in Nat
  BY MessageAssumption, PacketKinds DEF TypeOK

LEMMA MessageFields ==
  ASSUME TypeOK, NEW m \in Msg
  PROVE  /\ inbound[m].known \in BOOLEAN /\ inbound[m].info \in BOOLEAN
         /\ inbound[m].granted \in Nat /\ inbound[m].received \in Nat
         /\ inbound[m].bitmap \in SUBSET Nat
  BY MessageTypes DEF MsgState

\* A message something is on its way for, or known of, has been submitted.
LEMMA NotIdle ==
  ASSUME NEW m \in Msg, TypeOK, MessageOk(m),
         \/ \E p \in Packet : p.msg = m /\ net[p] > 0
         \/ inbound[m].known \/ ranges[m] # <<>> \/ state[m] \in {"active", "retired"}
  PROVE  ~Idle(m)
<1>1. IdleClean(m)
  BY DEF MessageOk
<1>2. \A p \in Packet : net[p] \in Nat
  BY DEF TypeOK
<1>. QED  BY <1>1, <1>2 DEF IdleClean, Idle, NoState

\* A step that changes the count of packet q alone leaves the other kinds of
\* packets alone, and the other messages.
OnlyPacket(q) ==
  /\ \A p \in Packet : net[p] \in Nat /\ (p # q => net'[p] = net[p])
  /\ \A x \in Msg :
       /\ q.kind # "GRANT_REQ" => net'[GrantReq(x)] = net[GrantReq(x)]
       /\ q.kind # "GRANT" => net'[GrantPkt(x)] = net[GrantPkt(x)]
       /\ q.kind # "BOUNCED" => net'[Bounced(x)] = net[Bounced(x)]
       /\ q.kind # "DATA" => \A i \in Index(x) : net'[Data(x, i)] = net[Data(x, i)]
       /\ q.kind # "AGAIN" => \A i \in Index(x) : net'[Again(x, i)] = net[Again(x, i)]
       /\ q.kind # "RESEND" =>
            \A i, j \in Index(x) : net'[Resend(x, i, j)] = net[Resend(x, i, j)]

LEMMA PacketKind ==
  ASSUME NEW m, NEW i, NEW j
  PROVE  /\ GrantReq(m).kind = "GRANT_REQ" /\ GrantPkt(m).kind = "GRANT"
         /\ Bounced(m).kind = "BOUNCED" /\ Data(m, i).kind = "DATA"
         /\ Again(m, i).kind = "AGAIN" /\ Resend(m, i, j).kind = "RESEND"
  BY DEF GrantReq, GrantPkt, Bounced, Data, Again, Resend, Pkt

LEMMA OtherKinds ==
  ASSUME NEW q, \A p \in Packet : net[p] \in Nat /\ (p # q => net'[p] = net[p])
  PROVE  OnlyPacket(q)
<1>1. ASSUME NEW x \in Msg
      PROVE  /\ q.kind # "GRANT_REQ" => net'[GrantReq(x)] = net[GrantReq(x)]
             /\ q.kind # "GRANT" => net'[GrantPkt(x)] = net[GrantPkt(x)]
             /\ q.kind # "BOUNCED" => net'[Bounced(x)] = net[Bounced(x)]
  BY PacketKinds, PacketKind
<1>2. ASSUME NEW x \in Msg, NEW i \in Index(x)
      PROVE  /\ q.kind # "DATA" => net'[Data(x, i)] = net[Data(x, i)]
             /\ q.kind # "AGAIN" => net'[Again(x, i)] = net[Again(x, i)]
  BY PacketKinds, PacketKind
<1>3. ASSUME NEW x \in Msg, NEW i \in Index(x), NEW j \in Index(x), q.kind # "RESEND"
      PROVE  net'[Resend(x, i, j)] = net[Resend(x, i, j)]
  BY <1>3, PacketKinds, PacketKind
<1>. QED  BY <1>1, <1>2, <1>3 DEF OnlyPacket

LEMMA NetJoin ==
  ASSUME TypeOK, NEW q, net' = NetAfter({}, {q})
  PROVE  OnlyPacket(q) /\ (q \in Packet => net'[q] = net[q] + 1)
<1>1. net \in [Packet -> Nat]
  BY DEF TypeOK
<1>2. ASSUME NEW p \in Packet
      PROVE  /\ net[p] \in Nat /\ (p # q => net'[p] = net[p])
             /\ p = q => net'[p] = net[p] + 1
  <2>1. net'[p] = net[p] - (IF p \in {} THEN 1 ELSE 0) + (IF p \in {q} THEN 1 ELSE 0)
    BY <1>1, NetAfterAt
  <2>. QED  BY <1>1, <2>1
<1>. QED  BY <1>2, OtherKinds

LEMMA NetLeave ==
  ASSUME TypeOK, NEW q, net' = NetAfter({q}, {})
  PROVE  OnlyPacket(q) /\ (q \in Packet => net'[q] = net[q] - 1)
<1>1. net \in [Packet -> Nat]
  BY DEF TypeOK
<1>2. ASSUME NEW p \in Packet
      PROVE  /\ net[p] \in Nat /\ (p # q => net'[p] = net[p])
             /\ p = q => net'[p] = net[p] - 1
  <2>1. net'[p] = net[p] - (IF p \in {q} THEN 1 ELSE 0) + (IF p \in {} THEN 1 ELSE 0)
    BY <1>1, NetAfterAt
  <2>. QED  BY <1>1, <2>1
<1>. QED  BY <1>2, OtherKinds

LEMMA PacketElsewhere ==
  ASSUME NEW q, OnlyPacket(q), NEW p \in Packet, p.msg # q.msg
  PROVE  net'[p] = net[p]
  BY DEF OnlyPacket

(***************************************************************************)
(* One lemma per action: what it does to its message, and nothing else.     *)
(***************************************************************************)

LEMMA OkActivateUnsolicited ==
  ASSUME TypeOK, MessagesOk, NEW m \in Msg, ActivateUnsolicited(m)
  PROVE  Elsewhere(m) /\ MessageOk(m)'
<1>1. PICK credit : self' = [self EXCEPT ![m] = credit]
  BY DEF ActivateUnsolicited
<1>2. /\ state[m] = "new" /\ Unsolicited(m)
      /\ state' = [state EXCEPT ![m] = "active"]
      /\ UNCHANGED <<announced, sent, ranges, pending, receiverVars, net, networkVars>>
  BY DEF ActivateUnsolicited
<1>3. Elsewhere(m)
  BY <1>1, <1>2 DEF TypeOK, Elsewhere, receiverVars, networkVars
<1>4. state'[m] = "active"
  BY <1>2 DEF TypeOK
<1>5. MessageOk(m)
  BY DEF MessagesOk
<1>6. MessageOk(m)'
  <2>1. UNCHANGED <<sent, ranges, inbound, passed, net>>
    BY <1>2 DEF receiverVars
  <2>2. IdleClean(m)'
    BY <1>4 DEF IdleClean, Idle
  <2>3. RequestFirst(m)'
    BY <1>2, <1>5, <2>1 DEF MessageOk, RequestFirst, Unsolicited
  <2>4. OriginalsFirst(m)' /\ StateCounts(m)' /\ ResendKnown(m)'
    BY <1>5, <2>1 DEF MessageOk, OriginalsFirst, StateCounts, ResendKnown, Retransmitting,
       Unsolicited, Index
  <2>. QED  BY <2>2, <2>3, <2>4 DEF MessageOk
<1>. QED  BY <1>3, <1>6

LEMMA OkActivateScheduled ==
  ASSUME TypeOK, MessagesOk, NEW m \in Msg, ActivateScheduled(m)
  PROVE  Elsewhere(m) /\ MessageOk(m)'
<1>1. /\ state[m] = "new" /\ ~Unsolicited(m)
      /\ state' = [state EXCEPT ![m] = "active"]
      /\ announced' = [announced EXCEPT ![m] = TRUE]
      /\ net' = NetAfter({}, {GrantReq(m)})
      /\ UNCHANGED <<self, sent, ranges, pending, avail, receiverVars, networkVars>>
  BY DEF ActivateScheduled
<1>0. /\ GrantReq(m).msg = m /\ GrantReq(m).kind = "GRANT_REQ" /\ OnlyPacket(GrantReq(m))
      /\ net'[GrantReq(m)] = net[GrantReq(m)] + 1
  BY <1>1, NetJoin, PacketKinds, PacketKind, PacketMsg
<1>2. Elsewhere(m)
  BY <1>0, <1>1, PacketElsewhere DEF TypeOK, Elsewhere, receiverVars, networkVars
<1>3. /\ self[m] = 0 /\ sent[m] = 0 /\ ranges[m] = <<>> /\ passed[m] = {}
      /\ inbound[m] = NoState /\ \A p \in Packet : p.msg = m => net[p] = 0
  BY <1>1 DEF MessagesOk, MessageOk, IdleClean, Idle
<1>4. /\ net'[GrantReq(m)] = 1
      /\ \A i \in Index(m) : net'[Data(m, i)] = 0 /\ net'[Again(m, i)] = 0
      /\ \A i, j \in Index(m) : net'[Resend(m, i, j)] = 0
  <2>1. /\ net[GrantReq(m)] = 0
        /\ \A i \in Index(m) : net[Data(m, i)] = 0 /\ net[Again(m, i)] = 0
        /\ \A i, j \in Index(m) : net[Resend(m, i, j)] = 0
    BY <1>3, PacketKinds, PacketMsg
  <2>. QED  BY <1>0, <2>1 DEF OnlyPacket
<1>5. state'[m] = "active"
  BY <1>1 DEF TypeOK
<1>6. /\ self'[m] = 0 /\ sent'[m] = 0 /\ ranges'[m] = <<>> /\ passed'[m] = {}
      /\ inbound'[m] = NoState
  BY <1>1, <1>3 DEF receiverVars
<1>7. MessageOk(m)'
  <2>1. IdleClean(m)' /\ RequestFirst(m)'
    BY <1>1, <1>4, <1>5, <1>6 DEF IdleClean, Idle, RequestFirst, Unsolicited, NoState
  <2>2. OriginalsFirst(m)'
    BY <1>4, <1>6 DEF OriginalsFirst, Index
  <2>3. StateCounts(m)'
    BY <1>1, <1>6 DEF StateCounts, Unsolicited, NoState
  <2>4. ResendKnown(m)'
    BY <1>4, <1>6 DEF ResendKnown, Retransmitting, Index
  <2>. QED  BY <2>1, <2>2, <2>3, <2>4 DEF MessageOk
<1>. QED  BY <1>2, <1>7

\* The packet that send_data sends is the first beyond the frontier: it is not
\* on its way yet and was not handed up.
LEMMA OkSendData ==
  ASSUME TypeOK, MessagesOk, NEW s \in Host, NEW r \in Host, SendData(s, r),
         NEW m \in Choice(s, r),
         sent' = [sent EXCEPT ![m] = @ + 1],
         announced' = [announced EXCEPT ![m] = TRUE],
         net' = NetAfter({}, {Data(m, sent[m] + 1)})
  PROVE  Elsewhere(m) /\ MessageOk(m)'
<1> DEFINE i == sent[m] + 1
           q == Data(m, i)
<1>1. m \in Msg /\ state[m] = "active" /\ i \in Index(m) /\ sent[m] \in Nat
  <2>1. m \in Msg /\ state[m] = "active" /\ Size[m] - sent[m] > 0
    BY ChoiceSendable
  <2>. QED  BY <2>1, MessageTypes DEF Index
<1>2. MessageOk(m)
  BY <1>1 DEF MessagesOk
<1>3. q \in Packet /\ q.msg = m /\ q.kind = "DATA"
  BY <1>1, PacketKinds, PacketKind, PacketMsg
<1>4. OnlyPacket(q) /\ net'[q] = net[q] + 1
  BY <1>3, NetJoin
<1>5. UNCHANGED <<state, self, ranges, inbound, passed, lostCredit, unrevoked>>
  BY DEF SendData, receiverVars, networkVars
<1>6. Elsewhere(m)
  BY <1>1, <1>3, <1>4, <1>5, PacketElsewhere DEF TypeOK, Elsewhere
<1>7. net[q] = 0
  BY <1>1, <1>2 DEF MessageOk, OriginalsFirst
<1>8. ASSUME NEW k \in Index(m), k # i
      PROVE  net'[Data(m, k)] = net[Data(m, k)]
  <2>1. Data(m, k) \in Packet /\ Data(m, k) # q
    BY <1>1, <1>8, PacketKinds, PacketsApart
  <2>. QED  BY <1>4, <2>1 DEF OnlyPacket
<1>9. \A k \in Index(m) : net'[Again(m, k)] = net[Again(m, k)]
  BY <1>1, <1>3, <1>4 DEF OnlyPacket
<1>10. sent'[m] = sent[m] + 1
  BY <1>1 DEF TypeOK
<1>11. IdleClean(m)'
  BY <1>1, <1>5 DEF IdleClean, Idle
<1>12. RequestFirst(m)'
  <2>1. net'[GrantReq(m)] = net[GrantReq(m)]
    BY <1>1, <1>3, <1>4 DEF OnlyPacket
  <2>. QED  BY <1>2, <1>5, <2>1 DEF MessageOk, RequestFirst, Unsolicited
<1>13. OriginalsFirst(m)'
  <2>1. passed[m] \subseteq 1 .. sent[m] /\ \A k \in 1 .. Len(ranges[m]) : ranges[m][k] \in 1 .. sent[m]
    BY <1>2 DEF MessageOk, OriginalsFirst
  <2>2. passed'[m] \subseteq 1 .. sent'[m]
        /\ \A k \in 1 .. Len(ranges'[m]) : ranges'[m][k] \in 1 .. sent'[m]
    BY <1>1, <1>5, <1>10, <2>1
  <2>3. ASSUME NEW k \in Index(m)
        PROVE  /\ net'[Data(m, k)] \in {0, 1}
               /\ net'[Data(m, k)] = 1 => k <= sent'[m] /\ k \notin passed'[m]
               /\ net'[Again(m, k)] > 0 => k <= sent'[m]
    <3>1. k \in Nat /\ sent[m] \in Nat /\ (net[Again(m, k)] > 0 => k <= sent[m])
      BY <1>1, <1>2, MessageTypes DEF MessageOk, OriginalsFirst, Index
    <3>2. net'[Again(m, k)] > 0 => k <= sent'[m]
      BY <1>9, <1>10, <3>1
    <3>3. CASE k = i
      <4>1. i \notin passed[m] /\ net'[Data(m, k)] = 1
        BY <1>1, <1>4, <1>7, <2>1, <3>3
      <4>. QED  BY <1>1, <1>5, <1>10, <3>2, <3>3, <4>1
    <3>4. CASE k # i
      <4>1. /\ net[Data(m, k)] \in {0, 1}
            /\ net[Data(m, k)] = 1 => k <= sent[m] /\ k \notin passed[m]
        BY <1>2 DEF MessageOk, OriginalsFirst
      <4>2. net'[Data(m, k)] = net[Data(m, k)] /\ passed'[m] = passed[m]
        BY <1>5, <1>8, <3>4
      <4>3. k <= sent[m] => k <= sent'[m]
        BY <1>10, <3>1
      <4>. QED  BY <3>2, <4>1, <4>2, <4>3
    <3>. QED  BY <3>3, <3>4
  <2>. QED  BY <2>2, <2>3 DEF OriginalsFirst, Index
<1>14. StateCounts(m)'
  BY <1>2, <1>5 DEF MessageOk, StateCounts, Unsolicited, Index
<1>15. ResendKnown(m)'
  <2>1. \A k, l \in Index(m) : net'[Resend(m, k, l)] = net[Resend(m, k, l)]
    BY <1>1, <1>3, <1>4 DEF OnlyPacket
  <2>. QED  BY <1>2, <1>5, <1>9, <2>1 DEF MessageOk, ResendKnown, Retransmitting, Index
<1>. QED  BY <1>6, <1>11, <1>12, <1>13, <1>14, <1>15 DEF MessageOk

LEMMA OkSendOneRetransmission ==
  ASSUME TypeOK, RetransmissionQueue, MessagesOk, NEW s \in Host, SendOneRetransmission(s)
  PROVE  \E m \in Msg : /\ Elsewhere(m) /\ MessageOk(m)'
                        /\ UNCHANGED <<sent, self, passed, inbound, avail, srpb, budget,
                                       lostCredit, unrevoked>>
                        /\ \A x \in Msg : /\ net'[GrantPkt(x)] = net[GrantPkt(x)]
                                          /\ net'[Bounced(x)] = net[Bounced(x)]
<1>0. PICK m, i : m = Head(pending[s]) /\ i = Head(ranges[m])
  OBVIOUS
<1> DEFINE q == Again(m, i)
<1>1. m \in Msg /\ ranges[m] # <<>>
  <2>1. /\ pending[s] \in Seq(Msg) /\ pending[s] # <<>>
        /\ m \in Msg /\ m = pending[s][1] /\ 1 \in 1 .. Len(pending[s])
    BY <1>0, SMTT(30) DEF SendOneRetransmission, TypeOK
  <2>. QED  BY <2>1 DEF RetransmissionQueue
<1>2. /\ net' = NetAfter({}, {q}) /\ ranges' = [ranges EXCEPT ![m] = Tail(@)]
      /\ UNCHANGED <<state, announced, self, sent, avail, receiverVars, networkVars>>
  BY <1>0 DEF SendOneRetransmission
<1>3. MessageOk(m)
  BY <1>1 DEF MessagesOk
<1>4. /\ ranges[m] \in Seq(Nat) /\ sent[m] \in Nat /\ sent[m] <= Size[m] /\ Size[m] \in Nat
      /\ i = ranges[m][1] /\ 1 \in 1 .. Len(ranges[m])
  <2>1. ranges[m] \in Seq(Nat) /\ sent[m] \in Nat /\ sent[m] <= Size[m] /\ Size[m] \in Nat
    BY <1>1, MessageTypes
  <2>. QED  BY <1>0, <1>1, <2>1
<1>5. i \in 1 .. sent[m] /\ i \in Index(m)
  BY <1>3, <1>4 DEF MessageOk, OriginalsFirst, Index
<1>6. q \in Packet /\ q.msg = m /\ q.kind = "AGAIN"
  BY <1>1, <1>5, PacketKinds, PacketKind, PacketMsg
<1>7. OnlyPacket(q) /\ net'[q] = net[q] + 1
  BY <1>2, <1>6, NetJoin
<1>8. UNCHANGED <<state, announced, self, sent, inbound, passed, lostCredit, unrevoked>>
  BY <1>2 DEF receiverVars, networkVars
<1>9. Elsewhere(m)
  BY <1>1, <1>2, <1>6, <1>7, <1>8, PacketElsewhere DEF TypeOK, Elsewhere
<1>10. ranges'[m] = Tail(ranges[m])
  BY <1>1, <1>2 DEF TypeOK
<1>11. ~Idle(m)
  BY <1>1, <1>3, NotIdle
<1>12. IdleClean(m)'
  BY <1>8, <1>11 DEF IdleClean, Idle
<1>13. RequestFirst(m)'
  <2>1. net'[GrantReq(m)] = net[GrantReq(m)]
    BY <1>1, <1>6, <1>7 DEF OnlyPacket
  <2>. QED  BY <1>3, <1>8, <2>1 DEF MessageOk, RequestFirst, Unsolicited
<1>14. OriginalsFirst(m)'
  <2>1. \A k \in 1 .. Len(Tail(ranges[m])) : Tail(ranges[m])[k] \in 1 .. sent[m]
    BY <1>1, <1>3, <1>4 DEF MessageOk, OriginalsFirst
  <2>2. \A k \in Index(m) : net'[Data(m, k)] = net[Data(m, k)]
    BY <1>1, <1>6, <1>7 DEF OnlyPacket
  <2>3. ASSUME NEW k \in Index(m), net'[Again(m, k)] > 0 PROVE k <= sent[m]
    <3>1. CASE k = i
      BY <1>4, <1>5, <3>1
    <3>2. CASE k # i
      <4>1. net'[Again(m, k)] = net[Again(m, k)]
        BY <1>1, <1>7, <3>2, PacketKinds, PacketsApart DEF OnlyPacket
      <4>. QED  BY <1>3, <2>3, <4>1 DEF MessageOk, OriginalsFirst
    <3>. QED  BY <3>1, <3>2
  <2>. QED  BY <1>3, <1>8, <1>10, <2>1, <2>2, <2>3 DEF MessageOk, OriginalsFirst, Index
<1>15. StateCounts(m)'
  BY <1>3, <1>8 DEF MessageOk, StateCounts, Unsolicited, Index
<1>16. ResendKnown(m)'
  BY <1>1, <1>3, <1>8 DEF MessageOk, ResendKnown, Retransmitting, Index
<1>17. \A x \in Msg : /\ net'[GrantPkt(x)] = net[GrantPkt(x)]
                      /\ net'[Bounced(x)] = net[Bounced(x)]
  BY <1>6, <1>7 DEF OnlyPacket
<1>18. MessageOk(m)'
  BY <1>12, <1>13, <1>14, <1>15, <1>16 DEF MessageOk
<1>. QED  BY <1>1, <1>2, <1>8, <1>9, <1>17, <1>18 DEF receiverVars

\* A step that brings no packet of a message but grants, and leaves what the
\* receiver counts alone.
Quiet(m) ==
  /\ ~Idle(m)'
  /\ self'[m] = self[m] /\ sent'[m] = sent[m] /\ passed'[m] = passed[m]
  /\ ranges'[m] = ranges[m]
  /\ inbound'[m].known = inbound[m].known /\ inbound'[m].info = inbound[m].info
  /\ inbound'[m].received = inbound[m].received /\ inbound'[m].bitmap = inbound[m].bitmap
  /\ ~inbound[m].known => inbound'[m] = inbound[m]
  /\ net'[GrantReq(m)] <= net[GrantReq(m)]
  /\ \A i \in Index(m) : /\ net'[Data(m, i)] <= net[Data(m, i)]
                         /\ net'[Again(m, i)] <= net[Again(m, i)]
  /\ \A i, j \in Index(m) : net'[Resend(m, i, j)] <= net[Resend(m, i, j)]

LEMMA NetTypes ==
  ASSUME TypeOK, NEW m \in Msg
  PROVE  /\ net[GrantReq(m)] \in Nat /\ net[GrantPkt(m)] \in Nat /\ net[Bounced(m)] \in Nat
         /\ \A i \in Index(m) : net[Data(m, i)] \in Nat /\ net[Again(m, i)] \in Nat
         /\ \A i, j \in Index(m) : net[Resend(m, i, j)] \in Nat
  BY PacketKinds DEF TypeOK

LEMMA NetTypesNext ==
  ASSUME TypeOK', NEW m \in Msg
  PROVE  /\ net'[GrantReq(m)] \in Nat /\ net'[GrantPkt(m)] \in Nat /\ net'[Bounced(m)] \in Nat
         /\ \A i \in Index(m) : net'[Data(m, i)] \in Nat /\ net'[Again(m, i)] \in Nat
         /\ \A i, j \in Index(m) : net'[Resend(m, i, j)] \in Nat
  BY PacketKinds DEF TypeOK

LEMMA OkQuiet ==
  ASSUME TypeOK, TypeOK', NEW m \in Msg, MessageOk(m), Quiet(m)
  PROVE  MessageOk(m)'
<1>1. IdleClean(m)'
  BY DEF Quiet, IdleClean, Idle
<1>2. RequestFirst(m)'
  <2>1. net[GrantReq(m)] \in Nat /\ net'[GrantReq(m)] \in Nat
    BY NetTypes, NetTypesNext
  <2>. QED  BY <2>1 DEF Quiet, MessageOk, RequestFirst, Unsolicited
<1>3. OriginalsFirst(m)'
  <2>1. ASSUME NEW i \in Index(m)
        PROVE  /\ net'[Data(m, i)] \in {0, 1}
               /\ net'[Data(m, i)] = 1 => i <= sent[m] /\ i \notin passed[m]
               /\ net'[Again(m, i)] > 0 => i <= sent[m]
    <3>1. /\ net[Data(m, i)] \in Nat /\ net'[Data(m, i)] \in Nat
          /\ net[Again(m, i)] \in Nat /\ net'[Again(m, i)] \in Nat
      BY NetTypes, NetTypesNext
    <3>. QED  BY <3>1 DEF Quiet, MessageOk, OriginalsFirst
  <2>. QED  BY <2>1 DEF Quiet, MessageOk, OriginalsFirst, Index
<1>4. StateCounts(m)'
  BY DEF Quiet, MessageOk, StateCounts, Unsolicited, Index
<1>5. ResendKnown(m)'
  <2>1. Retransmitting(m)' => Retransmitting(m)
    <3>1. \A i \in Index(m) : net'[Again(m, i)] > 0 => net[Again(m, i)] > 0
      BY NetTypes, NetTypesNext DEF Quiet
    <3>2. \A i, j \in Index(m) : net'[Resend(m, i, j)] > 0 => net[Resend(m, i, j)] > 0
      BY NetTypes, NetTypesNext DEF Quiet
    <3>. QED  BY <3>1, <3>2 DEF Quiet, Retransmitting, Index
  <2>. QED  BY <2>1 DEF Quiet, MessageOk, ResendKnown, Index
<1>. QED  BY <1>1, <1>2, <1>3, <1>4, <1>5 DEF MessageOk

\* One packet fewer, and nothing else of the message.
LEMMA NetFewer ==
  ASSUME TypeOK, NEW m \in Msg, NEW q, OnlyPacket(q), q \in Packet => net'[q] = net[q] - 1
  PROVE  /\ net'[GrantReq(m)] <= net[GrantReq(m)]
         /\ \A i \in Index(m) : /\ net'[Data(m, i)] <= net[Data(m, i)]
                                /\ net'[Again(m, i)] <= net[Again(m, i)]
         /\ \A i, j \in Index(m) : net'[Resend(m, i, j)] <= net[Resend(m, i, j)]
<1>1. \A p \in Packet : net'[p] <= net[p]
  BY DEF OnlyPacket
<1>. QED  BY <1>1, PacketKinds

LEMMA OkReceiveGrant ==
  ASSUME TypeOK, TypeOK', MessagesOk, NEW m \in Msg, ReceiveGrant(m)
  PROVE  Elsewhere(m) /\ MessageOk(m)'
<1> DEFINE q == GrantPkt(m)
<1>1. /\ net[q] > 0 /\ net' = NetAfter({q}, {})
      /\ UNCHANGED <<state, announced, self, sent, ranges, inbound, passed, lostCredit, unrevoked>>
  BY DEF ReceiveGrant, networkVars
<1>2. q \in Packet /\ q.msg = m /\ q.kind = "GRANT"
  BY PacketKinds, PacketKind, PacketMsg
<1>3. OnlyPacket(q) /\ net'[q] = net[q] - 1
  BY <1>1, <1>2, NetLeave
<1>4. Elsewhere(m)
  BY <1>1, <1>2, <1>3, PacketElsewhere DEF Elsewhere
<1>5. MessageOk(m) /\ ~Idle(m)
  BY <1>1, <1>2, NotIdle DEF MessagesOk
<1>6. Quiet(m)
  BY <1>1, <1>3, <1>5, NetFewer DEF Quiet, Idle
<1>. QED  BY <1>4, <1>5, <1>6, OkQuiet

LEMMA OkLose ==
  ASSUME TypeOK, TypeOK', MessagesOk, NEW p \in Packet, Lose(p)
  PROVE  Elsewhere(p.msg) /\ \A m \in Msg : m = p.msg => MessageOk(m)'
<1>1. PICK m \in Msg : m = p.msg
  BY PacketForm
<1>2. /\ net[p] > 0 /\ net' = NetAfter({p}, {})
      /\ UNCHANGED <<state, announced, self, sent, ranges, inbound, passed, unrevoked>>
      /\ \/ lostCredit' = [lostCredit EXCEPT ![m] = @ + 1]
         \/ lostCredit' = lostCredit
  BY <1>1 DEF Lose, senderVars, receiverVars
<1>3. OnlyPacket(p) /\ net'[p] = net[p] - 1
  BY <1>2, NetLeave
<1>4. Elsewhere(m)
  BY <1>1, <1>2, <1>3, PacketElsewhere DEF TypeOK, Elsewhere
<1>5. MessageOk(m) /\ ~Idle(m)
  BY <1>1, <1>2, NotIdle DEF MessagesOk
<1>6. Quiet(m)
  BY <1>2, <1>3, <1>5, NetFewer DEF Quiet, Idle
<1>. QED  BY <1>1, <1>4, <1>5, <1>6, OkQuiet

LEMMA OkBounce ==
  ASSUME TypeOK, TypeOK', MessagesOk, NEW m \in Msg, Bounce(m)
  PROVE  /\ Elsewhere(m) /\ MessageOk(m)'
         /\ net'[GrantPkt(m)] = net[GrantPkt(m)] - 1 /\ net'[Bounced(m)] = net[Bounced(m)] + 1
<1>1. /\ net[GrantPkt(m)] > 0 /\ net' = NetAfter({GrantPkt(m)}, {Bounced(m)})
      /\ UNCHANGED <<state, announced, self, sent, ranges, inbound, passed, lostCredit, unrevoked>>
  BY DEF Bounce, senderVars, receiverVars
<1>2. ASSUME NEW p \in Packet
      PROVE  /\ net[p] \in Nat
             /\ p \notin {GrantPkt(m), Bounced(m)} => net'[p] = net[p]
             /\ p = GrantPkt(m) => net'[p] = net[p] - 1
             /\ p = Bounced(m) => net'[p] = net[p] + 1
  <2>1. net \in [Packet -> Nat]
    BY DEF TypeOK
  <2>2. net'[p] = net[p] - (IF p \in {GrantPkt(m)} THEN 1 ELSE 0)
                         + (IF p \in {Bounced(m)} THEN 1 ELSE 0)
    BY <1>1, <2>1, NetAfterAt
  <2>3. GrantPkt(m) # Bounced(m)
    BY PacketsApart
  <2>. QED  BY <2>1, <2>2, <2>3
<1>3. Elsewhere(m)
  BY <1>1, <1>2, PacketMsg DEF Elsewhere
<1>4. MessageOk(m) /\ ~Idle(m)
  BY <1>1, NotIdle, PacketKinds, PacketMsg DEF MessagesOk
<1>5. /\ net'[GrantReq(m)] = net[GrantReq(m)] /\ net[GrantReq(m)] \in Nat
      /\ \A i \in Index(m) : net'[Data(m, i)] = net[Data(m, i)] /\ net[Data(m, i)] \in Nat
      /\ \A i \in Index(m) : net'[Again(m, i)] = net[Again(m, i)] /\ net[Again(m, i)] \in Nat
  BY <1>2, PacketKinds, PacketKind
<1>6. \A i, j \in Index(m) : net'[Resend(m, i, j)] = net[Resend(m, i, j)]
                             /\ net[Resend(m, i, j)] \in Nat
  BY <1>2, PacketKinds, PacketKind
<1>7. Quiet(m)
  BY <1>1, <1>4, <1>5, <1>6, SMTT(30) DEF Quiet, Idle
<1>. QED  BY <1>2, <1>3, <1>4, <1>7, OkQuiet, PacketKinds

LEMMA OkCleanupFinished ==
  ASSUME TypeOK, TypeOK', MessagesOk, NEW m \in Msg, CleanupFinished(m)
  PROVE  Elsewhere(m) /\ MessageOk(m)'
<1>1. /\ state' = [state EXCEPT ![m] = "retired"]
      /\ UNCHANGED <<announced, self, sent, ranges, inbound, passed, net, lostCredit, unrevoked>>
  BY DEF CleanupFinished, receiverVars, networkVars
<1>2. Elsewhere(m) /\ ~Idle(m)'
  BY <1>1 DEF TypeOK, Elsewhere, Idle
<1>3. Quiet(m)
  BY <1>1, <1>2, NetTypes DEF Quiet
<1>. QED  BY <1>2, <1>3, OkQuiet DEF MessagesOk

LEMMA WholeMessage ==
  ASSUME NEW m \in Msg, NEW S \in SUBSET Index(m)
  PROVE  /\ IsFiniteSet(S) /\ Cardinality(S) \in Nat /\ Cardinality(S) <= Size[m]
         /\ Cardinality(S) = Size[m] => S = Index(m)
<1>1. Size[m] \in Nat \ {0}
  BY MessageAssumption
<1>2. IsFiniteSet(Index(m)) /\ Cardinality(Index(m)) = Size[m]
  BY <1>1, FS_Interval, SMTT(30) DEF Index
<1>. QED  BY <1>2, FS_Subset, FS_CardinalityType

LEMMA OnePacketMore ==
  ASSUME NEW m \in Msg, NEW S \in SUBSET Index(m), NEW i, i \notin S
  PROVE  Cardinality(S \cup {i}) = Cardinality(S) + 1
<1>1. IsFiniteSet(S)
  BY WholeMessage
<1>. QED  BY <1>1, FS_AddElement

LEMMA PassedInMessage ==
  ASSUME TypeOK, NEW m \in Msg, MessageOk(m)
  PROVE  passed[m] \in SUBSET Index(m)
  BY MessageTypes DEF MessageOk, OriginalsFirst, Index

LEMMA OkReceiveRequest ==
  ASSUME TypeOK, TypeOK', MessagesOk, NEW m \in Msg, ReceiveRequest(m)
  PROVE  /\ Elsewhere(m) /\ MessageOk(m)'
         /\ ~inbound[m].known /\ passed[m] = {} /\ inbound[m] = NoState /\ self[m] = 0
         /\ inbound'[m] = [NoState EXCEPT !.known = TRUE, !.info = TRUE]
<1> DEFINE q == GrantReq(m)
<1>1. /\ net[q] > 0 /\ net' = NetAfter({q}, {})
      /\ inbound' = [inbound EXCEPT ![m].known = TRUE, ![m].info = TRUE]
      /\ UNCHANGED <<state, announced, self, sent, ranges, passed, lostCredit, unrevoked>>
  BY DEF ReceiveRequest, senderVars, networkVars
<1>2. q \in Packet /\ q.msg = m /\ q.kind = "GRANT_REQ"
  BY PacketKinds, PacketKind, PacketMsg
<1>3. OnlyPacket(q) /\ net'[q] = net[q] - 1
  BY <1>1, <1>2, NetLeave
<1>4. Elsewhere(m)
  BY <1>1, <1>2, <1>3, PacketElsewhere DEF TypeOK, Elsewhere
<1>5. MessageOk(m) /\ ~Idle(m)
  BY <1>1, <1>2, NotIdle DEF MessagesOk
<1>6. net[q] = 1 /\ net'[q] = 0
  BY <1>1, <1>3, <1>5 DEF MessageOk, RequestFirst
<1>7. ~inbound[m].known /\ passed[m] = {} /\ inbound[m] = NoState /\ ~Unsolicited(m) /\ self[m] = 0
  BY <1>5, <1>6 DEF MessageOk, RequestFirst, StateCounts
<1>8. inbound'[m] = [NoState EXCEPT !.known = TRUE, !.info = TRUE]
  BY <1>1, <1>7 DEF TypeOK
<1>9. /\ \A i \in Index(m) : /\ net'[Data(m, i)] = net[Data(m, i)]
                             /\ net'[Again(m, i)] = net[Again(m, i)]
      /\ \A i, j \in Index(m) : net'[Resend(m, i, j)] = net[Resend(m, i, j)]
  BY <1>2, <1>3 DEF OnlyPacket
<1>10. MessageOk(m)'
  <2>1. IdleClean(m)'
    BY <1>1, <1>5 DEF IdleClean, Idle
  <2>2. RequestFirst(m)'
    BY <1>1, <1>6, <1>7 DEF RequestFirst, Unsolicited
  <2>3. OriginalsFirst(m)'
    BY <1>1, <1>5, <1>9 DEF MessageOk, OriginalsFirst, Index
  <2>4. StateCounts(m)'
    <3>1. /\ inbound'[m].known /\ inbound'[m].info
          /\ inbound'[m].received = 0 /\ inbound'[m].bitmap = {}
      BY <1>8 DEF NoState
    <3>2. passed'[m] = {} /\ Cardinality(passed'[m]) = 0
      BY <1>1, <1>7, FS_EmptySet
    <3>. QED  BY <3>1, <3>2 DEF StateCounts
  <2>5. ResendKnown(m)'
    BY <1>8 DEF ResendKnown, NoState
  <2>. QED  BY <2>1, <2>2, <2>3, <2>4, <2>5 DEF MessageOk
<1>. QED  BY <1>4, <1>7, <1>8, <1>10

LEMMA OkReceiveBounced ==
  ASSUME TypeOK, TypeOK', MessagesOk, NEW m \in Msg, ReceiveBounced(m),
         NEW revoke,
         revoke = IF inbound[m].known /\ inbound[m].granted > inbound[m].received
                  THEN 1 ELSE 0
  PROVE  Elsewhere(m) /\ MessageOk(m)' /\ inbound'[m] = [inbound[m] EXCEPT !.granted = @ - revoke]
<1> DEFINE q == Bounced(m)
<1>1. /\ net[q] > 0 /\ net' = NetAfter({q}, {})
      /\ inbound' = [inbound EXCEPT ![m].granted = @ - revoke]
      /\ unrevoked' = [unrevoked EXCEPT ![m] = @ + 1 - revoke]
      /\ UNCHANGED <<state, announced, self, sent, ranges, passed, lostCredit>>
  BY DEF ReceiveBounced, senderVars, networkVars
<1>2. q \in Packet /\ q.msg = m /\ q.kind = "BOUNCED"
  BY PacketKinds, PacketKind, PacketMsg
<1>3. OnlyPacket(q) /\ net'[q] = net[q] - 1
  BY <1>1, <1>2, NetLeave
<1>4. Elsewhere(m)
  BY <1>1, <1>2, <1>3, PacketElsewhere DEF TypeOK, Elsewhere
<1>5. MessageOk(m) /\ ~Idle(m)
  BY <1>1, <1>2, NotIdle DEF MessagesOk
<1>6. inbound'[m] = [inbound[m] EXCEPT !.granted = @ - revoke] /\ inbound[m] \in MsgState
  BY <1>1 DEF TypeOK
<1>7. ~inbound[m].known => inbound'[m] = inbound[m]
  <2> SUFFICES ASSUME ~inbound[m].known PROVE inbound'[m] = inbound[m]
    OBVIOUS
  <2>1. inbound[m] = NoState /\ revoke = 0
    BY <1>5 DEF MessageOk, StateCounts
  <2>. QED  BY <1>6, <2>1 DEF NoState
<1>8. /\ inbound'[m].known = inbound[m].known /\ inbound'[m].info = inbound[m].info
      /\ inbound'[m].received = inbound[m].received /\ inbound'[m].bitmap = inbound[m].bitmap
  BY <1>6 DEF MsgState
<1>9. Quiet(m)
  BY <1>1, <1>3, <1>5, <1>7, <1>8, NetFewer DEF Quiet, Idle
<1>. QED  BY <1>4, <1>5, <1>6, <1>9, OkQuiet

LEMMA OkSendCredit ==
  ASSUME TypeOK, TypeOK', MessagesOk, NEW m \in Msg, SendCredit(m)
  PROVE  /\ Elsewhere(m) /\ MessageOk(m)' /\ inbound[m].known
         /\ inbound'[m] = [inbound[m] EXCEPT !.granted = @ + 1]
<1> DEFINE q == GrantPkt(m)
<1>1. /\ net' = NetAfter({}, {q}) /\ inbound[m].info
      /\ inbound' = [inbound EXCEPT ![m].granted = @ + 1]
      /\ UNCHANGED <<state, announced, self, sent, ranges, passed, lostCredit, unrevoked>>
  BY DEF SendCredit, senderVars, networkVars
<1>2. q \in Packet /\ q.msg = m /\ q.kind = "GRANT"
  BY PacketKinds, PacketKind, PacketMsg
<1>3. OnlyPacket(q)
  BY <1>1, NetJoin
<1>4. Elsewhere(m)
  BY <1>1, <1>2, <1>3, PacketElsewhere DEF TypeOK, Elsewhere
<1>5. MessageOk(m) /\ inbound[m].known
  BY <1>1 DEF MessagesOk, MessageOk, StateCounts
<1>6. ~Idle(m)
  BY <1>5, NotIdle
<1>7. inbound'[m] = [inbound[m] EXCEPT !.granted = @ + 1] /\ inbound[m] \in MsgState
  BY <1>1 DEF TypeOK
<1>8. /\ inbound'[m].known = inbound[m].known /\ inbound'[m].info = inbound[m].info
      /\ inbound'[m].received = inbound[m].received /\ inbound'[m].bitmap = inbound[m].bitmap
  BY <1>7 DEF MsgState
<1>9. /\ net'[GrantReq(m)] <= net[GrantReq(m)]
      /\ \A i \in Index(m) : /\ net'[Data(m, i)] <= net[Data(m, i)]
                             /\ net'[Again(m, i)] <= net[Again(m, i)]
      /\ \A i, j \in Index(m) : net'[Resend(m, i, j)] <= net[Resend(m, i, j)]
  BY <1>2, <1>3, NetTypes DEF OnlyPacket
<1>10. Quiet(m)
  BY <1>1, <1>5, <1>6, <1>8, <1>9 DEF Quiet, Idle
<1>. QED  BY <1>4, <1>5, <1>7, <1>10, OkQuiet

\* A message whose state is dropped is complete.
LEMMA FinishedWhole ==
  ASSUME NEW m \in Msg, NEW S \in SUBSET Index(m), NEW st, Finished(m, st),
         st.received = Cardinality(S)
  PROVE  S = Index(m) /\ S # {}
<1>1. S = Index(m)
  BY WholeMessage DEF Finished
<1>2. 1 \in Index(m)
  BY MessageAssumption DEF Index
<1>. QED  BY <1>1, <1>2

LEMMA OkRemoveGranted ==
  ASSUME TypeOK, TypeOK', MessagesOk, NEW m \in Msg, RemoveGranted(m)
  PROVE  /\ Elsewhere(m) /\ MessageOk(m)' /\ inbound'[m] = NoState
         /\ inbound[m].known /\ passed[m] # {} /\ inbound[m].granted = Size[m]
<1>1. /\ Finished(m, inbound[m]) /\ inbound' = [inbound EXCEPT ![m] = NoState]
      /\ UNCHANGED <<state, announced, self, sent, ranges, passed, net, lostCredit, unrevoked>>
  BY DEF RemoveGranted, senderVars, networkVars
<1>2. Elsewhere(m) /\ inbound'[m] = NoState
  BY <1>1 DEF TypeOK, Elsewhere
<1>3. MessageOk(m) /\ inbound[m].info /\ inbound[m].known /\ inbound[m].granted = Size[m]
  BY <1>1 DEF MessagesOk, MessageOk, StateCounts, Finished
<1>4. passed[m] = Index(m) /\ passed[m] # {}
  BY <1>1, <1>3, FinishedWhole, PassedInMessage DEF MessageOk, StateCounts
<1>5. ~Idle(m)
  BY <1>3, NotIdle
<1>6. IdleClean(m)' /\ OriginalsFirst(m)'
  BY <1>1, <1>3, <1>5 DEF IdleClean, Idle, MessageOk, OriginalsFirst, Index
<1>7. RequestFirst(m)'
  BY <1>1, <1>3 DEF MessageOk, RequestFirst, Unsolicited
<1>8. StateCounts(m)' /\ ResendKnown(m)'
  <2>1. ~inbound'[m].known /\ ~inbound'[m].info /\ inbound'[m].bitmap = {}
    BY <1>2 DEF NoState
  <2>2. passed'[m] = Index(m)
    BY <1>1, <1>4
  <2>. QED  BY <1>2, <2>1, <2>2 DEF StateCounts, ResendKnown, Index
<1>. QED  BY <1>2, <1>3, <1>4, <1>6, <1>7, <1>8 DEF MessageOk

LEMMA OkCheckResendTimeouts ==
  ASSUME TypeOK, TypeOK', MessagesOk, NEW m \in Msg, CheckResendTimeouts(m)
  PROVE  /\ Elsewhere(m) /\ MessageOk(m)'
         /\ net'[GrantPkt(m)] = net[GrantPkt(m)] /\ net'[Bounced(m)] = net[Bounced(m)]
<1>1. PICK new : /\ net' = NetAfter({}, new)
                 /\ \A p \in new : \E i, j : p = Resend(m, i, j) /\ i <= j
  BY TypeCheckResendTimeouts
<1>2. /\ inbound[m].info
      /\ UNCHANGED <<state, announced, self, sent, ranges, inbound, passed, lostCredit, unrevoked>>
  BY DEF CheckResendTimeouts, senderVars, receiverVars, networkVars
<1>3. ASSUME NEW p \in Packet, p \notin new
      PROVE  net'[p] = net[p]
  <2>1. net \in [Packet -> Nat]
    BY DEF TypeOK
  <2>2. net'[p] = net[p] - (IF p \in {} THEN 1 ELSE 0) + (IF p \in new THEN 1 ELSE 0)
    BY <1>1, <2>1, NetAfterAt
  <2>. QED  BY <1>3, <2>1, <2>2
<1>4. \A p \in new : p.msg = m /\ p.kind = "RESEND"
  BY <1>1, PacketMsg, PacketKind
<1>5. Elsewhere(m)
  BY <1>2, <1>3, <1>4 DEF Elsewhere
<1>6. /\ net'[GrantReq(m)] = net[GrantReq(m)] /\ net'[GrantPkt(m)] = net[GrantPkt(m)]
      /\ net'[Bounced(m)] = net[Bounced(m)]
  BY <1>3, <1>4, PacketKinds, PacketKind
<1>7. \A i \in Index(m) : /\ net'[Data(m, i)] = net[Data(m, i)]
                          /\ net'[Again(m, i)] = net[Again(m, i)]
  BY <1>3, <1>4, PacketKinds, PacketKind
<1>8. MessageOk(m) /\ inbound[m].known
  BY <1>2 DEF MessagesOk, MessageOk, StateCounts
<1>9. IdleClean(m)'
  BY <1>2, <1>8, NotIdle DEF IdleClean, Idle
<1>10. RequestFirst(m)' /\ OriginalsFirst(m)'
  BY <1>2, <1>6, <1>7, <1>8 DEF MessageOk, RequestFirst, Unsolicited, OriginalsFirst, Index
<1>11. StateCounts(m)' /\ ResendKnown(m)'
  BY <1>2, <1>8 DEF MessageOk, StateCounts, Unsolicited, Index, ResendKnown
<1>. QED  BY <1>5, <1>6, <1>9, <1>10, <1>11 DEF MessageOk

LEMMA OkHandleResend ==
  ASSUME TypeOK, TypeOK', RetransmissionQueue, MessagesOk, NEW p \in Packet, HandleResend(p)
  PROVE  \E m \in Msg : /\ Elsewhere(m) /\ MessageOk(m)'
                        /\ net'[GrantPkt(m)] = net[GrantPkt(m)]
                        /\ net'[Bounced(m)] = net[Bounced(m)]
<1>1. PICK m \in Msg : m = p.msg
  BY PacketForm
<1> DEFINE upto == Min({p.last, sent[m]})
           again == [i \in 1 .. upto - p.first + 1 |-> p.first + i - 1]
           queue == state[m] = "active" /\ p.first <= sent[m]
<1>2. /\ p.kind = "RESEND" /\ net[p] > 0 /\ net' = NetAfter({p}, {})
      /\ ranges' = IF queue THEN [ranges EXCEPT ![m] = @ \o again] ELSE ranges
      /\ UNCHANGED <<state, announced, self, sent, inbound, passed, lostCredit, unrevoked>>
  BY <1>1 DEF HandleResend, networkVars
<1>3. OnlyPacket(p) /\ net'[p] = net[p] - 1
  BY <1>2, NetLeave
<1>4. queue => again \in Seq(Nat) /\ \A k \in 1 .. Len(again) : again[k] \in 1 .. sent[m]
  BY <1>1, <1>2, ResendRange
<1>. HIDE DEF again, queue
<1>5. Elsewhere(m)
  BY <1>1, <1>2, <1>3, PacketElsewhere DEF TypeOK, Elsewhere
<1>6. MessageOk(m) /\ ~Idle(m)
  BY <1>1, <1>2, NotIdle DEF MessagesOk
<1>7. Retransmitting(m)
  <2>1. PICK i \in Index(m), j \in Index(m) : p = Resend(m, i, j)
    BY <1>1, <1>2, PacketForm, PacketKind
  <2>. QED  BY <1>2, <2>1 DEF Retransmitting
<1>8. /\ net'[GrantReq(m)] = net[GrantReq(m)] /\ net'[GrantPkt(m)] = net[GrantPkt(m)]
      /\ net'[Bounced(m)] = net[Bounced(m)]
      /\ \A i \in Index(m) : /\ net'[Data(m, i)] = net[Data(m, i)]
                             /\ net'[Again(m, i)] = net[Again(m, i)]
  BY <1>2, <1>3 DEF OnlyPacket
<1>9. \A k \in 1 .. Len(ranges'[m]) : ranges'[m][k] \in 1 .. sent[m]
  <2>1. /\ ranges[m] \in Seq(Nat)
        /\ \A k \in 1 .. Len(ranges[m]) : ranges[m][k] \in 1 .. sent[m]
    BY <1>6, MessageTypes DEF MessageOk, OriginalsFirst
  <2>2. CASE queue
    <3>1. ranges'[m] = ranges[m] \o again /\ again \in Seq(Nat)
      BY <1>2, <1>4, <2>2 DEF TypeOK
    <3>2. \A k \in 1 .. Len(again) : again[k] \in 1 .. sent[m]
      BY <1>4, <2>2
    <3>3. ASSUME NEW k \in 1 .. Len(ranges'[m]) PROVE ranges'[m][k] \in 1 .. sent[m]
      <4>1. CASE k <= Len(ranges[m])
        BY <2>1, <3>1, <3>3, <4>1
      <4>2. CASE k > Len(ranges[m])
        <5>1. /\ k - Len(ranges[m]) \in 1 .. Len(again)
              /\ ranges'[m][k] = again[k - Len(ranges[m])]
          BY <2>1, <3>1, <3>3, <4>2
        <5>. QED  BY <3>2, <5>1
      <4>. QED  BY <2>1, <4>1, <4>2
    <3>. QED  BY <3>3
  <2>3. CASE ~queue
    BY <1>2, <2>1, <2>3
  <2>. QED  BY <2>2, <2>3
<1>10. IdleClean(m)'
  BY <1>2, <1>6 DEF IdleClean, Idle
<1>11. RequestFirst(m)'
  BY <1>2, <1>6, <1>8 DEF MessageOk, RequestFirst, Unsolicited
<1>12. OriginalsFirst(m)'
  <2>1. /\ passed'[m] = passed[m] /\ sent'[m] = sent[m]
    BY <1>2
  <2>. QED  BY <1>6, <1>8, <1>9, <2>1 DEF MessageOk, OriginalsFirst, Index
<1>13. StateCounts(m)' /\ ResendKnown(m)'
  BY <1>2, <1>6, <1>7 DEF MessageOk, StateCounts, Unsolicited, Index, ResendKnown
<1>. QED  BY <1>5, <1>8, <1>10, <1>11, <1>12, <1>13 DEF MessageOk

\* received_data hands packet i up: the state it is called with, the credit it
\* debits and what becomes of both.
HandsUp(m, i) ==
  /\ i \notin passed[m]
  /\ passed' = [passed EXCEPT ![m] = @ \cup {i}]
  /\ Granted(m)' = Granted(m)
  /\ budget' = [budget EXCEPT ![Dst[m]] = @ - Unheard(m) + 1]
  /\ srpb' = [srpb EXCEPT ![Dst[m]][Src[m]] = @ - Unheard(m) + 1]

LEMMA OkReceivedData ==
  ASSUME TypeOK, TypeOK', NEW m \in Msg, MessageOk(m), ~Idle(m),
         NEW i \in Index(m), i <= sent[m], i \notin passed[m],
         NEW st \in MsgState, st.known, Unsolicited(m) => st.info,
         inbound[m].info => st.info, inbound[m].known \/ passed[m] = {},
         st.bitmap = IF st.info THEN passed[m] ELSE {},
         st.received = Cardinality(passed[m]), st.granted = Granted(m),
         ReceivedData(m, i, st, Unheard(m)),
         UNCHANGED <<state, self, sent, ranges>>,
         net[GrantReq(m)] = 0, net'[Data(m, i)] = 0,
         net'[GrantReq(m)] <= net[GrantReq(m)],
         \A k \in Index(m) : /\ net'[Data(m, k)] <= net[Data(m, k)]
                             /\ net'[Again(m, k)] <= net[Again(m, k)],
         \A k, l \in Index(m) : net'[Resend(m, k, l)] <= net[Resend(m, k, l)]
  PROVE  /\ MessageOk(m)' /\ HandsUp(m, i) /\ twice' = twice
         /\ \A x \in Msg \ {m} : inbound'[x] = inbound[x]
<1> DEFINE after == [st EXCEPT !.received = @ + 1,
                               !.bitmap = IF st.info THEN @ \cup {i} ELSE @]
<1>1. i \notin st.bitmap
  OBVIOUS
<1>2. /\ inbound' = [inbound EXCEPT ![m] = IF Finished(m, after) THEN NoState ELSE after]
      /\ budget' = [budget EXCEPT ![Dst[m]] = @ - Unheard(m) + 1]
      /\ srpb' = [srpb EXCEPT ![Dst[m]][Src[m]] = @ - Unheard(m) + 1]
      /\ passed' = [passed EXCEPT ![m] = @ \cup {i}]
      /\ twice' = twice
  BY <1>1 DEF ReceivedData
<1>3. /\ after.known = st.known /\ after.info = st.info /\ after.granted = st.granted
      /\ after.received = st.received + 1
      /\ after.bitmap = IF st.info THEN st.bitmap \cup {i} ELSE st.bitmap
  BY DEF MsgState
<1>. HIDE DEF after
<1>4. /\ inbound'[m] = (IF Finished(m, after) THEN NoState ELSE after)
      /\ passed'[m] = passed[m] \cup {i}
      /\ \A x \in Msg \ {m} : inbound'[x] = inbound[x]
  BY <1>2 DEF TypeOK
<1>5. /\ passed'[m] \in SUBSET Index(m) /\ passed'[m] # {}
      /\ Cardinality(passed'[m]) = Cardinality(passed[m]) + 1
  <2>1. passed[m] \in SUBSET Index(m)
    BY PassedInMessage
  <2>3. Cardinality(passed[m] \cup {i}) = Cardinality(passed[m]) + 1
    BY <2>1, OnePacketMore
  <2>4. passed[m] \cup {i} \in SUBSET Index(m)
    BY <2>1
  <2>. QED  BY <1>4, <2>3, <2>4
<1>6. after.received = Cardinality(passed'[m])
  BY <1>3, <1>5
<1>7. ASSUME Finished(m, after)
      PROVE  StateCounts(m)' /\ ResendKnown(m)' /\ Granted(m)' = Granted(m)
  <2>1. passed'[m] = Index(m)
    BY <1>5, <1>6, <1>7, FinishedWhole
  <2>2. inbound'[m] = NoState /\ st.granted = Size[m]
    BY <1>3, <1>4, <1>7 DEF Finished
  <2>3. ~inbound'[m].known /\ ~inbound'[m].info /\ inbound'[m].bitmap = {}
    BY <2>2 DEF NoState
  <2>4. StateCounts(m)' /\ ResendKnown(m)'
    BY <2>1, <2>2, <2>3 DEF StateCounts, ResendKnown, Index
  <2>5. Granted(m)' = Granted(m)
    BY <1>5, <2>2, <2>3 DEF Granted
  <2>. QED  BY <2>4, <2>5
<1>8. ASSUME ~Finished(m, after)
      PROVE  StateCounts(m)' /\ ResendKnown(m)' /\ Granted(m)' = Granted(m)
  <2>1. inbound'[m] = after
    BY <1>4, <1>8
  <2>2. StateCounts(m)'
    BY <1>3, <1>4, <1>6, <2>1 DEF StateCounts, Unsolicited
  <2>3. Retransmitting(m)' => Retransmitting(m)
    <3>1. \A k \in Index(m) : net'[Again(m, k)] > 0 => net[Again(m, k)] > 0
      BY NetTypes, NetTypesNext
    <3>2. \A k, l \in Index(m) : net'[Resend(m, k, l)] > 0 => net[Resend(m, k, l)] > 0
      BY NetTypes, NetTypesNext
    <3>. QED  BY <3>1, <3>2 DEF Retransmitting, Index
  <2>4. ResendKnown(m)'
    <3>1. Retransmitting(m) => inbound[m].info
      BY DEF MessageOk, ResendKnown
    <3>. QED  BY <1>3, <2>1, <2>3, <3>1 DEF ResendKnown
  <2>5. Granted(m)' = Granted(m)
    BY <1>3, <2>1 DEF Granted
  <2>. QED  BY <2>2, <2>4, <2>5
<1>9. IdleClean(m)'
  BY DEF IdleClean, Idle
<1>10. RequestFirst(m)'
  <2>1. net'[GrantReq(m)] = 0
    BY NetTypesNext
  <2>. QED  BY <2>1 DEF MessageOk, RequestFirst, Unsolicited
<1>11. OriginalsFirst(m)'
  <2>1. passed'[m] \subseteq 1 .. sent'[m]
    <3>1. i \in 1 .. sent[m]
      BY MessageTypes DEF Index
    <3>. QED  BY <1>4, <3>1 DEF MessageOk, OriginalsFirst
  <2>2. ASSUME NEW k \in Index(m)
        PROVE  /\ net'[Data(m, k)] \in {0, 1}
               /\ net'[Data(m, k)] = 1 => k <= sent[m] /\ k \notin passed'[m]
               /\ net'[Again(m, k)] > 0 => k <= sent[m]
    <3>1. /\ net[Data(m, k)] \in Nat /\ net'[Data(m, k)] \in Nat
          /\ net[Again(m, k)] \in Nat /\ net'[Again(m, k)] \in Nat
          /\ net'[Data(m, k)] <= net[Data(m, k)] /\ net'[Again(m, k)] <= net[Again(m, k)]
      BY NetTypes, NetTypesNext
    <3>2. /\ net[Data(m, k)] \in {0, 1}
          /\ net[Data(m, k)] = 1 => k <= sent[m] /\ k \notin passed[m]
          /\ net[Again(m, k)] > 0 => k <= sent[m]
      BY DEF MessageOk, OriginalsFirst
    <3>3. net'[Data(m, k)] = 1 => k # i /\ net[Data(m, k)] = 1
      BY <3>1, <3>2
    <3>. QED  BY <1>4, <3>1, <3>2, <3>3
  <2>3. \A k \in 1 .. Len(ranges[m]) : ranges[m][k] \in 1 .. sent[m]
    BY DEF MessageOk, OriginalsFirst
  <2>. QED  BY <2>1, <2>2, <2>3 DEF OriginalsFirst, Index
<1>12. StateCounts(m)' /\ ResendKnown(m)' /\ Granted(m)' = Granted(m)
  BY <1>7, <1>8
<1>. QED  BY <1>2, <1>4, <1>9, <1>10, <1>11, <1>12 DEF MessageOk, HandsUp

LEMMA OkReceiveData ==
  ASSUME TypeOK, TypeOK', Overtaken = {}, MessagesOk, NEW m \in Msg, NEW i \in Index(m),
         ReceiveData(m, i)
  PROVE  /\ Elsewhere(m) /\ MessageOk(m)' /\ HandsUp(m, i) /\ twice' = twice
         /\ net'[GrantPkt(m)] = net[GrantPkt(m)] /\ net'[Bounced(m)] = net[Bounced(m)]
<1> DEFINE q == Data(m, i)
           st0 == [inbound[m] EXCEPT !.known = TRUE]
           fresh == Unsolicited(m) /\ ~st0.info
           st == IF fresh THEN [st0 EXCEPT !.info = TRUE, !.granted = self[m]] ELSE st0
           debit == IF fresh THEN self[m] ELSE 0
<1>1. /\ net[q] > 0 /\ net[GrantReq(m)] = 0 /\ net' = NetAfter({q}, {})
      /\ ReceivedData(m, i, st, debit)
      /\ UNCHANGED <<state, announced, self, sent, ranges, lostCredit, unrevoked>>
  <2>1. IF fresh THEN ReceivedData(m, i, [st0 EXCEPT !.info = TRUE, !.granted = self[m]], self[m])
                 ELSE ReceivedData(m, i, st0, 0)
    BY DEF ReceiveData
  <2>2. ReceivedData(m, i, st, debit)
    BY <2>1
  <2>. QED  BY <2>2 DEF ReceiveData, senderVars, networkVars
<1>2. q \in Packet /\ q.msg = m /\ q.kind = "DATA"
  BY PacketKinds, PacketKind, PacketMsg
<1>3. OnlyPacket(q) /\ net'[q] = net[q] - 1
  BY <1>1, <1>2, NetLeave
<1>4. MessageOk(m) /\ ~Idle(m)
  BY <1>1, <1>2, NotIdle DEF MessagesOk
<1>5. net[q] = 1 /\ net'[q] = 0 /\ i <= sent[m] /\ i \notin passed[m]
  BY <1>1, <1>3, <1>4 DEF MessageOk, OriginalsFirst
<1>6. inbound[m] \in MsgState /\ self[m] \in Nat
  BY MessageTypes
<1>7. /\ st \in MsgState /\ st.known /\ (Unsolicited(m) => st.info)
      /\ (inbound[m].info => st.info)
      /\ st.bitmap = IF st.info THEN passed[m] ELSE {}
      /\ st.received = Cardinality(passed[m]) /\ st.granted = Granted(m)
      /\ debit = Unheard(m) /\ (inbound[m].known \/ passed[m] = {})
  <2>1. CASE inbound[m].known
    <3>1. st0 = inbound[m]
      BY <1>6, <2>1 DEF MsgState
    <3>2. ~fresh /\ st = inbound[m] /\ debit = 0
      BY <1>4, <2>1, <3>1 DEF MessageOk, StateCounts
    <3>3. debit = Unheard(m)
      BY <1>4, <2>1, <3>2 DEF Unheard, MessageOk, StateCounts, RequestFirst
    <3>. HIDE DEF st0, fresh, st, debit
    <3>. QED  BY <1>4, <1>6, <2>1, <3>2, <3>3 DEF MessageOk, StateCounts, Granted
  <2>2. CASE ~inbound[m].known
    <3>1. inbound[m] = NoState /\ passed[m] = {}
      BY <1>4, <1>5, <2>2 DEF MessageOk, StateCounts
    <3>2. Cardinality(passed[m]) = 0
      BY <3>1, FS_EmptySet
    <3>3. /\ st0 \in MsgState /\ st0.known /\ ~st0.info /\ st0.granted = 0
          /\ st0.received = 0 /\ st0.bitmap = {}
      <4>1. /\ ~inbound[m].info /\ inbound[m].granted = 0 /\ inbound[m].received = 0
            /\ inbound[m].bitmap = {}
        BY <3>1 DEF NoState
      <4>2. /\ st0 \in MsgState /\ st0.known /\ st0.info = inbound[m].info
            /\ st0.granted = inbound[m].granted /\ st0.received = inbound[m].received
            /\ st0.bitmap = inbound[m].bitmap
        BY <1>6 DEF MsgState
      <4>. HIDE DEF st0
      <4>. QED  BY <4>1, <4>2
    <3>. HIDE DEF st0
    <3>4. Granted(m) = self[m] /\ Unheard(m) = self[m]
      BY <3>1 DEF Granted, Unheard, NoState
    <3>5. CASE Unsolicited(m)
      <4>1. st = [st0 EXCEPT !.info = TRUE, !.granted = self[m]] /\ debit = self[m]
        BY <3>3, <3>5
      <4>. HIDE DEF st, debit
      <4>2. /\ st \in MsgState /\ st.known /\ st.info /\ st.granted = self[m]
            /\ st.received = 0 /\ st.bitmap = {}
        BY <1>6, <3>3, <4>1 DEF MsgState
      <4>. QED  BY <3>1, <3>2, <3>4, <4>1, <4>2
    <3>6. CASE ~Unsolicited(m)
      <4>1. self[m] = 0 /\ st = st0 /\ debit = 0
        BY <1>4, <3>3, <3>6 DEF MessageOk, RequestFirst
      <4>. HIDE DEF st, debit
      <4>2. ~inbound[m].info
        BY <3>1 DEF NoState
      <4>. QED  BY <3>1, <3>2, <3>3, <3>4, <3>6, <4>1, <4>2
    <3>. QED  BY <3>5, <3>6
  <2>. QED  BY <2>1, <2>2
<1>. HIDE DEF st, debit, st0, fresh
<1>8. /\ MessageOk(m)' /\ HandsUp(m, i) /\ twice' = twice
      /\ \A x \in Msg \ {m} : inbound'[x] = inbound[x]
  BY <1>1, <1>3, <1>4, <1>5, <1>7, NetFewer, OkReceivedData
<1>9. Elsewhere(m)
  <2>1. \A x \in Msg \ {m} : passed'[x] = passed[x]
    BY <1>8 DEF HandsUp, TypeOK
  <2>. QED  BY <1>1, <1>2, <1>3, <1>8, <2>1, PacketElsewhere DEF Elsewhere
<1>. QED  BY <1>2, <1>3, <1>8, <1>9 DEF OnlyPacket

LEMMA OkReceiveAgain ==
  ASSUME TypeOK, TypeOK', Overtaken = {}, MessagesOk, NEW m \in Msg, NEW i \in Index(m),
         ReceiveAgain(m, i)
  PROVE  /\ Elsewhere(m) /\ MessageOk(m)' /\ twice' = twice
         /\ HandsUp(m, i) \/ UNCHANGED <<inbound, budget, srpb, passed>>
         /\ net'[GrantPkt(m)] = net[GrantPkt(m)] /\ net'[Bounced(m)] = net[Bounced(m)]
<1> DEFINE q == Again(m, i)
<1>1. /\ net[q] > 0 /\ net[Data(m, i)] = 0 /\ net' = NetAfter({q}, {})
      /\ IF inbound[m].known THEN ReceivedData(m, i, inbound[m], 0)
         ELSE UNCHANGED <<inbound, budget, srpb, passed, twice>>
      /\ UNCHANGED <<state, announced, self, sent, ranges, lostCredit, unrevoked>>
  BY DEF ReceiveAgain, senderVars, networkVars
<1>2. q \in Packet /\ q.msg = m /\ q.kind = "AGAIN"
  BY PacketKinds, PacketKind, PacketMsg
<1>3. OnlyPacket(q) /\ net'[q] = net[q] - 1
  BY <1>1, <1>2, NetLeave
<1>4. MessageOk(m) /\ ~Idle(m)
  BY <1>1, <1>2, NotIdle DEF MessagesOk
<1>5. i <= sent[m] /\ Retransmitting(m)
  BY <1>1, <1>4 DEF MessageOk, OriginalsFirst, Retransmitting
<1>6. net'[GrantPkt(m)] = net[GrantPkt(m)] /\ net'[Bounced(m)] = net[Bounced(m)]
  BY <1>2, <1>3 DEF OnlyPacket
<1>7. inbound[m] \in MsgState
  BY MessageTypes
<1>8. CASE inbound[m].known /\ i \notin inbound[m].bitmap
  <2>1. inbound[m].info /\ inbound[m].bitmap = passed[m] /\ i \notin passed[m]
    BY <1>4, <1>5, <1>8 DEF MessageOk, ResendKnown, StateCounts
  <2>2. Unheard(m) = 0 /\ Granted(m) = inbound[m].granted
    BY <1>8, <2>1 DEF Unheard, Granted
  <2>3. net[GrantReq(m)] = 0 /\ net'[Data(m, i)] = 0
    BY <1>1, <1>2, <1>3, <1>4, <1>8 DEF MessageOk, RequestFirst, OnlyPacket
  <2>4. inbound[m].received = Cardinality(passed[m])
    BY <1>4, <1>8 DEF MessageOk, StateCounts
  <2>5. ReceivedData(m, i, inbound[m], Unheard(m))
    BY <1>1, <1>8, <2>2
  <2>6. /\ MessageOk(m)' /\ HandsUp(m, i) /\ twice' = twice
        /\ \A x \in Msg \ {m} : inbound'[x] = inbound[x]
    BY <1>1, <1>3, <1>4, <1>5, <1>7, <1>8, <2>1, <2>2, <2>3, <2>4, <2>5, NetFewer, OkReceivedData
  <2>7. Elsewhere(m)
    <3>1. \A x \in Msg \ {m} : passed'[x] = passed[x]
      BY <2>6 DEF HandsUp, TypeOK
    <3>. QED  BY <1>1, <1>2, <1>3, <2>6, <3>1, PacketElsewhere DEF Elsewhere
  <2>. QED  BY <1>6, <2>6, <2>7
<1>9. CASE ~inbound[m].known \/ i \in inbound[m].bitmap
  <2>1. UNCHANGED <<inbound, budget, srpb, passed, twice>>
    <3>1. CASE ~inbound[m].known
      BY <1>1, <3>1
    <3>2. CASE inbound[m].known
      <4>1. inbound' = [inbound EXCEPT ![m] = inbound[m]]
            /\ UNCHANGED <<budget, srpb, passed, twice>>
        BY <1>1, <1>9, <3>2 DEF ReceivedData
      <4>. QED  BY <4>1 DEF TypeOK
    <3>. QED  BY <3>1, <3>2
  <2>2. Elsewhere(m)
    BY <1>1, <1>2, <1>3, <2>1, PacketElsewhere DEF Elsewhere
  <2>3. Quiet(m)
    BY <1>1, <1>3, <1>4, <2>1, NetFewer DEF Quiet, Idle
  <2>. QED  BY <1>4, <1>6, <2>1, <2>2, <2>3, OkQuiet
<1>. QED  BY <1>8, <1>9

LEMMA MessagesInit ==
  ASSUME Init
  PROVE  MessagesOk
<1>1. ASSUME NEW m \in Msg PROVE MessageOk(m)
  <2>1. /\ self[m] = 0 /\ sent[m] = 0 /\ ranges[m] = <<>> /\ ~announced[m]
        /\ passed[m] = {} /\ inbound[m] = NoState
        /\ \A p \in Packet : net[p] = 0
    BY DEF Init
  <2>2. IdleClean(m)
    BY <2>1 DEF IdleClean
  <2>3. /\ net[GrantReq(m)] = 0
        /\ \A i \in Index(m) : net[Data(m, i)] = 0 /\ net[Again(m, i)] = 0
        /\ \A i, j \in Index(m) : net[Resend(m, i, j)] = 0
    BY <2>1, PacketKinds
  <2>4. RequestFirst(m)
    BY <2>1, <2>3 DEF RequestFirst
  <2>5. OriginalsFirst(m)
    BY <2>1, <2>3 DEF OriginalsFirst
  <2>6. StateCounts(m)
    BY <2>1 DEF StateCounts, NoState
  <2>7. ResendKnown(m)
    BY <2>1, <2>3 DEF ResendKnown, Retransmitting
  <2>. QED  BY <2>2, <2>4, <2>5, <2>6, <2>7 DEF MessageOk
<1>2. twice = {}
  BY DEF Init
<1>. QED  BY <1>1, <1>2 DEF MessagesOk

\* Every step but a delivery leaves the history of deliveries alone.
LEMMA MessagesStep ==
  ASSUME MessagesOk, twice' = twice, NEW m \in Msg, Elsewhere(m), MessageOk(m)'
  PROVE  MessagesOk'
<1>1. ASSUME NEW x \in Msg PROVE MessageOk(x)'
  <2>1. CASE x = m
    BY <2>1
  <2>2. CASE x # m
    BY <2>2, MessageElsewhere DEF MessagesOk
  <2>. QED  BY <2>1, <2>2
<1>. QED  BY <1>1 DEF MessagesOk

LEMMA MessagesNext ==
  ASSUME TypeOK, TypeOK', RetransmissionQueue, Overtaken = {}, MessagesOk, [Next]_vars
  PROVE  MessagesOk'
<1>1. ASSUME NEW m \in Msg, ActivateUnsolicited(m) PROVE MessagesOk'
  BY <1>1, OkActivateUnsolicited, MessagesStep DEF ActivateUnsolicited, receiverVars
<1>2. ASSUME NEW m \in Msg, ActivateScheduled(m) PROVE MessagesOk'
  BY <1>2, OkActivateScheduled, MessagesStep DEF ActivateScheduled, receiverVars
<1>3. ASSUME NEW m \in Msg, ReceiveGrant(m) PROVE MessagesOk'
  BY <1>3, OkReceiveGrant, MessagesStep DEF ReceiveGrant
<1>4. ASSUME NEW m \in Msg, CleanupFinished(m) PROVE MessagesOk'
  BY <1>4, OkCleanupFinished, MessagesStep DEF CleanupFinished, receiverVars
<1>5. ASSUME NEW s \in Host, NEW r \in Host, SendData(s, r) PROVE MessagesOk'
  <2>1. PICK m \in Choice(s, r) : /\ sent' = [sent EXCEPT ![m] = @ + 1]
                                  /\ announced' = [announced EXCEPT ![m] = TRUE]
                                  /\ net' = NetAfter({}, {Data(m, sent[m] + 1)})
    BY <1>5 DEF SendData
  <2>2. m \in Msg /\ twice' = twice
    BY <1>5, ChoiceSendable DEF SendData, receiverVars
  <2>. QED  BY <1>5, <2>1, <2>2, OkSendData, MessagesStep
<1>6. ASSUME NEW s \in Host, SendOneRetransmission(s) PROVE MessagesOk'
  BY <1>6, OkSendOneRetransmission, MessagesStep DEF SendOneRetransmission, receiverVars
<1>7. ASSUME NEW p \in Packet, HandleResend(p) PROVE MessagesOk'
  BY <1>7, OkHandleResend, MessagesStep DEF HandleResend
<1>8. ASSUME NEW m \in Msg, ReceiveRequest(m) PROVE MessagesOk'
  BY <1>8, OkReceiveRequest, MessagesStep DEF ReceiveRequest
<1>9. ASSUME NEW m \in Msg, ReceiveBounced(m) PROVE MessagesOk'
  BY <1>9, OkReceiveBounced, MessagesStep DEF ReceiveBounced
<1>10. ASSUME NEW m \in Msg, SendCredit(m) PROVE MessagesOk'
  BY <1>10, OkSendCredit, MessagesStep DEF SendCredit
<1>11. ASSUME NEW m \in Msg, RemoveGranted(m) PROVE MessagesOk'
  BY <1>11, OkRemoveGranted, MessagesStep DEF RemoveGranted
<1>12. ASSUME NEW m \in Msg, CheckResendTimeouts(m) PROVE MessagesOk'
  BY <1>12, OkCheckResendTimeouts, MessagesStep DEF CheckResendTimeouts, receiverVars
<1>13. ASSUME NEW m \in Msg, NEW i \in Index(m), ReceiveData(m, i) PROVE MessagesOk'
  BY <1>13, OkReceiveData, MessagesStep
<1>14. ASSUME NEW m \in Msg, NEW i \in Index(m), ReceiveAgain(m, i) PROVE MessagesOk'
  BY <1>14, OkReceiveAgain, MessagesStep
<1>15. ASSUME NEW p \in Packet, Lose(p) PROVE MessagesOk'
  <2>1. p.msg \in Msg /\ twice' = twice
    BY <1>15, PacketForm DEF Lose, receiverVars
  <2>. QED  BY <1>15, <2>1, OkLose, MessagesStep
<1>16. ASSUME NEW m \in Msg, Bounce(m) PROVE MessagesOk'
  BY <1>16, OkBounce, MessagesStep DEF Bounce, receiverVars
<1>17. CASE UNCHANGED vars
  BY <1>17 DEF vars, senderVars, receiverVars, MessagesOk, MessageOk, IdleClean, Idle,
     RequestFirst, OriginalsFirst, StateCounts, ResendKnown, Retransmitting, Unsolicited, Index
<1>. QED  BY <1>1, <1>2, <1>3, <1>4, <1>5, <1>6, <1>7, <1>8, <1>9, <1>10, <1>11, <1>12,
             <1>13, <1>14, <1>15, <1>16, <1>17 DEF Next, SenderStep, ReceiverStep, NetworkStep

LEMMA MessagesAlways ==
  ASSUME Overtaken = {}
  PROVE  Spec => [](TypeOK /\ RetransmissionQueue /\ MessagesOk)
<1>1. Init => MessagesOk
  BY MessagesInit
<1>2. TypeOK /\ TypeOK' /\ RetransmissionQueue /\ MessagesOk /\ [Next]_vars => MessagesOk'
  BY MessagesNext
<1>. QED  BY <1>1, <1>2, TypeCorrect, PTL DEF Spec

\* Whatever is lost, bounced and sent again, no packet is handed to the r2p2
\* layer twice, and received_data drops the state of a message only when every
\* packet of it was handed up.
THEOREM ExactlyOnce ==
  ASSUME Overtaken = {}
  PROVE  Spec => []DeliveredExactlyOnce
<1>1. MessagesOk => DeliveredExactlyOnce
  BY DEF MessagesOk, MessageOk, StateCounts, DeliveredExactlyOnce
<1>. QED  BY <1>1, MessagesAlways, PTL

\* assert(data_bytes_received_ <= data_bytes_expected_) of received_data and
\* send_credit_policy_common never fails: retransmissions are counted once.
THEOREM NeverReceivesMore ==
  ASSUME Overtaken = {}
  PROVE  Spec => []ReceivedWithinExpected
<1>1. TypeOK /\ MessagesOk => ReceivedWithinExpected
  <2> SUFFICES ASSUME TypeOK, MessagesOk, NEW m \in Msg, inbound[m].info
               PROVE  inbound[m].received <= Size[m]
    BY DEF ReceivedWithinExpected
  <2>1. MessageOk(m) /\ inbound[m].received = Cardinality(passed[m])
    BY DEF MessagesOk, MessageOk, StateCounts
  <2>. QED  BY <2>1, PassedInMessage, WholeMessage
<1>. QED  BY <1>1, MessagesAlways, PTL

(***************************************************************************)
(* A step moves credit between the account of one sender, the bucket its    *)
(* receiver keeps for it and one message: a to the account, c to the        *)
(* bucket and the budget.                                                  *)
(***************************************************************************)

Moves(m, a, c) ==
  /\ \A h, k \in Host :
       avail'[h][k] = avail[h][k] + (IF h = Src[m] /\ k = Dst[m] THEN a ELSE 0)
  /\ \A h, k \in Host :
       srpb'[k][h] = srpb[k][h] + (IF h = Src[m] /\ k = Dst[m] THEN c ELSE 0)
  /\ \A k \in Host : budget'[k] = budget[k] + (IF k = Dst[m] THEN c ELSE 0)
  /\ CreditPart(m)' = CreditPart(m) - a - c
  /\ GrantPart(m)' = GrantPart(m) - a

LEMMA BetweenFinite ==
  ASSUME NEW s, NEW r
  PROVE  IsFiniteSet(Between(s, r)) /\ Between(s, r) \subseteq Msg
  BY MessageAssumption, FS_Subset DEF Between

LEMMA PartTypes ==
  ASSUME TypeOK, MessagesOk, NEW m \in Msg
  PROVE  CreditPart(m) \in Int /\ GrantPart(m) \in Int /\ Unheard(m) \in Nat /\ Granted(m) \in Nat
<1>1. passed[m] \in SUBSET Index(m)
  BY PassedInMessage DEF MessagesOk
<1>2. Cardinality(passed[m]) \in Nat
  BY <1>1, WholeMessage
<1>3. Unheard(m) \in Nat
  BY MessageTypes DEF Unheard
<1>4. Granted(m) \in Nat
  BY MessageTypes, MessageFields DEF Granted
<1>5. /\ sent[m] \in Nat /\ lostCredit[m] \in Nat /\ unrevoked[m] \in Nat
      /\ net[GrantPkt(m)] \in Nat /\ net[Bounced(m)] \in Nat
  BY MessageTypes
<1>6. CreditPart(m) \in Int
  BY <1>2, <1>3, <1>5 DEF CreditPart
<1>7. GrantPart(m) \in Int
  BY <1>4, <1>5 DEF GrantPart
<1>. QED  BY <1>3, <1>4, <1>6, <1>7

LEMMA PartsInt ==
  TypeOK /\ MessagesOk => \A x \in Msg : CreditPart(x) \in Int /\ GrantPart(x) \in Int
  BY PartTypes

LEMMA PartTypesNext ==
  ASSUME TypeOK', MessagesOk', NEW m \in Msg
  PROVE  CreditPart(m)' \in Int /\ GrantPart(m)' \in Int
<1>1. (TypeOK /\ MessagesOk => \A x \in Msg : CreditPart(x) \in Int /\ GrantPart(x) \in Int)'
  BY PartsInt, PTL
<1>. QED  BY <1>1

LEMMA PartsElsewhere ==
  ASSUME NEW m \in Msg, Elsewhere(m), NEW x \in Msg \ {m}
  PROVE  CreditPart(x)' = CreditPart(x) /\ GrantPart(x)' = GrantPart(x) /\ Silent(x)' = Silent(x)
<1>1. /\ GrantPkt(x) \in Packet /\ Bounced(x) \in Packet
      /\ GrantPkt(x).msg # m /\ Bounced(x).msg # m
  BY PacketKinds DEF GrantPkt, Bounced, Pkt
<1>2. net'[GrantPkt(x)] = net[GrantPkt(x)] /\ net'[Bounced(x)] = net[Bounced(x)]
  BY <1>1 DEF Elsewhere
<1>. QED  BY <1>2 DEF Elsewhere, CreditPart, GrantPart, Granted, Unheard, Silent

\* The sum over the messages of one pair of hosts, when one message changes.
LEMMA SumMoves ==
  ASSUME NEW m \in Msg, NEW f, NEW g, NEW s, NEW r,
         \A x \in Msg : f[x] \in Int /\ g[x] \in Int,
         \A x \in Msg \ {m} : g[x] = f[x]
  PROVE  /\ SumFunctionOnSet(f, Between(s, r)) \in Int
         /\ SumFunctionOnSet(g, Between(s, r))
              = SumFunctionOnSet(f, Between(s, r))
                + (IF s = Src[m] /\ r = Dst[m] THEN g[m] - f[m] ELSE 0)
<1> DEFINE B == Between(s, r)
<1>1. IsFiniteSet(B) /\ B \subseteq Msg
  BY BetweenFinite
<1>2. m \in B <=> s = Src[m] /\ r = Dst[m]
  BY DEF Between
<1>. HIDE DEF B
<1>3. SumFunctionOnSet(f, B) \in Int
  BY <1>1, SumInt
<1>4. CASE m \in B
  <2>1. SumFunctionOnSet(g, B) = SumFunctionOnSet(f, B) + g[m] - f[m]
    BY <1>1, <1>4, SumUpdate
  <2>2. SumFunctionOnSet(g, B) = SumFunctionOnSet(f, B) + (g[m] - f[m])
    BY <1>3, <2>1
  <2>. QED  BY <1>2, <1>3, <1>4, <2>2 DEF B
<1>5. CASE m \notin B
  <2>1. SumFunctionOnSet(g, B) = SumFunctionOnSet(f, B)
    BY <1>1, <1>5, SumCongruent
  <2>. QED  BY <1>2, <1>3, <1>5, <2>1 DEF B
<1>. QED  BY <1>4, <1>5

LEMMA LedgerStep ==
  ASSUME TypeOK, TypeOK', MessagesOk, MessagesOk', Ledger, NEW m \in Msg, Elsewhere(m),
         NEW a \in Int, NEW c \in Int, Moves(m, a, c)
  PROVE  Ledger'
<1>1. Src[m] \in Host /\ Dst[m] \in Host /\ IsFiniteSet(Host) /\ MaxSrpb \in Int /\ MaxBudget \in Int
  BY MessageAssumption, CreditAssumption
<1>2. /\ \A h, k \in Host : avail[h][k] \in Int /\ srpb[h][k] \in Int
      /\ \A h, k \in Host : avail'[h][k] \in Int /\ srpb'[h][k] \in Int
      /\ \A k \in Host : budget[k] \in Int
  BY DEF TypeOK
<1>3. ASSUME NEW r \in Host, NEW s \in Host
      PROVE  /\ MaxSrpb - srpb'[r][s]
                  = avail'[s][r] + SumFunctionOnSet(CreditParts', Between(s, r))
             /\ avail'[s][r] + SumFunctionOnSet(GrantParts', Between(s, r)) = 0
  <2> DEFINE here == s = Src[m] /\ r = Dst[m]
             f == CreditParts
             g == GrantParts
             ff == CreditParts'
             gg == GrantParts'
             sum(e) == SumFunctionOnSet(e, Between(s, r))
  <2>1. /\ \A x \in Msg : f[x] = CreditPart(x) /\ ff[x] = CreditPart(x)'
        /\ \A x \in Msg : g[x] = GrantPart(x) /\ gg[x] = GrantPart(x)'
    BY DEF CreditParts, GrantParts
  <2>2. \A x \in Msg : f[x] \in Int /\ ff[x] \in Int /\ g[x] \in Int /\ gg[x] \in Int
    BY <2>1, PartTypes, PartTypesNext
  <2>3. \A x \in Msg \ {m} : ff[x] = f[x] /\ gg[x] = g[x]
    BY <2>1, PartsElsewhere
  <2>4. ff[m] = f[m] + (-(a + c)) /\ gg[m] = g[m] + (-a)
    BY <2>1, <2>2 DEF Moves
  <2>5. -(a + c) \in Int /\ -a \in Int
    OBVIOUS
  <2>. HIDE DEF f, g, ff, gg
  <2>6. sum(f) \in Int /\ sum(ff) = sum(f) + (IF here THEN -(a + c) ELSE 0)
    <3>1. /\ \A x \in Msg : f[x] \in Int /\ ff[x] \in Int
          /\ \A x \in Msg \ {m} : ff[x] = f[x]
          /\ f[m] \in Int /\ ff[m] - f[m] = -(a + c)
      BY <2>2, <2>3, <2>4, <2>5
    <3>2. sum(f) \in Int /\ sum(ff) = sum(f) + (IF here THEN ff[m] - f[m] ELSE 0)
      BY <3>1, SumMoves
    <3>. QED  BY <3>1, <3>2
  <2>7. sum(g) \in Int /\ sum(gg) = sum(g) + (IF here THEN -a ELSE 0)
    <3>1. /\ \A x \in Msg : g[x] \in Int /\ gg[x] \in Int
          /\ \A x \in Msg \ {m} : gg[x] = g[x]
          /\ g[m] \in Int /\ gg[m] - g[m] = -a
      BY <2>2, <2>3, <2>4, <2>5
    <3>2. sum(g) \in Int /\ sum(gg) = sum(g) + (IF here THEN gg[m] - g[m] ELSE 0)
      BY <3>1, SumMoves
    <3>. QED  BY <3>1, <3>2
  <2>8. MaxSrpb - srpb[r][s] = avail[s][r] + sum(f) /\ avail[s][r] + sum(g) = 0
    BY DEF Ledger, f, g
  <2>9. /\ avail'[s][r] = avail[s][r] + (IF here THEN a ELSE 0)
        /\ srpb'[r][s] = srpb[r][s] + (IF here THEN c ELSE 0)
    BY DEF Moves
  <2>10. avail[s][r] \in Int /\ srpb[r][s] \in Int
    BY <1>2
  <2>. HIDE DEF sum, here
  <2>11. MaxSrpb - srpb'[r][s] = avail'[s][r] + sum(ff) /\ avail'[s][r] + sum(gg) = 0
    BY <1>1, <2>6, <2>7, <2>8, <2>9, <2>10, SMTT(30)
  <2>. QED  BY <2>11 DEF sum, ff, gg
<1>4. ASSUME NEW r \in Host
      PROVE  MaxBudget - budget'[r] = SumFunctionOnSet(Shortage(r)', Host)
  <2> DEFINE f == Shortage(r)
             ff == Shortage(r)'
             s == Src[m]
  <2>1. \A h \in Host : f[h] = MaxSrpb - srpb[r][h] /\ ff[h] = MaxSrpb - srpb'[r][h]
    BY DEF Shortage
  <2>2. \A h \in Host : f[h] \in Int /\ ff[h] \in Int
    BY <1>1, <1>2, <2>1
  <2>3. MaxBudget - budget[r] = SumFunctionOnSet(f, Host)
    BY DEF Ledger
  <2>. HIDE DEF f, ff
  <2>4. CASE r = Dst[m]
    <3>1. \A h \in Host \ {s} : ff[h] = f[h]
      BY <1>1, <1>2, <2>1, <2>4 DEF Moves
    <3>2. ff[s] = f[s] - c
      BY <1>1, <1>2, <2>1, <2>4 DEF Moves
    <3>3. SumFunctionOnSet(ff, Host) = SumFunctionOnSet(f, Host) + ff[s] - f[s]
      <4>. HIDE DEF s
      <4>1. s \in Host
        BY <1>1 DEF s
      <4>. QED  BY <1>1, <2>2, <3>1, <4>1, SumUpdate
    <3>4. SumFunctionOnSet(f, Host) \in Int
      BY <1>1, <2>2, SumInt
    <3>5. budget'[r] = budget[r] + c /\ budget[r] \in Int /\ f[s] \in Int
      BY <1>1, <1>2, <2>2, <2>4 DEF Moves
    <3>6. MaxBudget - budget'[r] = SumFunctionOnSet(ff, Host)
      <4>. HIDE DEF s
      <4>. QED  BY <1>1, <2>3, <3>2, <3>3, <3>4, <3>5
    <3>. QED  BY <3>6 DEF ff
  <2>5. CASE r # Dst[m]
    <3>1. \A h \in Host : ff[h] = f[h]
      BY <1>2, <2>1, <2>5 DEF Moves
    <3>2. SumFunctionOnSet(ff, Host) = SumFunctionOnSet(f, Host)
      BY <1>1, <3>1, SumCongruent
    <3>3. budget'[r] = budget[r]
      BY <1>2, <2>5 DEF Moves
    <3>. QED  BY <2>3, <3>2, <3>3 DEF ff
  <2>. QED  BY <2>4, <2>5
<1>. QED  BY <1>3, <1>4 DEF Ledger

LEMMA AccountTypes ==
  ASSUME TypeOK
  PROVE  /\ \A h, k \in Host : avail[h][k] \in Nat /\ srpb[h][k] \in Int
         /\ \A k \in Host : budget[k] \in Int
  BY DEF TypeOK

\* The entry of one pair of hosts changes by d.
LEMMA EntryMoves ==
  ASSUME NEW f \in [Host -> [Host -> Int]], NEW s \in Host, NEW r \in Host, NEW d \in Int,
         NEW g, g = [f EXCEPT ![s][r] = @ + d]
  PROVE  \A h, k \in Host : g[h][k] = f[h][k] + (IF h = s /\ k = r THEN d ELSE 0)
  OBVIOUS

LEMMA AccountMoves ==
  ASSUME TypeOK, NEW m \in Msg, NEW d \in Int,
         avail' = [avail EXCEPT ![Src[m]][Dst[m]] = @ + d], UNCHANGED <<srpb, budget>>,
         CreditPart(m)' = CreditPart(m) - d - 0, GrantPart(m)' = GrantPart(m) - d
  PROVE  Moves(m, d, 0)
<1>1. avail \in [Host -> [Host -> Int]] /\ Src[m] \in Host /\ Dst[m] \in Host
  BY MessageTypes, SMTT(30) DEF TypeOK
<1>2. \A h, k \in Host :
        avail'[h][k] = avail[h][k] + (IF h = Src[m] /\ k = Dst[m] THEN d ELSE 0)
  BY <1>1, EntryMoves
<1>3. \A h, k \in Host :
        srpb'[k][h] = srpb[k][h] + (IF h = Src[m] /\ k = Dst[m] THEN 0 ELSE 0)
  BY AccountTypes
<1>4. \A k \in Host : budget'[k] = budget[k] + (IF k = Dst[m] THEN 0 ELSE 0)
  BY AccountTypes
<1>. QED  BY <1>2, <1>3, <1>4 DEF Moves

\* What is summed up in the two parts.
LEMMA PartTerms ==
  ASSUME TypeOK, MessagesOk, NEW m \in Msg
  PROVE  /\ net[GrantPkt(m)] \in Nat /\ net[Bounced(m)] \in Nat /\ lostCredit[m] \in Nat
         /\ unrevoked[m] \in Nat /\ sent[m] \in Nat
         /\ Cardinality(passed[m]) \in Nat /\ Unheard(m) \in Nat /\ Granted(m) \in Nat
<1>1. passed[m] \in SUBSET Index(m)
  BY PassedInMessage DEF MessagesOk
<1>. QED  BY <1>1, WholeMessage, PartTypes, MessageTypes

LEMMA LedgerStill ==
  ASSUME TypeOK, TypeOK', MessagesOk, MessagesOk', Ledger, NEW m \in Msg, Elsewhere(m),
         UNCHANGED <<avail, srpb, budget>>,
         CreditPart(m)' = CreditPart(m), GrantPart(m)' = GrantPart(m)
  PROVE  Ledger'
<1>1. CreditPart(m) \in Int /\ GrantPart(m) \in Int
  BY PartTypes
<1>2. Moves(m, 0, 0)
  BY <1>1, AccountTypes DEF Moves
<1>. QED  BY <1>2, LedgerStep

LEMMA LedgerActivateUnsolicited ==
  ASSUME TypeOK, TypeOK', MessagesOk, MessagesOk', Ledger, NEW m \in Msg,
         ActivateUnsolicited(m)
  PROVE  Ledger'
<1>1. PICK credit : /\ self' = [self EXCEPT ![m] = credit]
                    /\ avail' = [avail EXCEPT ![Src[m]][Dst[m]] = @ + credit]
  BY DEF ActivateUnsolicited
<1>2. /\ Elsewhere(m) /\ state[m] = "new"
      /\ UNCHANGED <<sent, inbound, passed, net, lostCredit, unrevoked, srpb, budget>>
  BY OkActivateUnsolicited DEF ActivateUnsolicited, receiverVars, networkVars
<1>3. self'[m] = credit /\ credit \in Nat
  BY <1>1 DEF TypeOK
<1>4. self[m] = 0 /\ inbound[m] = NoState /\ passed[m] = {}
  BY <1>2 DEF MessagesOk, MessageOk, IdleClean, Idle
<1>5. /\ Unheard(m) = 0 /\ Unheard(m)' = credit
      /\ Granted(m) = 0 /\ Granted(m)' = credit
  BY <1>2, <1>3, <1>4 DEF Unheard, Granted, NoState
<1>6. Cardinality(passed'[m]) = Cardinality(passed[m])
  BY <1>2
<1>7. CreditPart(m)' = CreditPart(m) - credit - 0
  BY <1>2, <1>3, <1>5, <1>6, PartTerms DEF CreditPart
<1>8. GrantPart(m)' = GrantPart(m) - credit
  BY <1>2, <1>3, <1>5, PartTerms DEF GrantPart
<1>9. credit \in Int /\ 0 \in Int
  BY <1>3
<1>10. Moves(m, credit, 0)
  BY <1>1, <1>2, <1>7, <1>8, <1>9, AccountMoves
<1>. QED  BY <1>2, <1>9, <1>10, LedgerStep

LEMMA LedgerSendData ==
  ASSUME TypeOK, TypeOK', MessagesOk, MessagesOk', Ledger, NEW s \in Host, NEW r \in Host,
         SendData(s, r)
  PROVE  Ledger'
<1>1. PICK m \in Choice(s, r) : /\ sent' = [sent EXCEPT ![m] = @ + 1]
                                /\ announced' = [announced EXCEPT ![m] = TRUE]
                                /\ net' = NetAfter({}, {Data(m, sent[m] + 1)})
  BY DEF SendData
<1>2. /\ m \in Msg /\ Src[m] = s /\ Dst[m] = r /\ Elsewhere(m)
      /\ avail' = [avail EXCEPT ![s][r] = @ - 1]
      /\ UNCHANGED <<self, inbound, passed, lostCredit, unrevoked, srpb, budget>>
  BY <1>1, ChoiceSendable, OkSendData DEF SendData, receiverVars, networkVars
<1>3. sent'[m] = sent[m] + 1
  BY <1>1, <1>2 DEF TypeOK
<1>4. net'[GrantPkt(m)] = net[GrantPkt(m)] /\ net'[Bounced(m)] = net[Bounced(m)]
  BY <1>1, <1>2, NetJoin, PacketKind, ZenonT(40) DEF OnlyPacket
<1>5. /\ Unheard(m)' = Unheard(m) /\ Granted(m)' = Granted(m)
      /\ Cardinality(passed'[m]) = Cardinality(passed[m])
  BY <1>2 DEF Unheard, Granted
<1>6. CreditPart(m)' = CreditPart(m) - (-1) - 0
  BY <1>2, <1>3, <1>4, <1>5, PartTerms DEF CreditPart
<1>7. GrantPart(m)' = GrantPart(m) - (-1)
  BY <1>2, <1>3, <1>4, <1>5, PartTerms DEF GrantPart
<1>8. -1 \in Int /\ 0 \in Int
  OBVIOUS
<1>9. avail' = [avail EXCEPT ![Src[m]][Dst[m]] = @ + -1]
  BY <1>2 DEF TypeOK
<1>10. Moves(m, -1, 0)
  BY <1>2, <1>6, <1>7, <1>8, <1>9, AccountMoves
<1>. QED  BY <1>2, <1>8, <1>10, LedgerStep

LEMMA LedgerReceiveGrant ==
  ASSUME TypeOK, TypeOK', MessagesOk, MessagesOk', Ledger, NEW m \in Msg, ReceiveGrant(m)
  PROVE  Ledger'
<1>1. /\ Elsewhere(m) /\ net' = NetAfter({GrantPkt(m)}, {})
      /\ avail' = [avail EXCEPT ![Src[m]][Dst[m]] = @ + 1]
      /\ UNCHANGED <<self, sent, inbound, passed, lostCredit, unrevoked, srpb, budget>>
  BY OkReceiveGrant DEF ReceiveGrant, networkVars
<1>2. net'[GrantPkt(m)] = net[GrantPkt(m)] - 1 /\ net'[Bounced(m)] = net[Bounced(m)]
  BY <1>1, NetLeave, PacketKinds, PacketKind DEF OnlyPacket
<1>3. /\ Unheard(m)' = Unheard(m) /\ Granted(m)' = Granted(m)
      /\ Cardinality(passed'[m]) = Cardinality(passed[m])
  BY <1>1 DEF Unheard, Granted
<1>4. CreditPart(m)' = CreditPart(m) - 1 - 0
  BY <1>1, <1>2, <1>3, PartTerms DEF CreditPart
<1>5. GrantPart(m)' = GrantPart(m) - 1
  BY <1>1, <1>2, <1>3, PartTerms DEF GrantPart
<1>6. 1 \in Int /\ 0 \in Int
  OBVIOUS
<1>7. Moves(m, 1, 0)
  BY <1>1, <1>4, <1>5, <1>6, AccountMoves
<1>. QED  BY <1>1, <1>6, <1>7, LedgerStep

LEMMA BucketMoves ==
  ASSUME TypeOK, NEW m \in Msg, NEW c \in Int,
         srpb' = [srpb EXCEPT ![Dst[m]][Src[m]] = @ + c],
         budget' = [budget EXCEPT ![Dst[m]] = @ + c], UNCHANGED avail,
         CreditPart(m)' = CreditPart(m) - 0 - c, GrantPart(m)' = GrantPart(m) - 0
  PROVE  Moves(m, 0, c)
<1>1. /\ srpb \in [Host -> [Host -> Int]] /\ budget \in [Host -> Int]
      /\ Src[m] \in Host /\ Dst[m] \in Host
  BY MessageTypes DEF TypeOK
<1>2. \A k, h \in Host : srpb'[k][h] = srpb[k][h] + (IF k = Dst[m] /\ h = Src[m] THEN c ELSE 0)
  BY <1>1, EntryMoves
<1>3. \A k \in Host : budget'[k] = budget[k] + (IF k = Dst[m] THEN c ELSE 0)
  BY <1>1
<1>4. \A h, k \in Host :
        avail'[h][k] = avail[h][k] + (IF h = Src[m] /\ k = Dst[m] THEN 0 ELSE 0)
  BY AccountTypes
<1>. QED  BY <1>2, <1>3, <1>4 DEF Moves

LEMMA LedgerHandsUp ==
  ASSUME TypeOK, TypeOK', MessagesOk, MessagesOk', Ledger, NEW m \in Msg, NEW i \in Index(m),
         HandsUp(m, i), Elsewhere(m),
         UNCHANGED <<avail, self, sent, lostCredit, unrevoked>>,
         net'[GrantPkt(m)] = net[GrantPkt(m)], net'[Bounced(m)] = net[Bounced(m)]
  PROVE  Ledger'
<1>1. passed[m] \in SUBSET Index(m) /\ i \notin passed[m] /\ passed'[m] = passed[m] \cup {i}
  BY PassedInMessage DEF HandsUp, MessagesOk, TypeOK
<1>2. Cardinality(passed'[m]) = Cardinality(passed[m]) + 1
  BY <1>1, OnePacketMore
<1>3. Unheard(m)' = 0
  BY <1>1 DEF Unheard
<1> DEFINE c == 1 - Unheard(m)
<1>4. c \in Int
  BY PartTerms
<1>5. CreditPart(m)' = CreditPart(m) - 0 - c
  BY <1>2, <1>3, PartTerms DEF CreditPart
<1>6. GrantPart(m)' = GrantPart(m) - 0
  BY PartTerms DEF HandsUp, GrantPart
<1>7. /\ srpb' = [srpb EXCEPT ![Dst[m]][Src[m]] = @ + c]
      /\ budget' = [budget EXCEPT ![Dst[m]] = @ + c]
  <2>1. /\ srpb' = [srpb EXCEPT ![Dst[m]][Src[m]] = @ - Unheard(m) + 1]
        /\ budget' = [budget EXCEPT ![Dst[m]] = @ - Unheard(m) + 1]
    BY DEF HandsUp
  <2>2. \A x \in Int : x - Unheard(m) + 1 = x + c
    BY PartTerms
  <2>3. srpb[Dst[m]][Src[m]] \in Int /\ budget[Dst[m]] \in Int
    BY AccountTypes, MessageTypes
  <2>. HIDE DEF c
  <2>. QED  BY <2>1, <2>2, <2>3
<1>. HIDE DEF c
<1>8. Moves(m, 0, c)
  BY <1>4, <1>5, <1>6, <1>7, BucketMoves
<1>9. 0 \in Int
  OBVIOUS
<1>. QED  BY <1>4, <1>8, <1>9, LedgerStep

LEMMA LedgerReceiveBounced ==
  ASSUME TypeOK, TypeOK', MessagesOk, MessagesOk', Ledger, NEW m \in Msg, ReceiveBounced(m)
  PROVE  Ledger'
<1>1. PICK revoke : revoke = IF inbound[m].known /\ inbound[m].granted > inbound[m].received
                             THEN 1 ELSE 0
  OBVIOUS
<1>2. /\ Elsewhere(m) /\ inbound'[m] = [inbound[m] EXCEPT !.granted = @ - revoke]
      /\ net' = NetAfter({Bounced(m)}, {})
      /\ unrevoked' = [unrevoked EXCEPT ![m] = @ + 1 - revoke]
      /\ budget' = [budget EXCEPT ![Dst[m]] = @ + 1]
      /\ srpb' = [srpb EXCEPT ![Dst[m]][Src[m]] = @ + 1]
      /\ UNCHANGED <<avail, self, sent, passed, lostCredit>>
  BY <1>1, OkReceiveBounced, ZenonT(40) DEF ReceiveBounced, senderVars, networkVars
<1>3. net'[Bounced(m)] = net[Bounced(m)] - 1 /\ net'[GrantPkt(m)] = net[GrantPkt(m)]
  BY <1>2, NetLeave, PacketKinds, PacketKind DEF OnlyPacket
<1>4. /\ unrevoked'[m] = unrevoked[m] + 1 - revoke /\ revoke \in {0, 1}
      /\ ~inbound[m].known => revoke = 0
  BY <1>1, <1>2 DEF TypeOK
<1>5. /\ inbound'[m].known = inbound[m].known /\ inbound'[m].info = inbound[m].info
      /\ inbound'[m].granted = inbound[m].granted - revoke /\ inbound[m].granted \in Nat
  BY <1>2, MessageTypes DEF MsgState
<1>6. Unheard(m)' = Unheard(m) /\ Cardinality(passed'[m]) = Cardinality(passed[m])
  BY <1>2, <1>5 DEF Unheard
<1>7. Granted(m)' = Granted(m) - revoke
  <2>1. CASE inbound[m].known
    BY <1>5, <2>1 DEF Granted
  <2>2. CASE ~inbound[m].known
    <3>1. Granted(m)' = Granted(m) /\ revoke = 0
      BY <1>2, <1>4, <1>5, <2>2 DEF Granted
    <3>. QED  BY <3>1, PartTerms
  <2>. QED  BY <2>1, <2>2
<1>8. CreditPart(m)' = CreditPart(m) - 0 - 1
  BY <1>2, <1>3, <1>6, PartTerms DEF CreditPart
<1>9. GrantPart(m)' = GrantPart(m) - 0
  BY <1>2, <1>3, <1>4, <1>7, PartTerms DEF GrantPart
<1>10. 0 \in Int /\ 1 \in Int
  OBVIOUS
<1>11. Moves(m, 0, 1)
  BY <1>2, <1>8, <1>9, <1>10, BucketMoves
<1>. QED  BY <1>2, <1>10, <1>11, LedgerStep

LEMMA LedgerSendCredit ==
  ASSUME TypeOK, TypeOK', MessagesOk, MessagesOk', Ledger, NEW m \in Msg, SendCredit(m)
  PROVE  Ledger'
<1>1. /\ Elsewhere(m) /\ inbound[m].known
      /\ inbound'[m] = [inbound[m] EXCEPT !.granted = @ + 1]
      /\ net' = NetAfter({}, {GrantPkt(m)})
      /\ budget' = [budget EXCEPT ![Dst[m]] = @ - 1]
      /\ srpb' = [srpb EXCEPT ![Dst[m]][Src[m]] = @ - 1]
      /\ UNCHANGED <<avail, self, sent, passed, lostCredit, unrevoked>>
  BY OkSendCredit DEF SendCredit, senderVars, networkVars
<1>2. net'[GrantPkt(m)] = net[GrantPkt(m)] + 1 /\ net'[Bounced(m)] = net[Bounced(m)]
  BY <1>1, NetJoin, PacketKinds, PacketKind DEF OnlyPacket
<1>3. /\ inbound'[m].known /\ inbound'[m].info = inbound[m].info
      /\ inbound'[m].granted = inbound[m].granted + 1
  BY <1>1, MessageTypes DEF MsgState
<1>4. /\ Unheard(m)' = Unheard(m) /\ Granted(m)' = Granted(m) + 1
      /\ Cardinality(passed'[m]) = Cardinality(passed[m])
  BY <1>1, <1>3 DEF Unheard, Granted
<1>5. CreditPart(m)' = CreditPart(m) - 0 - (-1)
  BY <1>1, <1>2, <1>4, PartTerms DEF CreditPart
<1>6. GrantPart(m)' = GrantPart(m) - 0
  BY <1>1, <1>2, <1>4, PartTerms DEF GrantPart
<1>7. 0 \in Int /\ -1 \in Int
  OBVIOUS
<1>8. /\ srpb' = [srpb EXCEPT ![Dst[m]][Src[m]] = @ + -1]
      /\ budget' = [budget EXCEPT ![Dst[m]] = @ + -1]
  BY <1>1 DEF TypeOK
<1>9. Moves(m, 0, -1)
  BY <1>1, <1>5, <1>6, <1>7, <1>8, BucketMoves
<1>. QED  BY <1>1, <1>7, <1>9, LedgerStep

LEMMA PartsStill ==
  ASSUME NEW m \in Msg,
         net'[GrantPkt(m)] = net[GrantPkt(m)], net'[Bounced(m)] = net[Bounced(m)],
         UNCHANGED <<self, sent, inbound, passed, lostCredit, unrevoked>>
  PROVE  CreditPart(m)' = CreditPart(m) /\ GrantPart(m)' = GrantPart(m)
  BY DEF CreditPart, GrantPart, Unheard, Granted

LEMMA LedgerLose ==
  ASSUME TypeOK, TypeOK', MessagesOk, MessagesOk', Ledger, NEW p \in Packet, Lose(p)
  PROVE  Ledger'
<1>1. PICK m \in Msg : m = p.msg
  BY PacketForm
<1>2. /\ Elsewhere(m) /\ net' = NetAfter({p}, {})
      /\ UNCHANGED <<avail, srpb, budget, self, sent, inbound, passed, unrevoked>>
      /\ lostCredit' = IF p.kind \in {"GRANT", "BOUNCED"}
                       THEN [lostCredit EXCEPT ![m] = @ + 1] ELSE lostCredit
  BY <1>1, OkLose DEF Lose, senderVars, receiverVars
<1>3. OnlyPacket(p) /\ net'[p] = net[p] - 1
  BY <1>2, NetLeave
<1>4. net'[GrantPkt(m)] + net'[Bounced(m)] + lostCredit'[m]
        = net[GrantPkt(m)] + net[Bounced(m)] + lostCredit[m]
  <2>0. GrantPkt(m).kind = "GRANT" /\ Bounced(m).kind = "BOUNCED"
    BY PacketKind
  <2>1. CASE p = GrantPkt(m)
    <3>1. /\ net'[GrantPkt(m)] = net[GrantPkt(m)] - 1 /\ net'[Bounced(m)] = net[Bounced(m)]
          /\ lostCredit'[m] = lostCredit[m] + 1
      BY <1>2, <1>3, <2>0, <2>1 DEF OnlyPacket, TypeOK
    <3>. QED  BY <3>1, PartTerms
  <2>2. CASE p = Bounced(m)
    <3>1. /\ net'[GrantPkt(m)] = net[GrantPkt(m)] /\ net'[Bounced(m)] = net[Bounced(m)] - 1
          /\ lostCredit'[m] = lostCredit[m] + 1
      BY <1>2, <1>3, <2>0, <2>2 DEF OnlyPacket, TypeOK
    <3>. QED  BY <3>1, PartTerms
  <2>3. CASE p # GrantPkt(m) /\ p # Bounced(m)
    <3>1. p.kind \notin {"GRANT", "BOUNCED"}
      BY <1>1, <2>3, PacketForm, PacketKind
    <3>. QED  BY <1>2, <1>3, <3>1 DEF OnlyPacket
  <2>. QED  BY <2>1, <2>2, <2>3
<1>5. /\ Unheard(m)' = Unheard(m) /\ Granted(m)' = Granted(m)
      /\ Cardinality(passed'[m]) = Cardinality(passed[m])
  BY <1>2 DEF Unheard, Granted
<1>6. CreditPart(m)' = CreditPart(m) /\ GrantPart(m)' = GrantPart(m)
  BY <1>2, <1>4, <1>5 DEF CreditPart, GrantPart
<1>. QED  BY <1>2, <1>6, LedgerStill

LEMMA LedgerBounce ==
  ASSUME TypeOK, TypeOK', MessagesOk, MessagesOk', Ledger, NEW m \in Msg, Bounce(m)
  PROVE  Ledger'
<1>1. /\ Elsewhere(m)
      /\ net'[GrantPkt(m)] = net[GrantPkt(m)] - 1 /\ net'[Bounced(m)] = net[Bounced(m)] + 1
      /\ UNCHANGED <<avail, srpb, budget, self, sent, inbound, passed, lostCredit, unrevoked>>
  BY OkBounce DEF Bounce, senderVars, receiverVars
<1>2. net'[GrantPkt(m)] + net'[Bounced(m)] = net[GrantPkt(m)] + net[Bounced(m)]
  BY <1>1, PartTerms
<1>3. CreditPart(m)' = CreditPart(m) /\ GrantPart(m)' = GrantPart(m)
  BY <1>1, <1>2 DEF CreditPart, GrantPart, Unheard, Granted
<1>. QED  BY <1>1, <1>3, LedgerStill

\* What the receiver learns from a GRANT_REQ, or forgets of a complete
\* message, changes no account.
LEMMA LedgerReceiveRequest ==
  ASSUME TypeOK, TypeOK', MessagesOk, MessagesOk', Ledger, NEW m \in Msg, ReceiveRequest(m)
  PROVE  Ledger'
<1>1. /\ Elsewhere(m) /\ net' = NetAfter({GrantReq(m)}, {})
      /\ UNCHANGED <<avail, srpb, budget, self, sent, passed, lostCredit, unrevoked>>
      /\ ~inbound[m].known /\ passed[m] = {} /\ inbound[m] = NoState /\ self[m] = 0
      /\ inbound'[m] = [NoState EXCEPT !.known = TRUE, !.info = TRUE]
  BY OkReceiveRequest DEF ReceiveRequest, senderVars, networkVars
<1>2. net'[GrantPkt(m)] = net[GrantPkt(m)] /\ net'[Bounced(m)] = net[Bounced(m)]
  <2>1. GrantReq(m).kind = "GRANT_REQ" /\ OnlyPacket(GrantReq(m))
    BY <1>1, NetLeave, PacketKind
  <2>. QED  BY <2>1 DEF OnlyPacket
<1>3. inbound'[m].known /\ inbound'[m].info /\ inbound'[m].granted = 0
  BY <1>1 DEF NoState
<1>4. Unheard(m) = 0 /\ Unheard(m)' = 0 /\ Granted(m) = 0 /\ Granted(m)' = 0
  BY <1>1, <1>3 DEF Unheard, Granted
<1>5. CreditPart(m)' = CreditPart(m) /\ GrantPart(m)' = GrantPart(m)
  BY <1>1, <1>2, <1>4 DEF CreditPart, GrantPart
<1>. QED  BY <1>1, <1>5, LedgerStill

LEMMA LedgerRemoveGranted ==
  ASSUME TypeOK, TypeOK', MessagesOk, MessagesOk', Ledger, NEW m \in Msg, RemoveGranted(m)
  PROVE  Ledger'
<1>1. /\ Elsewhere(m) /\ inbound'[m] = NoState
      /\ inbound[m].known /\ passed[m] # {} /\ inbound[m].granted = Size[m]
      /\ UNCHANGED <<avail, srpb, budget, self, sent, passed, net, lostCredit, unrevoked>>
  BY OkRemoveGranted DEF RemoveGranted, senderVars, networkVars
<1>2. Unheard(m) = 0 /\ Unheard(m)' = 0 /\ Granted(m) = Size[m] /\ Granted(m)' = Size[m]
  BY <1>1 DEF Unheard, Granted, NoState
<1>3. CreditPart(m)' = CreditPart(m) /\ GrantPart(m)' = GrantPart(m)
  BY <1>1, <1>2 DEF CreditPart, GrantPart
<1>. QED  BY <1>1, <1>3, LedgerStill

LEMMA LedgerNext ==
  ASSUME TypeOK, TypeOK', RetransmissionQueue, Overtaken = {}, MessagesOk, MessagesOk', Ledger,
         [Next]_vars
  PROVE  Ledger'
<1>1. ASSUME NEW m \in Msg, ActivateScheduled(m) PROVE Ledger'
  <2>1. /\ Elsewhere(m) /\ net' = NetAfter({}, {GrantReq(m)})
        /\ UNCHANGED <<avail, srpb, budget, self, sent, inbound, passed, lostCredit, unrevoked>>
    BY <1>1, OkActivateScheduled DEF ActivateScheduled, receiverVars, networkVars
  <2>2. net'[GrantPkt(m)] = net[GrantPkt(m)] /\ net'[Bounced(m)] = net[Bounced(m)]
    BY <2>1, NetJoin, PacketKind DEF OnlyPacket
  <2>. QED  BY <2>1, <2>2, PartsStill, LedgerStill
<1>2. ASSUME NEW m \in Msg, CleanupFinished(m) PROVE Ledger'
  <2>1. /\ Elsewhere(m)
        /\ UNCHANGED <<avail, srpb, budget, self, sent, inbound, passed, net, lostCredit, unrevoked>>
    BY <1>2, OkCleanupFinished DEF CleanupFinished, receiverVars, networkVars
  <2>. QED  BY <2>1, PartsStill, LedgerStill
<1>3. ASSUME NEW s \in Host, SendOneRetransmission(s) PROVE Ledger'
  BY <1>3, OkSendOneRetransmission, PartsStill, LedgerStill
<1>4. ASSUME NEW p \in Packet, HandleResend(p) PROVE Ledger'
  <2>1. UNCHANGED <<avail, srpb, budget, self, sent, inbound, passed, lostCredit, unrevoked>>
    BY <1>4 DEF HandleResend, networkVars
  <2>. QED  BY <1>4, <2>1, OkHandleResend, PartsStill, LedgerStill
<1>5. ASSUME NEW m \in Msg, CheckResendTimeouts(m) PROVE Ledger'
  <2>1. UNCHANGED <<avail, srpb, budget, self, sent, inbound, passed, lostCredit, unrevoked>>
    BY <1>5 DEF CheckResendTimeouts, senderVars, receiverVars, networkVars
  <2>. QED  BY <1>5, <2>1, OkCheckResendTimeouts, PartsStill, LedgerStill
<1>6. ASSUME NEW m \in Msg, NEW i \in Index(m), ReceiveData(m, i) PROVE Ledger'
  <2>1. UNCHANGED <<avail, self, sent, lostCredit, unrevoked>>
    BY <1>6 DEF ReceiveData, senderVars, networkVars
  <2>. QED  BY <1>6, <2>1, OkReceiveData, LedgerHandsUp
<1>7. ASSUME NEW m \in Msg, NEW i \in Index(m), ReceiveAgain(m, i) PROVE Ledger'
  <2>1. UNCHANGED <<avail, self, sent, lostCredit, unrevoked>>
    BY <1>7 DEF ReceiveAgain, senderVars, networkVars
  <2>2. CASE HandsUp(m, i)
    BY <1>7, <2>1, <2>2, OkReceiveAgain, LedgerHandsUp
  <2>3. CASE UNCHANGED <<inbound, budget, srpb, passed>>
    BY <1>7, <2>1, <2>3, OkReceiveAgain, PartsStill, LedgerStill
  <2>. QED  BY <1>7, <2>2, <2>3, OkReceiveAgain
<1>8. CASE UNCHANGED vars
  BY <1>8, ZenonT(40) DEF vars, senderVars, receiverVars, networkVars, Ledger,
     CreditParts, GrantParts, CreditPart, GrantPart, Unheard, Granted, Shortage
<1>. QED  BY <1>1, <1>2, <1>3, <1>4, <1>5, <1>6, <1>7, <1>8, LedgerActivateUnsolicited,
             LedgerSendData, LedgerReceiveGrant, LedgerReceiveRequest, LedgerReceiveBounced,
             LedgerSendCredit, LedgerRemoveGranted, LedgerLose, LedgerBounce
          DEF Next, SenderStep, ReceiverStep, NetworkStep

LEMMA LedgerInit ==
  ASSUME Init, TypeOK, MessagesOk
  PROVE  Ledger
<1>0. MaxSrpb \in Nat /\ MaxBudget \in Nat /\ IsFiniteSet(Host)
  BY CreditAssumption, MessageAssumption
<1>1. /\ \A h, k \in Host : avail[h][k] = 0 /\ srpb[h][k] = MaxSrpb
      /\ \A h \in Host : budget[h] = MaxBudget
  BY DEF Init
<1>2. ASSUME NEW m \in Msg PROVE CreditPart(m) = 0 /\ GrantPart(m) = 0
  <2>1. /\ net[GrantPkt(m)] = 0 /\ net[Bounced(m)] = 0 /\ lostCredit[m] = 0
        /\ unrevoked[m] = 0 /\ sent[m] = 0 /\ self[m] = 0 /\ passed[m] = {}
        /\ inbound[m] = NoState
    BY PacketKinds DEF Init
  <2>2. Unheard(m) = 0 /\ Granted(m) = 0 /\ Cardinality(passed[m]) = 0
    BY <2>1, FS_EmptySet DEF Unheard, Granted, NoState
  <2>. QED  BY <2>1, <2>2 DEF CreditPart, GrantPart
<1>3. ASSUME NEW r \in Host, NEW s \in Host
      PROVE  /\ SumFunctionOnSet(CreditParts, Between(s, r)) = 0
             /\ SumFunctionOnSet(GrantParts, Between(s, r)) = 0
  <2>1. \A m \in Between(s, r) : CreditParts[m] = 0 /\ GrantParts[m] = 0
    BY <1>2, BetweenFinite DEF CreditParts, GrantParts
  <2>. QED  BY <2>1, BetweenFinite, SumZero
<1>4. ASSUME NEW r \in Host
      PROVE  SumFunctionOnSet(Shortage(r), Host) = 0
  <2>1. \A s \in Host : Shortage(r)[s] = 0
    BY <1>0, <1>1 DEF Shortage
  <2>. QED  BY <1>0, <2>1, SumZero
<1>. QED  BY <1>0, <1>1, <1>3, <1>4 DEF Ledger

LEMMA LedgerAlways ==
  ASSUME Overtaken = {}
  PROVE  Spec => [](TypeOK /\ MessagesOk /\ Ledger)
<1>1. Init => Ledger
  BY LedgerInit, TypeInit, MessagesInit
<1>2. /\ TypeOK /\ TypeOK' /\ RetransmissionQueue /\ MessagesOk /\ MessagesOk'
      /\ Ledger /\ [Next]_vars
      => Ledger'
  BY LedgerNext
<1>. QED  BY <1>1, <1>2, MessagesAlways, PTL DEF Spec

LEMMA CreditOutIs ==
  ASSUME NEW s \in Host, NEW r \in Host
  PROVE  CreditOut(s, r) = avail[s][r] + SumFunctionOnSet(CreditParts, Between(s, r))
  BY DEF CreditOut, CreditParts, CreditPart, Unheard

\* Credit is neither made nor leaked: the bucket a receiver keeps for a sender
\* (srpb_bytes_) and its budget (budget_bytes_) are short of exactly the credit
\* that is out, after any grants, bounces, losses and retransmissions.
THEOREM CreditIsConserved ==
  ASSUME Overtaken = {}
  PROVE  Spec => []CreditConserved
<1>1. TypeOK /\ Ledger => CreditConserved
  <2> SUFFICES ASSUME TypeOK, Ledger, NEW r \in Host
               PROVE  /\ \A s \in Host : MaxSrpb - srpb[r][s] = CreditOut(s, r)
                      /\ MaxBudget - budget[r] = SumFunction([s \in Host |-> CreditOut(s, r)])
    BY DEF CreditConserved
  <2> DEFINE out == [s \in Host |-> CreditOut(s, r)]
  <2>1. \A s \in Host : MaxSrpb - srpb[r][s] = CreditOut(s, r)
    BY CreditOutIs DEF Ledger
  <2>2. \A s \in Host : Shortage(r)[s] = out[s]
    BY <2>1 DEF Shortage
  <2>3. SumFunction(out) = SumFunctionOnSet(out, Host)
    BY DEF SumFunction, SumFunctionOnSet, FoldFunction, FoldFunctionOnSet
  <2>4. SumFunctionOnSet(Shortage(r), Host) = SumFunctionOnSet(out, Host)
    <3>. HIDE DEF out
    <3>. QED  BY <2>2, SumCongruent, MessageAssumption
  <2>. HIDE DEF out
  <2>5. MaxBudget - budget[r] = SumFunction(out)
    BY <2>3, <2>4 DEF Ledger
  <2>. QED  BY <2>1, <2>5 DEF out
<1>. QED  BY <1>1, LedgerAlways, PTL

\* No message is left with a packet that no credit will ever pay for: a sender
\* owes no more packets than the credit in its account, under way, still to be
\* granted, or accounted as lost.
THEOREM CreditForEveryPacket ==
  ASSUME Overtaken = {}
  PROVE  Spec => []NoCreditDebt
<1>1. TypeOK /\ MessagesOk /\ Ledger => NoCreditDebt
  <2> DEFINE unsent == [m \in Msg |-> IF Idle(m) THEN 0 ELSE Size[m] - sent[m]]
             coming == [m \in Msg |->
                          net[GrantPkt(m)] + net[Bounced(m)] + lostCredit[m] + unrevoked[m]
                          + (IF Idle(m) THEN 0 ELSE Size[m] - Granted(m))]
  <2> SUFFICES ASSUME TypeOK, MessagesOk, Ledger, NEW s \in Host, NEW r \in Host
               PROVE  SumFunctionOnSet(unsent, Between(s, r))
                        <= avail[s][r] + SumFunctionOnSet(coming, Between(s, r))
    BY DEF NoCreditDebt, Idle, Granted
  <2> DEFINE B == Between(s, r)
  <2>1. ASSUME NEW m \in Msg
        PROVE  /\ unsent[m] \in Int /\ GrantParts[m] \in Int
               /\ coming[m] = unsent[m] + GrantParts[m]
    <3>1. GrantParts[m] = GrantPart(m)
      BY DEF GrantParts
    <3>2. /\ Size[m] \in Nat
          /\ Idle(m) => sent[m] = 0 /\ Granted(m) = 0
      BY MessageTypes DEF MessagesOk, MessageOk, IdleClean, Granted, NoState
    <3>. QED  BY <3>1, <3>2, PartTerms DEF GrantPart
  <2>2. IsFiniteSet(B) /\ B \subseteq Msg
    BY BetweenFinite
  <2>3. avail[s][r] + SumFunctionOnSet(GrantParts, B) = 0 /\ avail[s][r] \in Nat
    BY AccountTypes DEF Ledger
  <2>. HIDE DEF unsent, coming, B
  <2>4. SumFunctionOnSet(coming, B) = SumFunctionOnSet(unsent, B) + SumFunctionOnSet(GrantParts, B)
    BY <2>1, <2>2, SumPlus
  <2>5. SumFunctionOnSet(unsent, B) \in Int /\ SumFunctionOnSet(GrantParts, B) \in Int
    BY <2>1, <2>2, SumInt
  <2>6. SumFunctionOnSet(unsent, B) <= avail[s][r] + SumFunctionOnSet(coming, B)
    BY <2>3, <2>4, <2>5
  <2>. QED  BY <2>6 DEF B
<1>. QED  BY <1>1, LedgerAlways, PTL

(***************************************************************************)
(* The budget.  Credit that unsolicited messages allocate to themselves is  *)
(* in their sender's account before the receiver hears of it, and the       *)
(* account pays for any message.  It cannot pay for another message before  *)
(* the first packet of its own.                                            *)
(***************************************************************************)

LEMMA SilentTypes ==
  ASSUME TypeOK, NEW m \in Msg
  PROVE  Silent(m) \in Nat
  BY MessageTypes DEF Silent

LEMMA SilentTypesNext ==
  ASSUME TypeOK', NEW m \in Msg
  PROVE  Silent(m)' \in Nat
  BY MessageAssumption DEF TypeOK, Silent

LEMMA SilentStep ==
  ASSUME TypeOK, TypeOK', SilentCovered, NEW m \in Msg, Elsewhere(m), NEW a \in Int,
         \A h, k \in Host :
           avail'[h][k] = avail[h][k] + (IF h = Src[m] /\ k = Dst[m] THEN a ELSE 0),
         self'[m] <= 1,
         Silent(m)' > 0 <=> state'[m] = "active" /\ ~announced'[m],
         \/ Silent(m)' <= Silent(m) + a
         \/ SumFunctionOnSet(SilentParts', Between(Src[m], Dst[m])) <= avail'[Src[m]][Dst[m]]
  PROVE  SilentCovered'
<1>1. ASSUME NEW x \in Msg
      PROVE  self'[x] <= 1 /\ (Silent(x)' > 0 <=> state'[x] = "active" /\ ~announced'[x])
  <2>1. CASE x = m
    BY <2>1
  <2>2. CASE x # m
    BY <2>2, PartsElsewhere DEF SilentCovered, Elsewhere
  <2>. QED  BY <2>1, <2>2
<1>2. ASSUME NEW s \in Host, NEW r \in Host
      PROVE  SumFunctionOnSet(SilentParts', Between(s, r)) <= avail'[s][r]
  <2> DEFINE f == SilentParts
             g == SilentParts'
             here == s = Src[m] /\ r = Dst[m]
             sum(e) == SumFunctionOnSet(e, Between(s, r))
  <2>1. /\ \A x \in Msg : f[x] = Silent(x) /\ g[x] = Silent(x)'
        /\ \A x \in Msg \ {m} : g[x] = f[x]
    BY PartsElsewhere DEF SilentParts
  <2>2. \A x \in Msg : f[x] \in Int /\ g[x] \in Int
    BY <2>1, SilentTypes, SilentTypesNext
  <2>. HIDE DEF f, g
  <2>3. sum(f) \in Int /\ sum(g) = sum(f) + (IF here THEN g[m] - f[m] ELSE 0)
    BY <2>1, <2>2, SumMoves
  <2>4. sum(f) <= avail[s][r] /\ avail[s][r] \in Int
    BY AccountTypes DEF SilentCovered, f
  <2>5. avail'[s][r] = avail[s][r] + (IF here THEN a ELSE 0)
    OBVIOUS
  <2>6. here => g[m] <= f[m] + a \/ sum(g) <= avail'[s][r]
    BY <2>1 DEF g
  <2>. HIDE DEF sum, here
  <2>7. sum(g) <= avail'[s][r]
    BY <2>2, <2>3, <2>4, <2>5, <2>6
  <2>. QED  BY <2>7 DEF sum, g
<1>. QED  BY <1>1, <1>2 DEF SilentCovered

LEMMA SilentStill ==
  ASSUME TypeOK, TypeOK', SilentCovered, NEW m \in Msg, Elsewhere(m),
         UNCHANGED <<avail, self, sent, state, announced>>
  PROVE  SilentCovered'
<1>1. \A h, k \in Host :
        avail'[h][k] = avail[h][k] + (IF h = Src[m] /\ k = Dst[m] THEN 0 ELSE 0)
  BY AccountTypes
<1>2. /\ self'[m] <= 1 /\ Silent(m)' = Silent(m) /\ Silent(m) \in Nat
      /\ Silent(m)' > 0 <=> state'[m] = "active" /\ ~announced'[m]
  BY SilentTypes DEF SilentCovered, Silent
<1>3. 0 \in Int /\ Silent(m)' <= Silent(m) + 0
  BY <1>2
<1>. QED  BY <1>1, <1>2, <1>3, SilentStep

LEMMA SilentActivateUnsolicited ==
  ASSUME TypeOK, TypeOK', MessagesOk, SilentCovered, OnePacketUnsolicited,
         NEW m \in Msg, ActivateUnsolicited(m)
  PROVE  SilentCovered'
<1> DEFINE room == Max({MaxSrpb - avail[Src[m]][Dst[m]], 1})
           credit == Min({Size[m], MaxSrpb, room})
<1>1. /\ state[m] = "new" /\ Unsolicited(m) /\ Elsewhere(m)
      /\ state' = [state EXCEPT ![m] = "active"]
      /\ self' = [self EXCEPT ![m] = credit]
      /\ avail' = [avail EXCEPT ![Src[m]][Dst[m]] = @ + credit]
      /\ UNCHANGED <<announced, sent>>
  BY OkActivateUnsolicited DEF ActivateUnsolicited
<1>2. /\ Size[m] = 1 /\ MaxSrpb \in Nat /\ Src[m] \in Host /\ Dst[m] \in Host
      /\ avail \in [Host -> [Host -> Int]]
  BY <1>1, MessageTypes, CreditAssumption DEF OnePacketUnsolicited, TypeOK
<1>3. credit \in Nat /\ credit = 1
  <2>1. MaxSrpb - avail[Src[m]][Dst[m]] \in Int
    BY <1>2
  <2>2. room \in Int
    BY <2>1, MaxOfTwo
  <2>. HIDE DEF room
  <2>3. credit \in {1, MaxSrpb, room} /\ credit <= 1
    <3>1. Size[m] \in Int /\ MaxSrpb \in Int
      BY <1>2
    <3>2. credit \in {Size[m], MaxSrpb, room} /\ credit <= Size[m]
      BY <2>2, <3>1, MinOfThree
    <3>. QED  BY <1>2, <3>2
  <2>5. MaxSrpb >= 1 /\ room >= 1
    BY <2>1, MaxOfTwo, CreditAssumption DEF room
  <2>4. self'[m] = credit /\ self'[m] \in Nat
    BY <1>1 DEF TypeOK
  <2>. QED  BY <2>3, <2>4, <2>5
<1>. HIDE DEF credit
<1>4. \A h, k \in Host :
        avail'[h][k] = avail[h][k] + (IF h = Src[m] /\ k = Dst[m] THEN credit ELSE 0)
  BY <1>1, <1>2, <1>3, EntryMoves
<1>5. self[m] = 0 /\ sent[m] = 0 /\ ~announced[m]
  BY <1>1 DEF MessagesOk, MessageOk, IdleClean, Idle
<1>6. self'[m] = credit /\ state'[m] = "active" /\ ~announced'[m] /\ sent'[m] = 0
  BY <1>1, <1>5 DEF TypeOK
<1>7. Silent(m) = 0 /\ Silent(m)' = credit
  BY <1>5, <1>6 DEF Silent
<1>8. credit \in Int /\ Silent(m)' <= Silent(m) + credit /\ self'[m] <= 1
  BY <1>3, <1>6, <1>7
<1>9. Silent(m)' > 0 <=> state'[m] = "active" /\ ~announced'[m]
  BY <1>3, <1>6, <1>7
<1>. QED  BY <1>1, <1>4, <1>8, <1>9, SilentStep

LEMMA SilentActivateScheduled ==
  ASSUME TypeOK, TypeOK', MessagesOk, SilentCovered, NEW m \in Msg, ActivateScheduled(m)
  PROVE  SilentCovered'
<1>1. /\ ~Unsolicited(m) /\ Elsewhere(m) /\ UNCHANGED <<avail, self, sent>>
      /\ announced' = [announced EXCEPT ![m] = TRUE]
  BY OkActivateScheduled DEF ActivateScheduled
<1>2. self[m] = 0
  BY <1>1 DEF MessagesOk, MessageOk, RequestFirst
<1>3. self'[m] = 0 /\ Silent(m) = 0 /\ Silent(m)' = 0
  BY <1>1, <1>2 DEF Silent
<1>4. \A h, k \in Host :
        avail'[h][k] = avail[h][k] + (IF h = Src[m] /\ k = Dst[m] THEN 0 ELSE 0)
  BY <1>1, AccountTypes
<1>5. /\ 0 \in Int /\ Silent(m)' <= Silent(m) + 0 /\ self'[m] <= 1 /\ ~(Silent(m)' > 0)
      /\ announced'[m]
  BY <1>1, <1>3 DEF TypeOK
<1>. QED  BY <1>1, <1>4, <1>5, SilentStep

LEMMA SilentCleanupFinished ==
  ASSUME TypeOK, TypeOK', MessagesOk, SilentCovered, NEW m \in Msg, CleanupFinished(m)
  PROVE  SilentCovered'
<1>1. /\ sent[m] = Size[m] /\ Elsewhere(m) /\ UNCHANGED <<avail, self, sent>>
      /\ state' = [state EXCEPT ![m] = "retired"]
  BY OkCleanupFinished DEF CleanupFinished
<1>2. Silent(m) = 0 /\ Silent(m)' = 0 /\ self'[m] <= 1
  BY <1>1, MessageTypes DEF Silent, SilentCovered
<1>3. \A h, k \in Host :
        avail'[h][k] = avail[h][k] + (IF h = Src[m] /\ k = Dst[m] THEN 0 ELSE 0)
  BY <1>1, AccountTypes
<1>4. /\ 0 \in Int /\ Silent(m)' <= Silent(m) + 0 /\ ~(Silent(m)' > 0)
      /\ state'[m] # "active"
  BY <1>1, <1>2 DEF TypeOK
<1>. QED  BY <1>1, <1>2, <1>3, <1>4, SilentStep

LEMMA SilentReceiveGrant ==
  ASSUME TypeOK, TypeOK', MessagesOk, SilentCovered, NEW m \in Msg, ReceiveGrant(m)
  PROVE  SilentCovered'
<1>1. /\ Elsewhere(m) /\ avail' = [avail EXCEPT ![Src[m]][Dst[m]] = @ + 1]
      /\ UNCHANGED <<self, sent, state, announced>>
  BY OkReceiveGrant DEF ReceiveGrant
<1>2. Src[m] \in Host /\ Dst[m] \in Host
  BY MessageTypes
<1>6. avail \in [Host -> [Host -> Int]] /\ 1 \in Int
  BY DEF TypeOK
<1>3. \A h, k \in Host :
        avail'[h][k] = avail[h][k] + (IF h = Src[m] /\ k = Dst[m] THEN 1 ELSE 0)
  BY <1>1, <1>2, <1>6, EntryMoves
<1>4. /\ self'[m] <= 1 /\ Silent(m)' = Silent(m) /\ Silent(m) \in Nat
      /\ Silent(m)' > 0 <=> state'[m] = "active" /\ ~announced'[m]
  BY <1>1, SilentTypes DEF SilentCovered, Silent
<1>5. Silent(m)' <= Silent(m) + 1
  BY <1>4
<1>. QED  BY <1>1, <1>3, <1>4, <1>5, <1>6, SilentStep

\* want_to_send prefers a message that has sent nothing.
LEMMA ChoiceSilent ==
  ASSUME TypeOK, SilentCovered, NEW s \in Host, NEW r \in Host, NEW m \in Choice(s, r),
         Silent(m) = 0, NEW x \in Between(s, r)
  PROVE  Silent(x) = 0
<1> DEFINE left(n) == Size[n] - sent[n]
           sendable == {n \in Msg : Src[n] = s /\ Dst[n] = r /\ state[n] = "active" /\ left(n) > 0}
           silent == {n \in sendable : ~announced[n]}
<1>1. SUFFICES ASSUME Silent(x) # 0 PROVE FALSE
  OBVIOUS
<1>2. x \in Msg /\ Src[x] = s /\ Dst[x] = r /\ Silent(x) > 0
  BY <1>1, SilentTypes DEF Between
<1>3. state[x] = "active" /\ ~announced[x] /\ sent[x] = 0
  BY <1>2 DEF SilentCovered, Silent
<1>4. x \in silent
  BY <1>2, <1>3, MessageTypes
<1>5. m \in silent
  BY <1>4 DEF Choice
<1>6. state[m] = "active" /\ ~announced[m] /\ m \in Msg
  BY <1>5
<1>. QED  BY <1>6 DEF SilentCovered

LEMMA SilentSendData ==
  ASSUME TypeOK, TypeOK', MessagesOk, SilentCovered, NEW s \in Host, NEW r \in Host,
         SendData(s, r)
  PROVE  SilentCovered'
<1>1. PICK m \in Choice(s, r) : /\ sent' = [sent EXCEPT ![m] = @ + 1]
                                /\ announced' = [announced EXCEPT ![m] = TRUE]
                                /\ net' = NetAfter({}, {Data(m, sent[m] + 1)})
  BY DEF SendData
<1>2. /\ m \in Msg /\ Src[m] = s /\ Dst[m] = r /\ Elsewhere(m)
      /\ avail' = [avail EXCEPT ![s][r] = @ - 1]
      /\ self' = self
  BY <1>1, ChoiceSendable, OkSendData DEF SendData
<1>3. announced'[m] /\ sent'[m] = sent[m] + 1 /\ sent[m] \in Nat
  BY <1>1, <1>2, MessageTypes, SMTT(30) DEF TypeOK
<1>4. self'[m] <= 1 /\ Silent(m)' = 0
  BY <1>2, <1>3 DEF SilentCovered, Silent
<1>5. avail \in [Host -> [Host -> Int]] /\ -1 \in Int
  BY DEF TypeOK
<1>6. avail' = [avail EXCEPT ![s][r] = @ + -1]
  BY <1>2, <1>5
<1>7. \A h, k \in Host :
        avail'[h][k] = avail[h][k] + (IF h = s /\ k = r THEN -1 ELSE 0)
  BY <1>5, <1>6, EntryMoves
<1>8. \/ Silent(m)' <= Silent(m) + -1
      \/ SumFunctionOnSet(SilentParts', Between(s, r)) <= avail'[s][r]
  <2>1. CASE Silent(m) = 0
    <3>1. \A x \in Between(s, r) : SilentParts'[x] = 0
      <4> SUFFICES ASSUME NEW x \in Between(s, r) PROVE SilentParts'[x] = 0
        OBVIOUS
      <4>1. x \in Msg /\ SilentParts'[x] = Silent(x)'
        BY BetweenFinite DEF SilentParts
      <4>2. x # m => Silent(x)' = 0
        BY <1>2, <2>1, <4>1, ChoiceSilent, PartsElsewhere
      <4>. QED  BY <1>4, <4>1, <4>2
    <3>2. SumFunctionOnSet(SilentParts', Between(s, r)) = 0
      BY <3>1, BetweenFinite, SumZero
    <3>3. avail'[s][r] \in Nat
      BY DEF TypeOK
    <3>. QED  BY <3>2, <3>3
  <2>2. CASE Silent(m) # 0
    BY <1>2, <1>4, <2>2, SilentTypes
  <2>. QED  BY <2>1, <2>2
<1>9. Silent(m)' > 0 <=> state'[m] = "active" /\ ~announced'[m]
  BY <1>3, <1>4
<1>10. /\ \A h, k \in Host :
            avail'[h][k] = avail[h][k] + (IF h = Src[m] /\ k = Dst[m] THEN -1 ELSE 0)
       /\ \/ Silent(m)' <= Silent(m) + -1
          \/ SumFunctionOnSet(SilentParts', Between(Src[m], Dst[m])) <= avail'[Src[m]][Dst[m]]
  BY <1>2, <1>7, <1>8
<1>11. m \in Msg /\ Elsewhere(m) /\ self'[m] <= 1
  BY <1>2, <1>4
<1>. QED  BY <1>5, <1>9, <1>10, <1>11, SilentStep

LEMMA SilentNext ==
  ASSUME TypeOK, TypeOK', RetransmissionQueue, Overtaken = {}, OnePacketUnsolicited,
         MessagesOk, SilentCovered, [Next]_vars
  PROVE  SilentCovered'
<1>1. ASSUME NEW s \in Host, SendOneRetransmission(s) PROVE SilentCovered'
  <2>1. UNCHANGED <<avail, self, sent, state, announced>>
    BY <1>1 DEF SendOneRetransmission
  <2>. QED  BY <1>1, <2>1, OkSendOneRetransmission, SilentStill
<1>2. ASSUME NEW p \in Packet, HandleResend(p) PROVE SilentCovered'
  <2>1. UNCHANGED <<avail, self, sent, state, announced>>
    BY <1>2 DEF HandleResend
  <2>. QED  BY <1>2, <2>1, OkHandleResend, SilentStill
<1>3. ASSUME NEW m \in Msg, \/ ReceiveRequest(m) \/ ReceiveBounced(m) \/ SendCredit(m)
                            \/ RemoveGranted(m) \/ CheckResendTimeouts(m)
      PROVE  SilentCovered'
  <2>1. UNCHANGED <<avail, self, sent, state, announced>>
    BY <1>3 DEF ReceiveRequest, ReceiveBounced, SendCredit, RemoveGranted, CheckResendTimeouts,
                senderVars
  <2>2. Elsewhere(m)
    BY <1>3, OkReceiveRequest, OkReceiveBounced, OkSendCredit, OkRemoveGranted,
       OkCheckResendTimeouts
  <2>. QED  BY <2>1, <2>2, SilentStill
<1>4. ASSUME NEW m \in Msg, NEW i \in Index(m), ReceiveData(m, i) \/ ReceiveAgain(m, i)
      PROVE  SilentCovered'
  <2>1. UNCHANGED <<avail, self, sent, state, announced>>
    BY <1>4 DEF ReceiveData, ReceiveAgain, senderVars
  <2>2. Elsewhere(m)
    BY <1>4, OkReceiveData, OkReceiveAgain
  <2>. QED  BY <2>1, <2>2, SilentStill
<1>5. ASSUME NEW p \in Packet, Lose(p) PROVE SilentCovered'
  <2>1. UNCHANGED <<avail, self, sent, state, announced>> /\ p.msg \in Msg
    BY <1>5, PacketForm DEF Lose, senderVars
  <2>. QED  BY <1>5, <2>1, OkLose, SilentStill
<1>6. ASSUME NEW m \in Msg, Bounce(m) PROVE SilentCovered'
  <2>1. UNCHANGED <<avail, self, sent, state, announced>>
    BY <1>6 DEF Bounce, senderVars
  <2>. QED  BY <1>6, <2>1, OkBounce, SilentStill
<1>7. CASE UNCHANGED vars
  BY <1>7 DEF vars, senderVars, SilentCovered, SilentParts, Silent
<1>. QED  BY <1>1, <1>2, <1>3, <1>4, <1>5, <1>6, <1>7, SilentActivateUnsolicited,
             SilentActivateScheduled, SilentCleanupFinished, SilentReceiveGrant, SilentSendData
          DEF Next, SenderStep, ReceiverStep, NetworkStep

LEMMA SilentInit ==
  ASSUME Init, TypeOK
  PROVE  SilentCovered
<1>1. ASSUME NEW m \in Msg
      PROVE  self[m] = 0 /\ Silent(m) = 0 /\ state[m] # "active" /\ SilentParts[m] = 0
  BY DEF Init, Silent, SilentParts
<1>2. \A s, r \in Host : SumFunctionOnSet(SilentParts, Between(s, r)) = 0 /\ avail[s][r] = 0
  BY <1>1, BetweenFinite, SumZero DEF Init
<1>. QED  BY <1>1, <1>2 DEF SilentCovered

\* Credit that is out with a sender is never negative when what its messages
\* allocated to themselves is covered.
LEMMA CreditOutPositive ==
  ASSUME TypeOK, MessagesOk, SilentCovered, NEW s \in Host, NEW r \in Host
  PROVE  avail[s][r] + SumFunctionOnSet(CreditParts, Between(s, r)) \in Nat
<1> DEFINE B == Between(s, r)
           both == [m \in Msg |-> CreditPart(m) + Silent(m)]
<1>1. IsFiniteSet(B) /\ B \subseteq Msg
  BY BetweenFinite
<1>2. ASSUME NEW m \in Msg
      PROVE  /\ CreditParts[m] \in Int /\ SilentParts[m] \in Int
             /\ both[m] = CreditParts[m] + SilentParts[m] /\ both[m] \in Nat
  <2>1. CreditParts[m] = CreditPart(m) /\ SilentParts[m] = Silent(m)
    BY DEF CreditParts, SilentParts
  <2>2. CreditPart(m) \in Int /\ Silent(m) \in Nat
    BY PartTypes, SilentTypes
  <2>3. CreditPart(m) + Silent(m) >= 0
    <3>1. passed[m] \subseteq 1 .. sent[m] /\ sent[m] \in Nat
      BY MessageTypes DEF MessagesOk, MessageOk, OriginalsFirst
    <3>2. Cardinality(passed[m]) <= sent[m]
      <4>1. IsFiniteSet(1 .. sent[m]) /\ Cardinality(1 .. sent[m]) = sent[m]
        BY <3>1, FS_Interval
      <4>. QED  BY <3>1, <4>1, FS_Subset
    <3>3. CASE Unheard(m) = 0
      BY <2>2, <3>2, <3>3, PartTerms DEF CreditPart
    <3>4. CASE Unheard(m) # 0
      <4>1. passed[m] = {} /\ Unheard(m) = self[m] /\ self[m] <= 1
        BY <3>4 DEF Unheard, SilentCovered
      <4>2. Cardinality(passed[m]) = 0
        BY <4>1, FS_EmptySet
      <4>3. CASE sent[m] = 0
        BY <4>1, <4>2, <4>3, PartTerms DEF CreditPart, Silent
      <4>4. CASE sent[m] # 0
        <5>1. sent[m] >= 1 /\ sent[m] \in Nat /\ Unheard(m) <= 1 /\ Unheard(m) \in Nat
          BY <4>1, <4>4, PartTerms
        <5>2. CreditPart(m) >= 0
          BY <4>2, <5>1, PartTerms DEF CreditPart
        <5>. QED  BY <2>2, <5>2
      <4>. QED  BY <4>3, <4>4
    <3>. QED  BY <3>3, <3>4
  <2>. QED  BY <2>1, <2>2, <2>3
<1>. HIDE DEF B, both
<1>3. SumFunctionOnSet(both, B)
        = SumFunctionOnSet(CreditParts, B) + SumFunctionOnSet(SilentParts, B)
  BY <1>1, <1>2, SumPlus
<1>4. SumFunctionOnSet(both, B) \in Nat
  BY <1>1, <1>2, SumNat
<1>5. SumFunctionOnSet(CreditParts, B) \in Int /\ SumFunctionOnSet(SilentParts, B) \in Int
  BY <1>1, <1>2, SumInt
<1>6. SumFunctionOnSet(SilentParts, B) <= avail[s][r] /\ avail[s][r] \in Nat
  BY AccountTypes DEF SilentCovered, B
<1>. QED  BY <1>3, <1>4, <1>5, <1>6 DEF B

\* A receiver's budget never rises above its maximum (the assertions of
\* r2p2-cc-hybrid.cc:1297 and :2162), however many messages share the account
\* of a sender, when a message that is not announced is one packet long.  With
\* longer ones it may: the arrival of a packet of another message, paid for
\* with credit the receiver has not heard of, replenishes the budget first.
THEOREM BudgetIsBounded ==
  ASSUME Overtaken = {}, OnePacketUnsolicited
  PROVE  Spec => []BudgetWithinMax
<1>1. Init => SilentCovered
  BY SilentInit, TypeInit
<1>2. /\ TypeOK /\ TypeOK' /\ RetransmissionQueue /\ MessagesOk
      /\ SilentCovered /\ [Next]_vars
      => SilentCovered'
  BY SilentNext
<1>3. TypeOK /\ MessagesOk /\ Ledger /\ SilentCovered => BudgetWithinMax
  <2> SUFFICES ASSUME TypeOK, MessagesOk, Ledger, SilentCovered, NEW r \in Host
               PROVE  budget[r] <= MaxBudget
    BY DEF BudgetWithinMax
  <2>1. \A s \in Host : Shortage(r)[s] \in Nat
    BY CreditOutPositive DEF Ledger, Shortage
  <2>2. SumFunctionOnSet(Shortage(r), Host) \in Nat
    BY <2>1, SumNat, MessageAssumption
  <2>3. MaxBudget - budget[r] = SumFunctionOnSet(Shortage(r), Host)
    BY DEF Ledger
  <2>. QED  BY <2>2, <2>3, AccountTypes, CreditAssumption
<1>. QED  BY <1>1, <1>2, <1>3, MessagesAlways, LedgerAlways, PTL DEF Spec
=============================================================================
