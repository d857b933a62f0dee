---------------------------- MODULE R2p2CCHybrid ----------------------------
(***************************************************************************)
(* The credit loop of class R2p2CCHybrid (ns-2): a receiver grants credit  *)
(* out of a global budget and a bucket per sender, a sender spends credit  *)
(* on data, switches bounce grants back to the receiver, and the receiver  *)
(* asks for lost data with RESEND.                                         *)
(*                                                                         *)
(* Sizes are counted in packets: one unit of credit (a grant) pays for one *)
(* packet of data, headers and padding included.  The three receiver       *)
(* policies and the policy across receivers differ in an order only, here  *)
(* any order; the timers become steps that may come at any time.           *)
(*                                                                         *)
(* The network is external.  It keeps no order between packets on          *)
(* different paths and may lose or bounce them within the bounds below.    *)
(***************************************************************************)
EXTENDS Integers, Sequences, FiniteSets, FiniteSetsExt

CONSTANTS
  Host, Msg,
  Src, Dst, Size,  \* hosts and packets of each message
  Workload,        \* the sets of messages the applications may submit
  UnsolThresh,     \* unsolicited_thresh_bytes_: no GRANT_REQ up to this size
  MaxBudget,       \* max_budget_bytes_
  MaxSrpb,         \* max_srpb_, ceiling of the bucket of one sender
  Windows,         \* values the ECN loops give SenderState::max_srpb_bytes_
  Lossy,           \* kinds of packets the network may lose
  MaxLoss,         \* bound: packets lost
  MaxBounce,       \* bound: grants bounced
  Overtaken        \* subset of {"request", "original"}: what may be overtaken

ASSUME MessageAssumption ==
  /\ IsFiniteSet(Host) /\ IsFiniteSet(Msg)
  /\ Src \in [Msg -> Host] /\ Dst \in [Msg -> Host]
  /\ Size \in [Msg -> Nat \ {0}]
  /\ Workload # {} /\ Workload \subseteq SUBSET Msg

ASSUME CreditAssumption ==
  /\ MaxBudget \in Nat \ {0} /\ MaxSrpb \in Nat \ {0}
  /\ Windows # {} /\ Windows \subseteq 0 .. MaxSrpb
  /\ UnsolThresh \in Nat

VARIABLES
  (* sender *)
  state,      \* "new" (not submitted), "active" in receivers_, "retired";
              \* "absent": never submitted
  announced,  \* sent_anouncement_
  self,       \* self_alloc_credit_data_
  sent,       \* packets of the message sent once: the frontier bytes_sent_
  ranges,     \* resend_ranges_, packet by packet
  pending,    \* resend_pending_ of a host
  avail,      \* avail_credit_bytes_ of a host for a receiver
  (* receiver *)
  inbound,    \* inbound_: InboundMsgState of a message, or NoState
  budget,     \* budget_bytes_
  srpb,       \* srpb_bytes_ of a host for a sender
  window,     \* max_srpb_bytes_ of a host for a sender
  passed,     \* packets handed to the r2p2 layer
  (* network *)
  net, losses, bounces,
  twice,      \* history: messages of which a packet was handed up again
  lostCredit, \* history: credit lost in GRANTs, by message
  unrevoked   \* history: bounced credit that revoked nothing, by message

senderVars == <<state, announced, self, sent, ranges, pending, avail>>
receiverVars == <<inbound, budget, srpb, window, passed, twice, unrevoked>>
networkVars == <<losses, bounces, lostCredit>>
vars == <<senderVars, receiverVars, net, networkVars>>

-----------------------------------------------------------------------------
(* Packets.  first and last are the packets of the message a packet carries *)
(* or, in a RESEND, asks for.  "again" is data with resend_bytes > 0.       *)

Pkt(kind, m, first, last) == [kind |-> kind, msg |-> m, first |-> first, last |-> last]

GrantReq(m) == Pkt("GRANT_REQ", m, 0, 0)
GrantPkt(m) == Pkt("GRANT", m, 0, 0)
Bounced(m) == Pkt("BOUNCED", m, 0, 0)
Resend(m, a, b) == Pkt("RESEND", m, a, b)
Data(m, i) == Pkt("DATA", m, i, i)
Again(m, i) == Pkt("AGAIN", m, i, i)

Index(m) == 1 .. Size[m]

Packet ==
  UNION {{GrantReq(m), GrantPkt(m), Bounced(m)} \cup
         {Data(m, i) : i \in Index(m)} \cup {Again(m, i) : i \in Index(m)} \cup
         {Resend(m, i, j) : i, j \in Index(m)} : m \in Msg}

\* The network after the packets of gone have left it and those of new joined.
NetAfter(gone, new) ==
  [p \in Packet |-> net[p] - (IF p \in gone THEN 1 ELSE 0)
                           + (IF p \in new THEN 1 ELSE 0)]

-----------------------------------------------------------------------------
(* Receiver state of a message: received_msg_info_, data_bytes_granted_,    *)
(* data_bytes_received_ and received_pkt_bitmap_ (all zeroes until the size *)
(* is known).  data_bytes_expected_ is Size[m] once info holds.             *)

NoState == [known |-> FALSE, info |-> FALSE, granted |-> 0, received |-> 0, bitmap |-> {}]
NewState == [NoState EXCEPT !.known = TRUE]

Finished(m, st) == st.info /\ st.received = Size[m] /\ st.granted = Size[m]

\* update_nw_state and update_sn_state: the ECN loops may give any window.
AdjustedWindow == Windows

\* update_sender_state: any packet from a host may move its window.
Observe(h, from) ==
  \E w \in AdjustedWindow : window' = [window EXCEPT ![h][from] = w]

-----------------------------------------------------------------------------
(* Sender. *)

Unsolicited(m) == Size[m] <= UnsolThresh

\* send_data, first loop: credit the message itself, one bucket at most per
\* receiver, and activate it.  Its data will announce it.
ActivateUnsolicited(m) ==
  LET room == Max({MaxSrpb - avail[Src[m]][Dst[m]], 1})
      credit == Min({Size[m], MaxSrpb, room})
  IN /\ state[m] = "new" /\ Unsolicited(m)
     /\ state' = [state EXCEPT ![m] = "active"]
     /\ self' = [self EXCEPT ![m] = credit]
     /\ avail' = [avail EXCEPT ![Src[m]][Dst[m]] = @ + credit]
     /\ UNCHANGED <<announced, sent, ranges, pending, receiverVars, net, networkVars>>

\* send_data, second loop: a scheduled message is announced by a GRANT_REQ.
ActivateScheduled(m) ==
  /\ state[m] = "new" /\ ~Unsolicited(m)
  /\ state' = [state EXCEPT ![m] = "active"]
  /\ announced' = [announced EXCEPT ![m] = TRUE]
  /\ net' = NetAfter({}, {GrantReq(m)})
  /\ UNCHANGED <<self, sent, ranges, pending, avail, receiverVars, networkVars>>

\* want_to_send: the message to r with the fewest packets left, unless one is
\* not announced yet; of those, the last in that order.
Choice(s, r) ==
  LET left(m) == Size[m] - sent[m]
      sendable == {m \in Msg : Src[m] = s /\ Dst[m] = r /\ state[m] = "active" /\ left(m) > 0}
      silent == {m \in sendable : ~announced[m]}
  IN IF silent # {} THEN {m \in silent : \A n \in silent : left(n) <= left(m)}
     ELSE {m \in sendable : \A n \in sendable : left(n) >= left(m)}

\* Mutant of SendData: the credit of the receiver is not checked.
SendDataMutant(s, r) ==
  /\ pending[s] = <<>>
  /\ \E m \in Choice(s, r) :
       /\ sent' = [sent EXCEPT ![m] = @ + 1]
       /\ announced' = [announced EXCEPT ![m] = TRUE]
       /\ net' = NetAfter({}, {Data(m, sent[m] + 1)})
  /\ avail' = [avail EXCEPT ![s][r] = @ - 1]
  /\ UNCHANGED <<state, self, ranges, pending, receiverVars, networkVars>>

\* send_data: retransmissions go first; credit for a receiver pays for any
\* message to it.
SendData(s, r) ==
  /\ pending[s] = <<>> /\ avail[s][r] >= 1
  /\ \E m \in Choice(s, r) :
       /\ sent' = [sent EXCEPT ![m] = @ + 1]
       /\ announced' = [announced EXCEPT ![m] = TRUE]
       /\ net' = NetAfter({}, {Data(m, sent[m] + 1)})
  /\ avail' = [avail EXCEPT ![s][r] = @ - 1]
  /\ UNCHANGED <<state, self, ranges, pending, receiverVars, networkVars>>

SendOneRetransmission(s) ==
  /\ pending[s] # <<>>
  /\ LET m == Head(pending[s])
     IN /\ net' = NetAfter({}, {Again(m, Head(ranges[m]))})
        /\ ranges' = [ranges EXCEPT ![m] = Tail(@)]
        /\ pending' = [pending EXCEPT ![s] = IF Len(ranges[m]) = 1 THEN Tail(@) ELSE @]
  /\ UNCHANGED <<state, announced, self, sent, avail, receiverVars, networkVars>>

\* received_credit for a grant: the credit goes to the receiver's account.
ReceiveGrant(m) ==
  /\ net[GrantPkt(m)] > 0
  /\ net' = NetAfter({GrantPkt(m)}, {})
  /\ avail' = [avail EXCEPT ![Src[m]][Dst[m]] = @ + 1]
  /\ Observe(Src[m], Dst[m])
  /\ UNCHANGED <<state, announced, self, sent, ranges, pending, inbound, budget, srpb,
                 passed, twice, unrevoked, networkVars>>

\* Mutant of HandleResend: a RESEND that reaches the frontier is ignored.
HandleResendMutant(p) ==
  LET m == p.msg
      again == [i \in 1 .. p.last - p.first + 1 |-> p.first + i - 1]
      queue == state[m] = "active" /\ p.last < sent[m]
  IN /\ p.kind = "RESEND" /\ net[p] > 0
     /\ net' = NetAfter({p}, {})
     /\ ranges' = IF queue THEN [ranges EXCEPT ![m] = @ \o again] ELSE ranges
     /\ pending' = IF queue /\ ranges[m] = <<>>
                   THEN [pending EXCEPT ![Src[m]] = Append(@, m)] ELSE pending
     /\ Observe(Src[m], Dst[m])
     /\ UNCHANGED <<state, announced, self, sent, avail, inbound, budget, srpb, passed,
                    twice, unrevoked, networkVars>>

\* handle_resend: retransmit what was sent, ignore what lies beyond.
HandleResend(p) ==
  LET m == p.msg
      upto == Min({p.last, sent[m]})
      again == [i \in 1 .. upto - p.first + 1 |-> p.first + i - 1]
      queue == state[m] = "active" /\ p.first <= sent[m]
  IN /\ p.kind = "RESEND" /\ net[p] > 0
     /\ net' = NetAfter({p}, {})
     /\ ranges' = IF queue THEN [ranges EXCEPT ![m] = @ \o again] ELSE ranges
     /\ pending' = IF queue /\ ranges[m] = <<>>
                   THEN [pending EXCEPT ![Src[m]] = Append(@, m)] ELSE pending
     /\ Observe(Src[m], Dst[m])
     /\ UNCHANGED <<state, announced, self, sent, avail, inbound, budget, srpb, passed,
                    twice, unrevoked, networkVars>>

\* cleanup_finished_messages, 1000 resend timeouts after the last packet was
\* sent.  Assumption: by then nothing of the message is left anywhere.
CleanupFinished(m) ==
  /\ state[m] = "active" /\ sent[m] = Size[m] /\ ranges[m] = <<>>
  /\ ~inbound[m].known /\ \A p \in Packet : p.msg = m => net[p] = 0
  /\ state' = [state EXCEPT ![m] = "retired"]
  /\ UNCHANGED <<announced, self, sent, ranges, pending, avail, receiverVars, net, networkVars>>

-----------------------------------------------------------------------------
(* Receiver. *)

\* recv of a GRANT_REQ.
ReceiveRequest(m) ==
  /\ net[GrantReq(m)] > 0
  /\ net' = NetAfter({GrantReq(m)}, {})
  /\ inbound' = [inbound EXCEPT ![m].known = TRUE, ![m].info = TRUE]
  /\ Observe(Dst[m], Src[m])
  /\ UNCHANGED <<senderVars, budget, srpb, passed, twice, unrevoked, networkVars>>

\* Mutant of ReceivedData: packets are counted without a look at the bitmap.
ReceivedDataMutant(m, i, st, debit) ==
  LET r == Dst[m]
      after == [st EXCEPT !.received = @ + 1, !.bitmap = @ \cup {i}]
  IN /\ inbound' = [inbound EXCEPT ![m] = IF Finished(m, after) THEN NoState ELSE after]
     /\ budget' = [budget EXCEPT ![r] = @ - debit + 1]
     /\ srpb' = [srpb EXCEPT ![r][Src[m]] = @ - debit + 1]
     /\ passed' = [passed EXCEPT ![m] = @ \cup {i}]
     /\ twice' = IF i \in passed[m] THEN twice \cup {m} ELSE twice

\* received_data for packet i of m, whose state is st before it: a packet the
\* bitmap holds is ignored, any other replenishes a unit of credit.  debit is
\* the unsolicited credit that the packet has announced.
ReceivedData(m, i, st, debit) ==
  LET r == Dst[m]
      after == [st EXCEPT !.received = @ + 1,
                          !.bitmap = IF st.info THEN @ \cup {i} ELSE @]
  IN IF i \in st.bitmap
     THEN /\ inbound' = [inbound EXCEPT ![m] = st]
          /\ UNCHANGED <<budget, srpb, passed, twice>>
     ELSE /\ inbound' = [inbound EXCEPT ![m] = IF Finished(m, after) THEN NoState ELSE after]
          /\ budget' = [budget EXCEPT ![r] = @ - debit + 1]
          /\ srpb' = [srpb EXCEPT ![r][Src[m]] = @ - debit + 1]
          /\ passed' = [passed EXCEPT ![m] = @ \cup {i}]
          /\ twice' = IF i \in passed[m] THEN twice \cup {m} ELSE twice

\* recv of data: creates the message state it does not find.  Every packet of
\* an unsolicited message announces it.
ReceiveData(m, i) ==
  LET st == [inbound[m] EXCEPT !.known = TRUE]
      fresh == Unsolicited(m) /\ ~st.info
  IN /\ net[Data(m, i)] > 0
     /\ "request" \in Overtaken \/ net[GrantReq(m)] = 0
     /\ net' = NetAfter({Data(m, i)}, {})
     /\ IF fresh THEN ReceivedData(m, i, [st EXCEPT !.info = TRUE, !.granted = self[m]], self[m])
                 ELSE ReceivedData(m, i, st, 0)
     /\ Observe(Dst[m], Src[m])
     /\ UNCHANGED <<senderVars, unrevoked, networkVars>>

\* Mutant of ReceiveAgain: a retransmission creates the state it does not find.
ReceiveAgainMutant(m, i) ==
  /\ net[Again(m, i)] > 0
  /\ "original" \in Overtaken \/ net[Data(m, i)] = 0
  /\ net' = NetAfter({Again(m, i)}, {})
  /\ ReceivedData(m, i, [inbound[m] EXCEPT !.known = TRUE], 0)
  /\ Observe(Dst[m], Src[m])
  /\ UNCHANGED <<senderVars, unrevoked, networkVars>>

\* recv of a retransmission: dropped when the message is unknown.
ReceiveAgain(m, i) ==
  /\ net[Again(m, i)] > 0
  /\ "original" \in Overtaken \/ net[Data(m, i)] = 0
  /\ net' = NetAfter({Again(m, i)}, {})
  /\ IF inbound[m].known THEN ReceivedData(m, i, inbound[m], 0)
     ELSE UNCHANGED <<inbound, budget, srpb, passed, twice>>
  /\ Observe(Dst[m], Src[m])
  /\ UNCHANGED <<senderVars, unrevoked, networkVars>>

\* Mutant of ReceiveBounced: the message keeps the grant it lost.
BouncedKeptMutant(m) ==
  LET r == Dst[m]
  IN /\ net[Bounced(m)] > 0
     /\ net' = NetAfter({Bounced(m)}, {})
     /\ budget' = [budget EXCEPT ![r] = @ + 1]
     /\ srpb' = [srpb EXCEPT ![r][Src[m]] = @ + 1]
     /\ Observe(r, Src[m])
     /\ UNCHANGED <<senderVars, inbound, passed, twice, unrevoked, networkVars>>

\* Mutant of ReceiveBounced: the bucket of the sender is not restored.
BouncedBucketMutant(m) ==
  LET r == Dst[m]
      st == inbound[m]
      revoke == IF st.known /\ st.granted > st.received THEN 1 ELSE 0
  IN /\ net[Bounced(m)] > 0
     /\ net' = NetAfter({Bounced(m)}, {})
     /\ inbound' = [inbound EXCEPT ![m].granted = @ - revoke]
     /\ budget' = [budget EXCEPT ![r] = @ + 1]
     /\ unrevoked' = [unrevoked EXCEPT ![m] = @ + 1 - revoke]
     /\ Observe(r, Src[m])
     /\ UNCHANGED <<senderVars, srpb, passed, twice, networkVars>>

\* received_credit for a grant that was bounced: the credit is taken back.
ReceiveBounced(m) ==
  LET r == Dst[m]
      st == inbound[m]
      revoke == IF st.known /\ st.granted > st.received THEN 1 ELSE 0
  IN /\ net[Bounced(m)] > 0
     /\ net' = NetAfter({Bounced(m)}, {})
     /\ inbound' = [inbound EXCEPT ![m].granted = @ - revoke]
     /\ budget' = [budget EXCEPT ![r] = @ + 1]
     /\ srpb' = [srpb EXCEPT ![r][Src[m]] = @ + 1]
     /\ unrevoked' = [unrevoked EXCEPT ![m] = @ + 1 - revoke]
     /\ Observe(r, Src[m])
     /\ UNCHANGED <<senderVars, passed, twice, networkVars>>

\* send_credit_policy_common: one more unit of credit for m.
SendCredit(m) ==
  LET r == Dst[m]
      s == Src[m]
  IN /\ inbound[m].info /\ inbound[m].granted < Size[m]
     /\ budget[r] >= 1 /\ srpb[r][s] >= 1 /\ MaxSrpb - srpb[r][s] <= window[r][s]
     /\ budget' = [budget EXCEPT ![r] = @ - 1]
     /\ srpb' = [srpb EXCEPT ![r][s] = @ - 1]
     /\ inbound' = [inbound EXCEPT ![m].granted = @ + 1]
     /\ net' = NetAfter({}, {GrantPkt(m)})
     /\ UNCHANGED <<senderVars, window, passed, twice, unrevoked, networkVars>>

\* send_credit_policy_common: a message received before it was all granted.
RemoveGranted(m) ==
  /\ Finished(m, inbound[m])
  /\ inbound' = [inbound EXCEPT ![m] = NoState]
  /\ UNCHANGED <<senderVars, budget, srpb, window, passed, twice, unrevoked, net, networkVars>>

\* check_resend_timeouts: a RESEND for every gap below the granted limit.
\* Bound: only when no earlier one, nor its retransmissions, are under way.
CheckResendTimeouts(m) ==
  LET st == inbound[m]
      missing == (1 .. st.granted) \ st.bitmap
      gaps == {g \in missing \X missing :
                 /\ g[1] <= g[2] /\ g[1] .. g[2] \subseteq missing
                 /\ g[1] - 1 \notin missing /\ g[2] + 1 \notin missing}
  IN /\ st.info /\ st.received < Size[m] /\ st.granted > st.received
     /\ ranges[m] = <<>>
     /\ \A p \in Packet : p.msg = m /\ p.kind \in {"RESEND", "AGAIN"} => net[p] = 0
     /\ net' = NetAfter({}, {Resend(m, g[1], g[2]) : g \in gaps})
     /\ UNCHANGED <<senderVars, receiverVars, networkVars>>

-----------------------------------------------------------------------------
(* Network (external). *)

\* A full queue drops a packet.
Lose(p) ==
  /\ p.kind \in Lossy /\ net[p] > 0 /\ losses < MaxLoss
  /\ net' = NetAfter({p}, {})
  /\ losses' = losses + 1
  /\ lostCredit' = IF p.kind \in {"GRANT", "BOUNCED"}
                   THEN [lostCredit EXCEPT ![p.msg] = @ + 1] ELSE lostCredit
  /\ UNCHANGED <<senderVars, receiverVars, bounces>>

\* DestHashClassifier::bounce_credit at a paused port.
Bounce(m) ==
  /\ net[GrantPkt(m)] > 0 /\ bounces < MaxBounce
  /\ net' = NetAfter({GrantPkt(m)}, {Bounced(m)})
  /\ bounces' = bounces + 1
  /\ UNCHANGED <<senderVars, receiverVars, losses, lostCredit>>

-----------------------------------------------------------------------------
Init ==
  /\ \E w \in Workload :
       state = [m \in Msg |-> IF m \in w THEN "new" ELSE "absent"]
  /\ announced = [m \in Msg |-> FALSE]
  /\ self = [m \in Msg |-> 0]
  /\ sent = [m \in Msg |-> 0]
  /\ ranges = [m \in Msg |-> <<>>]
  /\ pending = [h \in Host |-> <<>>]
  /\ avail = [h \in Host |-> [k \in Host |-> 0]]
  /\ inbound = [m \in Msg |-> NoState]
  /\ budget = [h \in Host |-> MaxBudget]
  /\ srpb = [h \in Host |-> [k \in Host |-> MaxSrpb]]
  /\ window = [h \in Host |-> [k \in Host |-> MaxSrpb]]
  /\ passed = [m \in Msg |-> {}]
  /\ net = [p \in Packet |-> 0]
  /\ losses = 0 /\ bounces = 0
  /\ twice = {}
  /\ lostCredit = [m \in Msg |-> 0] /\ unrevoked = [m \in Msg |-> 0]

SenderStep ==
  \/ \E m \in Msg : \/ ActivateUnsolicited(m) \/ ActivateScheduled(m)
                    \/ ReceiveGrant(m) \/ CleanupFinished(m)
  \/ \E s, r \in Host : SendData(s, r)
  \/ \E s \in Host : SendOneRetransmission(s)
  \/ \E p \in Packet : HandleResend(p)

ReceiverStep ==
  \E m \in Msg : \/ ReceiveRequest(m) \/ ReceiveBounced(m) \/ SendCredit(m)
                 \/ RemoveGranted(m) \/ CheckResendTimeouts(m)
                 \/ \E i \in Index(m) : ReceiveData(m, i) \/ ReceiveAgain(m, i)

NetworkStep ==
  \/ \E p \in Packet : Lose(p)
  \/ \E m \in Msg : Bounce(m)

Next == SenderStep \/ ReceiverStep \/ NetworkStep

Spec == Init /\ [][Next]_vars

\* The network delivers what it does not lose, the poll timer runs for ever
\* and applications submit their messages.
Fairness ==
  /\ \A m \in Msg :
       /\ WF_vars(ActivateUnsolicited(m)) /\ WF_vars(ActivateScheduled(m))
       /\ WF_vars(ReceiveGrant(m)) /\ WF_vars(ReceiveRequest(m)) /\ WF_vars(ReceiveBounced(m))
       /\ WF_vars(SendCredit(m)) /\ WF_vars(RemoveGranted(m))
       /\ WF_vars(CheckResendTimeouts(m)) /\ WF_vars(CleanupFinished(m))
       /\ \A i \in Index(m) : WF_vars(ReceiveData(m, i)) /\ WF_vars(ReceiveAgain(m, i))
  /\ \A s, r \in Host : WF_vars(SendData(s, r))
  /\ \A s \in Host : WF_vars(SendOneRetransmission(s))
  /\ \A p \in Packet : WF_vars(HandleResend(p))

FairSpec == Spec /\ Fairness

-----------------------------------------------------------------------------
(* Properties. *)

MsgState ==
  [known : BOOLEAN, info : BOOLEAN, granted : Nat, received : Nat, bitmap : SUBSET Nat]

\* What the fields of the message, sender and receiver state may hold.
TypeOK ==
  /\ state \in [Msg -> {"absent", "new", "active", "retired"}]
  /\ announced \in [Msg -> BOOLEAN]
  /\ self \in [Msg -> Nat]
  /\ sent \in [Msg -> Nat] /\ \A m \in Msg : sent[m] <= Size[m]
  /\ ranges \in [Msg -> Seq(Nat)]
  /\ pending \in [Host -> Seq(Msg)]
  /\ avail \in [Host -> [Host -> Nat]]
  /\ inbound \in [Msg -> MsgState]
  /\ budget \in [Host -> Int]
  /\ srpb \in [Host -> [Host -> Int]]
  /\ window \in [Host -> [Host -> Windows \cup {MaxSrpb}]]
  /\ passed \in [Msg -> SUBSET Nat] /\ twice \subseteq Msg
  /\ net \in [Packet -> Nat]
  /\ losses \in Nat /\ bounces \in Nat /\ lostCredit \in [Msg -> Nat]
  /\ unrevoked \in [Msg -> Nat]

Between(s, r) == {m \in Msg : Src[m] = s /\ Dst[m] = r}

\* Credit of r that is out with s: on its way, in s's account (without what s
\* allocated itself and r has not heard of), spent on data that has not
\* arrived, or lost with a GRANT.
CreditOut(s, r) ==
  LET part == [m \in Msg |->
                 net[GrantPkt(m)] + net[Bounced(m)] + lostCredit[m]
                 + sent[m] - Cardinality(passed[m])
                 - (IF inbound[m].info \/ passed[m] # {} THEN 0 ELSE self[m])]
  IN avail[s][r] + SumFunctionOnSet(part, Between(s, r))

\* Credit is neither made nor leaked: every bucket, and the global budget,
\* is short of exactly the credit that is out.
CreditConserved ==
  \A r \in Host :
    /\ \A s \in Host : MaxSrpb - srpb[r][s] = CreditOut(s, r)
    /\ MaxBudget - budget[r] = SumFunction([s \in Host |-> CreditOut(s, r)])

\* r2p2-cc-hybrid.cc:1297 and :2162, assert(budget_bytes_ <= max_budget_bytes_).
BudgetWithinMax == \A r \in Host : budget[r] <= MaxBudget

\* r2p2-cc-hybrid.cc:1299 and :2118, assert(data_bytes_received_ <=
\* data_bytes_expected_) once the size is known.
ReceivedWithinExpected ==
  \A m \in Msg : inbound[m].info => inbound[m].received <= Size[m]

\* A message whose state the receiver has dropped was handed to the r2p2 layer
\* whole, and no packet of any message is handed up twice, whatever copies
\* retransmission has made.
DeliveredExactlyOnce ==
  /\ twice = {}
  /\ \A m \in Msg : ~inbound[m].known /\ passed[m] # {} => passed[m] = Index(m)

\* Credit for every packet a sender still has to send is in its account, on
\* its way, about to be granted again, or was lost with a packet or a bounce
\* that revoked nothing.  A packet without it is never sent: handle_resend
\* ignores what lies beyond the frontier and the receiver grants no more.
NoCreditDebt ==
  \A s, r \in Host :
    LET idle(m) == state[m] \in {"absent", "new"}
        unsent == [m \in Msg |-> IF idle(m) THEN 0 ELSE Size[m] - sent[m]]
        granted(m) == IF inbound[m].known THEN inbound[m].granted
                      ELSE IF passed[m] # {} THEN Size[m] ELSE self[m]
        coming == [m \in Msg |->
                     net[GrantPkt(m)] + net[Bounced(m)] + lostCredit[m] + unrevoked[m]
                     + (IF idle(m) THEN 0 ELSE Size[m] - granted(m))]
    IN SumFunctionOnSet(unsent, Between(s, r))
         <= avail[s][r] + SumFunctionOnSet(coming, Between(s, r))

\* A message that has been submitted is delivered in the end, although its
\* data is lost and its credit bounced.
Delivered ==
  \A m \in Msg : state[m] = "active" ~> passed[m] = Index(m)
=============================================================================
