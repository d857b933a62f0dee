--------------------------- MODULE CreditNetwork ---------------------------
(***************************************************************************)
(* What the hosts of ns-3 CreditBouncer may expect of the fabric between   *)
(* them: an unordered network that carries each packet to its host once,   *)
(* may turn a GRANT round on its way, and loses the kinds in Lossy only.   *)
(* This is the network RdmaCreditBouncer assumes; CreditBouncerSwitch is   *)
(* shown to implement it.                                                  *)
(***************************************************************************)
EXTENDS Integers

CONSTANTS
  Flow,    \* pairs of a receiver, which grants, and a sender
  SeqNo,   \* sequence numbers
  Lossy    \* kinds of packets that may be lost

VARIABLES
  granted,  \* grants of a flow that are out or were used
  avail,    \* credit the sender of a flow holds
  next,     \* scheduled packets it has sent
  net       \* number of copies of each packet under way

vars == <<granted, avail, next, net>>

Kind == {"GRANT", "BOUNCED", "GRANT_REQ", "RESEND", "SCHEDULED", "UNSCHEDULED"}
Packet == [kind : Kind, flow : Flow, seq : SeqNo]
Pkt(kind, f, n) == [kind |-> kind, flow |-> f, seq |-> n]

\* One packet of gone leaves the network and one of new joins it.
Change(gone, new) ==
  /\ \A p \in gone \cup new : net'[p] # net[p]
  /\ net' = [p \in Packet |-> net[p] - (IF p \in gone THEN 1 ELSE 0)
                                   + (IF p \in new THEN 1 ELSE 0)]

Init ==
  /\ granted = [f \in Flow |-> 0]
  /\ avail = [f \in Flow |-> 0]
  /\ next = [f \in Flow |-> 0]
  /\ net = [p \in Packet |-> 0]

SendGrant(f) ==
  /\ granted' = [granted EXCEPT ![f] = @ + 1]
  /\ UNCHANGED <<avail, next>>
  /\ \E n \in SeqNo : Change({}, {Pkt("GRANT", f, n)})

SendData(f) ==
  /\ avail[f] > 0
  /\ avail' = [avail EXCEPT ![f] = @ - 1]
  /\ next' = [next EXCEPT ![f] = @ + 1]
  /\ UNCHANGED granted
  /\ Change({}, {Pkt("SCHEDULED", f, next[f])})

SendOther ==
  /\ UNCHANGED <<granted, avail, next>>
  /\ \E p \in Packet : /\ p.kind \in {"GRANT_REQ", "RESEND", "UNSCHEDULED"}
                       /\ Change({}, {p})

\* A packet arrives: a grant is credit, a bounced one is to be granted again.
Deliver(p) ==
  /\ avail' = IF p.kind = "GRANT" THEN [avail EXCEPT ![p.flow] = @ + 1] ELSE avail
  /\ granted' = IF p.kind = "BOUNCED" THEN [granted EXCEPT ![p.flow] = @ - 1]
                ELSE granted
  /\ UNCHANGED next
  /\ net[p] > 0 /\ Change({p}, {})

Bounce(p) ==
  /\ p.kind = "GRANT" /\ net[p] > 0
  /\ UNCHANGED <<granted, avail, next>>
  /\ Change({p}, {Pkt("BOUNCED", p.flow, p.seq)})

Lose(p) ==
  /\ p.kind \in Lossy /\ net[p] > 0
  /\ UNCHANGED <<granted, avail, next>>
  /\ Change({p}, {})

Next ==
  \/ \E f \in Flow : SendGrant(f) \/ SendData(f)
  \/ SendOther
  \/ \E p \in Packet : Deliver(p) \/ Bounce(p) \/ Lose(p)

Spec == Init /\ [][Next]_vars
=============================================================================
