-------------------------- MODULE MCRdmaWorkloads ---------------------------
(* Two messages of one sender, chosen in the initial state: two that are    *)
(* scheduled, or one that is and one that grants itself what the pool has   *)
(* room for.  A grant may cover two chunks, m2 and m3 end in a chunk that   *)
(* is padded, and m2 may spend what m3 gave itself.                         *)
EXTENDS MCRdmaCreditBouncer

CONSTANT Size3

VARIABLE workload

OneSender == [m \in Message |-> s1]
ThreeSizes == [m \in Message |-> IF m = m3 THEN Size3 ELSE MCSize[m]]

Scheduled == {m1, m2}
Mixed == {m2, m3}

InitWorkload == Init /\ workload \in {Scheduled, Mixed}

\* Messages of the other workload never start.
NextWorkload ==
  /\ Next
  /\ \A m \in Message \ workload : state'[m] = "new"
  /\ UNCHANGED workload

SpecWorkload == InitWorkload /\ [][NextWorkload]_<<vars, workload>>

\* The accounts that are exact as long as no message spends credit which
\* another one gave itself; in Mixed they are not.

\* rdma-hw.h:132: the payload granted to a sender and not received is just
\* what is outstanding, however grants and chunks divide it.
OutstandingInScheduled ==
  workload = Scheduled => OutstandingIsGrantedNotReceived

\* A sender keeps the demand of all its messages, also where the grants of one
\* pay for another.
DemandInScheduled == workload = Scheduled => DemandIsAccounted
=============================================================================
