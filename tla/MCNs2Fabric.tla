---------------------------- MODULE MCNs2Fabric -----------------------------
(* A receiver r behind ta and a sender s behind tb; a1 and a2 between them. *)
(* The hash of a direction and that of its reverse are unlike.              *)
EXTENDS Ns2Fabric

CONSTANTS r, s, ta, tb, a1, a2

MCTorOf == [h \in Host |-> IF h = r THEN ta ELSE tb]
MCUp == <<a1, a2>>
MCHash == [k \in Host \X Host \X Seqs |->
             IF k[1] = r THEN 1 ELSE 2]
=============================================================================
