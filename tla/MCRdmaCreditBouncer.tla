------------------------ MODULE MCRdmaCreditBouncer ------------------------
(* Two senders of one receiver: m1 and m2 go from s1, m3 from s2; a run     *)
(* takes some of them, and gives m1 and m2 their sizes.                     *)
EXTENDS RdmaCreditBouncer

CONSTANTS s1, s2, m1, m2, m3, Size1, Size2

MCSrc == [m \in Message |-> IF m = m3 THEN s2 ELSE s1]
MCSize == [m \in Message |-> IF m = m1 THEN Size1 ELSE Size2]
=============================================================================
