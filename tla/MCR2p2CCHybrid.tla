--------------------------- MODULE MCR2p2CCHybrid ---------------------------
(* One receiver rcv and two senders.  m1 and m2 go from s1, m3 from s2; a   *)
(* run takes some of them, and gives m1 and m2 their sizes.                  *)
EXTENDS R2p2CCHybrid

CONSTANTS s1, s2, rcv, m1, m2, m3, Size1, Size2

MCSrc == [m \in Msg |-> IF m = m3 THEN s2 ELSE s1]
MCDst == [m \in Msg |-> rcv]
MCSize == [m \in Msg |-> CASE m = m1 -> Size1 [] m = m2 -> Size2 [] OTHER -> 1]
=============================================================================
