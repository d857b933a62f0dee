----------------------- MODULE MCCreditBouncerSwitch ------------------------
(* Receiver r behind switch b and sender s behind switch a or e.            *)
(* Diamond: c and d lie between b and a, and e beyond a.  Flow f is hashed  *)
(* by c; flow g, which is only there for an unscheduled packet, and signals *)
(* to r go by d.                                                            *)
(* Line: b and a are neighbours.                                            *)
EXTENDS CreditBouncerSwitch

CONSTANTS r, s, a, b, c, d, e, f, g

Both(x, y) == {<<x, y>>, <<y, x>>}
Diamond ==
  UNION {Both(r, b), Both(b, c), Both(b, d), Both(c, a), Both(d, a),
         Both(a, e), Both(e, s)}
Line == UNION {Both(r, b), Both(b, a), Both(a, s)}

DiamondTable ==
  [x \in Switch |->
    [h \in Host |->
       CASE x = b -> IF h = r THEN <<r>> ELSE <<c, d>>
         [] x = a -> IF h = s THEN <<e>> ELSE <<c, d>>
         [] x = e -> IF h = s THEN <<s>> ELSE <<a>>
         [] OTHER -> IF h = r THEN <<b>> ELSE <<a>>]]
LineTable ==
  [x \in Switch |->
    [h \in Host |-> IF x = b THEN IF h = r THEN <<r>> ELSE <<a>>
                    ELSE IF h = s THEN <<s>> ELSE <<b>>]]

MCRcv == [h \in Flow |-> r]
MCSnd == [h \in Flow |-> s]
MCChunks == [h \in Flow |-> IF h = f THEN 2 ELSE 0]
MCSymmetricHash == [h \in Flow |-> [n \in Seqs |-> IF h = f THEN 0 ELSE 1]]
MCEcmpHash == [x \in Switch |-> [h \in Host |-> IF h = r THEN 1 ELSE 0]]
MCMaxBuffer == [x \in Switch |-> IF x \in {c, d, e} THEN 10 ELSE 14]
LineBuffer == [x \in Switch |-> 10]
DiamondExtras == {{Pkt("GRANT_REQ", f, 0)}, {Pkt("UNSCHEDULED", g, 0)}}
LineExtras == {{Pkt("RESEND", f, 0)}, {Pkt("UNSCHEDULED", f, 0)}}

ASSUME RoutesAssumption == SymmetricRoutes
ASSUME PlacesAssumption == CreditPlaces
=============================================================================
