--------------------------- MODULE MCTofinoFabric ---------------------------
(* A receiver r and a sender s behind two switches: r -- B -- A -- s.  A    *)
(* pauses on the link to B, B on the link to r.                             *)
EXTENDS TofinoFabric

CONSTANTS r, s, A, B, g1, g2, u1, u2, q1

Both(pairs) == pairs \cup {<<l[2], l[1]>> : l \in pairs}

MCLink == Both({<<r, B>>, <<B, A>>, <<A, s>>})
MCNextHop == [x \in {A, B} |-> [h \in {r, s} |->
                IF x = A THEN IF h = s THEN s ELSE B
                         ELSE IF h = r THEN r ELSE A]]
Grants == Token \cap {g1, g2}
MCKind == [t \in Token |-> IF t \in Grants THEN "grant"
                           ELSE IF t \in {u1, u2} THEN "data" ELSE "signal"]
MCFrom == [t \in Token |-> IF t \in Grants THEN r ELSE s]
MCTo == [t \in Token |-> IF t \in Grants THEN s ELSE r]
MCAmount == [t \in Token |-> 2]

\* This network meets the hypothesis of the theorems about credit.
ASSUME RoutesAssumption == SymmetricRoutes
=============================================================================
