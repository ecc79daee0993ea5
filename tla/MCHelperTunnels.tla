--------------------------- MODULE MCHelperTunnels ---------------------------
(* HelperTunnels for TLC: two full tunnels; or three tunnels, two with DNS
   servers, one of these and the one without routing everything. *)
EXTENDS HelperTunnels, TLC

CONSTANTS p1, p2, s1, s2, s3

MCTunnels == {"a", "b"}
MCThree == {"a", "b", "u"}
MCCallers == {p1, p2}
MCSessions == {s1, s2, s3}
MCFull == {"a", "u"}
MCBothFull == {"a", "b"}
MCSessions2 == {s1, s2}
MCServers == {"home", "dnsA", "dnsB"}
MCDNS == [t \in MCThree |-> CASE t = "a" -> {"dnsA"}
                             [] t = "b" -> {"dnsB"}
                             [] t = "u" -> {}]
MCNoDNS == [t \in MCTunnels |-> {}]
MCOriginal == {"home"}
MCFileOrder == [t \in MCTunnels |-> IF t = "a" THEN 1 ELSE 2]
MCFileOrder3 == [t \in MCThree |-> CASE t = "a" -> 1 [] t = "b" -> 2 [] t = "u" -> 3]

(* Goroutines and sessions are interchangeable; tunnels are not. *)
MCSymmetry == Permutations(MCCallers) \cup Permutations(MCSessions)

=============================================================================
