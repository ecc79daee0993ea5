----------------------------- MODULE MCReconnect -----------------------------
(* ReconnectMonitor for TLC: two tunnels, one that claims the DNS path. *)
EXTENDS ReconnectMonitor, TLC

CONSTANTS r1, r2, r3

MCTunnels == {"a", "b"}
MCOneTunnel == {"a"}
MCRetries == {r1, r2, r3}
MCRetries2 == {r1, r2}
MCClaims == {"a"}
MCNameOrder == [t \in MCTunnels |-> IF t = "a" THEN 1 ELSE 2]
MCNameOrder1 == [t \in MCOneTunnel |-> 1]

(* Retry ids are interchangeable. *)
MCSymmetry == Permutations(MCRetries)

=============================================================================
