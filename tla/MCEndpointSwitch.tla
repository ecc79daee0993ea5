--------------------------- MODULE MCEndpointSwitch ---------------------------
(* The endpoints for TLC, with three candidates in this order, and for proofs that
   have them beside the retries of ReconnectMonitor: the address in the .conf is
   called written here and the ticker ticked, since saved and due are the monitor's. *)
EXTENDS Integers, Sequences

CONSTANTS
    Candidates, Other, Latencies, Threshold, Margin, Sustained, Cooldown, TTL,
    Reconnects, Loop, None, MaxEvents,
    c1, c2, c3

ASSUME EndpointAssumption ==
    /\ Latencies \in SUBSET Nat /\ Threshold \in Nat \ {0} /\ Margin \in 1..99
    /\ Sustained \in Nat /\ Cooldown \in Nat \ {0} /\ TTL \in Nat \ {0}
    /\ Loop \notin Reconnects

MCCandidates == <<c1, c2, c3>>

VARIABLES
    events, net, mode, written, cached, choosing, apart, stamp, pending, blessed,
    trigger, ticked, choice, late, old, first, since

Endpoints == INSTANCE EndpointSwitch WITH saved <- written, due <- ticked

EndpointSpec == Endpoints!Spec

\* The properties, stated in EndpointSwitch.
NoChurn == Endpoints!NoChurn
DeadIsLeft == Endpoints!DeadIsLeft
WindowOpens == Endpoints!WindowOpens

=============================================================================
