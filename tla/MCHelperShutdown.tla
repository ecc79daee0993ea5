-------------------------- MODULE MCHelperShutdown --------------------------
(* The helper's life for TLC, and for proofs that have it beside the tunnels of
   HelperTunnels: a goroutine's place in armShutdownTimer is called steps here, since
   pc is where a call of the manager is. *)
EXTENDS Naturals

CONSTANTS Conns, NoConn, MayFail, MaxEvents

ASSUME ShutdownAssumption == NoConn \notin Conns /\ MayFail \in BOOLEAN

VARIABLES
    events, server, conn, steps, tunnel, timers, current, gui, client,
    failures, prompt

Grace == INSTANCE HelperShutdown WITH pc <- steps

GraceSpec == Grace!SerialSpec

\* The properties, stated in HelperShutdown.
ShutdownOnlyWhenIdle == Grace!ShutdownOnlyWhenIdle
Exits == Grace!Exits
GuiServed == Grace!GuiServed

=============================================================================
