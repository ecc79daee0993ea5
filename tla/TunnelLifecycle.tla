--------------------------- MODULE TunnelLifecycle ---------------------------
(***************************************************************************)
(* What the tunnel manager promises of every tunnel, whatever its phases   *)
(* do and whoever calls it: the diagram in the comment of tunnel.Manager,  *)
(*                                                                         *)
(*    disconnected --> connecting --> connected --> disconnecting -->      *)
(*                                                                         *)
(* one tunnel at a time, with a failed connect going back to disconnected, *)
(* with at most one full tunnel connected, and with every transition       *)
(* coming to an end.                                                       *)
(***************************************************************************)
CONSTANTS Tunnels, Full

VARIABLE state

Init == state = [t \in Tunnels |-> "disconnected"]

Move(t, from, to) ==
    /\ state[t] = from
    /\ state' = [state EXCEPT ![t] = to]

OtherFullConnected(t) ==
    t \in Full /\ \E u \in Full \ {t} : state[u] = "connected"

Connect(t) == Move(t, "disconnected", "connecting") /\ ~OtherFullConnected(t)
Connected(t) == Move(t, "connecting", "connected") /\ ~OtherFullConnected(t)
ConnectFailed(t) == Move(t, "connecting", "disconnected")
Disconnect(t) == Move(t, "connected", "disconnecting")
Disconnected(t) == Move(t, "disconnecting", "disconnected")

(* The helper process exits and takes every tunnel with it. *)
Exit == state' = [t \in Tunnels |-> "disconnected"]

(* What ends a transition. *)
Settle(t) == Connected(t) \/ ConnectFailed(t) \/ Disconnected(t)

Next ==
    \/ \E t \in Tunnels : Connect(t) \/ Disconnect(t) \/ Settle(t)
    \/ Exit

Spec == /\ Init
        /\ [][Next]_state
        /\ \A t \in Tunnels : WF_state(Settle(t))

=============================================================================
