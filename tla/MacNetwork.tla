------------------------------ MODULE MacNetwork ------------------------------
(***************************************************************************)
(* A full tunnel on macOS: no socket there can be bound or marked, so a    *)
(* host route per peer endpoint, by the physical gateway, is all that      *)
(* keeps the encrypted packets out of the tunnel.  A route monitor (one    *)
(* `route -n monitor`, its reader, a debounce loop that calls reapply)     *)
(* moves those routes as the network changes, and writes the tunnel's DNS  *)
(* servers to whatever service has come up since.                          *)
(*                                                                         *)
(* The tunnel's operations, reapply and the network work step by step and  *)
(* interleave; the route table answers every change of its own with an     *)
(* event.  One address family; commands that remove or restore succeed.    *)
(* Crashes, and the DNS of several tunnels, are TunnelManager's.           *)
(***************************************************************************)
EXTENDS Naturals, Sequences, FiniteSets

CONSTANTS
    Gateways,
    None,
    Endpoints,
    Services,     \* network services; the first is there from the start
    MaxRestarts,  \* 5 in the code
    MaxEvents     \* bound: operations, failures, changes of the network

VARIABLES
    events,
    \* The machine.
    gateway,      \* the default gateway, or None
    bound,        \* bindIface is set: it wins over lastUpstreamIface, which a
                  \* reapply looks up anew
    usable,       \* that interface is up
    live,         \* the endpoint the peer is at
    hosts,        \* [Endpoints -> None, "hole" or a gateway]: host routes
    halves,       \* 0.0.0.0/1 and 128.0.0.0/1 lead into the tunnel
    dns,          \* [Services -> "absent", "own", "tunnel", "empty"]
    \* DarwinManager.
    todo,         \* the steps of the operation under way
    up,
    probed,       \* the gateway AddRoutes has found
    last,         \* lastIface set, lastEndpoints, lastGateway
    bypass,       \* bypassEndpoints
    saved,        \* [Services -> savedDNS, or None]
    preMod,       \* the same, as the process captured it at connect
    dnsActive,
    \* routeMonitor.
    monitor,      \* "off", "delayed", "running", "dead"
    restarts,
    kick,         \* an event waits, or is being settled
    loops,        \* [1..2 -> a debounce loop, with the reapply it runs]
    \* History.
    emptied,      \* services that had their own servers, and no longer do
    missed,       \* the network changed while nobody listened
    shifted,      \* the gateway changed between AddRoutes' two looks at it
    overlap       \* two reapplies ran at once, or Stop returned over one, and
                  \* what they did was not undone by a later disconnect

machine == <<gateway, bound, usable, live, hosts, halves, dns>>
routes == <<hosts, halves>>
network == <<gateway, bound, usable, live>>
manager == <<todo, up, probed, last, bypass, saved, preMod, dnsActive>>
state == <<last, bypass, saved, preMod, dnsActive>>
watch == <<monitor, restarts, kick, loops>>
history == <<emptied, missed, shifted, overlap>>
vars == <<events, machine, manager, watch, history>>

First == CHOOSE s \in Services : TRUE
NoServices == [s \in Services |-> None]
Forgotten == [set |-> FALSE, eps |-> {}, gw |-> None]
Gone == [at |-> "gone", eps |-> {}, old |-> {}, gw |-> None, prev |-> None, servers |-> FALSE]
Waiting == [Gone EXCEPT !.at = "waiting"]
Working == {l \in 1..2 : loops[l].at \notin {"gone", "waiting"}}

TypeOK ==
    /\ events \in 0..MaxEvents
    /\ gateway \in Gateways \cup {None} /\ probed \in Gateways \cup {None}
    /\ {bound, usable, halves, up, dnsActive, kick, missed, shifted, overlap} \subseteq BOOLEAN
    /\ live \in Endpoints
    /\ hosts \in [Endpoints -> Gateways \cup {None, "hole"}]
    /\ dns \in [Services -> {"absent", "own", "tunnel", "empty"}]
    /\ bypass \subseteq Endpoints /\ last.eps \subseteq Endpoints
    /\ saved \in [Services -> {None, "own", "tunnel", "empty"}]
    /\ preMod \in [Services -> {None, "own", "tunnel", "empty"}]
    /\ monitor \in {"off", "delayed", "running", "dead"}
    /\ restarts \in 0..(MaxRestarts + 1)
    /\ \A l \in 1..2 : loops[l].at \in {"gone", "waiting", "look", "delete", "add", "store", "dns"}
    /\ emptied \subseteq Services

Init ==
    /\ events = 0
    /\ gateway \in Gateways /\ bound \in BOOLEAN /\ usable = TRUE
    /\ live \in Endpoints
    /\ hosts = [e \in Endpoints |-> None] /\ halves = FALSE
    /\ dns = [s \in Services |-> IF s = First THEN "own" ELSE "absent"]
    /\ todo = <<>> /\ up = FALSE /\ probed = None
    /\ last = Forgotten /\ bypass = {} /\ saved = NoServices /\ preMod = NoServices
    /\ dnsActive = FALSE
    /\ monitor = "off" /\ restarts = 0 /\ kick = FALSE /\ loops = [l \in 1..2 |-> Gone]
    /\ emptied = {} /\ missed = FALSE /\ shifted = FALSE /\ overlap = FALSE

Event == events < MaxEvents /\ events' = events + 1
Step(name) == todo # <<>> /\ Head(todo) = name
Finish == todo' = Tail(todo)

(* trigger: an event of the route table, if the reader runs. *)
Trigger == kick' = (kick \/ monitor = "running")

-----------------------------------------------------------------------------
(* The network.  Every change is an event but the peer's move, which the   *)
(* table does not see.                                                     *)
NetworkChange ==
    /\ Event
    /\ \/ gateway' \in (Gateways \cup {None}) \ {gateway} /\ UNCHANGED <<usable, dns>>
       \/ bound /\ usable' = ~usable /\ UNCHANGED <<gateway, dns>>
       \/ \E s \in Services : /\ dns[s] = "absent"
                              /\ dns' = [dns EXCEPT ![s] = "own"]
                              /\ UNCHANGED <<gateway, usable>>
    /\ Trigger
    /\ missed' = (missed \/ ((up \/ todo # <<>>) /\ monitor # "running"))
    /\ UNCHANGED <<bound, live, routes, manager, monitor, restarts, loops,
                   emptied, shifted, overlap>>

Roam ==
    /\ Event
    /\ live' \in Endpoints \ {live}
    /\ UNCHANGED <<gateway, bound, usable, routes, dns, manager, watch, history>>

-----------------------------------------------------------------------------
(* Connect and disconnect. *)

ConnectSteps == <<"link", "probe", "bypass", "halves", "stash", "capture", "setdns", "up">>
Rollback == <<"unsubscribe", "remove", "cleanup">>
DisconnectSteps == <<"unsubscribe", "remove", "restore", "cleanup">>
Fails == Event /\ todo' = Rollback

(* Nothing of a tunnel is left: no endpoint has a route, every service has *)
(* what it had before any tunnel, or was emptied.                          *)
Present == {s \in Services : dns[s] # "absent"}
Untouched ==
    /\ \A e \in Endpoints : hosts[e] = None
    /\ \A s \in Present : dns[s] = IF s \in emptied THEN "empty" ELSE "own"

(* A new manager.  One whose reapply was not waited for is left to end     *)
(* before: its steps would be another manager's.                           *)
Connect ==
    /\ todo = <<>> /\ ~up
    /\ Working = {}
    /\ Event
    /\ todo' = ConnectSteps
    /\ missed' = FALSE /\ shifted' = FALSE /\ overlap' = (overlap /\ ~Untouched)
    /\ UNCHANGED <<machine, up, probed, state, watch, emptied>>

Disconnect ==
    /\ todo = <<>> /\ up
    /\ Event
    /\ up' = FALSE
    /\ todo' = DisconnectSteps
    /\ UNCHANGED <<machine, probed, state, watch, history>>

(* AssignAddress, SetMTU, BringUp. *)
Link ==
    /\ Step("link")
    /\ (Finish /\ UNCHANGED events) \/ Fails
    /\ UNCHANGED <<machine, up, probed, state, watch, history>>

(* AddRoutes: five seconds for a gateway to appear. *)
Probe ==
    /\ Step("probe")
    /\ probed' = gateway
    /\ IF gateway = None THEN Fails ELSE Finish /\ UNCHANGED events
    /\ UNCHANGED <<machine, up, state, watch, history>>

(* addBypassForIP; add, or change the route that is there. *)
Reachable(gw) == gw # None /\ (bound => usable)

Bypass ==
    /\ Step("bypass")
    /\ \/ /\ Reachable(probed)
          /\ Finish
          /\ hosts' = [hosts EXCEPT ![live] = probed]
          /\ bypass' = bypass \cup {live}
          /\ last' = [last EXCEPT !.eps = {live}]
          /\ UNCHANGED events
       \/ Fails /\ UNCHANGED <<hosts, bypass, last>>
    /\ UNCHANGED <<network, halves, dns, up, probed, saved, preMod, dnsActive, watch, history>>

Halves ==
    /\ Step("halves")
    /\ \/ Finish /\ halves' = TRUE /\ UNCHANGED events
       \/ Fails /\ UNCHANGED halves
    /\ UNCHANGED <<network, hosts, dns, up, probed, state, watch, history>>

(* The context for reapply, the gateway looked at again; then Subscribe.   *)
Stash ==
    /\ Step("stash")
    /\ Finish
    /\ last' = [last EXCEPT !.set = TRUE, !.gw = gateway]
    /\ shifted' = (gateway # probed)
    /\ monitor' = "delayed" /\ restarts' = 0
    /\ UNCHANGED <<events, machine, up, probed, bypass, saved, preMod, dnsActive,
                   kick, loops, emptied, missed, overlap>>

Captured == {s \in Services : saved[s] # None}
CaptureAll(ss) == [s \in Services |-> IF s \in ss THEN dns[s] ELSE saved[s]]

(* SetDNS: the services there are, and what they have; CapturePreModDNS.    *)
Capture ==
    /\ Step("capture")
    /\ Finish
    /\ saved' = CaptureAll(Present) /\ preMod' = saved'
    /\ UNCHANGED <<events, machine, up, probed, last, bypass, dnsActive, watch, history>>

(* applyDNSToServices, to those same services; then verifyDNS, which may   *)
(* not find the servers.                                                   *)
SetDNS ==
    /\ Step("setdns")
    /\ (Finish /\ UNCHANGED events) \/ Fails
    /\ dns' = [s \in Services |-> IF s \in Captured THEN "tunnel" ELSE dns[s]]
    /\ dnsActive' = TRUE
    /\ UNCHANGED <<network, routes, up, probed, last, bypass, saved, preMod, watch, history>>

Up ==
    /\ Step("up")
    /\ Finish
    /\ up' = TRUE
    /\ UNCHANGED <<events, machine, probed, state, watch, history>>

(* RemoveRoutes, to begin with: Unsubscribe, Stop, and the wait for the    *)
(* reapply under way, which is not waited for if the reader has died.      *)
Unsubscribe ==
    /\ Step("unsubscribe")
    /\ monitor = "running" => Working = {}
    /\ Finish
    /\ monitor' = "off" /\ kick' = FALSE
    /\ loops' = [l \in 1..2 |-> IF loops[l].at = "waiting" THEN Gone ELSE loops[l]]
    /\ overlap' = (overlap \/ Working # {})
    /\ UNCHANGED <<events, machine, up, probed, state, restarts, emptied, missed, shifted>>

Without(ip) == [e \in Endpoints |-> IF e \in ip THEN None ELSE hosts[e]]

(* deleteInterfaceRoutes, the host routes; the engine's close is part of   *)
(* it here, as nothing runs between that this module would see.            *)
Remove ==
    /\ Step("remove")
    /\ Finish
    /\ halves' = FALSE
    /\ hosts' = Without(bypass)
    /\ bypass' = {} /\ last' = Forgotten
    /\ UNCHANGED <<events, network, dns, up, probed, saved, preMod, dnsActive, watch, history>>

Original(s) == IF preMod[s] # None THEN preMod[s] ELSE IF saved[s] # None THEN saved[s] ELSE "empty"

(* RestoreDNSFromSnapshot. *)
Restore ==
    /\ Step("restore")
    /\ Finish
    /\ dns' = [s \in Services |-> IF s \in Present THEN Original(s) ELSE "absent"]
    /\ saved' = NoServices /\ dnsActive' = FALSE
    /\ emptied' = emptied \cup {s \in Present : dns[s] = "own" /\ Original(s) = "empty"}
    /\ UNCHANGED <<events, network, routes, up, probed, last, bypass, preMod, watch,
                   missed, shifted, overlap>>

(* Cleanup: RestoreDNS, by the manager's own snapshot; ClearPreModDNS.     *)
Cleanup ==
    /\ Step("cleanup")
    /\ Finish
    /\ dns' = [s \in Services |-> IF dnsActive /\ saved[s] # None THEN saved[s] ELSE dns[s]]
    /\ saved' = (IF dnsActive THEN NoServices ELSE saved)
    /\ dnsActive' = FALSE /\ preMod' = NoServices
    /\ hosts' = Without(bypass) /\ bypass' = {}
    /\ UNCHANGED <<events, network, halves, up, probed, last, watch, history>>

-----------------------------------------------------------------------------
(* routeMonitor. *)

(* StartDelayed's timer fires, after two seconds, or one. *)
Start ==
    /\ monitor = "delayed"
    /\ monitor' = "running" /\ kick' = FALSE
    /\ \E l \in 1..2 : /\ loops[l].at = "gone"
                       /\ loops' = [loops EXCEPT ![l] = Waiting]
    /\ UNCHANGED <<events, machine, manager, restarts, history>>

(* The subprocess dies: loop starts it anew, but not for ever.  Debounce   *)
(* loops that wait end; one in a reapply goes on, and on with the next     *)
(* start's channels if it comes to them late enough.  After a minute the   *)
(* count begins again.                                                     *)
Die ==
    /\ monitor = "running"
    /\ Event
    /\ restarts' \in {1, restarts + 1}
    /\ monitor' = IF restarts' <= MaxRestarts THEN "delayed" ELSE "dead"
    /\ missed' = (missed \/ kick)
    /\ kick' = FALSE
    /\ loops' = [l \in 1..2 |-> IF loops[l].at = "waiting" THEN Gone ELSE loops[l]]
    /\ UNCHANGED <<machine, manager, emptied, shifted, overlap>>

(* The burst has settled: reapply, its snapshot first.                     *)
Settle(l) ==
    /\ loops[l].at = "waiting"
    /\ kick /\ monitor = "running"
    /\ kick' = FALSE
    /\ loops' = [loops EXCEPT ![l] =
                    IF last.set
                    THEN [Gone EXCEPT !.at = "look", !.prev = last.gw, !.old = last.eps,
                                      !.servers = dnsActive]
                    ELSE Waiting]
    /\ overlap' = (overlap \/ Working # {})
    /\ UNCHANGED <<events, machine, manager, monitor, restarts, emptied, missed, shifted>>

Goto(l, where) == loops' = [loops EXCEPT ![l].at = where]

(* The peer's address now, the gateway now; anything new?                  *)
Look(l) ==
    /\ loops[l].at = "look"
    /\ loops' = [loops EXCEPT ![l].eps = {live}, ![l].gw = gateway,
                              ![l].at = IF gateway # loops[l].prev \/ {live} # loops[l].old
                                        THEN "delete" ELSE "dns"]
    /\ missed' = FALSE
    /\ UNCHANGED <<events, machine, manager, monitor, restarts, kick, emptied, shifted, overlap>>

Stale(l) == IF loops[l].gw # loops[l].prev THEN bypass ELSE bypass \ loops[l].eps

Delete(l) ==
    /\ loops[l].at = "delete"
    /\ Goto(l, "add")
    /\ bypass' = bypass \ Stale(l)
    /\ hosts' = Without(Stale(l))
    /\ Trigger
    /\ UNCHANGED <<events, network, halves, dns, todo, up, probed, last, saved, preMod,
                   dnsActive, monitor, restarts, history>>

Missing(l) ==
    IF loops[l].gw # loops[l].prev THEN loops[l].eps ELSE loops[l].eps \ loops[l].old

(* An endpoint without a gateway has no route. *)
Add_Mut(l) ==
    /\ loops[l].at = "add"
    /\ Goto(l, "store")
    /\ IF Reachable(loops[l].gw)
       THEN /\ hosts' = [e \in Endpoints |-> IF e \in Missing(l) THEN loops[l].gw ELSE hosts[e]]
            /\ bypass' = bypass \cup Missing(l)
       ELSE UNCHANGED <<hosts, bypass>>
    /\ Trigger
    /\ UNCHANGED <<events, network, halves, dns, todo, up, probed, last, saved, preMod,
                   dnsActive, monitor, restarts, history>>

(* addBypassForIP, or installBlackholeBypass if it refuses. *)
Add(l) ==
    /\ loops[l].at = "add"
    /\ Goto(l, "store")
    /\ hosts' = [e \in Endpoints |->
                   IF e \notin Missing(l) THEN hosts[e]
                   ELSE IF Reachable(loops[l].gw) THEN loops[l].gw
                   ELSE IF hosts[e] = None THEN "hole" ELSE hosts[e]]
    /\ bypass' = bypass \cup Missing(l)
    /\ Trigger
    /\ UNCHANGED <<events, network, halves, dns, todo, up, probed, last, saved, preMod,
                   dnsActive, monitor, restarts, history>>

Store(l) ==
    /\ loops[l].at = "store"
    /\ Goto(l, "dns")
    /\ last' = [last EXCEPT !.eps = loops[l].eps, !.gw = loops[l].gw]
    /\ shifted' = FALSE
    /\ UNCHANGED <<events, machine, todo, up, probed, bypass, saved, preMod, dnsActive,
                   monitor, restarts, kick, emptied, missed, overlap>>

(* captureNewServices. *)
NewServices == IF dnsActive THEN {s \in Present : saved[s] = None} ELSE {}

(* A debounce loop looks at the channels there are now. *)
EndOfReapply(l) ==
    loops' = [loops EXCEPT ![l] = IF monitor = "running" THEN Waiting ELSE Gone]

(* applyDNS, or applyDNSIfDrifted.  The servers were read at the start;    *)
(* before SetDNS has run there are none.                                   *)
ReapplyDNS(l) ==
    /\ loops[l].at = "dns"
    /\ EndOfReapply(l)
    /\ IF loops[l].servers
       THEN /\ saved' = CaptureAll(NewServices)
            /\ dns' = [s \in Services |-> IF s \in Present THEN "tunnel" ELSE dns[s]]
       ELSE UNCHANGED <<saved, dns>>
    /\ UNCHANGED <<events, network, routes, todo, up, probed, last, bypass, preMod, dnsActive,
                   monitor, restarts, kick, history>>

-----------------------------------------------------------------------------
Operate ==
    \/ Connect \/ Disconnect
    \/ Link \/ Probe \/ Bypass \/ Halves \/ Stash \/ Capture \/ SetDNS \/ Up
    \/ Unsubscribe \/ Remove \/ Restore \/ Cleanup

Monitor ==
    \/ Start \/ Die
    \/ \E l \in 1..2 :
         Settle(l) \/ Look(l) \/ Delete(l) \/ Add(l) \/ Store(l) \/ ReapplyDNS(l)

Next == NetworkChange \/ Roam \/ Operate \/ Monitor

Spec == Init /\ [][Next]_vars

-----------------------------------------------------------------------------
(* Properties. *)

(* While half of the default route leads into the tunnel, every endpoint   *)
(* the manager knows of has a host route that does not, but while a        *)
(* reapply replaces it, and unless a restart of the monitor let two run at *)
(* once; and when the last event has been looked at, the route is by the   *)
(* gateway there is, or goes nowhere if there is none.  Not so if a change *)
(* fell between AddRoutes' two looks or while nobody listened; and a bound *)
(* interface that comes back is not seen.                                  *)
BypassFollows ==
    /\ halves /\ Working = {} /\ ~overlap => \A e \in last.eps : hosts[e] # None
    /\ up /\ monitor = "running" /\ ~kick /\ Working = {} /\ ~(missed \/ shifted \/ overlap) =>
         \A e \in last.eps :
            \/ hosts[e] = gateway
            \/ hosts[e] = "hole" /\ (bound \/ gateway = None)

(* After a disconnect, or a connect that failed, no endpoint has a route   *)
(* left and no service the tunnel's servers; each has what it had before   *)
(* them, a service that came up meanwhile too (but one nobody asked until  *)
(* the end is emptied).  Not so if Stop returned over a reapply: what that *)
(* writes, the next connect takes for the user's.                          *)
NothingRemains ==
    todo = <<>> /\ ~up /\ ~overlap => Untouched

=============================================================================
