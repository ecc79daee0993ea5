---------------------------- MODULE WindowsNetwork ----------------------------
(***************************************************************************)
(* How the encrypted packets of a full tunnel stay out of the tunnel on    *)
(* Windows: a host route per endpoint on the physical adapter, put in      *)
(* before the two halves of the default route and taken out after them,    *)
(* and the UDP socket pinned to the adapter of the best default route,     *)
(* which a monitor follows as the network changes.                         *)
(*                                                                         *)
(* The tunnel's manager works step by step, a row of the table or a        *)
(* command at a time; a step of a connect may fail and the process may die *)
(* between any two.  The monitor's evaluations, which the debounce timer   *)
(* and the burst escape start, and its start-up poll run beside it.  IPv6  *)
(* is there or not, and then on the adapter IPv4 is on.  Rows are deleted  *)
(* and sockets bound without fail.                                         *)
(***************************************************************************)
EXTENDS Naturals, Sequences, FiniteSets

CONSTANTS
    Adapters,
    None,         \* no adapter
    Endpoints4,   \* the peers' addresses
    Endpoints6,
    MaxEvents     \* bound: operations, network changes, failures, crashes

VARIABLES
    events,
    \* The machine.
    six,          \* the network has IPv6
    underlay,     \* the adapter of the best default route, or None
    ups,          \* the adapters that are up
    rows,         \* host routes on physical adapters: <<endpoint, adapter>>
    halves,       \* 0.0.0.0/1 and 128.0.0.0/1 into the tunnel: how many
    sock,         \* the adapter the socket is bound to; None drops all
    \* WindowsManager.
    want,         \* the tunnel's configured egress adapter, or None
    todo,         \* the steps of the operation under way
    up,           \* the tunnel is connected
    target,       \* what the connect under way has found: [on, eps]
    bypass,       \* bypassEndpoints with bypassPhysLuid: [on, eps]
    \* socketBindMonitor.
    mon,          \* registered
    pinned,       \* its adapter, or None
    last,         \* lastV4
    armed,        \* the debounce timer runs
    evals,        \* [1..2 -> what an evaluation has resolved]
    polling,      \* the start-up grace poll
    reported,     \* lostReported
    \* History.
    leaked,       \* rows of a connect that failed, or of a process that died
    lostRows,     \* an adapter took rows with it
    raced,        \* two evaluations have overlapped
    polled        \* the poll has bound the socket elsewhere than the monitor knows

machine == <<six, underlay, ups, rows, halves, sock>>
manager == <<want, todo, up, target, bypass>>
monitor == <<mon, pinned, last, armed, evals, polling, reported>>
history == <<leaked, lostRows, raced, polled>>
vars == <<events, machine, manager, monitor, history>>

Idle == [nic |-> None, why |-> FALSE, prev |-> None, on |-> FALSE]
Nothing == [on |-> None, eps |-> {}]
Peers == Endpoints4 \cup Endpoints6
Maybe == Adapters \cup {None}

TypeOK ==
    /\ events \in 0..MaxEvents
    /\ ups \subseteq Adapters /\ underlay \in ups \cup {None}
    /\ rows \subseteq Peers \X Adapters
    /\ halves \in 0..2
    /\ {sock, want, pinned, last} \subseteq Maybe
    /\ {six, up, mon, armed, polling, reported, lostRows, raced, polled} \subseteq BOOLEAN
    /\ target.on \in Maybe /\ bypass.on \in Maybe
    /\ target.eps \subseteq Peers /\ bypass.eps \subseteq Peers
    /\ \A e \in 1..2 : evals[e].nic \in Maybe
    /\ leaked \subseteq Peers \X Adapters

Init ==
    /\ events = 0
    /\ six \in BOOLEAN
    /\ ups = Adapters /\ underlay \in Adapters
    /\ rows = {} /\ halves = 0 /\ sock = None
    /\ want \in Maybe
    /\ todo = <<>> /\ up = FALSE /\ target = Nothing /\ bypass = Nothing
    /\ mon = FALSE /\ pinned = None /\ last = None /\ armed = FALSE
    /\ evals = [e \in 1..2 |-> Idle] /\ polling = FALSE /\ reported = FALSE
    /\ leaked = {} /\ lostRows = FALSE /\ raced = FALSE /\ polled = FALSE

Event == events < MaxEvents /\ events' = events + 1
Step(name) == todo # <<>> /\ Head(todo) = name
Finish == todo' = Tail(todo)

-----------------------------------------------------------------------------
(* The network changes; rows of an adapter that goes down may go with it.  *)
(* Registered callbacks start the debounce timer.                          *)
NetworkChange ==
    /\ Event
    /\ \E on \in SUBSET Adapters :
         /\ ups' = on
         /\ underlay' \in IF on = {} THEN {None} ELSE on
         /\ rows' \in {rows, {r \in rows : r[2] \in on}}
    /\ <<underlay', ups'>> # <<underlay, ups>>
    /\ lostRows' = (lostRows \/ rows' # rows)
    /\ armed' = (mon \/ armed)
    /\ UNCHANGED <<six, halves, sock, manager, mon, pinned, last, evals, polling,
                   reported, leaked, raced, polled>>

-----------------------------------------------------------------------------
(* addFullTunnelRoutes, RemoveRoutes. *)

(* The default route's halves before the endpoints' own routes. *)
ConnectSteps_Mut == <<"link", "detect", "half", "half", "bypass", "verify", "dns", "up">>

ConnectSteps == <<"link", "detect", "bypass", "verify", "half", "half", "dns", "up">>

(* RemoveRoutes, PreCloseAdapterCleanup and Close, Cleanup. *)
RemoveSteps == <<"rhalves", "rbypass", "close">>

Fails == Event /\ todo' = RemoveSteps

Connect ==
    /\ todo = <<>> /\ ~up
    /\ Event
    /\ todo' = ConnectSteps
    /\ UNCHANGED <<machine, want, up, target, bypass, monitor, history>>

(* DisconnectTunnel stops the monitor first; an evaluation that has begun  *)
(* goes on.                                                                *)
Disconnect ==
    /\ todo = <<>> /\ up
    /\ Event
    /\ todo' = RemoveSteps
    /\ up' = FALSE
    /\ mon' = FALSE /\ armed' = FALSE /\ polling' = FALSE
    /\ UNCHANGED <<machine, want, target, bypass, pinned, last, evals, reported,
                   history>>

(* The adapter's address, MTU and weak-host mode, by netsh. *)
Link ==
    /\ Step("link")
    /\ (Finish /\ UNCHANGED events) \/ Fails
    /\ UNCHANGED <<machine, want, up, target, bypass, monitor, history>>

(* getDefaultRouteFiltered, the tunnel's own adapter left out: the least   *)
(* metric wins.                                                            *)
DefaultRoute == underlay

(* The underlay is looked for, for five seconds at most.  A family that    *)
(* has none is left out; with no family left the connect fails.            *)
Detect ==
    /\ Step("detect")
    /\ IF DefaultRoute # None
       THEN /\ Finish
            /\ target' = [on |-> DefaultRoute, eps |-> Endpoints4 \cup (IF six THEN Endpoints6 ELSE {})]
            /\ UNCHANGED events
       ELSE Fails /\ UNCHANGED target
    /\ UNCHANGED <<machine, want, up, bypass, monitor, history>>

(* AddIpForwardRoute, endpoint after endpoint: a row that is there is fine. *)
Bypass ==
    /\ Step("bypass")
    /\ LET missing == {e \in target.eps : <<e, target.on>> \notin rows}
       IN  IF missing = {} THEN Finish /\ UNCHANGED <<events, rows, leaked>>
           ELSE \/ /\ \E e \in missing : rows' = rows \cup {<<e, target.on>>}
                   /\ UNCHANGED <<events, todo, leaked>>
                \/ /\ Fails
                   /\ leaked' = leaked \cup {r \in rows : r[2] = target.on}
                   /\ UNCHANGED rows
    /\ UNCHANGED <<six, underlay, ups, halves, sock, want, up, target, bypass,
                   monitor, lostRows, raced, polled>>

(* VerifyIpForwardRoutes, in one snapshot; then the list is kept.          *)
Verify ==
    /\ Step("verify")
    /\ IF \A e \in target.eps : <<e, target.on>> \in rows
       THEN Finish /\ bypass' = target /\ UNCHANGED <<events, leaked>>
       ELSE /\ Fails
            /\ leaked' = leaked \cup {r \in rows : r[2] = target.on}
            /\ UNCHANGED bypass
    /\ UNCHANGED <<machine, want, up, target, monitor, lostRows, raced, polled>>

Half ==
    /\ Step("half")
    /\ \/ Finish /\ halves' = halves + 1 /\ UNCHANGED events
       \/ Fails /\ UNCHANGED halves
    /\ UNCHANGED <<six, underlay, ups, rows, sock, want, up, target, bypass,
                   monitor, history>>

(* SetDNS, which touches the tunnel's adapter alone. *)
DNS ==
    /\ Step("dns")
    /\ (Finish /\ UNCHANGED events) \/ Fails
    /\ UNCHANGED <<machine, want, up, target, bypass, monitor, history>>

RemoveHalves ==
    /\ Step("rhalves")
    /\ Finish
    /\ halves' = 0
    /\ UNCHANGED <<events, six, underlay, ups, rows, sock, want, up, target,
                   bypass, monitor, history>>

(* The rows that were kept a list of, DeleteIpForwardRoute each. *)
Kept == bypass.eps \X {bypass.on}

RemoveBypass ==
    /\ Step("rbypass")
    /\ Finish
    /\ rows' = rows \ Kept
    /\ leaked' = leaked \ Kept
    /\ bypass' = Nothing
    /\ UNCHANGED <<events, six, underlay, ups, halves, sock, want, up, target,
                   monitor, lostRows, raced, polled>>

(* The adapter goes, and the socket; whatever evaluation still runs binds  *)
(* nothing any more.                                                       *)
Close ==
    /\ Step("close")
    /\ Finish
    /\ sock' = None
    /\ evals' = [e \in 1..2 |-> Idle]
    /\ UNCHANGED <<events, six, underlay, ups, rows, halves, want, up, target,
                   bypass, mon, pinned, last, armed, polling, reported, history>>

(* No file tells the next process of the rows on the physical adapter.     *)
Crash ==
    /\ todo # <<>> \/ up
    /\ Event
    /\ todo' = <<>> /\ up' = FALSE /\ target' = Nothing /\ bypass' = Nothing
    /\ halves' = 0 /\ sock' = None
    /\ mon' = FALSE /\ pinned' = None /\ last' = None /\ armed' = FALSE
    /\ evals' = [e \in 1..2 |-> Idle] /\ polling' = FALSE /\ reported' = FALSE
    /\ leaked' = rows
    /\ UNCHANGED <<six, underlay, ups, rows, want, lostRows, raced, polled>>

-----------------------------------------------------------------------------
(* socketBindMonitor. *)

(* findDefaultUnderlayByLUID, else findFallbackInterface: the best default *)
(* route's adapter, the tunnel's own and other VPNs' left out.             *)
Best == underlay

(* resolveEgressIfIndex: a pinned adapter is kept, dead or alive. *)
Resolved(p) == IF p # None THEN p ELSE Best
Why(p) == p # None /\ p \notin ups

(* noteLost: once per episode. *)
NoteLost(why) == reported' = why

(* Connect's end: callbacks are registered, then the first pin, with the   *)
(* manager's lock held.  The configured adapter is looked up by name: one  *)
(* that is down may still be found, and is pinned to and reported at once; *)
(* one that has gone is not pinned to.                                     *)
Up ==
    /\ Step("up")
    /\ Finish
    /\ up' = TRUE
    /\ mon' = TRUE /\ polling' = TRUE
    /\ pinned' \in IF want \in ups THEN {want} ELSE {want, None}
    /\ sock' = Resolved(pinned')
    /\ last' = Resolved(pinned')
    /\ NoteLost(Why(pinned'))
    /\ raced' = FALSE /\ polled' = FALSE
    /\ UNCHANGED <<events, six, underlay, ups, rows, halves, want, target,
                   bypass, armed, evals, leaked, lostRows>>

(* The start-up poll pins afresh and leaves lastV4 alone; it ends when     *)
(* both families have an adapter, or after 1.2 seconds.                    *)
Poll ==
    /\ mon /\ polling
    /\ sock' = Resolved(pinned)
    /\ NoteLost(Why(pinned))
    /\ polling' = (polling /\ ~(six /\ Resolved(pinned) # None))
    /\ polled' = (Resolved(pinned) # last)
    /\ UNCHANGED <<events, six, underlay, ups, rows, halves, manager, mon, pinned,
                   last, armed, evals, leaked, lostRows, raced>>

PollEnds ==
    /\ polling
    /\ polling' = FALSE
    /\ UNCHANGED <<events, machine, manager, mon, pinned, last, armed, evals,
                   reported, history>>

(* The timer has fired, or the burst has lasted two seconds: reevaluate    *)
(* reads lastV4 and looks for the adapter.                                 *)
Evaluate(e) ==
    /\ mon /\ armed
    /\ ~evals[e].on
    /\ armed' = FALSE
    /\ evals' = [evals EXCEPT ![e] = [nic |-> Resolved(pinned), why |-> Why(pinned),
                                      prev |-> last, on |-> TRUE]]
    /\ raced' = (raced \/ \E d \in 1..2 : evals[d].on)
    /\ UNCHANGED <<events, machine, manager, mon, pinned, last, polling,
                   reported, leaked, lostRows, polled>>

(* The adapter found is the one believed to be bound, whatever it was. *)
Bind_Mut(e) ==
    /\ evals[e].on
    /\ evals' = [evals EXCEPT ![e] = Idle]
    /\ last' = evals[e].nic
    /\ UNCHANGED <<sock, polled>>
    /\ NoteLost(evals[e].why)
    /\ UNCHANGED <<events, six, underlay, ups, rows, halves, manager, mon, pinned,
                   armed, polling, leaked, lostRows, raced>>

(* evaluateOneFamily: nothing to do if it is the one already bound.        *)
Bind(e) ==
    /\ evals[e].on
    /\ evals' = [evals EXCEPT ![e] = Idle]
    /\ last' = evals[e].nic
    /\ IF evals[e].nic = evals[e].prev
       THEN UNCHANGED <<sock, polled>>
       ELSE sock' = evals[e].nic /\ polled' = FALSE
    /\ NoteLost(evals[e].why)
    /\ UNCHANGED <<events, six, underlay, ups, rows, halves, manager, mon, pinned,
                   armed, polling, leaked, lostRows, raced>>

-----------------------------------------------------------------------------
Operate ==
    \/ Connect \/ Disconnect \/ Crash
    \/ Link \/ Detect \/ Bypass \/ Verify \/ Half \/ DNS \/ Up
    \/ RemoveHalves \/ RemoveBypass \/ Close

Watch == Poll \/ PollEnds \/ \E e \in 1..2 : Evaluate(e) \/ Bind(e)

Next == Operate \/ Watch \/ NetworkChange

Spec == Init /\ [][Next]_vars

-----------------------------------------------------------------------------
(* Properties. *)

(* Whenever half of the default route leads into the tunnel, every         *)
(* endpoint the network can reach has a route of its own that does not:    *)
(* in every state of a connect, a rollback and a disconnect.  And what is  *)
(* left of such routes between two operations is the connected tunnel's,   *)
(* or of a connect that failed half-way or a process that died.            *)
BypassHolds ==
    /\ halves > 0 /\ ~lostRows => target.eps \X {target.on} \subseteq rows
    /\ todo = <<>> => rows \subseteq Kept \cup leaked

(* When no change of the network is left to look at, the monitor has found *)
(* the adapter of the best default route, or the pinned one, the socket is *)
(* on it, and a pinned adapter that is gone has been reported and one that *)
(* is back is reported no more; unless two evaluations have overlapped, or *)
(* the start-up poll has bound the socket behind the monitor's back.       *)
PinFollows ==
    mon /\ ~armed /\ ~raced /\ ~(\E e \in 1..2 : evals[e].on) =>
        /\ last = Resolved(pinned)
        /\ polled \/ sock = last
        /\ reported = Why(pinned)

=============================================================================
