---------------------------- MODULE HelperTunnels ----------------------------
(***************************************************************************)
(* The helper's operations on tunnels (internal/helper), composed with the *)
(* tunnel manager they call.  Two pieces of state are the helper's own:    *)
(* connectMu, which serialises every connect and the user's disconnects,   *)
(* and activeCfgs, the configs the reconnect monitor rebuilds tunnels      *)
(* from.                                                                   *)
(*                                                                         *)
(* Which operation holds connectMu is the point of this module: the        *)
(* reconnect monitor, the loop watchdog and the automation engine tear     *)
(* tunnels down WITHOUT it.  FreeTeardown = FALSE leaves those callers     *)
(* out, and shows what the manager guarantees when every call is           *)
(* serialised.                                                             *)
(***************************************************************************)
EXTENDS TunnelManager

CONSTANTS
    NoCaller,
    FreeTeardown,  \* whether the callers without connectMu run
    RouteEvents,   \* whether the network changes (DarwinManager.reapply)
    MaxDeaths      \* bound: how often the helper process dies

ASSUME HelperAssumption ==
    /\ NoCaller \notin Callers
    /\ FreeTeardown \in BOOLEAN
    /\ RouteEvents \in BOOLEAN
    /\ MaxDeaths \in Nat

VARIABLES
    connectMu,   \* the goroutine holding Helper.connectMu
    activeCfgs,  \* the tunnels whose config is cached
    op,          \* the operation each goroutine is in
    target,      \* the tunnel it is about
    hadCfg,      \* doConnectHeld's prevCfgs: was a config cached before
    deaths       \* how often the process has died

opVars == <<op, target, hadCfg>>

helperVars == <<connectMu, activeCfgs, opVars, deaths>>
allVars == <<vars, helperVars>>

Connects == {"connect", "reconnect"}
LockedOps == Connects \cup {"disconnect"}
FreeOps == {"teardown", "autoDisconnect"}
Ops == LockedOps \cup FreeOps \cup {"none"}

-----------------------------------------------------------------------------
HelperInit ==
    /\ Init
    /\ connectMu = NoCaller
    /\ activeCfgs = {}
    /\ op = [p \in Callers |-> "none"]
    /\ target = [p \in Callers |-> NoTunnel]
    /\ hadCfg = [p \in Callers |-> FALSE]
    /\ deaths = 0

Enter(p, t, o) ==
    /\ helper = "running"
    /\ op[p] = "none"
    /\ op' = [op EXCEPT ![p] = o]
    /\ target' = [target EXCEPT ![p] = t]
    /\ UNCHANGED deaths

(* Mutant: operations are not serialised. *)
Lock_Mut(p) == connectMu' = p

Lock(p) == connectMu = NoCaller /\ connectMu' = p

(* handleConnect and automationConnect: doConnectHeld caches the config
   before Connect, so that the monitor sees it during Connect. *)
HandleConnect(p, t) ==
    /\ Enter(p, t, "connect")
    /\ Lock(p)
    /\ BeginConnect(p, t)
    /\ hadCfg' = [hadCfg EXCEPT ![p] = t \in activeCfgs]
    /\ activeCfgs' = activeCfgs \cup {t}

(* reconnectFn: a cached config is rebuilt, the cache is left alone. *)
Reconnect(p, t) ==
    /\ Enter(p, t, "reconnect")
    /\ Lock(p)
    /\ t \in activeCfgs
    /\ BeginConnect(p, t)
    /\ UNCHANGED <<activeCfgs, hadCfg>>

(* handleDisconnect. *)
HandleDisconnect(p, t) ==
    /\ Enter(p, t, "disconnect")
    /\ Lock(p)
    /\ CallDisconnect(p, t)
    /\ UNCHANGED <<activeCfgs, hadCfg>>

(* The reconnect monitor before a retry, and a tripped loop watchdog:
   DisconnectTunnel and nothing else. *)
Teardown(p, t) ==
    /\ FreeTeardown
    /\ Enter(p, t, "teardown")
    /\ CallDisconnect(p, t)
    /\ UNCHANGED <<connectMu, activeCfgs, hadCfg>>

(* disconnectAutoManaged, which forgets the config of a tunnel that is down
   already, too. *)
AutoDisconnect(p, t) ==
    /\ FreeTeardown
    /\ Enter(p, t, "autoDisconnect")
    /\ \/ CallDisconnect(p, t)
       \/ state[t] = "disconnected" /\ UNCHANGED vars
    /\ UNCHANGED <<connectMu, activeCfgs, hadCfg>>

ManagerStep(p) == CallerStep(p) /\ UNCHANGED helperVars

(* What the cache holds once the operation's manager call has returned:
   doConnectHeld rolls back on an error, handleDisconnect forgets the config
   on success only, disconnectAutoManaged whatever happened. *)
CfgsAfter(p) ==
    LET failed == ret[p] = "err"
        t == target[p]
    IN CASE op[p] = "connect" /\ failed /\ ~hadCfg[p] -> activeCfgs \ {t}
         [] op[p] = "disconnect" /\ ~failed -> activeCfgs \ {t}
         [] op[p] = "autoDisconnect" -> activeCfgs \ {t}
         [] OTHER -> activeCfgs

(* The manager call has returned; the operation finishes and unlocks. *)
Finish(p) ==
    /\ op[p] # "none"
    /\ pc[p] = "idle"
    /\ activeCfgs' = CfgsAfter(p)
    /\ connectMu' = IF connectMu = p THEN NoCaller ELSE connectMu
    /\ op' = [op EXCEPT ![p] = "none"]
    /\ target' = [target EXCEPT ![p] = NoTunnel]
    /\ hadCfg' = [hadCfg EXCEPT ![p] = FALSE]
    /\ UNCHANGED <<vars, deaths>>

(* The process dies with its locks and its cache. *)
HelperDies ==
    /\ deaths < MaxDeaths
    /\ deaths' = deaths + 1
    /\ Crash \/ ForceShutdown
    /\ connectMu' = NoCaller
    /\ activeCfgs' = {}
    /\ op' = [p \in Callers |-> "none"]
    /\ target' = [p \in Callers |-> NoTunnel]
    /\ hadCfg' = [p \in Callers |-> FALSE]

NetworkChange ==
    /\ RouteEvents
    /\ \E s \in Sessions : RouteEvent(s)
    /\ UNCHANGED helperVars

Launch == Recovery /\ UNCHANGED helperVars

Operation(p) ==
    \E t \in Tunnels :
        \/ HandleConnect(p, t) \/ Reconnect(p, t) \/ HandleDisconnect(p, t)
        \/ Teardown(p, t) \/ AutoDisconnect(p, t)

Progress(p) == ManagerStep(p) \/ Finish(p)

HelperNext ==
    \/ \E p \in Callers : Operation(p) \/ Progress(p)
    \/ NetworkChange
    \/ HelperDies
    \/ Launch

HelperSpec == HelperInit /\ [][HelperNext]_allVars

(* Every phase of a call is bounded (cmdTimeout) and goroutines are scheduled;
   nothing makes a user call again. *)
HelperFairness ==
    /\ \A p \in Callers : WF_allVars(Progress(p))
    /\ WF_allVars(Launch)

HelperFairSpec == HelperSpec /\ HelperFairness

(* Two steps after which the services may keep a dead tunnel's servers.  The
   process dies while the state file of a tunnel that joined another one holds
   the servers of that one for the user's own: recovery puts them back. *)
DiesWithOwnPast ==
    deaths' # deaths =>
        \A t \in Tunnels : journal[t].pre \subseteq {OriginalDNS, {}}

(* The servers that remain are set through a tunnel that has none itself: its
   DarwinManager saves them for the user's, restores them when it goes down
   last, and rewrites them while it is up. *)
ReappliesThroughItsOwn ==
    \A p \in Callers :
        rem'[p] # rem[p] /\ rem'[p] # NoSession =>
            \E t \in Connected : cur[t] = rem'[p] /\ DNS[t] # {}

(* The helper without them. *)
DNSNext ==
    \/ \E p \in Callers : Operation(p) \/ (Progress(p) /\ ReappliesThroughItsOwn)
    \/ NetworkChange
    \/ HelperDies /\ DiesWithOwnPast
    \/ Launch

DNSSpec == HelperInit /\ [][DNSNext]_allVars

-----------------------------------------------------------------------------
(* Properties *)

HelperTypeOK ==
    /\ TypeOK
    /\ connectMu \in Callers \cup {NoCaller}
    /\ activeCfgs \in SUBSET Tunnels
    /\ op \in [Callers -> Ops]
    /\ target \in [Callers -> Tunnels \cup {NoTunnel}]
    /\ hadCfg \in [Callers -> BOOLEAN]
    /\ deaths \in 0 .. MaxDeaths

(* Nothing is under way. *)
Quiet == helper = "running" /\ \A p \in Callers : op[p] = "none"

(* Two connected tunnels never both route 0.0.0.0/0.  The Manager checks only
   the tunnels that are connected already, so this rests on connectMu. *)
OneFullTunnel ==
    \A t, u \in Full : state[t] = "connected" /\ state[u] = "connected" => t = u

(* With no tunnel's DNS servers in force, the services carry what the user
   had, or DHCP's servers after a recovery without a snapshot. *)
NoTunnelDNSLeft ==
    Quiet /\ AllDNSServers = {} => sysDNS \in {OriginalDNS, {}}

(* With tunnels up, the services carry the union of their DNS servers. *)
UnionInForce ==
    Quiet /\ AllDNSServers # {} => sysDNS = AllDNSServers

(* globalPreModDNS is what the user had before the first tunnel, never a
   tunnel's own servers. *)
PreModIsOriginal ==
    \A d \in preMod : d \in {OriginalDNS, {}}

(* With tunnels up, the services carry the union of their DNS servers, in
   whichever order they came and went, or what a tunnel that the route monitor
   watches has set last (connect_phases.go, darwin.go reapply). *)
UnionUnlessReapplied ==
    \/ UnionInForce
    \/ \E t \in Tunnels :
          /\ state[t] = "connected" /\ sess[cur[t]].watch
          /\ sysDNS = sess[cur[t]].last

(* Every operation on a tunnel comes to its end, connectMu is released. *)
OperationsEnd ==
    \A p \in Callers : op[p] # "none" ~> op[p] = "none"

(* The helper and its manager implement the lifecycle of the Manager's
   comment, its liveness included. *)
Lifecycle ==
    INSTANCE TunnelLifecycle
        WITH Tunnels <- Tunnels, Full <- Full, state <- state
ImplementsLifecycle == Lifecycle!Spec

=============================================================================
