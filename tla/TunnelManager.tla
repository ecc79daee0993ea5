---------------------------- MODULE TunnelManager ----------------------------
(***************************************************************************)
(* tunnel.Manager (internal/tunnel): the per-tunnel state machine, the     *)
(* phases of a connect and of a disconnect, the system DNS configuration   *)
(* they share, the crash journal and the recovery that reads it.           *)
(*                                                                         *)
(* Manager.mu is held for the entry map only.  Every slow phase runs with  *)
(* the lock released, so the calls of several goroutines interleave at the *)
(* steps below: one action per critical section of Manager.mu and per      *)
(* phase that touches state another goroutine (or a crash) can observe.    *)
(* Phases that touch only what the calling goroutine owns are merged with  *)
(* the step before them.                                                   *)
(*                                                                         *)
(* The network manager is the macOS one (internal/network/darwin.go): DNS  *)
(* is machine-wide, so the tunnels share it.                               *)
(***************************************************************************)
EXTENDS Naturals

CONSTANTS
    Tunnels,      \* the tunnel names
    NoTunnel,
    Callers,      \* the goroutines that call into the Manager
    Sessions,     \* ids of connect attempts: one NetworkManager and one Engine
    NoSession,
    Full,         \* the tunnels whose config routes 0.0.0.0/0
    Servers,      \* the DNS servers that occur
    DNS,          \* the DNS servers of each tunnel's config
    OriginalDNS,  \* what the user had configured before any tunnel
    FileOrder     \* the order os.ReadDir lists the journal files in

ASSUME ConstantsAssumption ==
    /\ NoSession \notin Sessions
    /\ NoTunnel \notin Tunnels
    /\ Full \subseteq Tunnels
    /\ DNS \in [Tunnels -> SUBSET Servers]
    /\ OriginalDNS \in SUBSET Servers
    /\ FileOrder \in [Tunnels -> Nat]
    /\ \A t, u \in Tunnels : FileOrder[t] = FileOrder[u] => t = u

VARIABLES
    \* The Manager, in memory.
    state,        \* entry.state; "disconnected" when the map has no entry
    cur,          \* entry.netMgr and entry.engine
    preMod,       \* globalPreModDNS: {} or {the captured configuration}
    sess,         \* per session: its engine, routes and DarwinManager fields
    \* The machine, which outlives the process.
    sysDNS,       \* the servers of the network services ({}: DHCP's)
    journal,      \* tunnel-states/<name>.json
    \* The goroutines.
    pc, tgt, ses, rem, val, snap, ret,
    \* The helper process.
    helper,       \* "running" or "recovering" (RecoverFromCrash at launch)
    todo,         \* journal files RecoverFromCrash has still to process
    cleared       \* fullySucceeded

manager == <<state, cur, preMod>>
machine == <<sysDNS, journal>>
locals  == <<tgt, ses, rem, val, snap, ret>>
process == <<helper, todo, cleared>>
vars    == <<manager, sess, machine, pc, locals, process>>

-----------------------------------------------------------------------------
(* Values *)

DNSValue == SUBSET Servers
Optional(S) == {{}} \cup {{x} : x \in S}
The(opt) == CHOOSE x \in opt : TRUE

Session == [engine : {"none", "created", "started", "closed"},
            guarded : BOOLEAN,   \* endpoint loop protection installed
            routes : BOOLEAN,    \* routes through the interface installed
            watch : BOOLEAN,     \* subscribed to the route monitor
            active : BOOLEAN,    \* dnsActive
            saved : DNSValue,    \* savedDNS
            last : DNSValue]     \* lastDNS

NewSession == [engine |-> "none", guarded |-> FALSE, routes |-> FALSE,
               watch |-> FALSE, active |-> FALSE, saved |-> {}, last |-> {}]

JournalFile == [present : BOOLEAN, pre : Optional(DNSValue)]
NoFile == [present |-> FALSE, pre |-> {}]

ConnectPCs == {"claimed", "engine", "up", "routed", "checkpointed", "snapped",
               "dnsset", "journaled", "rollback", "failed"}
DisconnectPCs == {"down", "unrouted", "closed", "last", "restore", "clear",
                  "others", "reapply", "finish"}

Connected == {t \in Tunnels : state[t] = "connected"}

(* AllDNSServers: the union over the connected tunnels' configs. *)
AllDNSServers == UNION {DNS[t] : t \in Connected}

(* A session id no entry and no goroutine refers to. *)
Unreferenced(s) ==
    /\ \A t \in Tunnels : cur[t] # s
    /\ \A p \in Callers : ses[p] # s /\ rem[p] # s

-----------------------------------------------------------------------------
Init ==
    /\ state = [t \in Tunnels |-> "disconnected"]
    /\ cur = [t \in Tunnels |-> NoSession]
    /\ preMod = {}
    /\ sess = [s \in Sessions |-> NewSession]
    /\ sysDNS = OriginalDNS
    /\ journal = [t \in Tunnels |-> NoFile]
    /\ pc = [p \in Callers |-> "idle"]
    /\ tgt = [p \in Callers |-> NoTunnel]
    /\ ses = [p \in Callers |-> NoSession]
    /\ rem = [p \in Callers |-> NoSession]
    /\ val = [p \in Callers |-> {}]
    /\ snap = [p \in Callers |-> {}]
    /\ ret = [p \in Callers |-> "ok"]
    /\ helper = "running"
    /\ todo = {}
    /\ cleared = {}

Goto(p, label) == pc' = [pc EXCEPT ![p] = label]

(* A call returns: its locals go out of scope. *)
Return(p, result) ==
    /\ Goto(p, "idle")
    /\ ret' = [ret EXCEPT ![p] = result]
    /\ ses' = [ses EXCEPT ![p] = NoSession]
    /\ rem' = [rem EXCEPT ![p] = NoSession]
    /\ val' = [val EXCEPT ![p] = {}]
    /\ snap' = [snap EXCEPT ![p] = {}]
    /\ tgt' = [tgt EXCEPT ![p] = NoTunnel]

RemoveEntry(t) ==
    /\ state' = [state EXCEPT ![t] = "disconnected"]
    /\ cur' = [cur EXCEPT ![t] = NoSession]

HasDevice(r) == r.engine \in {"created", "started"} \/ r.routes

(* A session that no entry and no goroutine refers to any more is garbage,
   unless it left something on the machine. *)
CollectSessions ==
    sess' = [s \in Sessions |->
                IF \/ HasDevice(sess[s])
                   \/ \E t \in Tunnels : cur'[t] = s
                   \/ \E q \in Callers : ses'[q] = s \/ rem'[q] = s
                THEN sess[s]
                ELSE NewSession]

-----------------------------------------------------------------------------
(* ConnectWithContext and connectPhases *)

(* Mutant: no conflict check. *)
FullTunnelConflict_Mut(t) == FALSE

FullTunnelConflict(t) ==
    t \in Full /\ \E u \in Full \ {t} : state[u] = "connected"

(* Claim the slot under the lock; a rejected call changes nothing. *)
BeginConnect(p, t) ==
    /\ pc[p] = "idle"
    /\ state[t] = "disconnected"
    /\ ~FullTunnelConflict(t)
    /\ \E s \in Sessions :
          /\ Unreferenced(s)
          /\ cur' = [cur EXCEPT ![t] = s]
          /\ ses' = [ses EXCEPT ![p] = s]
          /\ sess' = [sess EXCEPT ![s] = NewSession]
    /\ state' = [state EXCEPT ![t] = "connecting"]
    /\ tgt' = [tgt EXCEPT ![p] = t]
    /\ Goto(p, "claimed")
    /\ UNCHANGED <<preMod, machine, rem, val, snap, ret, process>>

(* The context is cancelled before the slow phases, or the engine cannot be
   created: there is nothing to roll back yet. *)
AbandonClaim(p) ==
    /\ pc[p] = "claimed"
    /\ Goto(p, "failed")
    /\ UNCHANGED <<manager, sess, machine, locals, process>>

CreateEngine(p) ==
    /\ pc[p] = "claimed"
    /\ sess' = [sess EXCEPT ![ses[p]].engine = "created"]
    /\ Goto(p, "engine")
    /\ UNCHANGED <<manager, machine, locals, process>>

(* MTU, address, interface up; loop protection BEFORE the device starts. *)
BringUp(p) ==
    /\ pc[p] = "engine"
    /\ sess' = [sess EXCEPT ![ses[p]].guarded = tgt[p] \in Full,
                            ![ses[p]].engine = "started"]
    /\ Goto(p, "up")
    /\ UNCHANGED <<manager, machine, locals, process>>

(* AddRoutes subscribes to the route monitor for full tunnels; lastDNS is
   still empty here, because SetDNS comes later. *)
AddRoutes(p) ==
    /\ pc[p] = "up"
    /\ sess' = [sess EXCEPT ![ses[p]].routes = TRUE,
                            ![ses[p]].watch = tgt[p] \in Full
                                              \/ sess[ses[p]].last # {}]
    /\ Goto(p, "routed")
    /\ UNCHANGED <<manager, machine, locals, process>>

(* Mutant: the second tunnel's servers replace the first one's. *)
Checkpoint_MutNoUnion(p) ==
    /\ pc[p] = "routed"
    /\ val' = [val EXCEPT ![p] = DNS[tgt[p]]]
    /\ journal' = [journal EXCEPT ![tgt[p]] = [present |-> TRUE, pre |-> {}]]
    /\ Goto(p, "checkpointed")
    /\ UNCHANGED <<manager, sess, sysDNS, tgt, ses, rem, snap, ret, process>>

(* Merge the DNS servers with those of the connected tunnels, then write the
   pre-DNS journal file, which has no PreModDNS yet. *)
Checkpoint(p) ==
    /\ pc[p] = "routed"
    /\ val' = [val EXCEPT ![p] =
                  IF DNS[tgt[p]] = {} THEN {}
                  ELSE DNS[tgt[p]] \cup AllDNSServers]
    /\ journal' = [journal EXCEPT ![tgt[p]] = [present |-> TRUE, pre |-> {}]]
    /\ Goto(p, "checkpointed")
    /\ UNCHANGED <<manager, sess, sysDNS, tgt, ses, rem, snap, ret, process>>

(* A phase fails or finds the context cancelled.  After the checkpoint only
   SetDNS can fail, and only for a config that has DNS servers. *)
FailPhase(p) ==
    /\ \/ pc[p] \in {"engine", "up", "routed"}
       \/ pc[p] = "checkpointed" /\ val[p] # {}
    /\ Goto(p, "rollback")
    /\ UNCHANGED <<manager, sess, machine, locals, process>>

(* SetDNS, first half: save what the services have now.  No-op without
   servers. *)
SnapshotDNS(p) ==
    /\ pc[p] = "checkpointed"
    /\ IF val[p] = {}
       THEN Goto(p, "dnsset") /\ UNCHANGED sess
       ELSE /\ Goto(p, "snapped")
            /\ sess' = [sess EXCEPT ![ses[p]].saved = sysDNS]
    /\ UNCHANGED <<manager, machine, locals, process>>

(* SetDNS, second half: push the servers to the services, then verify.  A
   failed verification leaves them pushed and rolls back. *)
ApplyDNS(p) ==
    /\ pc[p] = "snapped"
    /\ sysDNS' = val[p]
    /\ sess' = [sess EXCEPT ![ses[p]].active = TRUE, ![ses[p]].last = val[p]]
    /\ \/ Goto(p, "dnsset")
       \/ Goto(p, "rollback")
    /\ UNCHANGED <<manager, journal, locals, process>>

SavedDNSSnapshot(s) == IF sess[s].active THEN {sess[s].saved} ELSE {}

(* Mutant: every connect captures its own snapshot. *)
CaptureAndJournal_Mut(p) ==
    /\ pc[p] = "dnsset"
    /\ preMod' = SavedDNSSnapshot(ses[p])
    /\ journal' = [journal EXCEPT ![tgt[p]] =
                      [present |-> TRUE, pre |-> SavedDNSSnapshot(ses[p])]]
    /\ Goto(p, "journaled")
    /\ UNCHANGED <<state, cur, sess, sysDNS, locals, process>>

(* CapturePreModDNS (the first write wins), then the final journal file. *)
CaptureAndJournal(p) ==
    /\ pc[p] = "dnsset"
    /\ preMod' = IF preMod = {} THEN SavedDNSSnapshot(ses[p]) ELSE preMod
    /\ journal' = [journal EXCEPT ![tgt[p]] =
                      [present |-> TRUE, pre |-> SavedDNSSnapshot(ses[p])]]
    /\ Goto(p, "journaled")
    /\ UNCHANGED <<state, cur, sess, sysDNS, locals, process>>

(* Commit under the lock.  When the entry is no longer this call's, the code
   discards the engine and returns ErrStateCorrupt: "raced", which
   Ownership shows cannot happen. *)
CommitConnect(p) ==
    /\ pc[p] = "journaled"
    /\ IF state[tgt[p]] = "connecting"
       THEN /\ state' = [state EXCEPT ![tgt[p]] = "connected"]
            /\ Return(p, "ok")
       ELSE /\ Goto(p, "raced")
            /\ UNCHANGED <<state, locals>>
    /\ UNCHANGED <<cur, preMod, sess, machine, process>>

(* DarwinManager.RemoveRoutes and RestoreDNS on a session's fields. *)
WithoutRoutes(r) ==
    [r EXCEPT !.routes = FALSE, !.watch = FALSE, !.last = {}]
WithoutDNS(r) ==
    [r EXCEPT !.active = FALSE, !.saved = {}, !.last = {}]

(* rollback: it removes what the phases installed, and leaves the journal. *)
Rollback(p) ==
    LET r == sess[ses[p]]
    IN /\ pc[p] = "rollback"
       /\ sysDNS' = IF r.active THEN r.saved ELSE sysDNS
       /\ sess' = [sess EXCEPT ![ses[p]] =
                      [WithoutDNS(WithoutRoutes(r)) EXCEPT
                          !.guarded = FALSE, !.engine = "closed"]]
       /\ Goto(p, "failed")
       /\ UNCHANGED <<manager, journal, locals, process>>

(* Mutant: a failed connect leaves its entry behind. *)
FailConnect_Mut(p) ==
    /\ pc[p] = "failed"
    /\ Return(p, "err")
    /\ UNCHANGED <<manager, sess, machine, process>>

FailConnect(p) ==
    /\ pc[p] = "failed"
    /\ RemoveEntry(tgt[p])
    /\ Return(p, "err")
    /\ CollectSessions
    /\ UNCHANGED <<preMod, machine, process>>

-----------------------------------------------------------------------------
(* DisconnectTunnel and disconnectPhases *)

CallDisconnect(p, t) ==
    /\ pc[p] = "idle"
    /\ state[t] # "disconnected"
    /\ tgt' = [tgt EXCEPT ![p] = t]
    /\ Goto(p, "waiting")
    /\ UNCHANGED <<manager, sess, machine, ses, rem, val, snap, ret, process>>

(* The poll finds the tunnel connected: claim its teardown. *)
BeginDisconnect(p) ==
    /\ pc[p] = "waiting"
    /\ state[tgt[p]] = "connected"
    /\ state' = [state EXCEPT ![tgt[p]] = "disconnecting"]
    /\ ses' = [ses EXCEPT ![p] = cur[tgt[p]]]
    /\ Goto(p, "down")
    /\ UNCHANGED <<cur, preMod, sess, machine, tgt, rem, val, snap, ret,
                   process>>

(* The entry went away while this call was waiting: success when a poll had
   seen the transition, ErrNotConnected when none had. *)
DisconnectedMeanwhile(p) ==
    /\ pc[p] = "waiting"
    /\ state[tgt[p]] = "disconnected"
    /\ Return(p, "ok") \/ Return(p, "err")
    /\ UNCHANGED <<manager, sess, machine, process>>

(* Mutant: no deadline. *)
DisconnectTimeout_Mut(p) == FALSE /\ pc[p] = "waiting" /\ UNCHANGED vars

(* ErrTimeout after 10 s of another call's transition. *)
DisconnectTimeout(p) ==
    /\ pc[p] = "waiting"
    /\ state[tgt[p]] \in {"connecting", "disconnecting"}
    /\ Return(p, "err")
    /\ UNCHANGED <<manager, sess, machine, process>>

(* Mutant: loop protection goes first. *)
RemoveRoutes_Mut(p) ==
    /\ pc[p] = "down"
    /\ sess' = [sess EXCEPT ![ses[p]].guarded = FALSE]
    /\ Goto(p, "unrouted")
    /\ UNCHANGED <<manager, machine, locals, process>>

RemoveRoutes(p) ==
    /\ pc[p] = "down"
    /\ sess' = [sess EXCEPT ![ses[p]] = WithoutRoutes(@)]
    /\ Goto(p, "unrouted")
    /\ UNCHANGED <<manager, machine, locals, process>>

(* Loop protection goes after the routes and before the engine. *)
CloseEngine(p) ==
    /\ pc[p] = "unrouted"
    /\ sess' = [sess EXCEPT ![ses[p]].guarded = FALSE,
                            ![ses[p]].engine = "closed"]
    /\ Goto(p, "closed")
    /\ UNCHANGED <<manager, machine, locals, process>>

(* remainingDNS and hasOtherTunnels. *)
ReadRemaining(p) ==
    /\ pc[p] = "closed"
    /\ val' = [val EXCEPT ![p] = AllDNSServers]
    /\ Goto(p, IF AllDNSServers = {} THEN "last" ELSE "others")
    /\ UNCHANGED <<manager, sess, machine, tgt, ses, rem, snap, ret, process>>

ReadPreMod(p) ==
    /\ pc[p] = "last"
    /\ snap' = [snap EXCEPT ![p] = preMod]
    /\ Goto(p, "restore")
    /\ UNCHANGED <<manager, sess, machine, tgt, ses, rem, val, ret, process>>

(* RestoreDNSFromSnapshot when a configuration was captured, then Cleanup,
   whose own RestoreDNS is a no-op unless dnsActive is still set. *)
RestoreLast(p) ==
    LET r == sess[ses[p]]
    IN /\ pc[p] = "restore"
       /\ sysDNS' = IF snap[p] # {} THEN The(snap[p])
                    ELSE IF r.active THEN r.saved
                    ELSE sysDNS
       /\ sess' = [sess EXCEPT ![ses[p]] = WithoutDNS(WithoutRoutes(r))]
       /\ Goto(p, "clear")
       /\ UNCHANGED <<manager, journal, locals, process>>

ClearPreMod(p) ==
    /\ pc[p] = "clear"
    /\ preMod' = {}
    /\ Goto(p, "finish")
    /\ UNCHANGED <<state, cur, sess, machine, locals, process>>

(* Some other connected tunnel's network manager, chosen by map order. *)
PickRemaining(p) ==
    /\ pc[p] = "others"
    /\ LET others == {cur[u] : u \in Connected \ {tgt[p]}}
       IN IF others = {}
          THEN Goto(p, "finish") /\ UNCHANGED rem
          ELSE /\ \E s \in others : rem' = [rem EXCEPT ![p] = s]
               /\ Goto(p, "reapply")
    /\ UNCHANGED <<manager, sess, machine, tgt, ses, val, snap, ret, process>>

(* SetDNS on that manager, with the servers read earlier. *)
ReapplyRemaining(p) ==
    LET r == sess[rem[p]]
    IN /\ pc[p] = "reapply"
       /\ sysDNS' = val[p]
       /\ sess' = [sess EXCEPT ![rem[p]] =
                      [r EXCEPT !.saved = IF r.active THEN r.saved ELSE sysDNS,
                                !.active = TRUE, !.last = val[p]]]
       /\ Goto(p, "finish")
       /\ UNCHANGED <<manager, journal, locals, process>>

(* ClearActiveState, then the entry goes under the lock. *)
FinishDisconnect(p) ==
    /\ pc[p] = "finish"
    /\ journal' = [journal EXCEPT ![tgt[p]] = NoFile]
    /\ RemoveEntry(tgt[p])
    /\ Return(p, "ok")
    /\ CollectSessions
    /\ UNCHANGED <<preMod, sysDNS, process>>

-----------------------------------------------------------------------------
(* The route monitor: reapply on a network change rewrites the DNS servers
   this session last set, when the services no longer carry them. *)
RouteEvent(s) ==
    /\ sess[s].watch
    /\ sess[s].last # {}
    /\ sysDNS # sess[s].last
    /\ sysDNS' = sess[s].last
    /\ UNCHANGED <<manager, sess, journal, pc, locals, process>>

-----------------------------------------------------------------------------
(* The process dies and is launched again: its memory is gone, the machine's
   state is not.  RecoverFromCrash runs before anything else. *)
LoseMemory ==
    /\ state' = [t \in Tunnels |-> "disconnected"]
    /\ cur' = [t \in Tunnels |-> NoSession]
    /\ preMod' = {}
    /\ sess' = [s \in Sessions |-> NewSession]
    /\ pc' = [p \in Callers |-> "idle"]
    /\ ses' = [p \in Callers |-> NoSession]
    /\ rem' = [p \in Callers |-> NoSession]
    /\ val' = [p \in Callers |-> {}]
    /\ snap' = [p \in Callers |-> {}]
    /\ ret' = [p \in Callers |-> "err"]
    /\ tgt' = [p \in Callers |-> NoTunnel]
    /\ helper' = "recovering"
    /\ todo' = {t \in Tunnels : journal[t].present}
    /\ cleared' = {}

Crash ==
    /\ LoseMemory
    /\ UNCHANGED machine

(* ForceShutdown exits without teardown, after RestoreDNSBestEffort: the
   snapshot is restored through any entry's network manager. *)
ForceShutdown ==
    /\ helper = "running"
    /\ sysDNS' = IF preMod # {} /\ \E t \in Tunnels : state[t] # "disconnected"
                 THEN The(preMod)
                 ELSE sysDNS
    /\ LoseMemory
    /\ UNCHANGED journal

(* Mutant: the DNS servers are left as the crash left them. *)
RecoverTunnel_Mut(t) ==
    /\ helper = "recovering"
    /\ t \in todo
    /\ \A u \in todo : FileOrder[t] <= FileOrder[u]
    /\ \/ cleared' = cleared \cup {t}
       \/ UNCHANGED cleared
    /\ todo' = todo \ {t}
    /\ UNCHANGED <<manager, sess, machine, pc, locals, helper>>

(* RecoverFromCrash on one journal file, in directory order.  It may fail to
   remove the routes; the file then stays for the next launch. *)
RecoverTunnel(t) ==
    /\ helper = "recovering"
    /\ t \in todo
    /\ \A u \in todo : FileOrder[t] <= FileOrder[u]
    /\ sysDNS' = IF journal[t].pre = {} THEN {} ELSE The(journal[t].pre)
    /\ \/ cleared' = cleared \cup {t}
       \/ UNCHANGED cleared
    /\ todo' = todo \ {t}
    /\ UNCHANGED <<manager, sess, journal, pc, locals, helper>>

FinishRecovery ==
    /\ helper = "recovering"
    /\ todo = {}
    /\ journal' = [t \in Tunnels |->
                      IF t \in cleared THEN NoFile ELSE journal[t]]
    /\ cleared' = {}
    /\ helper' = "running"
    /\ UNCHANGED <<manager, sess, sysDNS, pc, locals, todo>>

-----------------------------------------------------------------------------
ConnectStep(p) ==
    \/ AbandonClaim(p) \/ CreateEngine(p) \/ BringUp(p) \/ AddRoutes(p)
    \/ Checkpoint(p) \/ FailPhase(p) \/ SnapshotDNS(p) \/ ApplyDNS(p)
    \/ CaptureAndJournal(p) \/ CommitConnect(p)
    \/ Rollback(p) \/ FailConnect(p)

DisconnectStep(p) ==
    \/ BeginDisconnect(p) \/ DisconnectedMeanwhile(p) \/ DisconnectTimeout(p)
    \/ RemoveRoutes(p) \/ CloseEngine(p) \/ ReadRemaining(p)
    \/ ReadPreMod(p) \/ RestoreLast(p) \/ ClearPreMod(p)
    \/ PickRemaining(p) \/ ReapplyRemaining(p) \/ FinishDisconnect(p)

CallerStep(p) == ConnectStep(p) \/ DisconnectStep(p)

Call(p) ==
    /\ helper = "running"
    /\ \E t \in Tunnels : BeginConnect(p, t) \/ CallDisconnect(p, t)

Recovery == FinishRecovery \/ \E t \in Tunnels : RecoverTunnel(t)

Next ==
    \/ \E p \in Callers : Call(p) \/ CallerStep(p)
    \/ \E s \in Sessions : RouteEvent(s)
    \/ Crash
    \/ ForceShutdown
    \/ Recovery

Spec == Init /\ [][Next]_vars

(* A goroutine inside a call is scheduled, every phase is bounded by
   cmdTimeout, and RecoverFromCrash runs to its end. *)
Fairness ==
    /\ \A p \in Callers : WF_vars(CallerStep(p))
    /\ WF_vars(Recovery)

FairSpec == Spec /\ Fairness

-----------------------------------------------------------------------------
(* Properties *)

TypeOK ==
    /\ state \in [Tunnels -> {"disconnected", "connecting", "connected",
                              "disconnecting"}]
    /\ cur \in [Tunnels -> Sessions \cup {NoSession}]
    /\ preMod \in Optional(DNSValue)
    /\ sess \in [Sessions -> Session]
    /\ sysDNS \in DNSValue
    /\ journal \in [Tunnels -> JournalFile]
    /\ pc \in [Callers -> {"idle", "waiting"} \cup ConnectPCs \cup DisconnectPCs]
    /\ tgt \in [Callers -> Tunnels \cup {NoTunnel}]
    /\ ses \in [Callers -> Sessions \cup {NoSession}]
    /\ rem \in [Callers -> Sessions \cup {NoSession}]
    /\ val \in [Callers -> DNSValue]
    /\ snap \in [Callers -> Optional(DNSValue)]
    /\ ret \in [Callers -> {"ok", "err"}]
    /\ helper \in {"running", "recovering"}
    /\ todo \in SUBSET Tunnels
    /\ cleared \in SUBSET Tunnels

Owns(p, t) == tgt[p] = t /\ pc[p] \in ConnectPCs \cup DisconnectPCs

(* A transition belongs to exactly one call, from its claim to its commit:
   the branch of ConnectWithContext that finds its entry in another state
   (ErrStateCorrupt) is never taken, whoever disconnects meanwhile. *)
Ownership ==
    /\ \A p \in Callers :
          /\ pc[p] \in ConnectPCs =>
                /\ tgt[p] \in Tunnels
                /\ state[tgt[p]] = "connecting"
                /\ cur[tgt[p]] = ses[p]
                /\ ses[p] \in Sessions
          /\ pc[p] \in DisconnectPCs =>
                /\ tgt[p] \in Tunnels
                /\ state[tgt[p]] = "disconnecting"
                /\ cur[tgt[p]] = ses[p]
                /\ ses[p] \in Sessions
    /\ \A t \in Tunnels : \A p, q \in Callers :
          Owns(p, t) /\ Owns(q, t) => p = q
    /\ \A t \in Tunnels :
          state[t] \in {"connecting", "disconnecting"} =>
              \E p \in Callers : Owns(p, t)

(* A connected tunnel has its device and its routes, and no device or route
   outlives the entry it belongs to. *)
DeviceInv ==
    /\ \A t \in Connected :
          cur[t] \in Sessions /\ sess[cur[t]].engine = "started"
                              /\ sess[cur[t]].routes
    /\ \A s \in Sessions :
          HasDevice(sess[s]) => \E t \in Tunnels : cur[t] = s

(* While a full tunnel's routes are installed its endpoint is protected from
   looping into the tunnel, on the way up and on the way down. *)
LoopProtection ==
    \A t \in Full :
        cur[t] \in Sessions /\ sess[cur[t]].routes => sess[cur[t]].guarded

(* Whatever the phase that fails and whoever tears down: what is installed in
   the machine belongs to an entry, and never loops into itself. *)
ResourcesInv == DeviceInv /\ LoopProtection

=============================================================================
