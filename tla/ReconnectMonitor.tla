--------------------------- MODULE ReconnectMonitor ---------------------------
(***************************************************************************)
(* reconnect.Monitor (internal/reconnect) with the helper's callbacks: the *)
(* retries that tear a dead tunnel down and bring it up again, and the DNS *)
(* resolve path enforcement (port 53 dropped on every interface but one)   *)
(* they suspend meanwhile.                                                 *)
(*                                                                         *)
(* A retry is a goroutine with a context; m.retries holds the current one  *)
(* of each key, a tunnel or All (the empty name in the code: every         *)
(* tunnel).  One action per critical section of m.mu or call of a retry.   *)
(* Delays and attempt counts are left out: DefaultConfig retries for ever. *)
(*                                                                         *)
(* The tunnel manager's calls are atomic here; TunnelManager models their  *)
(* steps.                                                                  *)
(***************************************************************************)
EXTENDS Naturals, FiniteSets

CONSTANTS
    Tunnels,
    All,         \* the key of a retry of every tunnel
    Retries,     \* ids of retry goroutines
    NoRetry,
    Nobody,      \* no interface, no owner
    Gone,        \* an interface that no longer exists
    Claims,      \* the tunnels whose own DNSResolvePath switch is on; every
                 \* config has DNS servers
    NameOrder,   \* the order of the tunnels' names
    MaxDue       \* bound: the keys that wait for a trigger

Keys == Tunnels \cup {All}

ASSUME MonitorAssumption ==
    /\ All \notin Tunnels
    /\ NoRetry \notin Retries
    /\ Nobody \notin Tunnels
    /\ Gone \notin Tunnels \cup {Nobody}
    /\ Claims \subseteq Tunnels
    /\ MaxDue \in Nat
    /\ NameOrder \in [Tunnels -> Nat]
    /\ \A t, u \in Tunnels : NameOrder[t] = NameOrder[u] => t = u

VARIABLES
    \* The tunnel manager and the helper.
    up,          \* the tunnels that are connected
    activeCfgs,  \* the tunnels whose config is cached
    \* The monitor.
    running,
    due,         \* the keys a loop has found in need of a reconnect
    slot,        \* m.retries
    \* The retries.
    pc, key, cancelled,
    olds,        \* the retries a starting one has still to cancel
    tornDown,
    todo,        \* the tunnels reconnectFn has still to connect
    failed,      \* reconnectFn's lastErr
    \* DNS resolve path enforcement.
    master,      \* the settings' DNSResolvePath switch
    rules,       \* the tunnel whose interface alone carries DNS
    saved,       \* fwSavedDNSProtection, with servers to restore
    owner,       \* dnsPathOwner
    \* History.
    unwanted     \* the tunnels the user has asked down and not up since

tunnelVars == <<up, activeCfgs>>
slotVars == <<slot, cancelled>>
locals == <<key, olds, tornDown, todo, failed>>
firewall == <<rules, saved, owner>>
vars == <<tunnelVars, running, due, slotVars, pc, locals, master, firewall,
          unwanted>>

AttemptPCs == {"suspended", "proceed", "torn", "connecting", "failed"}

Goto(r, label) == pc' = [pc EXCEPT ![r] = label]
Live(r) == pc[r] # "idle"

-----------------------------------------------------------------------------
Init ==
    /\ up = {}
    /\ activeCfgs = {}
    /\ running = TRUE
    /\ due = {}
    /\ slot = [k \in Keys |-> NoRetry]
    /\ pc = [r \in Retries |-> "idle"]
    /\ key = [r \in Retries |-> All]
    /\ cancelled = [r \in Retries |-> FALSE]
    /\ olds = [r \in Retries |-> {}]
    /\ tornDown = [r \in Retries |-> FALSE]
    /\ todo = [r \in Retries |-> {}]
    /\ failed = [r \in Retries |-> FALSE]
    /\ master = TRUE
    /\ rules = Nobody
    /\ saved = FALSE
    /\ owner = Nobody
    /\ unwanted = {}

(* Cancelling the context of a retry that has ended changes nothing. *)
Cancel(retries) ==
    cancelled' = [r \in Retries |-> cancelled[r] \/ (Live(r) /\ r \in retries)]

Held(keys) == {slot[k] : k \in keys} \ {NoRetry}

(* CancelRetry and CancelRetryFor. *)
CancelRetries(keys) ==
    /\ Cancel(Held(keys))
    /\ slot' = [k \in Keys |-> IF k \in keys THEN NoRetry ELSE slot[k]]

(* Mutant: the slot is cleared whoever holds it. *)
ClearSlot_Mut(r) == slot' = [slot EXCEPT ![key[r]] = NoRetry]

(* The slot is cleared only if this retry is still the current one. *)
ClearSlot(r) ==
    slot' = IF slot[key[r]] = r THEN [slot EXCEPT ![key[r]] = NoRetry]
            ELSE slot

(* The goroutine returns: its locals go out of scope. *)
End(r) ==
    /\ Goto(r, "idle")
    /\ key' = [key EXCEPT ![r] = All]
    /\ cancelled' = [cancelled EXCEPT ![r] = FALSE]
    /\ olds' = [olds EXCEPT ![r] = {}]
    /\ tornDown' = [tornDown EXCEPT ![r] = FALSE]
    /\ todo' = [todo EXCEPT ![r] = {}]
    /\ failed' = [failed EXCEPT ![r] = FALSE]

(* What becomes of the rules when the interfaces of these tunnels go. *)
RulesWithout(down) == IF rules \in down THEN Gone ELSE rules

(* Status: the first connected tunnel by name. *)
Primary == CHOOSE t \in up : \A u \in up : NameOrder[t] <= NameOrder[u]

-----------------------------------------------------------------------------
(* DNS resolve path enforcement *)

(* Suspending saves whether rules are loaded and, from any cached config, the
   servers to load them with again; what was saved before is lost. *)
SuspendFirewall ==
    /\ saved' = (rules # Nobody /\ activeCfgs # {})
    /\ rules' = Nobody
    /\ UNCHANGED owner

(* Resuming loads the rules for the primary tunnel's interface; without one
   there is only a warning, and what was saved is forgotten all the same. *)
ResumeFirewall ==
    /\ saved' = FALSE
    /\ rules' = IF saved /\ up # {} THEN Primary ELSE rules
    /\ UNCHANGED owner

(* clearDNSPathIfOwner, for tunnels that have gone down. *)
ClearIfOwner(down) ==
    /\ owner' = IF owner \in down THEN Nobody ELSE owner
    /\ rules' = IF owner \in down THEN Nobody ELSE RulesWithout(down)
    /\ UNCHANGED saved

-----------------------------------------------------------------------------
(* Triggers *)

(* A loop finds a stale handshake, a better endpoint, or (All) that the
   system woke up or changed networks with a tunnel up. *)
Detect(k) ==
    /\ running
    /\ k \notin due /\ Cardinality(due) < MaxDue
    /\ IF k = All THEN up # {} ELSE k \in up
    /\ due' = due \cup {k}
    /\ UNCHANGED <<tunnelVars, running, slotVars, pc, locals, master, firewall,
                   unwanted>>

(* A retry id nothing refers to. *)
Unused(r) ==
    /\ ~Live(r)
    /\ \A k \in Keys : slot[k] # r
    /\ \A q \in Retries : r \notin olds[q]

(* triggerReconnectTunnel, under m.mu: take the old retries out of the map
   and put the new one in. *)
Trigger(k) ==
    /\ k \in due
    /\ due' = due \ {k}
    /\ LET replaced == IF k = All THEN Keys ELSE {k}
       IN \E r \in Retries :
             /\ Unused(r)
             /\ Goto(r, "starting")
             /\ key' = [key EXCEPT ![r] = k]
             /\ olds' = [olds EXCEPT ![r] = Held(replaced)]
             /\ slot' = [x \in Keys |->
                            IF x = k THEN r
                            ELSE IF x \in replaced THEN NoRetry
                            ELSE slot[x]]
    /\ UNCHANGED <<tunnelVars, running, cancelled, tornDown, todo, failed,
                   master, firewall, unwanted>>

(* The old ones are cancelled outside the lock, one after the other.  Each is
   waited for, but for 5 s only: it may run on. *)
CancelOld(r) ==
    /\ pc[r] = "starting"
    /\ \E o \in olds[r] :
          /\ Cancel({o})
          /\ olds' = [olds EXCEPT ![r] = @ \ {o}]
    /\ UNCHANGED <<tunnelVars, running, due, slot, pc, key, tornDown, todo,
                   failed, master, firewall, unwanted>>

(* stopCh is closed during such a wait: the new retry never starts. *)
AbandonStart(r) ==
    /\ pc[r] = "starting"
    /\ ~running
    /\ End(r)
    /\ UNCHANGED <<tunnelVars, running, due, slot, master, firewall, unwanted>>

-----------------------------------------------------------------------------
(* reconnectWithBackoff *)

(* The top of the loop: back off, or return when the monitor has stopped. *)
BackOff(r, torn) ==
    IF running
    THEN /\ Goto(r, "sleeping")
         /\ tornDown' = [tornDown EXCEPT ![r] = torn]
         /\ todo' = [todo EXCEPT ![r] = {}]
         /\ failed' = [failed EXCEPT ![r] = FALSE]
         /\ UNCHANGED <<key, cancelled, olds>>
    ELSE End(r)

Spawn(r) ==
    /\ pc[r] = "starting"
    /\ olds[r] = {}
    /\ BackOff(r, FALSE)
    /\ UNCHANGED <<tunnelVars, running, due, slot, master, firewall, unwanted>>

(* Mutant: the backoff is slept out whatever happens to the context. *)
Interrupted_Mut(r) ==
    /\ pc[r] = "sleeping"
    /\ ~running
    /\ End(r)
    /\ UNCHANGED <<tunnelVars, running, due, slot, master, firewall, unwanted>>

Interrupted(r) ==
    /\ pc[r] = "sleeping"
    /\ cancelled[r] \/ ~running
    /\ End(r)
    /\ UNCHANGED <<tunnelVars, running, due, slot, master, firewall, unwanted>>

(* The timer fires, the context is checked once more, the firewall goes. *)
TimerFires(r) ==
    /\ pc[r] = "sleeping"
    /\ ~cancelled[r]
    /\ SuspendFirewall
    /\ Goto(r, "suspended")
    /\ UNCHANGED <<tunnelVars, running, due, slotVars, locals, master,
                   unwanted>>

(* tunnelIsUp, after a teardown of this retry's own: the goal is met, the
   retry bows out.  It does not resume the firewall. *)
CheckUp(r) ==
    /\ pc[r] = "suspended"
    /\ IF tornDown[r] /\ (IF key[r] = All THEN up # {} ELSE key[r] \in up)
       THEN ClearSlot(r) /\ End(r)
       ELSE Goto(r, "proceed") /\ UNCHANGED <<slotVars, locals>>
    /\ UNCHANGED <<tunnelVars, running, due, master, firewall, unwanted>>

(* DisconnectTunnel, or DisconnectAll, which passes over a tunnel that does
   not go down.  A tunnel that is down already counts as torn down. *)
TearDown(r) ==
    /\ pc[r] = "proceed"
    /\ \E down \in SUBSET up :
          /\ key[r] # All => down = up \cap {key[r]}
          /\ up' = up \ down
          /\ rules' = RulesWithout(down)
    /\ tornDown' = [tornDown EXCEPT ![r] = TRUE]
    /\ Goto(r, "torn")
    /\ UNCHANGED <<activeCfgs, running, due, slotVars, key, olds, todo, failed,
                   master, saved, owner, unwanted>>

(* DisconnectTunnel times out on another call's transition. *)
TearDownFails(r) ==
    /\ pc[r] = "proceed"
    /\ key[r] # All
    /\ Goto(r, "failed")
    /\ UNCHANGED <<tunnelVars, running, due, slotVars, locals, master,
                   firewall, unwanted>>

(* The attempt has failed: the firewall is resumed until the next one. *)
AttemptFails(r) ==
    /\ pc[r] = "failed"
    /\ ResumeFirewall
    /\ BackOff(r, tornDown[r])
    /\ UNCHANGED <<tunnelVars, running, due, slot, master, unwanted>>

CancelledTorn(r) ==
    /\ pc[r] = "torn"
    /\ cancelled[r]
    /\ ResumeFirewall
    /\ End(r)
    /\ UNCHANGED <<tunnelVars, running, due, slot, master, unwanted>>

(* reconnectFn copies the cached configs.  The tunnels of "allowed" pass
   reconnectPolicyBlocked. *)
CallReconnect(r) ==
    /\ pc[r] = "torn"
    /\ ~cancelled[r]
    /\ LET wanted == IF key[r] = All THEN activeCfgs
                     ELSE activeCfgs \cap {key[r]}
       IN IF wanted = {}
          THEN Goto(r, "failed") /\ UNCHANGED todo
          ELSE \E allowed \in SUBSET wanted :
                  /\ key[r] # All => allowed = wanted
                  /\ todo' = [todo EXCEPT ![r] = allowed]
                  /\ Goto(r, "connecting")
    /\ UNCHANGED <<tunnelVars, running, due, slotVars, key, olds, tornDown,
                   failed, master, firewall, unwanted>>

(* ErrReconnectBlocked: a retry of one tunnel ends, without a resume. *)
Blocked(r) ==
    /\ pc[r] = "torn"
    /\ ~cancelled[r]
    /\ key[r] \in activeCfgs
    /\ ClearSlot(r)
    /\ End(r)
    /\ UNCHANGED <<tunnelVars, running, due, master, firewall, unwanted>>

(* One tunnel of reconnectFn's loop: connected, or not (it is up already, the
   connect fails), or its address is held by another adapter, which also
   cancels that tunnel's retry. *)
ConnectOne(r) ==
    /\ pc[r] = "connecting"
    /\ ~cancelled[r]
    /\ \E t \in todo[r] :
          /\ todo' = [todo EXCEPT ![r] = @ \ {t}]
          /\ \/ /\ t \notin up
                /\ up' = up \cup {t}
                /\ UNCHANGED <<failed, slotVars>>
             \/ /\ failed' = [failed EXCEPT ![r] = TRUE]
                /\ UNCHANGED <<up, slotVars>>
             \/ /\ t \notin up
                /\ failed' = [failed EXCEPT ![r] = TRUE]
                /\ CancelRetries({t})
                /\ UNCHANGED up
    /\ UNCHANGED <<activeCfgs, running, due, pc, key, olds, tornDown, master,
                   firewall, unwanted>>

(* reconnectFn returns an error: the context is cancelled between two
   tunnels, or one did not connect. *)
ReconnectFails(r) ==
    /\ pc[r] = "connecting"
    /\ \/ todo[r] = {} /\ failed[r]
       \/ todo[r] # {} /\ cancelled[r]
    /\ Goto(r, "failed")
    /\ UNCHANGED <<tunnelVars, running, due, slotVars, locals, master,
                   firewall, unwanted>>

ReconnectSucceeds(r) ==
    /\ pc[r] = "connecting"
    /\ todo[r] = {} /\ ~failed[r]
    /\ ResumeFirewall
    /\ ClearSlot(r)
    /\ End(r)
    /\ UNCHANGED <<tunnelVars, running, due, master, unwanted>>

-----------------------------------------------------------------------------
(* The helper's operations *)

(* Stop cancels what is in the map, and leaves it there. *)
Stop ==
    /\ running
    /\ running' = FALSE
    /\ Cancel(Held(Keys))
    /\ UNCHANGED <<tunnelVars, due, slot, pc, locals, master, firewall,
                   unwanted>>

(* A claim on the DNS resolve path that another cached config blocks parks the
   connect: it goes on without the claim (the user waives it), or not at all. *)
ClaimsPath(t) ==
    master /\ t \in Claims /\ activeCfgs \cap Claims \subseteq {t}

(* handleConnect of a tunnel that connects. *)
HandleConnect(t) ==
    /\ t \notin up
    /\ up' = up \cup {t}
    /\ activeCfgs' = activeCfgs \cup {t}
    /\ unwanted' = unwanted \ {t}
    /\ rules' = IF ClaimsPath(t) THEN t ELSE rules
    /\ owner' = IF ClaimsPath(t) THEN t ELSE owner
    /\ UNCHANGED <<running, due, slotVars, pc, locals, master, saved>>

(* handleDisconnect of one tunnel returns ErrNotConnected early: the config
   stays cached, the enforcement stays. *)
HandleDisconnect(t) ==
    /\ CancelRetries({t})
    /\ unwanted' = unwanted \cup {t}
    /\ IF t \in up
       THEN /\ up' = up \ {t}
            /\ activeCfgs' = activeCfgs \ {t}
            /\ ClearIfOwner({t})
       ELSE UNCHANGED <<tunnelVars, firewall>>
    /\ UNCHANGED <<running, due, pc, locals, master>>

(* handleDisconnect without a name: whatever is up. *)
HandleDisconnectAll ==
    /\ CancelRetries(Keys)
    /\ unwanted' = Tunnels
    /\ up' = {}
    /\ activeCfgs' = activeCfgs \ up
    /\ ClearIfOwner(up)
    /\ UNCHANGED <<running, due, pc, locals, master>>

(* disconnectAutoManaged forgets the config of a tunnel that is down, too. *)
AutoDisconnect(t) ==
    /\ CancelRetries({t})
    /\ up' = up \ {t}
    /\ activeCfgs' = activeCfgs \ {t}
    /\ ClearIfOwner({t})
    /\ UNCHANGED <<running, due, pc, locals, master, unwanted>>

(* handleClearDNSPathEnforcement, called as the master switch turns off. *)
MasterSwitchOff ==
    /\ master
    /\ master' = FALSE
    /\ owner' = Nobody
    /\ rules' = IF owner = Nobody THEN rules ELSE Nobody
    /\ UNCHANGED <<tunnelVars, running, due, slotVars, pc, locals, saved,
                   unwanted>>

-----------------------------------------------------------------------------
RetryStep(r) ==
    \/ CancelOld(r) \/ AbandonStart(r) \/ Spawn(r)
    \/ Interrupted(r) \/ TimerFires(r) \/ CheckUp(r)
    \/ TearDown(r) \/ TearDownFails(r) \/ AttemptFails(r)
    \/ CancelledTorn(r) \/ CallReconnect(r) \/ Blocked(r)
    \/ ConnectOne(r) \/ ReconnectFails(r) \/ ReconnectSucceeds(r)

HelperOperation ==
    \/ \E t \in Tunnels :
          HandleConnect(t) \/ HandleDisconnect(t) \/ AutoDisconnect(t)
    \/ HandleDisconnectAll
    \/ MasterSwitchOff
    \/ Stop

Next ==
    \/ \E k \in Keys : Detect(k) \/ Trigger(k)
    \/ \E r \in Retries : RetryStep(r)
    \/ HelperOperation

Spec == Init /\ [][Next]_vars

(* Goroutines are scheduled and every call of a retry is bounded; no wake, no
   stale handshake and no user has to come. *)
Fairness == \A r \in Retries : WF_vars(RetryStep(r))

FairSpec == Spec /\ Fairness

-----------------------------------------------------------------------------
(* Properties *)

TypeOK ==
    /\ up \in SUBSET Tunnels
    /\ activeCfgs \in SUBSET Tunnels
    /\ running \in BOOLEAN
    /\ due \in SUBSET Keys
    /\ slot \in [Keys -> Retries \cup {NoRetry}]
    /\ pc \in [Retries -> {"idle", "starting", "sleeping"} \cup AttemptPCs]
    /\ key \in [Retries -> Keys]
    /\ cancelled \in [Retries -> BOOLEAN]
    /\ olds \in [Retries -> SUBSET Retries]
    /\ tornDown \in [Retries -> BOOLEAN]
    /\ todo \in [Retries -> SUBSET Tunnels]
    /\ failed \in [Retries -> BOOLEAN]
    /\ master \in BOOLEAN
    /\ rules \in Tunnels \cup {Nobody, Gone}
    /\ saved \in BOOLEAN
    /\ owner \in Tunnels \cup {Nobody}
    /\ unwanted \in SUBSET Tunnels

(* While the monitor runs, m.retries is exact: what a slot holds is a retry
   of that key that is still live and not cancelled, and every such retry is
   in its slot, where CancelRetry finds it, or about to be cancelled by the
   one that replaced it.  GetState's spinner rests on the first half, every
   cancellation on the second. *)
SlotsExact ==
    running =>
        /\ \A k \in Keys : slot[k] # NoRetry =>
              /\ Live(slot[k])
              /\ key[slot[k]] = k
              /\ ~cancelled[slot[k]]
        /\ \A r \in Retries : Live(r) /\ ~cancelled[r] =>
              \/ slot[key[r]] = r
              \/ \E q \in Retries : pc[q] = "starting" /\ r \in olds[q]

(* A cancelled retry comes to its end, wherever the cancel found it. *)
CancelledEnds ==
    \A r \in Retries : cancelled[r] /\ Live(r) ~> ~Live(r)

=============================================================================
