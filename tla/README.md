# WireGuide Plus: specifications

TLA+ modules for WireGuide Plus, a WireGuard client for macOS, Windows and Linux:
the privileged helper that owns the tunnels and the machine's routes, DNS and
packet filter; what the GUI and the CLI do to the helper and to the files; and
what decides by itself that a tunnel goes up, down, or to another endpoint. The
modules are translated from the Go source (and, for the settings dialog, from its
Svelte source). TLC checks them on small instances, and TLAPS proves most of their
safety properties for any number of tunnels, callers, retries, network changes and
failures.

## 1. The system

    GUI, CLI --IPC--> helper handlers ---+
    automation engine (network events) --+--> tunnel.Manager --> NetworkManager (routes, DNS)
    reconnect.Monitor (wake, stale) -----+         |
    loop watchdog (Windows, macOS) ------+         +--> Engine (wireguard-go device)
         |                                         +--> crash journal (tunnel-states/*.json)
         +--> firewall (DNS resolve path enforcement, loop protection)
    GUI, CLI, helper --files--> tunnels/*.conf, *.meta.json, config.json, history, update.json

| Component | State | Operations | What is hard | What makes it correct |
|---|---|---|---|---|
| tunnel manager (`internal/tunnel/manager.go`, `connect_phases.go`, `manager_dns.go`) | the entry map with a state per tunnel; the captured pre-VPN DNS | ConnectWithContext, DisconnectTunnel, DisconnectAll, RestoreDNSBestEffort | `mu` is released during every slow phase; teardowns wait 10 s for other calls | one owner per transition; no device, route or DNS server without an entry; one full tunnel |
| crash journal (`recovery.go`) | one file per tunnel | two checkpoints per connect, ClearActiveState, RecoverFromCrash | the process dies between any two steps, in recovery too | recovery removes what the tunnels set |
| macOS network manager (`network/darwin.go`, `monitor_darwin.go`) | saved and last DNS, bypass routes, the route monitor | AddRoutes, SetDNS, RestoreDNS, reapply | the monitor's loops run beside the operations; its own changes are events | the bypass follows the gateway; nothing remains afterwards |
| Linux network manager (`network/linux.go`) | routes, rule, table, throw routes, three ways to set DNS | the same | one state file for all tunnels; half-done connects; crashes | what is added is removed, and nothing else |
| Windows network manager, socket binding, watchdog (`network/windows.go`, `tunnel/socketbind_windows.go`, `loop_watchdog*.go`) | bypass rows, the adapter the socket is bound to, byte counters | connect, disconnect, evaluations, samples | overlapping evaluations; verdicts carried out later, by name | the endpoint is never routed into its own tunnel |
| helper operations (`handlers.go`, `helper.go`, `automation_rules.go`) | `connectMu`, `activeCfgs`, `dnsPathOwner`, saved firewall state | connect, disconnect, reconnect, rename, automation's, force shutdown | some callers take `connectMu` and some do not | every operation ends; one full tunnel |
| reconnect monitor and its triggers (`internal/reconnect`) | the map of retries; channels of one slot; cool-downs | triggers, CancelRetry, CancelRetryFor, Stop | cancel may land anywhere; triggers coalesce or are dropped | the map is exact; a cancelled retry ends; a tunnel is rebuilt after its network changes |
| DNS resolve path (`dns_path.go`) | the claim, its owner, parked connects, the waiver | claim, park, answer, clear | answers, cancels, deadlines and IPC's order of requests race | one carrier; a parked connect returns |
| firewall backends (`internal/firewall`) | pf, nftables, WFP; state files | enable, disable, suspend, resume, recover | every command may fail or be the last one | enforcement is on when believed on, and gone afterwards |
| automation (`automation_rules.go`, `automation_eval.go`, `decision.go`, `internal/wifi/automation.go`) | stored policies, a one-slot mailbox, latches, back-offs | edits, evaluations, settle recheck | two evaluators; old files; events during an evaluation; stale SSIDs | one verdict; convergence on the last network |
| endpoint selection (`endpoint_switch.go`, `endpoint_dynamic.go`, `internal/endpoint`) | cooldown stamps, confirmation window, blessings | maybeSwitchEndpoint, evaluateDynamicSwitches, the user's choice | three parties share the stamps | no churn; a dead endpoint is left; an improvement is made |
| helper lifecycle (`helper.go`, `ipc/server.go`, `gui/helper_lifecycle.go`) | control connections, the grace timer, the health monitor | attach, detach, arm, cancel, fire, cleanup, relaunch | callbacks race cancels; callbacks of one connection run after the next one's | ends when nobody needs it, and only then |
| storage and settings (`internal/storage`, `app/settings_ops.go`, `cli.go`, `Settings.svelte`) | conf, sidecar and policy per tunnel; settings; history | import, edit, rename, delete, migrate; save, toggle, `ctl set` | three processes write; a call is several changes of the disk | no key is lost; what belongs together stays together; the file is in force |
| history (`app/tunnel_ops.go`, `storage/history.go`) | rows, deferred writes | reconcile, clear, quit | two subscriptions handle events side by side | one row per session |
| update (`internal/update`, `RunUpdate`) | `update.json`, the staged file, scripts | check, announce, dismiss, install | overlapping answers; releases published again; runs side by side | announced once; installed whole or not at all |
| the rest (parser, policy analyzer, diagnostics, elevation, GUI widgets, CLI output) | | | text, I/O and OS calls | not modelled, see section 8 |

## 2. Modules

| Module | What it is |
|---|---|
| `TunnelManager` | `tunnel.Manager` with its phases, the shared DNS configuration, the journal and recovery |
| `HelperTunnels` | EXTENDS `TunnelManager`: which operation calls it, with which lock, and the config cache |
| `TunnelLifecycle` | the abstract specification: the diagram of the Manager's comment, with its liveness |
| `ReconnectMonitor` | the monitor's retries and the DNS enforcement they suspend; manager calls are atomic |
| `ReconnectTriggers` | the OS event detectors, their channels, triggerLoop, the handshake check; a retry is its teardown and its connects |
| `AutomationRules` | the verdict on one tunnel: pure operators (conditions, time windows, both evaluators, the reconcile table, the reconnect gate) |
| `AutomationPolicy` | EXTENDS it: the stored policies and everything that edits them, with the normalisation every reader begins with |
| `AutomationEngine` | EXTENDS it too: mailbox, rounds with the context read at their start, SSID reports, back-off, latches |
| `EndpointSwitch` | one tunnel with several endpoints: reconnects, the dynamic loop, the user |
| `DNSPath` | the DNS resolve path: claims, parked connects, the dialog, the IPC connections the answers come by |
| `HelperShutdown` | the helper's life: control connections, grace timer, cleanup, and the GUI's health monitor |
| `Firewall` | the packet filters of the three platforms, command by command |
| `LinuxNetwork`, `WindowsNetwork`, `MacNetwork` | the network managers: routes, rules, DNS, socket pin, route monitor |
| `LoopWatchdog` | the watchdog of a full tunnel |
| `TunnelFiles` | conf, sidecar and policy of the tunnels, written by the GUI, `ctl` and the helper; the legacy migration |
| `SessionHistory` | the connection history |
| `LiveSettings` | the settings file and what it governs while the program runs |
| `UpdateScheduler`, `UpdateInstall` | checks and announcements; "Update now" with the installers |
| `MCUserState` | four of these beside each other, those that keep something for the user: files, history, updates, settings |
| `MCSystemState` | EXTENDS it and `Firewall`: with the network managers, the watchdog and the triggers, ten parts for one run |
| `MCHelperShutdown`, `MCHelperTunnels`, `MCReconnect`, `MCAutomationPolicy`, `MCAutomationEngine`, `MCEndpointSwitch` | constants' values and symmetry sets for TLC; the first and the last name their part's properties for the proofs |
| `HelperTunnelsProofs` (with those of `TunnelManager` and `HelperShutdown`), `ReconnectMonitorProofs` (with that of `EndpointSwitch`), `AutomationPolicyProofs`, `DNSPathProofs`, `UpdateSchedulerProofs`, `UserStateProofs`, `SystemStateProofs`, `LinuxNetworkProofs` | the theorems, section 5 |

### TunnelManager, HelperTunnels, ReconnectMonitor

**TunnelManager** has one action per critical section of `Manager.mu` and per
phase whose effect another goroutine, or a crash, can observe. A connect of
goroutine `p` walks `claimed, engine, up, routed, checkpointed, snapped, dnsset,
journaled` (BeginConnect, CreateEngine, BringUp, AddRoutes, Checkpoint,
SnapshotDNS, ApplyDNS, CaptureAndJournal, CommitConnect); any phase may fail
(FailPhase) and is rolled back (Rollback, FailConnect). A disconnect waits for
the transition in flight, claims, and walks `down, unrouted, closed`, then
`last, restore, clear` (no other tunnel's servers remain) or `others, reapply`,
then `finish`. `state` and `cur` are `entry.state` and the entry's `netMgr` and
`engine`; `preMod` is `globalPreModDNS`; `sess` holds each connect attempt's
`DarwinManager`; `sysDNS` and `journal` belong to the machine and survive a
crash; `rem`, `val`, `snap` are locals read under the lock and used after it.

**HelperTunnels**: an operation is a call that takes `connectMu` or not, the
manager's steps (ManagerStep), and Finish, which does to `activeCfgs` what the
code does with the manager's result, and unlocks. `FreeTeardown` admits the
callers without `connectMu`, `RouteEvents` network changes, `MaxDeaths` deaths.

**ReconnectMonitor**: a retry is a goroutine `r` with a key (a tunnel, or `All`),
a context (`cancelled`) and a program counter; `slot` is `m.retries`. The steps
are those of `triggerReconnectTunnel` (Trigger under the lock, CancelOld outside
it) and of `reconnectWithBackoff`: sleeping, suspending the firewall, the bow-out
check, the teardown, the cancel check, `reconnectFn` tunnel by tunnel, and the
six ways out.

### The others: how state and actions correspond to the code

| Module | Correspondence |
|---|---|
| `ReconnectTriggers` | `detected`, `cool` are a detector's last interface and its cool-down; `changed`, `woke`, `resumed` its channels; HalfMinute is monitorLoop's tick, MonitorTriggers what it goes on to do after it released the lock; `retry` has where the all-tunnels and the tunnel's own retry are |
| `AutomationPolicy` | one action per locked read-modify-write of `settings.json`; Loaded is what EnsureAutomation makes of the file |
| `AutomationEngine` | `box`, `reason` are `evalRequests`, `evalReason`; `round` is the evaluation under way with what it sampled; `report`, `lastSSID`, `stampGW` the SSID on its way and in the helper |
| `EndpointSwitch` | a reconnect measures, then decides, with other steps between; time counts in periods of the dynamic loop |
| `DNSPath` | `queue` holds each connection's requests not yet read, since the server answers them one by one; a caller's program counter stands for the handler's steps before and after `connectMu` |
| `HelperShutdown` | `timers` has every timer ever armed, with how far its callback is; `pc` the goroutines inside armShutdownTimer; `conn` how far the server's callbacks for a connection are |
| `Firewall`, `LinuxNetwork`, `WindowsNetwork`, `MacNetwork` | an operation puts a list of steps in `todo`, one per command or file write whose effect can be told; TakeStep takes one, or fails, or the process dies |
| `LoopWatchdog` | `dog[s]` is the watchdog goroutine of session `s`, with the counters' gain since its last reading and a tick that waits |
| `TunnelFiles` | a call is a list of steps, one per change of the disk; the steps of other processes fall between them |
| `SessionHistory` | `inbox`, `at` are each subscription's event and handler; `tracked`, `pending` the maps; `rows`, `dirty`, `armed`, `disk` the store |
| `LiveSettings` | `call`, `save`, `ctl` are the dialog's request, the two SaveSettings calls and `ctl set`, each read, write and effect a step |
| `UpdateScheduler` | a checker sends, is answered, records, passes the two gates, announces: a step each |
| `UpdateInstall` | `pc` is where a run of RunUpdate is; `stage`, `script`, `prompts`, `relaunch` the installers' |

Variables called history in a declaration are read by properties only.

### Abstractions

- Names, addresses, servers and rows are model values; a subnet is a set of
  addresses, a file the build or the tunnel it is of.
- Time is counted in the periods that matter (a poll, half a minute, five
  seconds); other timers may fire at any moment.
- In TunnelManager the DNS configuration of all macOS services is one set of
  servers, the routes of a tunnel are present or absent; the detail is in
  MacNetwork. In the modules above the manager, its calls are atomic; the detail
  is in TunnelManager. In ReconnectMonitor what triggers a retry is a free
  choice; the detail is in ReconnectTriggers.
- Linux, Windows and macOS managers work on one address family (Windows: on
  both); commands that remove are taken to succeed.
- Operations that `connectMu` serialises do not overlap in the platform modules.

## 3. Runs that pass

| Run | Question | States | Instance |
|---|---|---|---|
| `free_callers` | Do transitions, devices and routes stay consistent with every caller, those without `connectMu` included; does every operation end; is the whole an implementation of `TunnelLifecycle`? | 409 883 | two goroutines, two full tunnels, route events, one death |
| `dns_and_crashes` | With every call under `connectMu`: are the union in force, the captured configuration the user's, and recovery complete? | 24 898 | three tunnels, two with servers, one of these and the third full; route events; two deaths |
| `retries` | Is `m.retries` exact, and does a cancelled retry always end? | 517 312 | one tunnel, so two keys; two retries; one pending trigger |
| `policies` | Do the engine, the editor, the gate and the preview agree on every stored policy? | 18 045 | two tunnels, two rules in all of nine kinds, six contexts |
| `automation` | Does the engine converge, and come to rest? | 252 840 | one tunnel, three networks (two of one name), two policies, two events, on both platforms |
| `shutdown` | Does a helper end when, and only when, nobody needs it? | 108 915 | two control connections, six events |
| `dns_path` | Is there one carrier, and does a parked connect return? | 787 036 | two tunnels, two GUI connections, `ctl`, the engine, four events |
| `endpoint` | No churn, no switch on one probe, no staying on a dead endpoint? | 798 288 | three candidates, three latencies, two reconnects, the loop, two events |
| `update` | Is a release announced, and once? | 474 903 | two releases, five events |
| `system_state` | Ten parts, each with its own question, below | 2 434 741 | per part, below |

The parts of `system_state` share no state; a behaviour is one part's. They are
one run because each alone is short. Deadlock is not checked in it, nor in the
runs with a bound on events: a bounded outside world does stop.

| Part | Property | Bound in the run | Also checked with |
|---|---|---|---|
| Firewall | FiltersExact | two tunnels, one claims, one full; 8 events | |
| LinuxNetwork | RoutesExact, DNSFollows | a full tunnel, a full one with table and pin, a split one that is pinned, one with `Table = off`; three ways to set DNS; 6 events | |
| WindowsNetwork | BypassHolds, PinFollows | two adapters, three endpoints; 4 events | |
| MacNetwork | BypassExact | two gateways, endpoints and services, one restart; 4 events | 6, 4.2 million |
| TunnelFiles | KeysKept, BelongTogether | two names, one in two cases; legacy files; 2 operations of three processes, deaths | 3 operations, 4.3 million states |
| SessionHistory | HistoryExact | two tunnels, two subscriptions; 5 events, 2 rows | 6 and 3, 15 million |
| UpdateInstall | UpdateDelivers | two buttons, four platforms; 4 events | 6, 4.2 million |
| LiveSettings | SettingsInForce | four writers; 3 events | 4, 33 million explored |
| LoopWatchdog | LoopBroken | two sessions; nothing, 25 MiB/s, and 50 MiB/s with 0, 1 or 6 back; 5 periods | 7 |
| ReconnectTriggers | RepairsFollow | two networks, Windows and Linux; 3 events | 4, 5.8 million |

An event is something nobody obliges to come: a user's action, a change of the
network, a failure, a crash. The steps the code takes by itself are not bounded.
Two events reach every conflict of two actors; the third and later ones are for
what has to go wrong first (a crash, then a recovery, then a connect). The type
invariant of every module is checked with it or was with smaller bounds of its
part; the passing runs spend their properties on what can go wrong.

Bounds of the first three. Two goroutines are enough for every conflict between
two calls; a third adds waiting on `connectMu`. Sessions: as many as entries and
goroutines can refer to. Two tunnels are the least that share DNS; two deaths
allow one during recovery. `dns_and_crashes` has a third tunnel, without servers,
because the manager applies the remaining servers through any tunnel that is
connected. `DNSSpec` leaves two steps out, and section 4 has what follows each:
the process dies while a state file holds another tunnel's servers as the user's
own (DiesWithOwnPast), and the remaining servers are applied through a tunnel that
has none itself (ReappliesThroughItsOwn). `free_callers` has no DNS servers: no
operation's end depends on them. With one tunnel, `retries` still has two keys
that replace each other. `SerialSpec` of DNSPath keeps the engine's teardown,
which works without `connectMu`, apart from a connect's passage, and lets no
waiver outlive the attempt it was given for (WaiverPending); that of
HelperShutdown keeps the timer's callback apart from the outside world once it has
begun; what happens without is in section 4.

What the properties say (each is stated with its exceptions in its module):

- **Ownership**: a transition belongs to one call from claim to commit. It is
  why the "lost race" branch of ConnectWithContext is dead code.
- **ResourcesInv**: a connected tunnel has its device and routes; no device or
  route outlives its entry, whichever phase fails; a full tunnel's routes are
  never there without the protection of its endpoint.
- **OneFullTunnel**: two full tunnels are never both connected. The manager
  looks at connected tunnels only, so this needs every connect to hold
  `connectMu`.
- **OperationsEnd**, **ImplementsLifecycle**: every operation ends; refinement of
  `TunnelLifecycle`, its liveness included.
- **UnionUnlessReapplied**, **PreModIsOriginal**, **NoTunnelDNSLeft**: with nothing
  under way the services carry the union of the connected tunnels' servers (or
  those that a tunnel watched by the route monitor has set last), or the user's
  own; the captured pre-VPN configuration is never a tunnel's.
- **SlotsExact**, **CancelledEnds**: while the monitor runs, a slot holds a live
  retry of its key that is not cancelled, and every such retry is in its slot, or
  about to be cancelled by the one that replaced it; a cancelled retry ends.
- **Rebuilt**, **DeadIsRepaired** (RepairsFollow): once the detectors and the
  monitor have nothing left to do, a tunnel that is up was built on the network
  there is, after the last sleep; no two checks in a row find a tunnel silent for
  too long, the switches on and no retry at work, and leave it at that.
- **OneVerdict**, **MigrationKeepsVerdicts**, **BlindActionIsSafe**,
  **WindowsExact**: four pieces of code come to one verdict; migration keeps it;
  what is done without the SSID would be done whatever it is; a time window is
  the minutes the clock runs through, over midnight too.
- **Converges**, **ComesToRest**: once nothing happens any more every tunnel is,
  and stays, as its policy and latches say for the network the machine is on; and
  on macOS evaluations cease.
- **OneCarrier**, **ParkedReturns**: the tunnel that claims the path is the one
  the firewall lets DNS through, up and on record; a parked connect comes back.
- **ShutdownOnlyWhenIdle**, **Exits**, **GuiServed**: see the question.
- **NoChurn**, **DeadIsLeft**, **WindowOpens**: switches are a cooldown apart and,
  where there is a confirmation window, never on a single probe of a live link; a dead address is left when another
  answers; with the default window an improvement that stays is made.
- **NotifyOnce**, **DismissedStays**, **News**: a session announces a version
  once; a dismissed one stays away, over restarts too; a release is announced.
- **FiltersExact**: enforcement that is believed on is in force, on that
  interface; what is not on leaves nothing behind, and pf is as the user had it.
- **RoutesExact**, **DNSFollows**: between two operations the kernel has the
  connected tunnels' routes and rule and nothing else, and names are asked of
  their servers, or of the user's. Excepted are what a crash left that no file told
  of (`lost`) and, for names, tunnels that have used one resolver file at a time or
  links that still list the servers of one that has gone (`overlapped`).
- **BypassHolds**, **PinFollows**: half of the default route never leads into the
  tunnel without the rows that keep the endpoints out, in any step of a connect,
  a rollback or a disconnect; the socket follows the adapter.
- **BypassExact**: the same on macOS, through every reapply; afterwards no route
  and no server is left.
- **KeysKept**, **BelongTogether**: no import, rename, change of case, migration
  or death destroys a tunnel the user has; sidecar, policy and connection under a
  name are those of the tunnel there.
- **HistoryExact**: tunnels that have shaken hands have their one open row, and
  only they; what is cleared stays away and the rest reaches the disk.
- **UpdateDelivers**: nothing is installed but a build that was verified, whole;
  installing waits for its turn; what the user is told is what happened.
- **SettingsInForce**: at rest, what is in force is what the file says.
- **LoopBroken**: traffic of which next to nothing comes back (less than in the
  comments' healthy upload) is broken in bounded time; and a watchdog that has read
  every period in time trips on nothing shorter than three in a row over both
  thresholds. It does not say that only loops are taken down: an upload at fifty to
  one is, and so is the session that follows a disconnect by name (section 4).

Exceptions. These properties state an exception, or their run a restriction, that
covers the very step at which a hazard listed in PROJECT.json bites; what happens
there is told in section 4 and is not watched by the property:

| Where it bites | Excluded by |
|---|---|
| `connect_phases.go:392`, the remaining servers read and used later | `dns_and_crashes` keeps every call under `connectMu` |
| `network/darwin.go:437`, reapply with old servers | the second disjunct of UnionUnlessReapplied |
| `recovery.go:189`, a second journal with the first one's servers | DiesWithOwnPast in DNSSpec |
| `ipc/server.go:289`, a late onDisconnect | Overtaken in SerialSpec of HelperShutdown |
| `socketbind_windows.go:544`, overlapping evaluations | `raced` |
| `app/tunnel_ops.go:903`, handlers that overlap, a late quit | `overlap`: two handlers, or a handler and the quit, side by side |
| `app/settings_ops.go:438`, writers that cross | `crossed` |
| `network_darwin.go:210`, a change within the cool-down | `unseen` |
| `reconnect/monitor.go:702`, a swallowed timeout | `kept` |

Every property of these runs comes with a mutant (in the modules, next to the
definition it changes): a missing rollback, a lost lock, a swapped order, a check
dropped. TLC finds each property violated by its mutant.

Fairness. A goroutine inside a call is scheduled and each of its phases is
bounded by a command timeout or a deadline, so weak fairness of each goroutine's
next step: `HelperFairness`, `Fairness` in ReconnectMonitor, `SerialSpec` in
DNSPath (the helper's and the dialog's steps; the user's answer is not fair, the
deadline is). AutomationEngine: pending work, tickers and the loop; nothing
obliges the network or the user. HelperShutdown: callbacks run, timers fire, the
health monitor ticks, the user answers a prompt. EndpointSwitch: periods end,
measurements do, a requested reconnect is made, and a dead link does not cease to
ask for reconnects. UpdateScheduler: every request ends (10 s at most) and timers
fire. Nothing makes a user, a network event or a trigger come again.

## 4. Where the code departs from what it says

Two runs check a property that the repository's comments state, and TLC finds a
behaviour of a few calls that breaks it.

| Run | What happens |
|---|---|
| `find_loop_protection` | On Windows the end of the DNS path enforcement closes the WFP session in which the loop protection of every full tunnel lives; `firewall/interface.go:53-54` calls the protection always-on and independent. |
| `find_neighbour_dns` | On Linux with a plain resolv.conf, the rollback of a second connect that fails restores the user's servers under the tunnel that is connected, since all managers share one `original-dns.json`; `connect_phases.go:395-396` says a Cleanup only affects its own tunnel. |

Met while modelling, most of them by TLC as counterexamples of a stronger property,
each one an exception that a property above states or a restriction of a run:

**Manager, helper, retries.** A teardown outside `connectMu` counts the other
tunnels' DNS servers, finds none because the other is still connecting, and
restores the pre-VPN configuration over it; a route event re-applies the servers
a tunnel set before the second one came up; after a crash with two tunnels each
journal restores its own snapshot, the second of which holds the first one's
servers; the automation's disconnect forgets a config after a teardown that timed
out; a retry that ends at the policy gate or bows out does not resume the
enforcement it suspended; rules switched off while suspended come back without an
owner; the retry of all tunnels brings back a tunnel the user has disconnected; a
connect that fails in SetDNS leaves its journal file; when a disconnect leaves
servers to apply, `connect_phases.go:425-436` takes the network manager of any
connected tunnel, and one without servers of its own then saves the tunnels'
servers as the user's and writes them back when it goes down last; the route monitor is never
subscribed for DNS alone, since AddRoutes reads `lastDNS` before SetDNS sets it.

**Triggers.** The macOS and Windows detectors store the interface they saw before
they look at the 2 s cool-down, so a change in it is never reported
(`network_darwin.go:166-172` says the next stable change after it is); a change
back before the next poll is unseen. The wall-clock fallbacks of the sleep
detectors subtract values that carry the monotonic clock, which stands still in
sleep on macOS and Linux. DisconnectAll swallows the timeout of a slow connect,
and a later attempt takes that connect for an external recovery and bows out.
healIfNeeded counts a tunnel that is still connecting as dead. A trigger that
finds the tunnel down between two attempts is dropped, and the retry waits out its
back-off. A tunnel that opts out during its retry's back-off is torn down and its
reconnect then blocked; nothing looks at it again, against the comment at the
Blocked exit. On Windows a wake arrives twice and the second one rebuilds the
fresh tunnel.

**Automation.** The macOS "ssid-change" reason is overwritten; the reporter
remembers an SSID whose report failed; an evaluation may act between the user's
disconnect and the latch (`automation_rules.go:296-298`).

**DNS path.** With `Spec` in place of `SerialSpec`: two parked connects both find
the path free; the engine's teardown clears the path without `connectMu` over a
connect. The answer of a dialog waits behind the parked connect when it comes by
the same connection; there is one dialog slot; a connect of a tunnel that is up
clears its waiver; blockers ignore waivers. A waiver is for the current attempt
(`dns_path.go:64-66`, `200-203`), but only handleConnect (`handlers.go:399`) and
clearDNSPathIfOwner (`handlers.go:538`) clear it: one that a late answer or a failed
connect leaves behind lets the engine, once the switch is on again, bring the
tunnel up without enforcement, and a later connect by hand then takes the path as
if it were free.

**Helper lifecycle.** With `Spec` in place of `SerialSpec`: a callback may shut
down under a GUI or a connect that arrived after its check, and a late
onDisconnect may strand a helper. A connect under way at shutdown is not waited
for. A connect that fails leaves a helper without a timer.

**Endpoints.** With a confirmation window longer than the loop's 30 s the gate
never opens: a tick that does not confirm renews the proposal's time
(`endpoint_dynamic.go:13-16` says that the ticks accumulate); an improvement that is not
confirmed still burns the cooldown; an address that is not in the list counts as
down; a Save that fails leaves the config changed in memory; a retry's copy of the
config overwrites the user's choice; reconnects that never cease may postpone an
improvement for ever.

**Firewall.** Linux appends to a chain that exists; its rules survive a crash and
are removed only if a journal remains. macOS removes its state file before
`pfctl -d`; enforcement enabled over its own rules records pf as the user's.

**Linux.** Beside the run: a disconnect of one tunnel restores the user's servers
under another, and the later one restores the first one's; a resolvconf record may
never be removed; with systemd-resolved a disconnect applies the remaining servers
through one connected tunnel only (`connect_phases.go:425-436`), and the other links
keep listing those of the tunnel that has gone; a death before the first checkpoint
leaves the rule and the throw routes unrecorded; bind routes are never recorded.

**Windows.** Rows installed before a connect fails half-way, and all rows at a
crash, are not removed; a row that was there already is taken for the tunnel's own
and deleted with it; overlapping evaluations may store the older adapter; the
grace poll binds without telling the monitor; a pinned name that does not resolve
when the monitor starts means automatic selection
(`socketbind_windows.go:418-423` says otherwise).

**macOS.** AddRoutes looks at the gateway a second time; Stop returns without
waiting if the subprocess has died (`monitor_darwin.go:204-207`), and after a
restart two debounce loops may run; events during the restart delay are lost, and
after five restarts all of them; the
reapply that Stop did not wait for writes the tunnel's servers after the
disconnect, and the next connect takes them for the user's; a bound interface that comes back is not noticed;
a service nobody captured is emptied at the disconnect; bypass routes are not
recorded for recovery.

**Files.** `handlers.go:233-236` says `connectMu` closes the window of a rename,
but the GUI's connect and the engine's load the config before they take it;
checks and renames of two processes interleave (`tunnels.go:144-146` accepts it);
notes, policies and bindings of a tunnel that has gone may be written; an edit, or
an endpoint switch, under an old name brings the old tunnel back; the settings
dialog writes back rules that `ctl` has moved or deleted; a migration that failed
in part is recorded as complete, does not look for names that differ by case, and
a change of case alone destroys a file where the file system tells cases apart;
when one process renames a tunnel and has not moved its policy yet, and another
renames it back, the policy ends under the name that neither has.

**Settings.** The dialog asks the helper first and saves 300 ms later, so a
restart in between leaves file and helper apart (`Settings.svelte:685-686`);
SaveSettings calls are not serialised, and a stale copy writes back old values; a
login entry that fails returns after the file is written and before the other
effects; a save's push of the log level carries the value it was called with, and
overwrites one that was toggled since; `ctl`'s log level does not reach the GUI; switching the path off in the
middle of a connect leaves rules; a child process of the sleep override that was
killed is not replaced (the comments in `sleep_darwin.go` and `sleep_linux.go` say
the refresh does); on Windows the override is a thread's.

**History.** Two subscriptions' handlers may open two rows for a tunnel
(`event_bridge.go` says nothing is shared); a quit with two tunnels up may reopen
a session after all were closed; clearing while connected loses the running row; a
deferred write that failed has no timer; trimming may drop an open row.

**Update.** After a restart the stored validator makes the feed answer 304, and a
release that was not shown stays unknown; an overtaken answer announces again.
"Update now" always ends on the release page on Linux
(`settings_ops.go:1768-1771`); the macOS script removes the old bundle before it
copies the new one; on Windows success is said once the elevated process has
started; a second run restages the path of the first while its prompt waits.

**Watchdog.** A healthy upload is taken for a loop. The comments say that an upload
settles around 50:1, since its acknowledgements flow back, and that the ratio of
10:1 is the conservative split that tolerates it (`loop_watchdog_windows.go:138-142`,
`loop_watchdog_darwin.go:31-34`); `loop_watchdog_windows.go:214-216` even puts it
well under 10:1. But 50:1 is on the loop's side of the split, so an upload of 50
MiB/s or more is disconnected after three samples: in the model, after three periods
of `<<50, 1>>`. LoopBroken allows it, and calls a loop only what lies beyond the
upload. The disconnect is by name and on a goroutine of its own: a user who
disconnects and connects meanwhile loses the fresh session. A ticker that was late
makes the rate too high. Without a LUID there is no watchdog.

## 5. What is proved

TLAPS checks these for every value of the constants, under the modules' own
assumptions: `ConstantsAssumption`, `HelperAssumption`, `MonitorAssumption`,
`RulesAssumption`, `PolicyAssumption`, `DNSPathAssumption`, `ShutdownAssumption`,
`EndpointAssumption`, `UpdateAssumption`, `ValuesAssumption`, `NoneAssumption`, `FirewallAssumption`,
`LinuxAssumption`. They say that null
values are not elements, that functions have their domains, that switches are
Booleans and bounds are numbers, that a routing table is a number and each tunnel's
`Table` one of those, automatic or off, that the name orders are injective, that a rule's
conditions are a list whose windows have clock times of one day (`parseClock`),
and that a context is a record with the fields of `NetworkContext`. No proof
assumes that a set is finite or that a bound has the value of its run. The
theorems of SystemStateProofs, UserStateProofs and LinuxNetworkProofs hold for any
adapters, gateways, endpoints, services and buttons, any tunnels of the firewall's and
of Linux', any routing tables, and any number of events; that there are two
evaluations, two debounce loops, two sessions of the watchdog, two saves at a time,
two tunnels with a history and three names of files is the model's.

| Theorem | Statement |
|---|---|
| `HelperTunnelsProofs!TransitionsOwned` | `Spec => []Ownership` |
| `HelperTunnelsProofs!TypeCorrect` | `Spec => []TypeOK` |
| `HelperTunnelsProofs!ResourcesBelong` | `Spec => []ResourcesInv` |
| `HelperTunnelsProofs!HelperImplementsManager` | `HelperSpec => Spec` |
| `HelperTunnelsProofs!FullTunnelsExclusive` | `HelperSpec => []OneFullTunnel` |
| `HelperTunnelsProofs!HelperTransitionsOwned` | `HelperSpec => []Ownership` |
| `HelperTunnelsProofs!HelperResourcesBelong` | `HelperSpec => []ResourcesInv` |
| `HelperTunnelsProofs!LifecycleSafety` | `HelperSpec => Lifecycle!Init /\ [][Lifecycle!Next]_state` |
| `HelperTunnelsProofs!DNSGivenBack` | `~FreeTeardown /\ DNSSpec => []NoTunnelDNSLeft` |
| `HelperTunnelsProofs!CaptureIsTheUsers` | `~FreeTeardown /\ DNSSpec => []PreModIsOriginal` |
| `HelperTunnelsProofs!UnionOfServers` | `~FreeTeardown /\ DNSSpec => []UnionUnlessReapplied` |
| `ReconnectMonitorProofs!SlotsAreExact` | `Spec => []SlotsExact` |
| `ReconnectMonitorProofs!TypeCorrect` | `Spec => []TypeOK` |
| `ReconnectMonitorProofs!SwitchesAreApart` | `EndpointSpec => NoChurn` |
| `AutomationPolicyProofs!VerdictIsOne` | `Spec => []OneVerdict` |
| `AutomationPolicyProofs!MigrationIsSafe` | `Spec => []MigrationKeepsVerdicts` |
| `AutomationPolicyProofs!BlindActionsAreSafe` | `Spec => []BlindActionIsSafe` |
| `AutomationPolicyProofs!WindowsAreExact` | `Spec => []WindowsExact` |
| `DNSPathProofs!OnePathCarrier` | `SerialSpec => []OneCarrier` |
| `HelperTunnelsProofs!GraceIsForTheIdle` | `GraceSpec => ShutdownOnlyWhenIdle` (`SerialSpec` of HelperShutdown) |
| `UpdateSchedulerProofs!TellsOnce` | `Spec => []NotifyOnce` |
| `UpdateSchedulerProofs!DismissalHolds` | `Spec => DismissedStays` |
| `SystemStateProofs!FiltersAreAsBelieved` | `MCSpec => []FiltersExact` |
| `SystemStateProofs!RoutesOutOfTheTunnel` | `MCSpec => []BypassHolds` |
| `SystemStateProofs!SocketFollows` | `MCSpec => []PinFollows` |
| `SystemStateProofs!BypassFollowsTheNetwork` | `MCSpec => []BypassExact` |
| `SystemStateProofs!LoopsEnd` | `MCSpec => []LoopBroken` |
| `SystemStateProofs!ChangesAreFollowed` | `MCSpec => []RepairsFollow` |
| `SystemStateProofs!UserPartsBehave` | `MCSpec => UserSpec` |
| `LinuxNetworkProofs!RoutesAreExact` | `MCSpec => []RoutesExact` |
| `LinuxNetworkProofs!NamesFollow` | `MCSpec => []DNSFollows` |
| `UserStateProofs!KeysAreKept` | `UserSpec => []KeysKept` |
| `UserStateProofs!HistoryFollowsTheTunnels` | `UserSpec => []HistoryExact` |
| `UserStateProofs!SettingsComeIntoForce` | `UserSpec => []SettingsInForce` |
| `UserStateProofs!UpdatesAreWhole` | `UserSpec => []UpdateDelivers` |

**TunnelManager.** Ownership is not inductive alone. A waiting call must have a
target (WaitsForTunnel), or its claim would own nothing; and a tunnel that is
not disconnected must have a session (EntryHasSession), or the claim of a
teardown would leave its owner without one. `Inv` is the conjunction with the
type invariant. A step of the call that owns a transition leaves every other
tunnel's entry alone; a claim needs a state in which, by Ownership, no call owns
the tunnel; a commit or a failure ends in a state that nobody has to own.
ResourcesInv adds, for each phase of a connect and of a disconnect, what its
session has installed by then, and that two entries never share a session.

**HelperTunnels.** Every helper action is a manager step or leaves the manager
alone, which gives HelperImplementsManager and with it the manager's invariants.
OneFullTunnel then needs three more facts: an operation that locks holds
`connectMu` until it finishes (LockHeld), only such operations are inside a
connect (ConnectsAreLocked), and the conflict check of the one connect under
way still holds at its commit (ConflictChecked), because nothing else commits in
between. LifecycleSafety is the safety half of the refinement: each action moves
at most one tunnel, by an arrow of the diagram, and Ownership is what tells from
where it moves.

**The DNS of HelperTunnels.** The three properties speak of moments when nothing is under way.
The invariant says, phase by phase, where the configuration that fits is in
between (DNSPhase): in the services, in the session that a rollback restores it
from, or in the Manager's capture that a disconnect restores it from. Serial is
why there is one such phase at a time; Carriers and Captured, who may hold a
tunnel's servers and that the capture is the user's; Files and Recovering, that a
process that dies leaves a file for the next launch. The two excluded steps are
the ones after which Captured is false, and both are real: section 4.

**ReconnectMonitor.** SlotsExact needs two facts beside the types. The retries
that a starting one has still to cancel are out of every slot (OldsOutOfSlots),
so that cancelling them does not leave a cancelled retry in a slot; and a retry
that is not running is not cancelled (IdleNotCancelled), so that a fresh one
starts clean. TypeOK needs that the primary tunnel exists among the connected
ones, which follows from well-foundedness of the name order.

**AutomationPolicy.** The invariant says no more than that every operation leaves
lists of rules and Default States (PolicyInv); the rest is what the operators
compute on every such policy. EvaluateDetail walks the list with the state so far,
Evaluate takes the first rule that fires, and that they agree (WalkAgrees) is an
induction over the list: the walk is compared with the function "the first rule
up to here that fires" at the least place where they would differ (LeastElement).
The migration cuts the list at the first lone "otherwise", which fires everywhere
(OtherwiseFires), so the rules in front of it decide as before and the Default
State decides for the rest. A condition of a type other than `ssid` and `wifi`
does not read the SSID (BlindVerdict), and a list with one of those two is not
read while the SSID is missing. WindowIs is arithmetic modulo the day.

**DNSPath.** A connect looks at the path without `connectMu` and enables the rules
much later. WayClear says that what it saw is still so: a switch in use does not
move, and only a connect that has looked adds to the cache (Cached). Carrier and
LatestUp then follow the tunnel from `up` to its rules, and Record the rules to
the owner on record, with what the engine's teardown has not come to yet. Fresh
and Answers say that a waiver and the answer "disable" are only where the switch
is off.

**HelperShutdown.** `time.Timer.Stop` does not call back a callback that runs, so
stopped timers fire. FiresAlone says that one that goes on has seen that nobody is
connected; it does because an attached connection has left no timer current
(AttachedStops) and whoever arms one has seen that no connection is there
(ArmsAlone).

**EndpointSwitch.** ChurnInv relates what the gates have to what happened. The stamp
is as old as the last switch or younger (Stamped), since an evaluation that comes to
nothing renews it too: who finds the stamp as old as the cooldown knows it of the
last switch. A proposal on record was first made then or before (Proposed), and a
blessing is for a candidate that the window has confirmed (Confirmed), so either
tells that the candidate was better a window ago, whatever other reconnects and the
loop have done since the measurement.

**UpdateScheduler.** `maybeNotify` remembers one version, the last announced. That
is enough as long as versions rise (Rising), which is what an overtaken answer
breaks; a saved dismissal is in the copy and in the file (Saved).

**SystemState.** A step of the whole is a step of one part, so each part has an
invariant of its own, and a lemma that the steps of the others keep it.

- Firewall: FilterPhase says for every step that can be next what is left behind it
  and what the filters are like by then, for the launch, the running helper and its
  shutdown; the list of steps is cut and pasted, so what is left is described by
  predicates on sequences (Flushes, Loads, LastFlushes, ...) and not by its values.
  Between steps that touch no filter the rules are as believed (AtRest); the file
  tells how pf was (Recorded), and so does a process that has enabled the rules
  (Knows, RemembersWell), also while the rules are suspended and its owner on record
  is all that says so.
- Windows: where an operation is in its list of steps decides which rows are in
  (Places, Listed), and what an evaluation has resolved is still so unless the
  network has changed since, in which case the timer runs (Pinned).
- macOS: the monitor runs only beside a tunnel whose routes are in (Beside); a
  reapply that is alone has replaced the endpoint's route up to the step it is at
  (Alone, Diverted, with one clause per step in Reapplying); what the tunnel's
  servers have replaced on a service is kept, and is the user's (Replaced, with
  Unserved and NotYet for before and after). Without the clause `~overlap` the
  invariant is false, and its counterexample is the late reapply of section 4.
- Watchdog: the count is the length of the streak, or at least of those samples of
  it that were in time (Sampled); a session to come has no watchdog (Unborn); a
  trip follows a streak, and takes the session down (Tripped); what loops is over both
  thresholds, so a loop is no longer than the streak.
- Triggers: a tunnel on another network than its own is in the hands of the
  detector, of triggerLoop, or of a retry that is yet to tear it down (Noticed,
  Owned); a check that finds the tunnel silent either triggers or hands over to a retry
  that is at work, so `idle` is at most the one check that came first (Passed, Busy).
- Linux: a connect is in one of the lists of steps that it goes through, and the step
  that is next tells what its tunnel has in the kernel and what its manager knows
  (Coming, LinuxManagers); of a disconnect, a rollback or a recovery only which steps
  are still ahead counts, in whatever order (Clearing, Ahead). A route in the kernel
  is as its manager believes (Believed) and belongs to a tunnel that is up, comes, or
  has the step ahead that takes it away (Claimed); the one rule leads to the table of
  the one full tunnel, which is why no two come at a time (LinuxApart, LinuxRule).
  Between a crash and the next launch nothing but the files speaks for what is there:
  each throw route and the rule are in reach of recovery, or lost (LinuxDead). TLC
  checked LinuxInv on the run's instance before the proof. The table of a new tunnel
  is the least one without its routes (ChooseTable), for which the least element of a
  set of numbers is needed.
- Linux, names: NamesInv stands on LinuxInv. Where links have servers of their own,
  or resolvconf keeps a record per link, each has none but those of connected tunnels,
  or the step that sees to it is ahead (Sound): the tunnel's own restore, close or
  cleanup, or for a neighbour the reapply. With resolv.conf, what is to be restored is
  the user's own file, and it was taken before the tunnel's servers went in (OneFile).
  The step that takes the files of a crash away is an operation's last (EndsLast), so
  recovery sees whatever is not restored yet. All of it holds until `overlapped`, the
  exception the property names; the counterexample without it is a finding of
  section 4. TLC checked NamesInv on the run's instance before the proof.

**UserState.** MCSystemState adds parts to MCUserState and leaves its own alone, so
UserPartsBehave carries these four over to the whole.

- Files: KeysKept says that a key a call has promised is in some file. A call is a
  list of steps, and each carries names and tunnels that make sense (Sound). Where
  names that differ in case are one file, a directory has one entry for them
  (OneEntry), so a rename or a change of case takes nothing else away; and the legacy
  source is removed only when what was copied from it is on disk (Sources). Every step
  is one of those that spare what is owed (Spares), or one that copies, renames,
  replaces or removes it, each with a case of its own.
- History: what the handlers have read and not yet written is why rows and tunnels
  differ. SessionInv says who is yet to write: the handler of an event, the map of
  pending rows, or the next event; and that the store's rows, once not dirty, are on
  disk.
- Settings: a switch, the login entry, the hotkey and the two levels are each as the
  file says, or somebody has yet to set them: the dialog's call, a save at one of its
  stages, `ctl`, or an event on its way (LivePart, MailPart, CopyPart, EntryPart,
  KeyPart, GuiLevelPart, PathPart). What has crossed, was cut off, missed or refused
  is recorded as it happens, and each clause holds without those it needs absent
  (Without).
- Install: whatever is past the comparison of hashes is a build (Verified); a
  script has its build, and whoever started it waits for it or is gone (Scripts);
  an installer about to be started has its file, or another run has restaged it
  (Launching).

## 6. What is only model-checked

- Liveness, and the liveness half of ImplementsLifecycle: fairness and ENABLED are
  out of the prover's reach.
- BelongTogether: no invariant of it is proved to be inductive. It needs to know
  which half of a rename has taken place, for three files and every pair of
  processes. Imports, renames and deletions alone are also checked with five
  operations, in behaviours without any of its exceptions.
- Whatever the runs' restrictions exclude (`FreeTeardown` for the DNS properties,
  overlapping checks for DNSPath and HelperShutdown), which is false without them.
- TypeOK of the modules whose proof needs no more than some of the types.

## 7. Plan

Modelled and checked: the parts of section 2. What would come next:

1. BelongTogether of TunnelFiles: which of the steps of a rename have taken place.
2. The composition of ReconnectMonitor with HelperTunnels in place of atomic
   manager calls: the bow-out check against a concurrent connect.

## 8. What is not modelled and why

- The config parser and validator, the policy analyzer and the address conflict
  check are text and pure functions with unit tests of their own. What follows
  from a conflict, the pause, is in AutomationEngine.
- wireguard-go, the handshake itself and statistics: external; only the
  handshake's age matters to the code, and is in ReconnectTriggers.
- Of SaveSettings: the sweep of old logs, the evaluation a changed policy asks for,
  the proxy of the update checks with its event, and the scheduler's kick
  (`settings_ops.go:513`, `520`, `527`, `571`, `585`). Of a rename: the helper's
  cached config; the policy's default and latches are in AutomationPolicy, whose
  RenameTunnelRules is one action, and not in TunnelFiles.
- IPC framing and peer credentials, elevation prompts, installers of the helper's
  service, logging, diagnostics, the CLI's output, widgets, tray and
  notifications: I/O. What they call is modelled where it changes state.
- Hook scripts, `Table = off` on macOS and Windows, the kill switch primitives
  (nothing calls them any more), proxies and mirrors of downloads.
- Which command tells the SSID on which platform; what a report is worth is in
  AutomationEngine.
- The event streams' 32-slot channels, which drop events when a subscriber is slow.

## 9. Running

    tlc -config HTLive.cfg     MCHelperTunnels.tla      # free_callers
    tlc -config HTDNS.cfg      MCHelperTunnels.tla      # dns_and_crashes
    tlc -config RMRetries.cfg  MCReconnect.tla          # retries
    tlc -config APolicies.cfg  MCAutomationPolicy.tla   # policies
    tlc -config AEngine.cfg    MCAutomationEngine.tla   # automation
    tlc -config Shutdown.cfg   MCHelperShutdown.tla     # shutdown
    tlc -config DNSPath.cfg    DNSPath.tla              # dns_path
    tlc -config Endpoint.cfg   MCEndpointSwitch.tla     # endpoint
    tlc -config Update.cfg     UpdateScheduler.tla      # update
    tlc -config SystemState.cfg MCSystemState.tla       # system_state
    tlc -config FindLoopProtection.cfg Firewall.tla     # section 4, expected to fail
    tlc -config FindNeighbourDNS.cfg MCSystemState.tla  # likewise
    tlapm HelperTunnelsProofs.tla                       # and the other seven

With `Parts` in SystemState.cfg reduced to one part, that part is checked alone,
and its bound can be raised.

`PROJECT.json` maps every definition to the lines of the source it models, and
lists the hazards with the properties that watch them.
