---------------------------- MODULE MCSystemState ----------------------------
(* What the program leaves in the operating system and on disk, for TLC, part
   beside part: the firewalls (the one module extended), what it keeps for its user
   (the other), the Linux network manager, Windows' bypass routes and socket pin,
   macOS' bypass routes and services, the loop watchdog, and the reconnect monitor's
   triggers.  They share no state: a behaviour is one part's, and the others stay as
   they are. *)
EXTENDS Integers, Firewall, MCUserState

\* Parts is of "firewall", "linux", "windows", "darwin", "watchdog", "triggers", too.
CONSTANTS
    \* LinuxNetwork: the tunnels, the full ones, those with DNS servers, those pinned
    \* to an interface; for TLC a full one, a full one with a table, two split ones,
    \* the second of which routes nothing.
    LinuxTunnels, LinuxFull, LinuxDNS, LinuxBound, TableCfg, AutoTable, Tables, Foreign,
    LinuxEvents, full, bound, split, bare,
    \* WindowsNetwork.
    Adapters, Endpoints4, Endpoints6, WindowsEvents,
    \* MacNetwork.
    Gateways, Endpoints, Services, MaxRestarts, MacEvents,
    \* LoopWatchdog, ReconnectTriggers.
    Periods, TriggerEvents

VARIABLES
    levents, mech, links, routes, rule, linkDNS, resolv, ljournal, original, lalive,
    ltodo, lup, mgr, lost, overlapped,
    wevents, six, underlay, adapters, rows, halves, sock, want, wtodo, wup, target,
    bypass, mon, pinned, lastV4, armed, evals, polling, reported, leaked, lostRows,
    raced, polled,
    mevents, gateway, pinnedTo, usable, live, hosts, split1, services, mtodo, mup, probed,
    mlast, mbypass, msaved, preMod, dnsActive, monitor, restarts, kick, loops, emptied,
    missed, shifted, overlap,
    periods, session, phase, dog, forced, trip, streak, looped, prompt,
    revents, host, primary, detected, cool, changed, woke, resumed, health, exempt, vpn,
    builtOn, builtBy, configured, shaken, age, due, retry, idle, unseen, kept

lvars == <<levents, mech, links, routes, rule, linkDNS, resolv, ljournal, original,
           lalive, ltodo, lup, mgr, lost, overlapped>>
wvars == <<wevents, six, underlay, adapters, rows, halves, sock, want, wtodo, wup,
           target, bypass, mon, pinned, lastV4, armed, evals, polling, reported,
           leaked, lostRows, raced, polled>>
mvars == <<mevents, gateway, pinnedTo, usable, live, hosts, split1, services, mtodo, mup,
           probed, mlast, mbypass, msaved, preMod, dnsActive, monitor, restarts, kick,
           loops, emptied, missed, shifted, overlap>>
dvars == <<periods, session, phase, dog, forced, trip, streak, looped, prompt>>
rvars == <<revents, host, primary, detected, cool, changed, woke, resumed, health, exempt,
           vpn, builtOn, builtBy, configured, shaken, age, due, retry, idle, unseen, kept>>

\* No value is no state of an interface, a route or a service.
ASSUME NoneAssumption ==
    None \notin {"ok", "error", "absent", "hole", "own", "empty", "tunnel"}

Linux == INSTANCE LinuxNetwork WITH
    Tunnels <- LinuxTunnels, Full <- LinuxFull, DNS <- LinuxDNS, Bound <- LinuxBound,
    Auto <- AutoTable, MaxEvents <- LinuxEvents, events <- levents, journal <- ljournal,
    saved <- original, alive <- lalive, todo <- ltodo, up <- lup

\* The tables that routes are looked for in are numbers, and the config names one.
ASSUME LinuxAssumption ==
    /\ Tables \subseteq Nat /\ Tables # {}
    /\ TableCfg \in [LinuxTunnels -> Tables \cup {AutoTable, Linux!Off}]
    /\ AutoTable \notin Nat \cup {Linux!Off}
    /\ LinuxFull \subseteq LinuxTunnels

\* The last of these is Off.
MCTableCfg ==
    [t \in LinuxTunnels |-> CASE t = bound -> 2 [] t = bare -> -1 [] OTHER -> AutoTable]

Windows == INSTANCE WindowsNetwork WITH
    MaxEvents <- WindowsEvents, events <- wevents, ups <- adapters, todo <- wtodo,
    up <- wup, last <- lastV4

Mac == INSTANCE MacNetwork WITH
    MaxEvents <- MacEvents, events <- mevents, bound <- pinnedTo, halves <- split1,
    dns <- services, todo <- mtodo, up <- mup, last <- mlast, bypass <- mbypass,
    saved <- msaved

\* MiB/s: idle; below the threshold; a loop; an upload at 50:1; one just under 10:1.
Watchdog == INSTANCE LoopWatchdog WITH
    Sessions <- {1, 2}, MaxPeriods <- Periods,
    Traffic <- {<<0, 0>>, <<25, 0>>, <<50, 0>>, <<50, 1>>, <<50, 6>>}, state <- phase

\* On macOS they are those of Windows, without the sessions.
Triggers == INSTANCE ReconnectTriggers WITH
    Platforms <- {"linux", "windows"}, Networks <- Services, MaxEvents <- TriggerEvents, events <- revents,
    platform <- host, net <- primary, state <- vpn, path <- builtOn, by <- builtBy,
    cached <- configured

MCInit ==
    /\ UserInit
    /\ Init /\ (part = "firewall" \/ (os = "linux" /\ ~hadPf))
    /\ Linux!Init /\ (part = "linux" \/ mech = "file")
    /\ Windows!Init /\ (part = "windows" \/ (six /\ want = None))
    /\ Mac!Init /\ (part = "darwin" \/ ~pinnedTo)
    /\ Watchdog!Init
    /\ Triggers!Init /\ (part = "triggers" \/ host = "linux")
    \* One network, adapter, gateway or endpoint is like another.
    /\ primary = CHOOSE n \in Services : TRUE
    /\ underlay = CHOOSE a \in Adapters : TRUE
    /\ gateway = CHOOSE g \in Gateways : TRUE
    /\ live = CHOOSE e \in Endpoints : TRUE

\* A step of a part that is the operating system's.
SystemNext ==
    /\ UNCHANGED <<part, userVars>>
    /\ \/ part = "firewall" /\ Next /\ UNCHANGED <<lvars, wvars, mvars, dvars, rvars>>
       \/ part = "linux" /\ Linux!Next /\ UNCHANGED <<vars, wvars, mvars, dvars, rvars>>
       \/ part = "windows" /\ Windows!Next /\ UNCHANGED <<vars, lvars, mvars, dvars, rvars>>
       \/ part = "darwin" /\ Mac!Next /\ UNCHANGED <<vars, lvars, wvars, dvars, rvars>>
       \/ part = "watchdog" /\ Watchdog!Next /\ UNCHANGED <<vars, lvars, wvars, mvars, rvars>>
       \/ part = "triggers" /\ Triggers!Next /\ UNCHANGED <<vars, lvars, wvars, mvars, dvars>>

MCNext ==
    \/ UserNext /\ UNCHANGED <<vars, lvars, wvars, mvars, dvars, rvars>>
    \/ SystemNext

MCSpec ==
    MCInit /\ [][MCNext]_<<part, userVars, vars, lvars, wvars, mvars, dvars, rvars>>

FiltersExact == InForce /\ NothingLeft
RoutesExact == Linux!RoutesExact
DNSFollows == Linux!DNSFollows
DNSExact == Linux!DNSExact
BypassHolds == Windows!BypassHolds
PinFollows == Windows!PinFollows
BypassExact == Mac!BypassFollows /\ Mac!NothingRemains
LoopBroken == Watchdog!LoopBroken
RepairsFollow == Triggers!Rebuilt /\ Triggers!DeadIsRepaired

=============================================================================
