----------------------------- MODULE LinuxNetwork -----------------------------
(***************************************************************************)
(* The Linux network manager: the routes, policy rules and DNS             *)
(* configuration that connects and disconnects leave in the kernel and in  *)
(* /etc, one manager per tunnel, over crashes and recoveries.              *)
(*                                                                         *)
(* A connect or a disconnect is a sequence of steps, each of them one or a *)
(* few external commands; a command of a connect may fail and the process  *)
(* may die between any two steps.  Operations do not overlap: connectMu.   *)
(* A device takes its own routes with it when it goes; rules, endpoint     *)
(* routes, resolvconf records and files stay.  The two address families    *)
(* are one; commands that remove are taken to succeed.                     *)
(***************************************************************************)
EXTENDS Integers, Sequences, FiniteSets

CONSTANTS
    Tunnels,
    Full,        \* the full tunnels
    DNS,         \* the tunnels with DNS servers
    Bound,       \* the tunnels pinned to a physical interface
    TableCfg,    \* [Tunnels -> Tables \cup {Auto, Off}]
    Auto,        \* Table = auto, or none given
    Tables,      \* the numbers findFreeTable tries; the first is 51820
    Foreign,     \* the tables other programs have routes in
    MaxEvents    \* bound: operations, failures and crashes

VARIABLES
    events,
    mech,        \* what SetDNS finds: "resolved", "resolvconf", "file"
    \* The kernel.
    links,       \* the tunnels' devices
    routes,      \* [kind, of, table]
    rule,        \* the table the rule at priority 29040 leads to, or NoTable
    \* DNS.
    linkDNS,     \* [Tunnels -> set of tunnels]: whose servers a link has, or a record
    resolv,      \* /etc/resolv.conf: whose servers, {} for the user's own
    \* Files.
    journal,     \* <<tunnel, endpoint routes recorded>>
    saved,       \* original-dns.json: a resolv.conf, or NoFile
    \* The helper.
    alive,
    todo,        \* the steps of the operation under way
    up,          \* the connected tunnels
    mgr,         \* [Tunnels -> LinuxManager]
    \* History.
    lost,        \* routes and rules that no file told the next process of
    overlapped   \* two tunnels have used resolv.conf, or resolvconf, at a time,
                 \* or a link has kept the servers of a tunnel that is gone

kernel == <<links, routes, rule>>
names == <<linkDNS, resolv>>
files == <<journal, saved>>
memory == <<alive, up, mgr>>
vars == <<events, mech, kernel, names, files, todo, memory, lost, overlapped>>

Off == -1
NoTable == -2
NoFile == {"none"}
Base == CHOOSE n \in Tables : \A k \in Tables : n <= k

Fresh == [set |-> FALSE, table |-> 0, throws |-> FALSE, binds |-> FALSE,
          captured |-> FALSE, orig |-> {}]

TypeOK ==
    /\ events \in 0..MaxEvents
    /\ mech \in {"resolved", "resolvconf", "file"}
    /\ links \subseteq Tunnels /\ up \subseteq links
    /\ routes \in SUBSET [kind : {"default", "split", "throw", "bind"},
                          of : Tunnels, table : {0} \cup Tables]
    /\ rule \in {NoTable} \cup Tables
    /\ linkDNS \in [Tunnels -> SUBSET Tunnels]
    /\ resolv \subseteq Tunnels
    /\ journal \subseteq Tunnels \X BOOLEAN
    /\ saved = NoFile \/ saved \subseteq Tunnels
    /\ alive \in BOOLEAN
    /\ \A t \in Tunnels : mgr[t].table \in {Off, 0} \cup Tables
    /\ overlapped \in BOOLEAN

Init ==
    /\ events = 0
    /\ mech \in {"resolved", "resolvconf", "file"}
    /\ links = {} /\ routes = {} /\ rule = NoTable
    /\ linkDNS = [t \in Tunnels |-> {}] /\ resolv = {}
    /\ journal = {} /\ saved = NoFile
    /\ alive = TRUE /\ todo = <<>> /\ up = {}
    /\ mgr = [t \in Tunnels |-> Fresh]
    /\ lost = {} /\ overlapped = FALSE

-----------------------------------------------------------------------------
(* Tables. *)
Taken == Foreign \cup {r.table : r \in routes}

(* findFreeTable: the number itself if all are taken. *)
FindFreeTable ==
    LET free == Tables \ Taken
    IN  IF free = {} THEN Base ELSE CHOOSE n \in free : \A k \in free : n <= k

(* findOwnedTable: by the default route, which is gone when the device is. *)
FindOwnedTable(t) ==
    LET owned == {r.table : r \in {d \in routes : d.kind = "default" /\ d.of = t}}
    IN  IF owned = {} THEN Base ELSE CHOOSE n \in owned : \A k \in owned : n <= k

(* resolveTableAndFwMark, and what AddRoutes keeps of it: split routes go  *)
(* to the main table (0) unless the config names another.                  *)
Resolve(t) ==
    IF TableCfg[t] # Auto THEN TableCfg[t]
    ELSE IF t \in Full THEN FindFreeTable ELSE 0

(* The table routes are deleted from: a split tunnel's without one is main. *)
TableOf(t) ==
    IF mgr[t].set THEN mgr[t].table
    ELSE IF t \in Full THEN FindOwnedTable(t) ELSE 0

Route(kind, t, n) == [kind |-> kind, of |-> t, table |-> n]
OnDevice(t) == {r \in routes : r.of = t /\ r.kind \in {"default", "split"}}

-----------------------------------------------------------------------------
Settled == alive /\ todo = <<>>
Event == events < MaxEvents /\ events' = events + 1
Step(name) == todo # <<>> /\ Head(todo)[1] = name
Arg == Head(todo)[2]
Finish == todo' = Tail(todo)
For(t, steps) == [i \in 1..Len(steps) |-> <<steps[i], t>>]

ConnectSteps(t) ==
    For(t, <<"link", "table">>
           \o (IF TableCfg[t] = Off THEN <<>>
               ELSE (IF t \in Full THEN <<"default", "rule">> ELSE <<"split">>) \o <<"endpoint">>)
           \o <<"checkpoint">>
           \o (IF t \in DNS THEN <<"capture", "setdns">> ELSE <<>>)
           \o <<"up">>)

(* A manager that has not resolved a table deletes by what it finds. *)
RemoveSteps(t) ==
    IF mgr[t].set /\ mgr[t].table = Off THEN <<>>
    ELSE For(t, IF t \in Full THEN <<"rroutes", "rbinds", "rrule">> ELSE <<"rroutes", "rbinds">>)

(* connectPhases' rollback. *)
Rollback(t) == RemoveSteps(t) \o For(t, <<"restore", "close">>)
Fails == Event /\ todo' = Rollback(Arg)

(* disconnectPhases. *)
DisconnectSteps(t) == RemoveSteps(t) \o For(t, <<"close", "cleanup", "forget">>)

(* A new manager, whatever the last one of that name remembered. *)
Connect(t) ==
    /\ Settled /\ Event
    /\ t \notin up
    /\ t \in Full => up \cap Full = {}
    /\ todo' = ConnectSteps(t)
    /\ mgr' = [mgr EXCEPT ![t] = Fresh]
    /\ overlapped' = (overlapped \/ (mech # "resolved" /\ up # {}))
    /\ UNCHANGED <<mech, kernel, names, files, alive, up, lost>>

Disconnect(t) ==
    /\ Settled /\ Event
    /\ t \in up
    /\ up' = up \ {t}
    /\ todo' = DisconnectSteps(t)
    /\ UNCHANGED <<mech, kernel, names, files, alive, mgr, lost, overlapped>>

-----------------------------------------------------------------------------
(* A connect. *)

(* The device, its MTU and address, and up it goes. *)
Link ==
    /\ Step("link")
    /\ \/ Finish /\ links' = links \cup {Arg} /\ UNCHANGED events
       \/ Fails /\ links' \in {links, links \cup {Arg}}
    /\ UNCHANGED <<routes, rule, names, files, memory, lost, overlapped>>

(* AddRoutes, to begin with: the table; the mark on a full tunnel's socket. *)
Table ==
    /\ Step("table")
    /\ Finish
    /\ mgr' = [mgr EXCEPT ![Arg].set = TRUE, ![Arg].table = Resolve(Arg)]
    /\ UNCHANGED <<events, kernel, names, files, alive, up, lost, overlapped>>

Add(kind) ==
    /\ \/ Finish /\ routes' = routes \cup {Route(kind, Arg, mgr[Arg].table)} /\ UNCHANGED events
       \/ Fails /\ UNCHANGED routes
    /\ UNCHANGED <<links, rule, names, files, memory, lost, overlapped>>

Default == Step("default") /\ Add("default")
Split == Step("split") /\ Add("split")

(* The rule is looked for by its priority alone. *)
Rule ==
    /\ Step("rule")
    /\ \/ Finish /\ rule' = (IF rule = NoTable THEN mgr[Arg].table ELSE rule) /\ UNCHANGED events
       \/ rule = NoTable /\ Fails /\ UNCHANGED rule
    /\ UNCHANGED <<links, routes, names, files, memory, lost, overlapped>>

(* The endpoint's host route: a throw out of the full tunnel's table, or   *)
(* the main table and the pinned interface.  One that is there is left     *)
(* alone, and not this manager's to remove.                                *)
Endpoint ==
    /\ Step("endpoint")
    /\ LET bind == Arg \in Bound
           there == Route("bind", Arg, 0) \in routes
       IN  IF there \/ (~bind /\ Arg \notin Full)
           THEN Finish /\ UNCHANGED <<events, routes, mgr>>
           ELSE \/ /\ Finish
                   /\ routes' = routes \cup {IF bind THEN Route("bind", Arg, 0)
                                             ELSE Route("throw", Arg, mgr[Arg].table)}
                   /\ mgr' = IF bind THEN [mgr EXCEPT ![Arg].binds = TRUE]
                             ELSE [mgr EXCEPT ![Arg].throws = TRUE]
                   /\ UNCHANGED events
                \/ bind /\ Fails /\ UNCHANGED <<routes, mgr>>
                \/ ~bind /\ Event /\ Finish /\ UNCHANGED <<routes, mgr>>
    /\ UNCHANGED <<links, rule, names, files, alive, up, lost, overlapped>>

(* Written before DNS is touched, with the throw routes. *)
Record(t) == journal' = {j \in journal : j[1] # t} \cup {<<t, mgr[t].throws>>}

Checkpoint ==
    /\ Step("checkpoint")
    /\ Finish
    /\ Record(Arg)
    /\ UNCHANGED <<events, kernel, names, saved, memory, lost, overlapped>>

(* The servers SetDNS is given: the tunnel's and the connected ones'. *)
Union(t) == (up \cup {t}) \cap DNS

(* What was there is kept in memory only. *)
Capture_Mut ==
    /\ Step("capture")
    /\ Finish
    /\ mgr' = IF mech = "file" /\ ~mgr[Arg].captured
              THEN [mgr EXCEPT ![Arg].captured = TRUE, ![Arg].orig = resolv]
              ELSE mgr
    /\ UNCHANGED <<events, kernel, names, files, alive, up, lost, overlapped>>

(* SetDNS without systemd-resolved or resolvconf: the file is read and     *)
(* persisted once, until it is restored.                                   *)
Capture ==
    /\ Step("capture")
    /\ Finish
    /\ IF mech = "file" /\ ~mgr[Arg].captured
       THEN /\ mgr' = [mgr EXCEPT ![Arg].captured = TRUE, ![Arg].orig = resolv]
            /\ saved' = resolv
       ELSE UNCHANGED <<mgr, saved>>
    /\ UNCHANGED <<events, kernel, names, journal, alive, up, lost, overlapped>>

Write(t, servers) ==
    IF mech = "file" THEN resolv' = servers /\ UNCHANGED linkDNS
    ELSE linkDNS' = [linkDNS EXCEPT ![t] = servers] /\ UNCHANGED resolv

(* systemd-resolved, then resolvconf, then the file, which may be a        *)
(* symlink, or read-only, and refused.                                     *)
SetDNS ==
    /\ Step("setdns")
    /\ \/ Finish /\ Write(Arg, Union(Arg)) /\ UNCHANGED events
       \/ Fails /\ UNCHANGED names
    /\ UNCHANGED <<kernel, files, memory, lost, overlapped>>

Up ==
    /\ Step("up")
    /\ Finish
    /\ up' = up \cup {Arg}
    /\ Record(Arg)
    /\ UNCHANGED <<events, kernel, names, saved, alive, mgr, lost, overlapped>>

-----------------------------------------------------------------------------
(* A disconnect, a rollback, a recovery. *)

Gone(rs) == routes' = routes \ rs /\ lost' = lost \ rs

(* The device's routes, and the recorded throw routes of its table. *)
RemoveRoutes ==
    /\ Step("rroutes")
    /\ Finish
    /\ Gone({r \in OnDevice(Arg) : r.table = TableOf(Arg)}
            \cup (IF mgr[Arg].throws THEN {Route("throw", Arg, TableOf(Arg))} ELSE {}))
    /\ mgr' = [mgr EXCEPT ![Arg].throws = FALSE]
    /\ UNCHANGED <<events, links, rule, names, files, alive, up, overlapped>>

RemoveBinds ==
    /\ Step("rbinds")
    /\ Finish
    /\ Gone(IF mgr[Arg].binds THEN {Route("bind", Arg, 0)} ELSE {})
    /\ mgr' = [mgr EXCEPT ![Arg].binds = FALSE]
    /\ UNCHANGED <<events, links, rule, names, files, alive, up, overlapped>>

(* deleteByPriority. *)
RemoveRule ==
    /\ Step("rrule")
    /\ Finish
    /\ rule' = NoTable
    /\ lost' = {l \in lost : l.kind # "rule"}
    /\ UNCHANGED <<events, links, routes, names, files, memory, overlapped>>

(* The engine closes; the device goes. *)
Close ==
    /\ Step("close")
    /\ Finish
    /\ links' = links \ {Arg}
    /\ routes' = routes \ OnDevice(Arg)
    /\ linkDNS' = IF mech = "resolved" THEN [linkDNS EXCEPT ![Arg] = {}] ELSE linkDNS
    /\ UNCHANGED <<events, rule, resolv, files, memory, lost, overlapped>>

(* RestoreDNS: the link's or the record's servers go; the original comes   *)
(* back from memory, or from the file, whichever tunnel wrote it.          *)
RestoreDNS(t) ==
    /\ linkDNS' = [linkDNS EXCEPT ![t] = {}]
    /\ IF mgr[t].captured \/ saved # NoFile
       THEN /\ resolv' = IF mgr[t].captured THEN mgr[t].orig ELSE saved
            /\ saved' = NoFile
            /\ mgr' = [mgr EXCEPT ![t].captured = FALSE]
       ELSE UNCHANGED <<resolv, saved, mgr>>

(* Cleanup also takes the policy rules away. *)
Restore_Mut ==
    /\ Step("restore")
    /\ Finish
    /\ RestoreDNS(Arg)
    /\ links' = links \ {Arg}
    /\ routes' = routes \ OnDevice(Arg)
    /\ rule' = NoTable
    /\ UNCHANGED <<events, journal, alive, up, lost, overlapped>>

(* Cleanup: DNS, and the device if it is still there.  Policy rules are    *)
(* left alone: another tunnel may need them.                               *)
Restore ==
    /\ Step("restore")
    /\ Finish
    /\ RestoreDNS(Arg)
    /\ links' = links \ {Arg}
    /\ routes' = routes \ OnDevice(Arg)
    /\ UNCHANGED <<events, rule, journal, alive, up, lost, overlapped>>

(* disconnectPhases: with other DNS servers in use, no cleanup; SetDNS on  *)
(* any connected tunnel's manager.  The links of the others keep the       *)
(* servers they list.                                                      *)
Kept(t) == mech = "resolved" /\ \E u \in up \ {t} : ~(linkDNS[u] \subseteq up \cap DNS)

Cleanup ==
    /\ Step("cleanup")
    /\ IF up \cap DNS = {}
       THEN /\ todo' = For(Arg, <<"restore">>) \o Tail(todo)
            /\ overlapped' = (overlapped \/ Kept(Arg))
       ELSE \E t \in up :
            /\ todo' = For(t, <<"capture", "reapply">>) \o Tail(todo)
            /\ overlapped' = (overlapped \/ Kept(t))
    /\ UNCHANGED <<events, kernel, names, files, memory, lost>>

Reapply ==
    /\ Step("reapply")
    /\ Finish
    /\ Write(Arg, up \cap DNS)
    /\ UNCHANGED <<events, kernel, files, memory, lost, overlapped>>

(* ClearActiveState. *)
Forget ==
    /\ Step("forget")
    /\ Finish
    /\ journal' = {j \in journal : j[1] # Arg}
    /\ UNCHANGED <<events, kernel, names, saved, memory, lost, overlapped>>

-----------------------------------------------------------------------------
(* Crash and recovery. *)

(* What RecoverFromCrash will look for: the rules, if a full tunnel is on  *)
(* record; its throw routes, in the table it will take for its own.        *)
Recoverable(r) ==
    \E j \in journal :
        /\ j[1] \in Full
        /\ TableCfg[j[1]] # Off
        /\ \/ r.kind = "rule"
           \/ /\ r.kind = "throw" /\ r.of = j[1] /\ j[2]
              /\ r.table = (IF TableCfg[j[1]] = Auto THEN Base ELSE TableCfg[j[1]])

Durable ==
    {r \in routes : r.kind \in {"throw", "bind"}}
        \cup (IF rule = NoTable THEN {} ELSE {[kind |-> "rule", table |-> rule]})

Crash ==
    /\ alive
    /\ Event
    /\ alive' = FALSE /\ todo' = <<>> /\ up' = {}
    /\ mgr' = [t \in Tunnels |-> Fresh]
    /\ links' = {}
    /\ routes' = {r \in routes : r.kind \in {"throw", "bind"}}
    /\ linkDNS' = IF mech = "resolved" THEN [t \in Tunnels |-> {}] ELSE linkDNS
    /\ lost' = lost \cup {r \in Durable : ~Recoverable(r)}
    /\ UNCHANGED <<mech, rule, resolv, files, overlapped>>

(* RestoreRoutingState, RestoreEndpointRoutes: a manager per state file.   *)
Recovered(j) ==
    [Fresh EXCEPT !.set = TableCfg[j[1]] # Auto,
                  !.table = IF TableCfg[j[1]] = Auto THEN 0 ELSE TableCfg[j[1]],
                  !.throws = j[2]]

(* RecoverFromCrash: per file, in the directory's order; then the files go. *)
(* A connect that failed has left its file too.                            *)
RecoverSteps(order) ==
    [i \in 1..3 * Len(order) |->
        <<<<"reset", "recover", "restore">>[((i - 1) % 3) + 1], order[((i - 1) \div 3) + 1]>>]

Launch ==
    /\ ~alive
    /\ alive' = TRUE
    /\ mgr' = [t \in Tunnels |->
                 IF \E j \in journal : j[1] = t THEN Recovered(CHOOSE j \in journal : j[1] = t)
                 ELSE Fresh]
    /\ LET recorded == {j[1] : j \in journal}
           n == Cardinality(recorded)
       IN  \E order \in [1..n -> recorded] :
               /\ recorded = {order[i] : i \in 1..n}
               /\ todo' = RecoverSteps(order)
                             \o (IF n = 0 THEN <<>> ELSE <<<<"clear", order[1]>>>>)
    /\ UNCHANGED <<events, mech, kernel, names, files, up, lost, overlapped>>

(* ResetDNSToSystemDefault: no link of the crashed process is there to     *)
(* revert; the persisted file is.                                          *)
Reset ==
    /\ Step("reset")
    /\ Finish
    /\ resolv' = IF saved = NoFile THEN resolv ELSE saved
    /\ saved' = NoFile
    /\ UNCHANGED <<events, kernel, linkDNS, journal, memory, lost, overlapped>>

(* RemoveRoutes without the allowed IPs. *)
Recover ==
    /\ Step("recover")
    /\ todo' = RemoveSteps(Arg) \o Tail(todo)
    /\ UNCHANGED <<events, kernel, names, files, memory, lost, overlapped>>

Clear ==
    /\ Step("clear")
    /\ Finish
    /\ journal' = {}
    /\ UNCHANGED <<events, kernel, names, saved, memory, lost, overlapped>>

-----------------------------------------------------------------------------
Steps ==
    \/ Link \/ Table \/ Default \/ Split \/ Rule \/ Endpoint \/ Checkpoint
    \/ Capture \/ SetDNS \/ Up
    \/ RemoveRoutes \/ RemoveBinds \/ RemoveRule \/ Close \/ Restore \/ Cleanup
    \/ Reapply \/ Forget \/ Reset \/ Recover \/ Clear

Next ==
    \/ \E t \in Tunnels : Connect(t) \/ Disconnect(t)
    \/ Crash \/ Launch
    \/ Steps /\ UNCHANGED mech

Spec == Init /\ [][Next]_vars

-----------------------------------------------------------------------------
(* Properties. *)

(* What the connected tunnels' routing consists of. *)
Needed(t) ==
    IF mgr[t].table = Off THEN {}
    ELSE {Route(IF t \in Full THEN "default" ELSE "split", t, mgr[t].table)}
         \cup (IF mgr[t].throws THEN {Route("throw", t, mgr[t].table)} ELSE {})
         \cup (IF mgr[t].binds THEN {Route("bind", t, 0)} ELSE {})

(* Between two operations the kernel has the routes of the connected       *)
(* tunnels, all of them and in the table their rule leads to, and nothing  *)
(* else: no failed connect, disconnect of a neighbour, crash or recovery   *)
(* takes a route that is needed or leaves one that is not, but what a      *)
(* crash left that no file told of.                                        *)
RoutesExact ==
    Settled =>
        /\ routes \ lost = (UNION {Needed(t) : t \in up}) \ lost
        /\ LET routed == {t \in up \cap Full : mgr[t].table # Off}
           IN  (\E l \in lost : l.kind = "rule")
               \/ (routed = {} /\ rule = NoTable)
               \/ \E t \in routed : rule = mgr[t].table

(* Whose servers names are asked of. *)
Effective ==
    IF mech = "file" THEN resolv
    ELSE UNION {linkDNS[t] : t \in IF mech = "resolved" THEN links ELSE Tunnels}

(* Between two operations names are resolved by the connected tunnels'     *)
(* servers, and by the user's own when there are none, after failures,     *)
(* crashes and recoveries too.                                             *)
DNSExact == Settled => Effective = up \cap DNS

(* The same where each tunnel has its link's own servers, as long as no    *)
(* disconnect leaves a neighbour's link the servers of the tunnel that     *)
(* went, and elsewhere as long as tunnels come one after another.          *)
DNSFollows == ~overlapped => DNSExact

=============================================================================
