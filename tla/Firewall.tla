------------------------------- MODULE Firewall -------------------------------
(***************************************************************************)
(* What the helper leaves in the operating system's packet filter, on each *)
(* platform: pf anchors on macOS (with pf itself turned on and off), an    *)
(* nftables table on Linux, a dynamic WFP session on Windows.  Two things  *)
(* are kept there: the DNS resolve path enforcement (port 53 dropped but   *)
(* through one tunnel) and, on Windows, the endpoint loop protection of    *)
(* full tunnels.                                                           *)
(*                                                                         *)
(* An operation of the helper is a sequence of steps; a crash may come     *)
(* between any two.  On macOS every pfctl command and file write is a step *)
(* of its own.  Operations do not overlap, which connectMu ensures of the  *)
(* users' and most of the engine's.  The kill switch primitives, which     *)
(* nothing calls any more, are left out: killSwitchEnabled is FALSE.       *)
(***************************************************************************)
EXTENDS Naturals, Sequences, FiniteSets

CONSTANTS
    Tunnels,
    None,        \* no tunnel
    Claims,      \* the tunnels that claim the DNS resolve path
    Full,        \* the full tunnels
    Platforms,   \* of "darwin", "linux", "windows"
    MaxEvents    \* bound: operations, crashes, failed commands

ASSUME FirewallAssumption ==
    /\ None \notin Tunnels
    /\ Claims \subseteq Tunnels /\ Full \subseteq Tunnels
    /\ Platforms \subseteq {"darwin", "linux", "windows"}
    /\ MaxEvents \in Nat

VARIABLES
    events,
    os,
    \* The operating system.
    pf,          \* macOS: pf is enabled
    hadPf,       \* macOS: it was before the program was ever started
    rules,       \* the tunnel the port 53 rules let through: by its interface, or
                 \* on Windows by its servers
    blocks,      \* Windows: the tunnels with loop protection filters
    \* Files.
    journal,     \* the tunnels with an active state file
    file,        \* savedPfStateFile: none, on, off
    \* The helper.
    alive,       \* off, starting, on, stopping
    todo,        \* the steps of the operation under way: <<name, tunnel>>
    up,          \* the tunnels that are connected
    cached,      \* activeCfgs
    owner,       \* dnsPathOwner
    saved,       \* fwSavedDNSProtection, with servers to restore
    carrier,     \* dnsProtectionEnabled, with the tunnel it was given
    pfWasEnabled,
    tracked,     \* Windows: endpointProtectionState
    \* History.
    torn,        \* a crash left what no file tells the next launch of
    reenabled    \* rules were loaded over rules that were there

kernel == <<pf, rules, blocks>>
files == <<journal, file>>
memory == <<up, cached, owner, saved, carrier, pfWasEnabled, tracked>>
history == <<torn, reenabled>>
vars == <<events, os, hadPf, kernel, files, alive, todo, memory, history>>

Maybe == Tunnels \cup {None}
Steps == {"protect", "up", "down", "downall", "apply", "own", "release", "suspend", "resume",
          "persist", "load", "pfon", "enabled", "enable",
          "flush", "forget", "pfoff", "disabled", "disable",
          "cleanup", "cleaned", "recover", "restored", "exit"}

TypeOK ==
    /\ events \in 0..MaxEvents
    /\ os \in Platforms
    /\ {pf, hadPf, saved, pfWasEnabled, torn, reenabled} \subseteq BOOLEAN
    /\ {rules, owner, carrier} \subseteq Maybe
    /\ file \in {"none", "on", "off"}
    /\ alive \in {"off", "starting", "on", "stopping"}
    /\ todo \in Seq(Steps \X Maybe)
    /\ {blocks, journal, up, cached, tracked} \subseteq SUBSET Tunnels
    \* What the helper believes of its filters is so; what runs is known to
    \* the next launch, and to the next retry.
    /\ tracked = blocks
    /\ up \subseteq journal /\ up \subseteq cached
    /\ alive = "off" => todo = <<>> /\ up = {}

Event == events < MaxEvents /\ events' = events + 1

-----------------------------------------------------------------------------
(* Memory of a process that has just started. *)
Reborn ==
    /\ up' = {} /\ cached' = {} /\ tracked' = {}
    /\ owner' = None /\ carrier' = None
    /\ saved' = FALSE /\ pfWasEnabled' = FALSE

Init ==
    /\ events = 0
    /\ os \in Platforms
    /\ hadPf \in IF os = "darwin" THEN BOOLEAN ELSE {FALSE}
    /\ pf = hadPf
    /\ rules = None /\ blocks = {}
    /\ journal = {} /\ file = "none"
    /\ alive = "off" /\ todo = <<>>
    /\ up = {} /\ cached = {} /\ tracked = {}
    /\ owner = None /\ carrier = None
    /\ saved = FALSE /\ pfWasEnabled = FALSE
    /\ torn = FALSE /\ reenabled = FALSE

-----------------------------------------------------------------------------
(* Between two operations. *)
Settled == alive = "on" /\ todo = <<>>

(* What the FirewallManager's methods do, platform by platform. *)

(* EnableDNSProtection. *)
EnableSteps(t) ==
    IF os = "darwin"
    THEN <<<<"persist", t>>, <<"load", t>>, <<"pfon", t>>, <<"enabled", t>>>>
    ELSE <<<<"enable", t>>>>

(* DisableDNSProtection. *)
DisableSteps ==
    IF os = "darwin"
    THEN <<<<"flush", None>>, <<"forget", None>>>>
         \o (IF pfWasEnabled THEN <<>> ELSE <<<<"pfoff", None>>>>)
         \o <<<<"disabled", None>>>>
    ELSE <<<<"disable", None>>>>

(* Cleanup of what this process enabled, and of nothing else. *)
CleanupSteps_Mut ==
    IF carrier # None THEN DisableSteps ELSE <<<<"cleaned", None>>>>

(* Cleanup.  It restores pf only if this process had enabled something. *)
CleanupSteps ==
    IF os = "darwin"
    THEN <<<<"flush", None>>>>
         \o (IF carrier # None /\ ~pfWasEnabled THEN <<<<"pfoff", None>>>> ELSE <<>>)
         \o (IF carrier # None THEN <<<<"forget", None>>>> ELSE <<>>)
         \o <<<<"cleaned", None>>>>
    ELSE <<<<"disable", None>>, <<"cleaned", None>>>>

(* RecoverSavedRules; the others keep no state of their own. *)
RecoverSteps ==
    IF file # "none"
    THEN <<<<"flush", None>>>>
         \o (IF file = "off" THEN <<<<"pfoff", None>>>> ELSE <<>>)
         \o <<<<"forget", None>>>>
    ELSE <<>>

(* Begin an operation, or replace its first step by several. *)
Begin(steps) == Settled /\ Event /\ todo' = steps
Step(name) == todo # <<>> /\ Head(todo)[1] = name
Arg == Head(todo)[2]
Finish == todo' = Tail(todo)
Expand(steps) == todo' = steps \o Tail(todo)

-----------------------------------------------------------------------------
(* The helper's operations. *)

(* handleConnect, automationConnect. *)
Connect(t) ==
    /\ t \notin up
    /\ Begin((IF t \in Full THEN <<<<"protect", t>>>> ELSE <<>>)
             \o <<<<"up", t>>>>
             \o (IF t \in Claims THEN <<<<"apply", t>>>> ELSE <<>>))
    /\ UNCHANGED <<os, hadPf, kernel, files, alive, memory, history>>

(* handleDisconnect: the tunnel first, then clearDNSPathIfOwner. *)
Disconnect(t) ==
    /\ t \in up
    /\ Begin(<<<<"down", t>>, <<"release", t>>>>)
    /\ UNCHANGED <<os, hadPf, kernel, files, alive, memory, history>>

(* An attempt of the reconnect monitor, which ends well or not. *)
Retry(t, well) ==
    /\ t \in cached
    /\ Begin(<<<<"suspend", t>>, <<"down", t>>>>
             \o (IF ~well THEN <<>>
                 ELSE (IF t \in Full THEN <<<<"protect", t>>>> ELSE <<>>)
                      \o <<<<"up", t>>>>)
             \o <<<<"resume", t>>>>)
    /\ UNCHANGED <<os, hadPf, kernel, files, alive, memory, history>>

(* handleClearDNSPathEnforcement: the master switch is turned off. *)
ClearEnforcement ==
    /\ owner # None
    /\ Begin(DisableSteps)
    /\ owner' = None
    /\ UNCHANGED <<os, hadPf, kernel, files, alive, up, cached, saved, carrier,
                   pfWasEnabled, tracked, history>>

(* cleanup: DisconnectAll, which knows nothing of the DNS path, then the   *)
(* firewall.                                                               *)
Shutdown ==
    /\ Settled
    /\ todo' = <<<<"downall", None>>, <<"cleanup", None>>, <<"exit", None>>>>
    /\ alive' = "stopping"
    /\ UNCHANGED <<events, os, hadPf, kernel, files, memory, history>>

(* Run: the tunnels' recovery, which cleans the firewall if it finds a     *)
(* file of a tunnel, then the firewall's own.                              *)
Launch ==
    /\ alive = "off"
    /\ alive' = "starting"
    /\ todo' = (IF journal # {} THEN <<<<"cleanup", None>>, <<"recover", None>>>>
                ELSE <<>>) \o <<<<"restored", None>>>>
    /\ UNCHANGED <<events, os, hadPf, kernel, files, memory, history>>

(* Of what the helper has put into the kernel, nothing on disk tells.      *)
Unrecorded ==
    /\ file = "none"
    /\ \/ pf # hadPf
       \/ os = "linux" /\ rules # None /\ journal = {}

(* The process dies; its tunnels' devices and its WFP session with it.     *)
Crash ==
    /\ alive # "off"
    /\ Event
    /\ alive' = "off"
    /\ todo' = <<>>
    /\ Reborn
    /\ blocks' = {}
    /\ rules' = IF os = "windows" THEN None ELSE rules
    /\ torn' = (torn \/ Unrecorded)
    /\ UNCHANGED <<os, hadPf, pf, files, reenabled>>

-----------------------------------------------------------------------------
(* The steps. *)

(* connectPhases: the loop protection goes in before the engine starts, in *)
(* the session it shares with the DNS filters.                             *)
Protect ==
    /\ Step("protect")
    /\ Finish
    /\ IF os = "windows"
       THEN blocks' = blocks \cup {Arg} /\ tracked' = tracked \cup {Arg}
       ELSE UNCHANGED <<blocks, tracked>>
    /\ UNCHANGED <<pf, rules, files, alive, up, cached, owner, saved, carrier,
                   pfWasEnabled, history>>

Up ==
    /\ Step("up")
    /\ Finish
    /\ up' = up \cup {Arg}
    /\ cached' = cached \cup {Arg}
    /\ journal' = journal \cup {Arg}
    /\ UNCHANGED <<kernel, file, alive, owner, saved, carrier, pfWasEnabled,
                   tracked, history>>

(* disconnectPhases, and the tunnel's state file. *)
Down ==
    /\ Step("down")
    /\ Finish
    /\ up' = up \ {Arg}
    /\ journal' = journal \ {Arg}
    /\ blocks' = blocks \ {Arg}
    /\ tracked' = tracked \ {Arg}
    /\ UNCHANGED <<pf, rules, file, alive, cached, owner, saved, carrier,
                   pfWasEnabled, history>>

(* applyPostConnectFirewall. *)
Apply ==
    /\ Step("apply")
    /\ Expand(EnableSteps(Arg) \o <<<<"own", Arg>>>>)
    /\ reenabled' = (reenabled \/ rules # None)
    /\ UNCHANGED <<kernel, files, alive, memory, torn>>

Own ==
    /\ Step("own")
    /\ Finish
    /\ owner' = Arg
    /\ UNCHANGED <<kernel, files, alive, up, cached, saved, carrier,
                   pfWasEnabled, tracked, history>>

(* The config is forgotten; clearDNSPathIfOwner. *)
Release ==
    /\ Step("release")
    /\ cached' = cached \ {Arg}
    /\ IF owner = Arg
       THEN owner' = None /\ Expand(DisableSteps)
       ELSE Finish /\ UNCHANGED owner
    /\ UNCHANGED <<kernel, files, alive, up, saved, carrier,
                   pfWasEnabled, tracked, history>>

(* suspendFirewall, resumeFirewall.  Status names one of the tunnels that  *)
(* are up; servers to restore are any cached config's.                     *)
Suspend ==
    /\ Step("suspend")
    /\ saved' = (carrier # None /\ cached \cap Claims # {})
    /\ IF carrier # None THEN Expand(DisableSteps) ELSE Finish
    /\ UNCHANGED <<kernel, files, alive, up, cached, owner, carrier,
                   pfWasEnabled, tracked, history>>

Resume ==
    /\ Step("resume")
    /\ saved' = FALSE
    /\ IF saved /\ up # {}
       THEN /\ \E t \in up : Expand(EnableSteps(t))
            /\ reenabled' = (reenabled \/ rules # None)
       ELSE Finish /\ UNCHANGED reenabled
    /\ UNCHANGED <<kernel, files, alive, up, cached, owner, carrier,
                   pfWasEnabled, tracked, torn>>

(* DisconnectAll, one tunnel after another. *)
DownAll ==
    /\ Step("downall")
    /\ IF up = {} THEN Finish
       ELSE \E t \in up : Expand(<<<<"down", t>>, Head(todo)>>)
    /\ UNCHANGED <<kernel, files, alive, memory, history>>

(* The platform's Cleanup, in its steps. *)
Cleanup ==
    /\ Step("cleanup")
    /\ Expand(CleanupSteps)
    /\ UNCHANGED <<kernel, files, alive, memory, history>>

(* macOS, EnableDNSProtection: note whether pf is on, load the rules, turn *)
(* pf on, remember.                                                        *)
Persist ==
    /\ Step("persist")
    /\ Finish
    /\ file' = IF pf THEN "on" ELSE "off"
    /\ UNCHANGED <<kernel, journal, alive, memory, history>>

Load ==
    /\ Step("load")
    /\ Finish
    /\ rules' = Arg
    /\ UNCHANGED <<pf, blocks, files, alive, memory, history>>

PfOn ==
    /\ Step("pfon")
    /\ Finish
    /\ pf' = TRUE
    /\ UNCHANGED <<rules, blocks, files, alive, memory, history>>

Enabled ==
    /\ Step("enabled")
    /\ Finish
    /\ carrier' = Arg
    /\ pfWasEnabled' = (file = "on")
    /\ UNCHANGED <<kernel, files, alive, up, cached, owner, saved, tracked,
                   history>>

(* Linux appends to a chain that is there: what it drops stays dropped.    *)
(* Windows replaces its filters in one transaction; it is given a tunnel's *)
(* interface and goes by the tunnel's servers.                             *)
Enable ==
    /\ Step("enable")
    /\ Finish
    /\ rules' = IF os = "linux" /\ rules # None THEN rules ELSE Arg
    /\ carrier' = Arg
    /\ UNCHANGED <<pf, blocks, files, alive, up, cached, owner, saved,
                   pfWasEnabled, tracked, history>>

(* EnableDNSProtection returns an error, and its caller does no more.      *)
Abandon ==
    /\ Event
    /\ todo' = <<>>
    /\ UNCHANGED <<kernel, files, alive, memory, history>>

(* pfctl does not load the anchor. *)
LoadFails == Step("load") /\ Abandon

(* nft loads nothing of the table, or Windows aborts its transaction.      *)
EnableFails == Step("enable") /\ Abandon

(* macOS: flush the anchors, remove the file, turn pf off. *)
Flush ==
    /\ Step("flush")
    /\ Finish
    /\ rules' = None
    /\ UNCHANGED <<pf, blocks, files, alive, memory, history>>

Forget ==
    /\ Step("forget")
    /\ Finish
    /\ file' = "none"
    /\ UNCHANGED <<kernel, journal, alive, memory, history>>

PfOff ==
    /\ Step("pfoff")
    /\ Finish
    /\ pf' = FALSE
    /\ UNCHANGED <<rules, blocks, files, alive, memory, history>>

Disabled ==
    /\ Step("disabled")
    /\ Finish
    /\ carrier' = None
    /\ UNCHANGED <<kernel, files, alive, up, cached, owner, saved, pfWasEnabled,
                   tracked, history>>

(* Linux and Windows.  Windows closes its session, which the loop          *)
(* protection's filters live in too.                                       *)
Disable ==
    /\ Step("disable")
    /\ Finish
    /\ rules' = None
    /\ carrier' = None
    /\ blocks' = {}
    /\ tracked' = {}
    /\ UNCHANGED <<pf, files, alive, up, cached, owner, saved, pfWasEnabled,
                   history>>

Cleaned ==
    /\ Step("cleaned")
    /\ Finish
    /\ carrier' = None
    /\ pfWasEnabled' = FALSE
    /\ UNCHANGED <<kernel, files, alive, up, cached, owner, saved, tracked,
                   history>>

(* The recovered tunnels' files go, then RecoverSavedRules. *)
Recover ==
    /\ Step("recover")
    /\ Finish
    /\ journal' = {}
    /\ UNCHANGED <<kernel, file, alive, memory, history>>

Restored ==
    /\ Step("restored")
    /\ IF RecoverSteps # <<>> THEN Expand(RecoverSteps \o <<<<"restored", None>>>>)
       ELSE Finish
    /\ alive' = IF RecoverSteps # <<>> THEN alive ELSE "on"
    /\ UNCHANGED <<kernel, files, memory, history>>

Exit ==
    /\ Step("exit")
    /\ todo' = <<>>
    /\ alive' = "off"
    /\ Reborn
    /\ UNCHANGED <<kernel, files, history>>

-----------------------------------------------------------------------------
Operation ==
    \/ \E t \in Tunnels : Connect(t) \/ Disconnect(t)
    \/ \E t \in Tunnels, well \in BOOLEAN : Retry(t, well)
    \/ ClearEnforcement \/ Shutdown \/ Launch \/ Crash

TakeStep ==
    /\ \/ Protect \/ Up \/ Down \/ DownAll \/ Apply \/ Own \/ Release \/ Suspend \/ Resume
       \/ Persist \/ Load \/ PfOn \/ Enabled \/ Enable
       \/ Flush \/ Forget \/ PfOff \/ Disabled \/ Disable
       \/ Cleanup \/ Cleaned \/ Recover \/ Restored \/ Exit
    /\ UNCHANGED <<events, os, hadPf>>

Next ==
    \/ Operation
    \/ TakeStep
    \/ (LoadFails \/ EnableFails) /\ UNCHANGED <<os, hadPf>>

Spec == Init /\ [][Next]_vars

-----------------------------------------------------------------------------
(* Properties. *)

(* Enforcement that is believed to be on is in force: the rules are those  *)
(* of the tunnel last given, and macOS evaluates them (pf is on),          *)
(* whatever was suspended, crashed, failed or disabled before.             *)
InForce ==
    Settled /\ carrier # None =>
        /\ rules = carrier \/ (os = "linux" /\ reenabled)
        /\ os = "darwin" => pf

(* Enforcement that is not on leaves nothing behind: no rule, no filter of *)
(* a tunnel that is not up, in this process or from one that died, unless  *)
(* it died having removed a tunnel's state file and not yet the rules.     *)
(* And pf is as the user had it, unless a process died between forgetting  *)
(* how it was and restoring it, or took its own rules for the user's.      *)
NothingLeft ==
    Settled =>
        /\ carrier = None => (rules = None \/ torn)
        /\ carrier = None => (pf = hadPf) \/ torn \/ reenabled
        /\ blocks \subseteq up

(* A full tunnel that is up on Windows has its loop protection: "installs  *)
(* always-on routing-loop protection for a full-tunnel connect,            *)
(* independently of the kill switch" (firewall/interface.go).              *)
LoopProtected ==
    Settled /\ os = "windows" => up \cap Full \subseteq blocks

=============================================================================
