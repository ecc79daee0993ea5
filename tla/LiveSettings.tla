----------------------------- MODULE LiveSettings -----------------------------
(* The settings file and what it governs while the program runs: the helper's
   live switches, the GUI's log level, the login entry, the hotkey, the DNS path
   enforcement and the sleep override.  Four writers: the settings dialog, which
   asks the helper first and saves the whole object 300 ms later; the list's
   preferences, which save the object they have just read; `ctl set`, which saves
   one field and tells the helper afterwards; and the helper, which restores its
   switches from the file when it starts.  The two saves go through SaveSettings,
   which nothing serialises: every read, write and effect is a step of its own.

   Switches only: "health" stands for pin_interface too, "level" for debug, and
   the sanitised numbers and the fields without an effect are left out.  So are
   the effects of a save on what other modules model or nobody here reads: the
   sweep of old logs (settings_ops.go:513), the engine's evaluation of a policy
   that changed (520), the proxy of the update checks and its event (527, 585),
   and the update scheduler's kick (571). *)
EXTENDS Naturals, Sequences, SequencesExt

CONSTANTS
    None,
    MaxEvents   \* bound: what users do, and faults

VARIABLES
    events,
    os,         \* windows: the sleep override is a thread's; else a child process
    file,       \* config.json
    helper,     \* down, starting (listening and restored, not serving), up
    client,     \* the GUI's connection is to this helper
    live,       \* monitor.healthCheckEnabled, logLevel, sleepRequested
    tunnel,     \* a tunnel whose own switch claims the DNS path: down, claiming,
                \* enabling, up
    enforced,   \* its firewall rules
    owner,      \* dnsPathOwner is set
    active,     \* sleepActive
    held,       \* who holds the operating system's override
    guiLevel, entry, hotkey,
    dialog,     \* it is open
    copy,       \* its settings object
    timer,      \* its saveTimer
    call,       \* its call to the helper: [field, value, at]
    mail,       \* settings_changed events on their way
    save,       \* each SaveSettings call: [at, payload, prev, behind]
    ctl,        \* a `ctl set`: [field, value, at]
    excused     \* history: why what is in force may differ from the file

vars == <<events, os, file, helper, client, live, tunnel, enforced, owner, active, held,
          guiLevel, entry, hotkey, dialog, copy, timer, call, mail, save, ctl, excused>>

daemon == <<helper, live, tunnel, enforced, owner>>
sleep == <<active, held>>
desktop == <<guiLevel, entry, hotkey>>
view == <<dialog, copy, timer, call>>

Live == {"health", "level", "sleep"}
Ctl == {"health", "level"}
Fields == Live \cup {"path", "start", "key"}
Saves == {1, 2}
Settings == [Fields -> BOOLEAN]
Idle == [at |-> "idle", payload |-> None, prev |-> None, behind |-> FALSE]

Reasons == {"crossed", "missed", "unseen", "cut", "refused", "late", "guiLevel", "killed"}

TypeOK ==
    /\ events \in 0 .. MaxEvents /\ os \in {"windows", "unix"}
    /\ file \in Settings /\ copy \in Settings /\ live \in [Live -> BOOLEAN]
    /\ helper \in {"down", "starting", "up"} /\ client \in BOOLEAN
    /\ tunnel \in {"down", "claiming", "enabling", "up"}
    /\ {enforced, owner, active, guiLevel, entry, hotkey, dialog, timer} \subseteq BOOLEAN
    /\ held \subseteq {1, 2}
    /\ call = None \/ (call.field \in Live /\ call.at \in {"sent", "done", "failed"})
    /\ \A i \in DOMAIN mail : mail[i] \in Live \X BOOLEAN
    /\ \A s \in Saves : save[s].at \in {"idle", "load", "write", "start", "level", "path", "key"}
    /\ ctl = None \/ (ctl.field \in Ctl /\ ctl.at \in {"dial", "call"})
    /\ excused \subseteq Reasons

\* A fresh start with everything off, or everything on, and in force.
Init ==
    \E on \in BOOLEAN :
        /\ events = 0 /\ os \in {"windows", "unix"}
        /\ file = [f \in Fields |-> on] /\ copy = file
        /\ helper = "up" /\ client = TRUE /\ live = [f \in Live |-> on]
        /\ tunnel = "down" /\ enforced = FALSE /\ owner = FALSE
        /\ active = FALSE /\ held = {}
        /\ guiLevel = on /\ entry = on /\ hotkey = on
        /\ dialog = FALSE /\ timer = FALSE /\ call = None /\ mail = <<>>
        /\ save = [s \in Saves |-> Idle] /\ ctl = None /\ excused = {}

Count == events < MaxEvents /\ events' = events + 1
Excuse(why, cond) == excused' = IF cond THEN excused \cup {why} ELSE excused
Reachable == helper = "up" /\ client
Pending == \E s \in Saves : save[s].at \in {"load", "write"}

\* server.Broadcast: to a GUI that is subscribed.
Broadcast(f, v) == mail' = IF client THEN Append(mail, <<f, v>>) ELSE mail

-----------------------------------------------------------------------------
(* The helper. *)

\* refreshSystemSleepPrevention; one that fails is tried again at the next tick.
\* On Windows the call acts on the thread it happens to run on.
Refresh(wanted) ==
    LET desired == wanted /\ tunnel # "down" IN
    IF desired = active THEN UNCHANGED sleep
    ELSE \/ UNCHANGED sleep
         \/ /\ active' = desired
            /\ \E who \in IF os = "windows" THEN {1, 2} ELSE {1} :
                   held' = IF desired THEN held \cup {who} ELSE held \ {who}

SleepTick ==
    /\ helper = "up" /\ Refresh(live["sleep"]) /\ active' # active
    /\ UNCHANGED <<events, os, file, client, daemon, desktop, view, mail, save, ctl, excused>>

\* Someone kills caffeinate or systemd-inhibit: refresh still believes in it.
ChildKilled ==
    /\ os = "unix" /\ held # {} /\ Count /\ held' = {} /\ Excuse("killed", TRUE)
    /\ UNCHANGED <<os, file, client, daemon, active, desktop, view, mail, save, ctl>>

\* handleSetHealthCheck, handleSetPinInterface, handleSetLogLevel (silent when
\* nothing changes: a restart may have read the value first), handleSetPreventSystemSleep.
Silent(f, v) == f = "level" /\ live[f] = v
Apply(f, v) ==
    /\ live' = [live EXCEPT ![f] = v]
    /\ IF Silent(f, v) THEN UNCHANGED mail ELSE Broadcast(f, v)
    /\ IF f = "sleep" THEN Refresh(v) ELSE UNCHANGED sleep

\* The dialog shows something else and is not told.
Unheard(f, v) == IF Silent(f, v) THEN copy[f] # v ELSE ~client

Restored(s) == [f \in Live |-> s[f]]

\* Run: the listener comes first, then recovery, then the settings.  A switch the
\* old helper took and that is not saved yet is not in the file it reads.
HelperStarts ==
    /\ helper = "down" /\ helper' = "starting"
    /\ live' = Restored(file) /\ enforced' = FALSE
    /\ Excuse("missed", timer \/ call # None \/ Pending)
    /\ UNCHANGED <<events, os, file, client, tunnel, owner, sleep, desktop, view, mail, save, ctl>>

HelperServes ==
    /\ helper = "starting" /\ helper' = "up"
    /\ UNCHANGED <<events, os, file, client, live, tunnel, enforced, owner, sleep, desktop,
                   view, mail, save, ctl, excused>>

\* The GUI's health monitor replaces its client; nothing is pushed again.
ClientSwapped ==
    /\ helper = "up" /\ ~client /\ client' = TRUE
    /\ UNCHANGED <<events, os, file, daemon, sleep, desktop, view, mail, save, ctl, excused>>

\* The child ends with the helper, and Windows drops the threads' requests.
HelperDies ==
    /\ helper # "down" /\ Count /\ helper' = "down" /\ client' = FALSE
    /\ live' = [f \in Live |-> FALSE] /\ tunnel' = "down" /\ owner' = FALSE
    /\ active' = FALSE /\ held' = {} /\ mail' = <<>>
    /\ call' = IF call # None /\ call.at = "sent" THEN [call EXCEPT !.at = "failed"] ELSE call
    /\ ctl' = IF ctl # None /\ ctl.at = "call" THEN None ELSE ctl
    /\ Excuse("unseen", mail # <<>> \/ ctl # None)
    /\ UNCHANGED <<os, file, enforced, desktop, dialog, copy, timer, save>>

\* handleConnect of a tunnel whose own switch is on: the master switch is read from
\* the file, the rules are installed, and only then is the owner noted.
Connect ==
    /\ helper = "up" /\ tunnel = "down" /\ Count
    /\ tunnel' = IF file["path"] THEN "claiming" ELSE "up"
    /\ UNCHANGED <<os, file, helper, client, live, enforced, owner, sleep, desktop, view,
                   mail, save, ctl, excused>>

ConnectStep ==
    /\ \/ tunnel = "claiming" /\ tunnel' = "enabling" /\ enforced' = TRUE /\ UNCHANGED owner
       \/ tunnel = "enabling" /\ tunnel' = "up" /\ owner' = TRUE /\ UNCHANGED enforced
    /\ UNCHANGED <<events, os, file, helper, client, live, sleep, desktop, view, mail, save,
                   ctl, excused>>

\* clearDNSPathIfOwner.
Disconnect ==
    /\ tunnel = "up" /\ Count /\ tunnel' = "down" /\ owner' = FALSE
    /\ enforced' = (enforced /\ ~owner)
    /\ UNCHANGED <<os, file, helper, client, live, sleep, desktop, view, mail, save, ctl, excused>>

-----------------------------------------------------------------------------
(* The dialog and the list's preferences. *)

\* load.  A save still under way is not in what it reads.
OpenDialog ==
    /\ ~dialog /\ ~timer /\ call = None /\ Count
    /\ dialog' = TRUE /\ copy' = file
    /\ excused' = (excused \ {"unseen"}) \cup (IF Pending THEN {"unseen"} ELSE {})
    /\ UNCHANGED <<os, file, client, daemon, sleep, desktop, timer, call, mail, save, ctl>>

\* applyLiveChange: the helper first.  SetLogLevel sets the GUI's own level before.
ToggleLive(f) ==
    /\ dialog /\ call = None /\ Count
    /\ call' = [field |-> f, value |-> ~copy[f], at |-> IF client THEN "sent" ELSE "failed"]
    /\ guiLevel' = IF f = "level" THEN ~copy[f] ELSE guiLevel
    /\ Excuse("crossed", ctl # None)
    /\ UNCHANGED <<os, file, client, daemon, sleep, entry, hotkey, dialog, copy, timer, mail,
                   save, ctl>>

HandleToggle ==
    /\ call # None /\ call.at = "sent" /\ Reachable
    /\ Apply(call.field, call.value) /\ Excuse("unseen", Unheard(call.field, call.value))
    /\ call' = [call EXCEPT !.at = "done"]
    /\ UNCHANGED <<events, os, file, helper, client, tunnel, enforced, owner, desktop,
                   dialog, copy, timer, save, ctl>>

Accepted(c) == c.at = "done"

\* A refused toggle changes neither the copy nor the file.
ToggleAnswered ==
    /\ call # None /\ call.at \in {"done", "failed"} /\ call' = None
    /\ IF Accepted(call)
       THEN copy' = [copy EXCEPT ![call.field] = call.value] /\ timer' = TRUE /\ UNCHANGED excused
       ELSE UNCHANGED <<copy, timer>> /\ Excuse("guiLevel", call.field = "level")
    /\ UNCHANGED <<events, os, file, client, daemon, sleep, desktop, dialog, mail, save, ctl>>

ToggleSaved(f) ==
    /\ dialog /\ Count /\ copy' = [copy EXCEPT ![f] = ~@] /\ timer' = TRUE
    /\ UNCHANGED <<os, file, client, daemon, sleep, desktop, dialog, call, mail, save, ctl, excused>>

\* onSettingsChanged.
MailArrives ==
    /\ mail # <<>> /\ mail' = Tail(mail)
    /\ copy' = IF dialog THEN [copy EXCEPT ![Head(mail)[1]] = Head(mail)[2]] ELSE copy
    /\ UNCHANGED <<events, os, file, client, daemon, sleep, desktop, dialog, timer, call, save,
                   ctl, excused>>

Begin(s, payload, behind) ==
    /\ save[s].at = "idle"
    /\ save' = [save EXCEPT ![s] = [at |-> "load", payload |-> payload, prev |-> None,
                                    behind |-> behind]]

\* save(): this screen's fields over a fresh read, and it has all of these.
TimerFires ==
    /\ timer /\ timer' = FALSE
    /\ \E s \in Saves : Begin(s, copy, mail # <<>> \/ ctl # None \/ "unseen" \in excused)
    /\ UNCHANGED <<events, os, file, client, daemon, sleep, desktop, dialog, copy, call, mail,
                   ctl, excused>>

\* close, with the pending save flushed.
CloseDialog ==
    /\ dialog /\ call = None /\ ~timer /\ dialog' = FALSE
    /\ UNCHANGED <<events, os, file, client, daemon, sleep, desktop, copy, timer, call, mail,
                   save, ctl, excused>>

\* saveListPrefs: a fresh read with the list's own fields over it.
SaveListPrefs ==
    /\ Count /\ \E s \in Saves : Begin(s, file, FALSE)
    /\ UNCHANGED <<os, file, client, daemon, sleep, desktop, view, mail, ctl, excused>>

-----------------------------------------------------------------------------
(* SaveSettings. *)

Goto(s, at) == save' = [save EXCEPT ![s].at = at]
Done(s) == save' = [save EXCEPT ![s] = Idle]
Effects == {"start", "level", "path", "key"}
Others(s) == {r \in Saves \ {s} : save[r].at # "idle"}

LoadPrev(s) ==
    /\ save[s].at = "load"
    /\ save' = [save EXCEPT ![s].at = "write", ![s].prev = file]
    /\ UNCHANGED <<events, os, file, client, daemon, sleep, desktop, view, mail, ctl, excused>>

\* Another save's payload is older than the file from now on.
Overtake(s) ==
    [r \in Saves |-> IF r = s THEN [save[s] EXCEPT !.at = "start"]
                     ELSE IF save[r].at \in {"load", "write"} THEN [save[r] EXCEPT !.behind = TRUE]
                     ELSE save[r]]

\* Update and applySettingsPayload.
Write(s) ==
    /\ save[s].at = "write" /\ file' = save[s].payload /\ save' = Overtake(s)
    /\ Excuse("crossed", save[s].behind \/ \E r \in Others(s) : save[r].at \in Effects)
    /\ UNCHANGED <<events, os, client, daemon, sleep, desktop, view, mail, ctl>>

\* InstallAutostart and RemoveAutostart; an error ends the call, the file written.
Autostart(s) ==
    LET wanted == save[s].payload["start"] IN
    /\ save[s].at = "start"
    /\ \/ /\ wanted = save[s].prev["start"]
          /\ Goto(s, "level") /\ UNCHANGED <<events, entry, excused>>
       \/ /\ wanted # save[s].prev["start"]
          /\ entry' = wanted /\ Goto(s, "level") /\ UNCHANGED <<events, excused>>
       \/ /\ wanted # save[s].prev["start"]
          /\ Count /\ entry' \in {entry, FALSE} /\ Done(s) /\ Excuse("cut", TRUE)
    /\ UNCHANGED <<os, file, client, daemon, sleep, guiLevel, hotkey, view, mail, ctl>>

\* The helper's level is set if it can be reached, and its answer not looked at.
\* It may be older than a toggle that is not saved yet.
PushLevel(s) ==
    LET level == save[s].payload["level"] IN
    /\ save[s].at = "level" /\ Goto(s, "path")
    /\ guiLevel' = level
    /\ IF ~Reachable
       THEN UNCHANGED <<live, mail, sleep>> /\ Excuse("missed", helper # "down")
       ELSE /\ Apply("level", level)
            /\ IF live["level"] = level THEN Excuse("unseen", Unheard("level", level))
               ELSE Excuse("crossed", timer \/ call # None \/ Pending)
    /\ UNCHANGED <<events, os, file, helper, client, tunnel, enforced, owner, entry, hotkey,
                   view, ctl>>

(* Mutant: the file as it is now is compared, the switch is off in it already. *)
TurnedOff_Mut(s) == file["path"] /\ ~save[s].payload["path"]

TurnedOff(s) == save[s].prev["path"] /\ ~save[s].payload["path"]

\* handleClearDNSPathEnforcement: rules whose owner is not noted yet stay.
ClearPath(s) ==
    /\ save[s].at = "path" /\ Goto(s, "key")
    /\ IF TurnedOff(s) /\ Reachable
       THEN /\ owner' = FALSE /\ enforced' = (enforced /\ ~owner)
            /\ Excuse("late", tunnel \in {"claiming", "enabling"})
       ELSE UNCHANGED <<owner, enforced>> /\ Excuse("missed", TurnedOff(s) /\ helper # "down")
    /\ UNCHANGED <<events, os, file, helper, client, live, tunnel, sleep, desktop, view, mail, ctl>>

\* reregisterHotkey: Register takes the old one down first; a combination that
\* does not parse leaves the old one, one that is taken leaves none.
Hotkey(s) ==
    /\ save[s].at = "key" /\ Done(s)
    /\ IF save[s].prev["key"] = save[s].payload["key"] THEN UNCHANGED <<hotkey, events, excused>>
       ELSE \/ hotkey' = save[s].payload["key"] /\ UNCHANGED <<events, excused>>
            \/ /\ save[s].payload["key"] /\ Count /\ UNCHANGED hotkey /\ Excuse("refused", TRUE)
    /\ UNCHANGED <<os, file, client, daemon, sleep, guiLevel, entry, view, mail, ctl>>

-----------------------------------------------------------------------------
(* ctl set: persisted, then applied. *)

CtlWrite(f) ==
    /\ ctl = None /\ Count
    /\ file' = [file EXCEPT ![f] = ~@] /\ ctl' = [field |-> f, value |-> ~file[f], at |-> "dial"]
    /\ save' = [s \in Saves |-> IF save[s].at \in {"load", "write"}
                                THEN [save[s] EXCEPT !.behind = TRUE] ELSE save[s]]
    /\ Excuse("crossed", call # None \/ \E s \in Saves : save[s].at \in Effects)
    /\ UNCHANGED <<os, client, daemon, sleep, desktop, view, mail>>

\* The GUI's own level is nobody's to tell.
CtlDial ==
    /\ ctl # None /\ ctl.at = "dial"
    /\ IF helper = "down"
       THEN ctl' = None /\ excused' = excused \cup {"unseen", "guiLevel"}
       ELSE ctl' = [ctl EXCEPT !.at = "call"] /\ Excuse("guiLevel", ctl.field = "level")
    /\ UNCHANGED <<events, os, file, client, daemon, sleep, desktop, view, mail, save>>

CtlApplied ==
    /\ ctl # None /\ ctl.at = "call" /\ helper = "up" /\ ctl' = None
    /\ Apply(ctl.field, ctl.value) /\ Excuse("unseen", Unheard(ctl.field, ctl.value))
    /\ UNCHANGED <<events, os, file, helper, client, tunnel, enforced, owner, desktop, view,
                   save>>

-----------------------------------------------------------------------------
Next ==
    \/ SleepTick \/ ChildKilled
    \/ HelperStarts \/ HelperServes \/ ClientSwapped \/ HelperDies
    \/ Connect \/ ConnectStep \/ Disconnect
    \/ OpenDialog \/ CloseDialog \/ TimerFires \/ MailArrives
    \/ HandleToggle \/ ToggleAnswered \/ SaveListPrefs
    \/ \E f \in Live : ToggleLive(f)
    \/ \E f \in Fields \ Live : ToggleSaved(f)
    \/ \E s \in Saves :
           LoadPrev(s) \/ Write(s) \/ Autostart(s) \/ PushLevel(s) \/ ClearPath(s) \/ Hotkey(s)
    \/ \E f \in Ctl : CtlWrite(f)
    \/ CtlDial \/ CtlApplied

Spec == Init /\ [][Next]_vars

-----------------------------------------------------------------------------
(* Nothing is under way, and the sleep override's tick has run. *)
Quiet ==
    /\ Reachable /\ call = None /\ ~timer /\ mail = <<>> /\ ctl = None
    /\ \A s \in Saves : save[s].at = "idle"
    /\ tunnel \in {"down", "up"} /\ active = (live["sleep"] /\ tunnel # "down")

Excused(S) == S \cap excused # {}

(* When everything has come to rest, what is in force is what the file says, and
   so does an open dialog: the helper's switches, after any number of restarts;
   both log levels, the login entry and the hotkey; no DNS path rules with the
   master switch off; and the machine kept awake exactly while the setting and a
   tunnel ask for it.  Except after: writers that crossed, a switch or a push that
   fell into a restart, a save cut short by the login entry, a refused hotkey, a
   switch-off in the middle of a connect, and a ctl that the GUI does not hear of.
   (app/settings_ops.go SaveSettings, helper.go:529-562) *)
SettingsInForce ==
    Quiet =>
        /\ Excused({"crossed", "missed", "cut"}) \/ \A f \in Live : live[f] = file[f]
        /\ ~dialog \/ Excused({"crossed", "unseen"}) \/ copy = file
        /\ Excused({"crossed", "cut", "missed", "guiLevel"}) \/ guiLevel = file["level"]
        /\ Excused({"crossed", "cut"}) \/ entry = file["start"]
        /\ Excused({"crossed", "cut", "refused"}) \/ hotkey = file["key"]
        /\ Excused({"crossed", "cut", "missed", "late"}) \/ (enforced => file["path"])
        /\ active /\ ~Excused({"killed"}) => held # {}
        /\ ~active /\ os = "unix" => held = {}
=============================================================================
