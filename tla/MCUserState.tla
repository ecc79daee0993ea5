----------------------------- MODULE MCUserState -----------------------------
(* What the program keeps for its user, for TLC, part beside part: the tunnels'
   files, the connection history, the application a new version of which is
   installed, and the settings in force.  They share no state: a behaviour is one
   part's, and the others stay as they are.  MCSystemState adds the parts that are
   the operating system's. *)
EXTENDS Naturals, Sequences, FiniteSets

CONSTANTS
    Parts,      \* of "files", "history", "update", "settings", and MCSystemState's
    Nil,        \* no value
    \* TunnelFiles: a name in two cases, another, and tunnels.
    home, Home, work, stored, imported, old1, old2, FileOps,
    \* SessionHistory.
    HistoryEvents, MaxRows,
    \* UpdateInstall.
    Buttons, Old, InstallEvents,
    \* LiveSettings.
    SettingsEvents

VARIABLES
    part,
    foldsCase, conf, meta, policies, legacy, marked, conns, connectMu, ftodo, ops, owed,
    died, crossed, stray,
    hevents, tunnels, stream, inbox, handler, event, opened, gui, logged, pending, hint,
    asked, seen, sessions, disk, dirty, flush, made, cleared, failed, crossing,
    uevents, desktop, build, asset, served, offer, info, pc, download, hash, stage, prompts,
    script, relaunch, app, window, said, page, restaged, broke, excused,
    sevents, platform, config, helperAt, attached, switches, claimer, pathRules,
    pathOwner, sleepActive, sleepHeld, guiLevel, loginEntry, hotkey, dialog, copy,
    saveTimer, call, mail, save, ctl, unmatched

fvars == <<foldsCase, conf, meta, policies, legacy, marked, conns, connectMu, ftodo, ops,
           owed, died, crossed, stray>>
hvars == <<hevents, tunnels, stream, inbox, handler, event, opened, gui, logged,
           pending, hint, asked, seen, sessions, disk, dirty, flush, made, cleared,
           failed, crossing>>
uvars == <<uevents, desktop, build, asset, served, offer, info, pc, download, hash, stage,
           prompts, script, relaunch, app, window, said, page, restaged, broke, excused>>
svars == <<sevents, platform, config, helperAt, attached, switches, claimer, pathRules,
           pathOwner, sleepActive, sleepHeld, guiLevel, loginEntry, hotkey, dialog, copy,
           saveTimer, call, mail, save, ctl, unmatched>>
userVars == <<fvars, hvars, uvars, svars>>

\* The version installed is none of a release's, and no value is no tunnel, outcome,
\* row's number or call.
ASSUME ValuesAssumption ==
    /\ Old \notin {"first", "second", "bad", "none", "torn"}
    /\ Nil \notin {stored, imported, old1, old2} \cup {"ok", "error"} \cup Nat
    /\ Nil \notin [field : {"health", "level", "sleep"}, value : BOOLEAN,
                   at : {"sent", "done", "failed", "dial", "call"}]

FileNames == {home, Home, work}
Files == INSTANCE TunnelFiles WITH
    None <- Nil, Names <- FileNames, Fold <- [n \in FileNames |-> IF n = Home THEN home ELSE n],
    Ids <- {stored, imported, old1, old2},
    Stored <- [n \in FileNames |-> IF n = home THEN stored ELSE Nil],
    Legacy <- [n \in FileNames |-> CASE n = Home -> old1 [] n = work -> old2 [] OTHER -> Nil],
    MaxOps <- FileOps, ci <- foldsCase, rules <- policies, up <- conns, mu <- connectMu,
    todo <- ftodo, raced <- crossed

History == INSTANCE SessionHistory WITH
    None <- Nil, Tunnels <- {home, work}, MaxEvents <- HistoryEvents, events <- hevents,
    state <- tunnels, live <- stream, at <- handler, tracked <- logged, rows <- sessions,
    armed <- flush, overlap <- crossing

Install == INSTANCE UpdateInstall WITH
    None <- Nil, Runs <- Buttons, MaxEvents <- InstallEvents, events <- uevents, os <- desktop,
    file <- download, gui <- window, crossed <- restaged

Settings == INSTANCE LiveSettings WITH
    None <- Nil, MaxEvents <- SettingsEvents, events <- sevents, os <- platform, file <- config,
    helper <- helperAt, client <- attached, live <- switches, tunnel <- claimer,
    enforced <- pathRules, owner <- pathOwner, active <- sleepActive, held <- sleepHeld,
    entry <- loginEntry, timer <- saveTimer, excused <- unmatched

UserInit ==
    /\ part \in Parts
    /\ Files!Init /\ (part = "files" \/ (foldsCase /\ \A n \in FileNames : legacy[n] = Nil))
    /\ History!Init
    /\ Install!Init
    /\ part = "update" \/ (desktop = "brew" /\ build = "release" /\ asset = "dmg")
    /\ Settings!Init /\ (part = "settings" \/ (platform = "unix" /\ guiLevel))

UserNext ==
    /\ UNCHANGED part
    /\ \/ part = "files" /\ Files!Next /\ UNCHANGED <<hvars, uvars, svars>>
       \/ part = "history" /\ History!Next /\ UNCHANGED <<fvars, uvars, svars>>
       \/ part = "update" /\ Install!Next /\ UNCHANGED <<fvars, hvars, svars>>
       \/ part = "settings" /\ Settings!Next /\ UNCHANGED <<fvars, hvars, uvars>>

UserSpec == UserInit /\ [][UserNext]_<<part, userVars>>

KeysKept == Files!KeysKept
BelongTogether == Files!BelongTogether
HistoryExact == History!SessionsFollow /\ History!HistoryKept
UpdateDelivers == Install!UpdateDelivers
SettingsInForce == Settings!SettingsInForce

=============================================================================
