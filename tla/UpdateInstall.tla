----------------------------- MODULE UpdateInstall -----------------------------
(* "Update now" (internal/app/settings_ops.go, RunUpdate): the download of a
   release's asset, its verification, and what each platform's installer does
   with it (internal/update/checker.go, installer.go, installer_windows.go,
   installer_darwin.go).

   The banner and the About page each have a button of their own, so two runs may
   be under way.  The release may be published again between the check, the
   download and the verification, file by file.  What kills the GUI ends its runs
   where they are; an elevated installer and the macOS script go on.

   A file is the build it is of, or "bad": of the length announced, with other
   bytes.  Left out: progress, proxies and mirrors,
   the spelling of asset names and of checksum files. *)
EXTENDS Naturals, SequencesExt

CONSTANTS
    Runs,       \* the buttons
    None,
    Old,        \* the version that is installed
    MaxEvents   \* bound: checks, uploads, clicks

Builds == {"first", "second"}
Files == {"asset", "sums", "sig"}

VARIABLES
    events,
    os,         \* windows, linux, darwin, brew (darwin, with a Caskroom)
    build,      \* release, dev, or unsigned (a release without its key)
    asset,      \* the extension of the asset that matches
    served,     \* the release: each file, of one build
    offer,      \* UpdateInfo, as the frontend holds it
    info,       \* each run's
    pc,
    file,       \* its temporary download
    hash,       \* the hash it goes by
    stage,      \* the staged installer: None, part, a file
    prompts,    \* Windows: runs whose installer waits for the elevation
    script,     \* macOS: each run's install script: none, kill, remove, copy, open
    relaunch,   \* Linux: a relaunch script is on its way
    app,        \* what is installed: Old, a file, none, torn
    gui,        \* old, dead, new
    said,       \* each run's last answer: None, ok, error
    page,       \* the release page has been opened
    \* History.
    crossed,    \* a run staged, or ran a script, over another one's
    broke,      \* a macOS script's copy has failed
    excused     \* an elevation was refused after the answer, or brew's result not read

vars == <<events, os, build, asset, served, offer, info, pc, file, hash, stage, prompts,
          script, relaunch, app, gui, said, page, crossed, broke, excused>>

fixed == <<os, build, asset>>
download == <<info, file, hash>>
system == <<stage, prompts, script, relaunch, app, gui>>
answers == <<said, page>>
history == <<crossed, broke, excused>>

Steps == {"idle", "download", "sums", "sig", "compare", "install", "copying", "launch",
          "signature", "consent", "scripting", "refresh", "upgrade", "trust", "retry",
          "verify"}
Content == Builds \cup {"bad"}

TypeOK ==
    /\ events \in 0 .. MaxEvents
    /\ os \in {"windows", "linux", "darwin", "brew"} /\ build \in {"release", "dev", "unsigned"}
    /\ served \in [Files -> Builds]
    /\ offer \in [build : Builds, hash : Builds \cup {None}] \cup {None}
    /\ info \in [Runs -> [build : Builds, hash : Builds \cup {None}] \cup {None}]
    /\ pc \in [Runs -> Steps] /\ file \in [Runs -> Content \cup {None}]
    /\ hash \in [Runs -> Builds \cup {None}]
    /\ stage \in Content \cup {None, "part"} /\ prompts \subseteq Runs
    /\ script \in [Runs -> {"none", "kill", "remove", "copy", "open"}]
    /\ relaunch \in BOOLEAN /\ app \in Content \cup {Old, "none", "torn"}
    /\ gui \in {"old", "dead", "new"}
    /\ said \in [Runs -> {None, "ok", "error"}] /\ page \in BOOLEAN
    /\ crossed \in BOOLEAN /\ broke \in BOOLEAN /\ excused \in BOOLEAN

-----------------------------------------------------------------------------
(* The check. *)

PreferredExtensions ==
    [windows |-> <<"exe", "msi", "zip">>,
     linux |-> <<"tar.gz", "tar.xz", "deb", "rpm", "appimage">>,
     darwin |-> <<"dmg", "zip", "pkg">>]

\* matchAsset, of the assets for this system and architecture.
MatchAsset(o, shipped) ==
    SelectSeq(PreferredExtensions[o], LAMBDA e : e \in shipped)[1]

Init ==
    /\ events = 0
    /\ os \in {"windows", "linux", "darwin", "brew"}
    /\ build \in {"release", "dev", "unsigned"}
    /\ LET o == IF os = "brew" THEN "darwin" ELSE os IN
       \E shipped \in SUBSET ToSet(PreferredExtensions[o]) \ {{}} :
          asset = MatchAsset(o, shipped)
    /\ served = [f \in Files |-> "first"] /\ offer = None
    /\ info = [r \in Runs |-> None] /\ pc = [r \in Runs |-> "idle"]
    /\ file = [r \in Runs |-> None] /\ hash = [r \in Runs |-> None]
    /\ stage = None /\ prompts = {} /\ script = [r \in Runs |-> "none"] /\ relaunch = FALSE
    /\ app = Old /\ gui = "old" /\ said = [r \in Runs |-> None] /\ page = FALSE
    /\ crossed = FALSE /\ broke = FALSE /\ excused = FALSE

Count == events < MaxEvents /\ events' = events + 1

\* parseReleaseBody: the size as the feed has it, the hash of the checksum file
\* if that could be fetched.
CheckForUpdate ==
    /\ gui = "old" /\ Count
    /\ \E h \in {served["sums"], None} :
          offer' = [build |-> served["asset"], hash |-> h]
    /\ UNCHANGED <<fixed, served, download, pc, system, answers, history>>

Upload(f) ==
    /\ Count /\ served[f] = "first" /\ served' = [served EXCEPT ![f] = "second"]
    /\ UNCHANGED <<fixed, offer, download, pc, system, answers, history>>

-----------------------------------------------------------------------------
(* The run: its ends, then the download. *)

Goto(r, l) == pc' = [pc EXCEPT ![r] = l]

Succeed(r) ==
    /\ Goto(r, "idle") /\ said' = [said EXCEPT ![r] = "ok"]
    /\ file' = [file EXCEPT ![r] = None]
    /\ UNCHANGED <<info, hash, page>>

\* fallbackOpenRelease; brew's failures only say so.  Install's failures leave
\* the download behind.
Fail(r, kept) ==
    /\ Goto(r, "idle") /\ said' = [said EXCEPT ![r] = "error"]
    /\ page' = (page \/ os # "brew")
    /\ file' = [file EXCEPT ![r] = kept]
    /\ UNCHANGED <<info, hash>>

RunUpdate(r) ==
    /\ gui = "old" /\ Count /\ pc[r] = "idle" /\ offer # None
    /\ info' = [info EXCEPT ![r] = offer]
    /\ Goto(r, IF os = "brew" THEN "refresh" ELSE "download")
    /\ UNCHANGED <<fixed, served, offer, file, hash, system, answers, history>>

\* The length must be the one the feed announced; two builds may have the same.
Download(r) ==
    /\ pc[r] = "download"
    /\ \/ \E c \in {served["asset"], "bad"} :
             /\ file' = [file EXCEPT ![r] = c]
             /\ hash' = [hash EXCEPT ![r] = IF build = "dev" THEN info[r].hash ELSE None]
             /\ build # "unsigned"
             /\ Goto(r, IF build = "release" THEN "sums" ELSE "compare")
             /\ UNCHANGED <<info, answers>>
       \/ Fail(r, None)
    /\ UNCHANGED <<events, fixed, served, offer, system, history>>

\* verifyChecksumSignature: two requests.
FetchSums(r) ==
    /\ pc[r] = "sums"
    /\ \/ hash' = [hash EXCEPT ![r] = served["sums"]] /\ Goto(r, "sig")
          /\ UNCHANGED <<info, file, answers>>
       \/ Fail(r, None)
    /\ UNCHANGED <<events, fixed, served, offer, system, history>>

FetchSignature(r) ==
    /\ pc[r] = "sig"
    /\ \/ served["sig"] = hash[r] /\ Goto(r, "compare") /\ UNCHANGED <<download, answers>>
       \/ Fail(r, None)
    /\ UNCHANGED <<events, fixed, served, offer, system, history>>

(* Mutant: a checksum that is there will do. *)
HashVerified_Mut(r) == hash[r] # None

HashVerified(r) == hash[r] # None /\ file[r] = hash[r]

Compare(r) ==
    /\ pc[r] = "compare"
    /\ IF HashVerified(r) THEN Goto(r, "install") /\ UNCHANGED <<download, answers>>
       ELSE Fail(r, None)
    /\ UNCHANGED <<events, fixed, served, offer, system, history>>

-----------------------------------------------------------------------------
(* Windows and Linux: staged, then elevated. *)

\* Stale installers are removed, the copy begins.
Stage(r) ==
    /\ pc[r] = "install" /\ os \in {"windows", "linux"}
    /\ Goto(r, "copying") /\ stage' = "part"
    /\ crossed' = (crossed \/ prompts # {} \/ \E q \in Runs \ {r} : pc[q] \in {"copying", "launch"})
    /\ UNCHANGED <<events, fixed, served, offer, download, prompts, script, relaunch, app,
                   gui, answers, broke, excused>>

Staged(r) ==
    /\ pc[r] = "copying"
    /\ \/ stage' = file[r] /\ Goto(r, "launch") /\ UNCHANGED <<download, answers>>
       \/ Fail(r, file[r]) /\ UNCHANGED stage
    /\ UNCHANGED <<events, fixed, served, offer, prompts, script, relaunch, app, gui, history>>

\* ShellExecute asks for the elevation and returns; a zip has no such verb.
LaunchWindows(r) ==
    /\ pc[r] = "launch" /\ os = "windows"
    /\ \/ asset # "zip" /\ prompts' = prompts \cup {r} /\ Succeed(r)
       \/ Fail(r, file[r]) /\ UNCHANGED prompts
    /\ UNCHANGED <<events, fixed, served, offer, stage, script, relaunch, app, gui, history>>

\* What takes the GUI away takes its runs with it; their downloads stay.
Kill(next) ==
    /\ gui' = next
    /\ pc' = [r \in Runs |-> "idle"]

\* The installer, elevated: it stops the GUI, replaces it, starts the new one.
Elevated(r) ==
    /\ r \in prompts /\ prompts' = prompts \ {r}
    /\ \/ /\ stage \in Content
          /\ app' = stage /\ Kill("new") /\ UNCHANGED excused
       \/ excused' = TRUE /\ UNCHANGED <<app, gui, pc>>
    /\ UNCHANGED <<events, fixed, served, offer, download, stage, script, relaunch, answers,
                   crossed, broke>>

\* pkexec waits for the user and for the package manager.  Then the relaunch,
\* which may fail though the package is installed, or find no binary.
InstallPackage(r) ==
    /\ pc[r] = "launch" /\ os = "linux" /\ asset \in {"deb", "rpm"}
    /\ \/ /\ stage \in Content /\ app' = stage
          /\ \/ relaunch' \in {relaunch, TRUE} /\ Succeed(r)
             \/ Fail(r, file[r]) /\ UNCHANGED relaunch
       \/ Fail(r, file[r]) /\ UNCHANGED <<app, relaunch>>
    /\ UNCHANGED <<events, fixed, served, offer, stage, prompts, script, gui, history>>

Relaunch ==
    /\ relaunch /\ relaunch' = FALSE /\ Kill("new")
    /\ UNCHANGED <<events, fixed, served, offer, download, stage, prompts, script, app,
                   answers, history>>

\* It finds the GUI that started it running and leaves again.
StartAppImage(r) ==
    /\ pc[r] = "launch" /\ os = "linux" /\ asset = "appimage"
    /\ Succeed(r) \/ Fail(r, file[r])
    /\ UNCHANGED <<events, fixed, served, offer, system, history>>

Unsupported(r) ==
    /\ \/ pc[r] = "launch" /\ os = "linux" /\ asset \in {"tar.gz", "tar.xz"}
       \/ pc[r] = "install" /\ os = "darwin" /\ asset = "pkg"
    /\ Fail(r, file[r])
    /\ UNCHANGED <<events, fixed, served, offer, system, history>>

-----------------------------------------------------------------------------
(* macOS: mount, check the signature, hand over to the script. *)

Extract(r) ==
    /\ pc[r] = "install" /\ os = "darwin" /\ asset # "pkg"
    /\ \/ Goto(r, "signature") /\ UNCHANGED <<download, answers>>
       \/ Fail(r, file[r])
    /\ UNCHANGED <<events, fixed, served, offer, system, history>>

VerifyBundle(r) ==
    /\ pc[r] = "signature"
    /\ \/ file[r] \in Builds /\ Goto(r, "consent") /\ UNCHANGED <<download, answers>>
       \/ Fail(r, file[r])
    /\ UNCHANGED <<events, fixed, served, offer, system, history>>

\* A directory the user can write, or the password.
RunScript(r) ==
    /\ pc[r] = "consent"
    /\ \/ /\ script' = [script EXCEPT ![r] = "kill"] /\ Goto(r, "scripting")
          /\ crossed' = (crossed \/ \E q \in Runs : script[q] # "none")
          /\ UNCHANGED <<download, answers>>
       \/ Fail(r, file[r]) /\ UNCHANGED <<script, crossed>>
    /\ UNCHANGED <<events, fixed, served, offer, stage, prompts, relaunch, app, gui, broke,
                   excused>>

ScriptStep(r, from, to) == script[r] = from /\ script' = [script EXCEPT ![r] = to]

KillApp(r) ==
    /\ ScriptStep(r, "kill", "remove") /\ Kill("dead")
    /\ UNCHANGED <<events, fixed, served, offer, download, stage, prompts, relaunch, app,
                   answers, history>>

RemoveApp(r) ==
    /\ ScriptStep(r, "remove", "copy") /\ app' = "none"
    /\ UNCHANGED <<events, fixed, served, offer, download, stage, prompts, relaunch, gui, pc,
                   answers, history>>

\* set -e: a copy that fails is the end of the script.
CopyApp(r) ==
    /\ \/ ScriptStep(r, "copy", "open") /\ app' = file[r] /\ UNCHANGED broke
       \/ ScriptStep(r, "copy", "none") /\ app' \in {"none", "torn"} /\ broke' = TRUE
    /\ UNCHANGED <<events, fixed, served, offer, download, stage, prompts, relaunch, gui, pc,
                   answers, crossed, excused>>

OpenApp(r) ==
    /\ ScriptStep(r, "open", "none") /\ gui' = "new"
    /\ UNCHANGED <<events, fixed, served, offer, download, stage, prompts, relaunch, app, pc,
                   answers, history>>

-----------------------------------------------------------------------------
(* Homebrew. *)

\* brew update's failure does not matter.
BrewStep(r, from, to) ==
    /\ pc[r] = from /\ Goto(r, to)
    /\ UNCHANGED <<events, fixed, served, offer, download, system, answers, history>>

BrewUpdate(r) == BrewStep(r, "refresh", "upgrade")
UntrustedTap(r) == BrewStep(r, "upgrade", "trust")
BrewTrust(r) == BrewStep(r, "trust", "retry")

\* It fails, installs nothing and says 0, or its postflight kills the GUI.
BrewUpgrade(r) ==
    /\ pc[r] \in {"upgrade", "retry"}
    /\ \/ Goto(r, "verify") /\ UNCHANGED <<download, answers, app, gui>>
       \/ app' \in Builds /\ Kill("new") /\ UNCHANGED <<download, answers>>
    /\ UNCHANGED <<events, fixed, served, offer, stage, prompts, script, relaunch, history>>

BrewFails(r) ==
    /\ pc[r] \in {"upgrade", "trust", "retry"}
    /\ Fail(r, None)
    /\ UNCHANGED <<events, fixed, served, offer, system, history>>

\* A version that cannot be read is no mismatch.
InstalledBundleVersion(r) ==
    /\ pc[r] = "verify"
    /\ \/ /\ IF app = Old THEN Fail(r, None) ELSE Succeed(r)
          /\ UNCHANGED excused
       \/ Succeed(r) /\ excused' = TRUE
    /\ UNCHANGED <<events, fixed, served, offer, system, crossed, broke>>

Next ==
    \/ CheckForUpdate \/ Relaunch \/ \E f \in Files : Upload(f)
    \/ \E r \in Runs :
          \/ RunUpdate(r) \/ Download(r) \/ FetchSums(r) \/ FetchSignature(r) \/ Compare(r)
          \/ Stage(r) \/ Staged(r) \/ LaunchWindows(r) \/ Elevated(r)
          \/ InstallPackage(r) \/ StartAppImage(r) \/ Unsupported(r)
          \/ Extract(r) \/ VerifyBundle(r) \/ RunScript(r)
          \/ KillApp(r) \/ RemoveApp(r) \/ CopyApp(r) \/ OpenApp(r)
          \/ BrewUpdate(r) \/ UntrustedTap(r) \/ BrewTrust(r) \/ BrewUpgrade(r)
          \/ BrewFails(r) \/ InstalledBundleVersion(r)

Spec == Init /\ [][Next]_vars

-----------------------------------------------------------------------------
(* Properties. *)

\* The application is the old one or a whole build at any time but between a
\* macOS script's removal and its copy, and after a copy that failed.
Whole ==
    \/ app \in {Old} \cup Builds
    \/ crossed \/ broke \/ \E r \in Runs : script[r] = "copy"

\* An installer that still waits for the elevation has its file, whole: the
\* answer came, and the download went, before it was started.
Waits == prompts # {} => stage \in Builds \/ crossed

\* A run that said it succeeded has installed the update, but for what the user
\* refused after it, what could not be read and an AppImage; one that failed has opened the
\* release page, and a GUI that is gone is on its way back.
Told ==
    /\ \A r \in Runs : said[r] = "ok" =>
          app # Old \/ r \in prompts \/ excused \/ asset = "appimage"
    /\ (\E r \in Runs : said[r] = "error") /\ os # "brew" => page
    /\ gui = "dead" => broke \/ \E r \in Runs : script[r] # "none"

\* Whatever is published again on the way, and whichever two buttons are
\* pressed: settings_ops.go:1722-1736, installer_windows.go:16-21.
UpdateDelivers == Whole /\ Waits /\ Told

=============================================================================
