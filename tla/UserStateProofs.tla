--------------------------- MODULE UserStateProofs ---------------------------
(***************************************************************************)
(* What the program keeps for its user, proved for any number of events.   *)
(*                                                                         *)
(* Each part has an inductive invariant of its own; a step of the whole is *)
(* a step of one part and leaves the others alone.  SystemStateProofs has  *)
(* the parts that are the operating system's, and that with those added    *)
(* the steps here are the same.                                            *)
(***************************************************************************)
EXTENDS MCUserState, FiniteSetTheorems, TLAPS

all == <<part, userVars>>

-----------------------------------------------------------------------------
(* "Update now". *)
Whole == {"first", "second"}
Checked == {"install", "copying", "launch", "signature", "consent", "scripting"}

RunTypes ==
    /\ pc = [r \in Buttons |-> pc[r]] /\ download = [r \in Buttons |-> download[r]]
    /\ said = [r \in Buttons |-> said[r]] /\ script = [r \in Buttons |-> script[r]]
    /\ info = [r \in Buttons |-> info[r]]
    /\ hash \in [Buttons -> Whole \cup {Nil}]
    /\ served \in [{"asset", "sums", "sig"} -> Whole]
    /\ offer # Nil => offer.hash \in Whole \cup {Nil}

(* Whatever is past the comparison is a build. *)
Verified ==
    \A r \in Buttons :
        /\ pc[r] = "download" => info[r].hash \in Whole \cup {Nil}
        /\ pc[r] \in Checked => download[r] \in Whole

(* A script has its build, and whoever started it waits for it or is gone; with *)
(* the GUI its runs are gone.                                                  *)
Scripts ==
    /\ \A r \in Buttons :
          /\ script[r] # "none" =>
                /\ download[r] \in Whole
                /\ pc[r] = "scripting" \/ (pc[r] = "idle" /\ window # "old")
          /\ script[r] \in {"remove", "copy", "open"} => window # "old"
    /\ window # "old" => \A r \in Buttons : pc[r] = "idle"

(* An installer about to be started, or waiting, has its file. *)
Launching ==
    (\E r \in Buttons : pc[r] = "launch") \/ prompts # {} => stage \in Whole \/ restaged

InstallInv == RunTypes /\ Verified /\ Scripts /\ Launching /\ Install!UpdateDelivers

(* A step of one run that leaves the scripts and the GUI alone. *)
LEMMA RunFrame ==
    ASSUME InstallInv, NEW r \in Buttons, NEW l,
           pc[r] \notin {"idle", "scripting"}, pc' = [pc EXCEPT ![r] = l],
           l \notin {"scripting", "download"},
           UNCHANGED <<served, offer, info, asset, desktop, script, window, broke>>,
           hash' \in [Buttons -> Whole \cup {Nil}],
           download' = download \/ \E c : download' = [download EXCEPT ![r] = c],
           l \in Checked => download'[r] \in Whole,
           \/ said' = said
           \/ said' = [said EXCEPT ![r] = "error"] /\ (page' \/ desktop = "brew")
           \/ /\ said' = [said EXCEPT ![r] = "ok"]
              /\ app' # Old \/ r \in prompts' \/ excused' \/ asset = "appimage",
           page => page', excused => excused', restaged => restaged',
           prompts \subseteq prompts', Launching',
           app' = app \/ (app' # Old /\ (app' \in Whole \/ restaged'))
    PROVE  InstallInv'
<1> USE DEF InstallInv
<1>1. /\ pc'[r] = l /\ (\A q \in Buttons : q # r => pc'[q] = pc[q])
      /\ pc' = [q \in Buttons |-> pc'[q]]
  BY DEF RunTypes
<1>2. /\ \A q \in Buttons : q # r => download'[q] = download[q]
      /\ download' = [q \in Buttons |-> download'[q]]
  BY DEF RunTypes
<1>3. said' = [q \in Buttons |-> said'[q]]
  BY DEF RunTypes
<1>4. RunTypes'
  BY <1>1, <1>2, <1>3 DEF RunTypes
<1>5. Verified'
  BY <1>1, <1>2 DEF Verified
<1>6. window = "old"
  BY DEF Scripts
<1>7. script[r] = "none"
  BY DEF Scripts
<1>8. Scripts'
  BY <1>1, <1>2, <1>6, <1>7 DEF Scripts
<1>9. Install!Whole'
  BY DEF Install!UpdateDelivers, Install!Whole, Install!Builds, Whole
<1>10. Install!Waits'
  BY DEF Launching, Install!Waits, Install!Builds, Whole
<1>11. \A q \in Buttons : said'[q] = "ok" =>
          app' # Old \/ q \in prompts' \/ excused' \/ asset' = "appimage"
  <2>1. \A q \in Buttons : said[q] = "ok" =>
          app' # Old \/ q \in prompts' \/ excused' \/ asset' = "appimage"
    BY DEF Install!UpdateDelivers, Install!Told
  <2>2. CASE said' = said
    BY <2>1, <2>2
  <2>3. CASE said' # said
    <3>1. /\ \A q \in Buttons : q # r => said'[q] = said[q]
          /\ said'[r] = "ok" =>
                app' # Old \/ r \in prompts' \/ excused' \/ asset = "appimage"
      BY <2>3 DEF RunTypes
    <3>2. QED BY <2>1, <3>1
  <2>4. QED BY <2>2, <2>3
<1>12. (\E q \in Buttons : said'[q] = "error") /\ desktop' # "brew" => page'
  <2>1. (\E q \in Buttons : said[q] = "error") /\ desktop # "brew" => page
    BY DEF Install!UpdateDelivers, Install!Told
  <2>2. QED BY <2>1 DEF RunTypes
<1>13. window' = "dead" => broke' \/ \E q \in Buttons : script'[q] # "none"
  BY <1>6
<1>14. Install!Told'
  BY <1>11, <1>12, <1>13 DEF Install!Told
<1>15. QED
  BY <1>4, <1>5, <1>8, <1>9, <1>10, <1>14 DEF Install!UpdateDelivers

(* The ends of a run. *)
LEMMA RunFails ==
    ASSUME InstallInv, NEW r \in Buttons, NEW c, Install!Fail(r, c),
           pc[r] \notin {"idle", "scripting"},
           UNCHANGED <<served, offer, asset, desktop, script, window, broke, excused,
                       stage, restaged, prompts>>,
           app' = app \/ (app' # Old /\ (app' \in Whole \/ restaged'))
    PROVE  InstallInv'
<1>1. /\ pc' = [pc EXCEPT ![r] = "idle"] /\ said' = [said EXCEPT ![r] = "error"]
      /\ download' = [download EXCEPT ![r] = c] /\ UNCHANGED <<info, hash>>
      /\ (page => page') /\ (page' \/ desktop = "brew")
  BY DEF Install!Fail, Install!Goto
<1>2. Launching'
  BY <1>1 DEF InstallInv, Launching, RunTypes
<1>3. hash' \in [Buttons -> Whole \cup {Nil}]
  BY <1>1 DEF InstallInv, RunTypes
<1>4. QED BY <1>1, <1>2, <1>3, RunFrame, ZenonT(60)
   DEF Checked

(* A run that reports success has changed the application, waits at its prompt,
   or is one that the property excuses. *)
LEMMA RunSucceeds ==
    ASSUME InstallInv, NEW r \in Buttons, Install!Succeed(r),
           pc[r] \notin {"idle", "scripting"},
           UNCHANGED <<served, offer, asset, desktop, script, window, broke, stage,
                       restaged>>,
           excused => excused',
           prompts' = prompts \/ (prompts' = prompts \cup {r} /\ pc[r] = "launch"),
           app' # Old \/ r \in prompts' \/ excused' \/ asset = "appimage",
           app' = app \/ (app' # Old /\ (app' \in Whole \/ restaged'))
    PROVE  InstallInv'
<1>1. /\ pc' = [pc EXCEPT ![r] = "idle"] /\ said' = [said EXCEPT ![r] = "ok"]
      /\ download' = [download EXCEPT ![r] = Nil] /\ UNCHANGED <<info, hash, page>>
  BY DEF Install!Succeed, Install!Goto
<1>2. Launching'
  <2>1. \A q \in Buttons : pc'[q] = "launch" => pc[q] = "launch"
    BY <1>1 DEF InstallInv, RunTypes
  <2>2. QED BY <2>1 DEF InstallInv, Launching
<1>3. hash' \in [Buttons -> Whole \cup {Nil}]
  BY <1>1 DEF InstallInv, RunTypes
<1>4. QED BY <1>1, <1>2, <1>3, RunFrame, ZenonT(60)
   DEF Checked

(* A run goes on to its next step. *)
LEMMA RunGoesOn ==
    ASSUME InstallInv, NEW r \in Buttons, NEW l, Install!Goto(r, l),
           pc[r] \notin {"idle", "scripting"},
           l \notin {"scripting", "download", "launch"},
           UNCHANGED <<served, offer, info, download, asset, desktop, script, window, broke,
                       excused, stage, restaged, prompts, app, said, page>>,
           hash' \in [Buttons -> Whole \cup {Nil}],
           l \in Checked => download[r] \in Whole
    PROVE  InstallInv'
<1>1. pc' = [pc EXCEPT ![r] = l]
  BY DEF Install!Goto
<1>2. Launching'
  BY <1>1 DEF InstallInv, Launching, RunTypes
<1>3. QED BY <1>1, <1>2, RunFrame

(* The download and its verification. *)
LEMMA DownloadKeeps ==
    ASSUME InstallInv, NEW r \in Buttons,
           \/ Install!Download(r) \/ Install!FetchSums(r) \/ Install!FetchSignature(r)
           \/ Install!Compare(r)
    PROVE  InstallInv'
<1>1. /\ UNCHANGED <<served, offer, asset, desktop, script, window, broke, excused, stage,
                     restaged, prompts, app>>
      /\ pc[r] \in {"download", "sums", "sig", "compare"}
  BY DEF Install!Download, Install!FetchSums, Install!FetchSignature, Install!Compare,
         Install!fixed, Install!system, Install!history
<1>2. CASE \E c : Install!Fail(r, c)
  BY <1>1, <1>2, RunFails
<1>3. hash \in [Buttons -> Whole \cup {Nil}] /\ served \in [{"asset", "sums", "sig"} -> Whole]
  BY DEF InstallInv, RunTypes
<1>4. CASE Install!Download(r) /\ ~\E c : Install!Fail(r, c)
  <2>1. PICK c : download' = [download EXCEPT ![r] = c]
    BY <1>4 DEF Install!Download
  <2>2. /\ hash' = [hash EXCEPT ![r] = IF build = "dev" THEN info[r].hash ELSE Nil]
        /\ pc[r] = "download" /\ UNCHANGED <<info, said, page>>
        /\ Install!Goto(r, IF build = "release" THEN "sums" ELSE "compare")
    BY <1>4 DEF Install!Download, Install!answers
  <2>3. info[r].hash \in Whole \cup {Nil}
    BY <2>2 DEF InstallInv, Verified
  <2>4. hash' \in [Buttons -> Whole \cup {Nil}]
    BY <1>3, <2>2, <2>3
  <2>5. PICK l \in {"sums", "compare"} : pc' = [pc EXCEPT ![r] = l]
    BY <2>2 DEF Install!Goto
  <2>6. Launching'
    BY <1>1, <2>5 DEF InstallInv, Launching, RunTypes
  <2>7. QED BY <1>1, <2>1, <2>2, <2>4, <2>5, <2>6, RunFrame DEF Checked
<1>5. CASE Install!FetchSums(r) /\ ~\E c : Install!Fail(r, c)
  <2>1. /\ hash' = [hash EXCEPT ![r] = served["sums"]] /\ Install!Goto(r, "sig")
        /\ UNCHANGED <<info, download, said, page>>
    BY <1>5 DEF Install!FetchSums, Install!answers
  <2>2. hash' \in [Buttons -> Whole \cup {Nil}]
    BY <1>3, <2>1
  <2>3. QED BY <1>1, <2>1, <2>2, RunGoesOn DEF Checked
<1>6. CASE Install!FetchSignature(r) /\ ~\E c : Install!Fail(r, c)
  <2>1. Install!Goto(r, "compare") /\ UNCHANGED <<info, download, hash, said, page>>
    BY <1>6 DEF Install!FetchSignature, Install!answers, Install!download
  <2>2. QED BY <1>1, <1>3, <2>1, RunGoesOn DEF Checked
<1>7. CASE Install!Compare(r) /\ ~\E c : Install!Fail(r, c)
  <2>1. /\ Install!Goto(r, "install") /\ UNCHANGED <<info, download, hash, said, page>>
        /\ Install!HashVerified(r)
    BY <1>7 DEF Install!Compare, Install!answers, Install!download
  <2>2. download[r] \in Whole
    BY <1>3, <2>1 DEF Install!HashVerified
  <2>3. QED BY <1>1, <1>3, <2>1, <2>2, RunGoesOn DEF Checked
<1>8. QED BY <1>2, <1>4, <1>5, <1>6, <1>7

(* Windows and Linux: staged, then elevated. *)
LEMMA StageKeeps ==
    ASSUME InstallInv, NEW r \in Buttons,
           \/ Install!Stage(r) \/ Install!Staged(r) \/ Install!LaunchWindows(r)
           \/ Install!InstallPackage(r) \/ Install!StartAppImage(r)
           \/ Install!Unsupported(r)
    PROVE  InstallInv'
<1>1. /\ UNCHANGED <<served, offer, asset, desktop, script, window, broke, excused>>
      /\ pc[r] \in {"install", "copying", "launch"}
  BY DEF Install!Stage, Install!Staged, Install!LaunchWindows, Install!InstallPackage,
         Install!StartAppImage, Install!Unsupported, Install!fixed, Install!system,
         Install!history
<1>2. /\ hash \in [Buttons -> Whole \cup {Nil}] /\ download[r] \in Whole
      /\ pc = [q \in Buttons |-> pc[q]]
  BY <1>1 DEF InstallInv, RunTypes, Verified, Checked
<1>3. CASE Install!Stage(r)
  <2>1. /\ pc' = [pc EXCEPT ![r] = "copying"]
        /\ restaged' = (restaged \/ prompts # {}
                          \/ \E q \in Buttons \ {r} : pc[q] \in {"copying", "launch"})
        /\ UNCHANGED <<info, download, hash, prompts, app, said, page>>
    BY <1>3 DEF Install!Stage, Install!Goto, Install!download, Install!answers
  <2>2. \A q \in Buttons : pc'[q] = "launch" => q # r /\ pc[q] = "launch"
    BY <1>2, <2>1
  <2>3. Launching'
    BY <2>1, <2>2 DEF Launching
  <2>4. (restaged => restaged') /\ prompts \subseteq prompts'
    BY <2>1
  <2>5. QED BY <1>1, <1>2, <2>1, <2>3, <2>4, RunFrame DEF Checked
<1>4. CASE Install!Staged(r)
  <2>1. UNCHANGED <<prompts, app, restaged>>
    BY <1>4 DEF Install!Staged, Install!history
  <2>2. CASE Install!Fail(r, download[r]) /\ UNCHANGED stage
    BY <1>1, <2>1, <2>2, RunFails
  <2>3. CASE /\ stage' = download[r] /\ Install!Goto(r, "launch")
             /\ UNCHANGED <<info, download, hash, said, page>>
    <3>1. Launching'
      BY <1>2, <2>3 DEF Launching
    <3>2. pc' = [pc EXCEPT ![r] = "launch"]
      BY <2>3 DEF Install!Goto
    <3>3. QED BY <1>1, <1>2, <2>1, <2>3, <3>1, <3>2, RunFrame
  <2>4. QED BY <1>4, <2>2, <2>3 DEF Install!Staged, Install!download, Install!answers
<1>5. CASE Install!LaunchWindows(r)
  <2>1. UNCHANGED <<stage, app, restaged>> /\ pc[r] = "launch"
    BY <1>5 DEF Install!LaunchWindows, Install!history
  <2>2. CASE Install!Fail(r, download[r]) /\ UNCHANGED prompts
    BY <1>1, <2>1, <2>2, RunFails
  <2>3. CASE prompts' = prompts \cup {r} /\ Install!Succeed(r)
    BY <1>1, <2>1, <2>3, RunSucceeds
  <2>4. QED BY <1>5, <2>2, <2>3 DEF Install!LaunchWindows
<1>6. CASE Install!InstallPackage(r)
  <2>1. UNCHANGED <<stage, prompts, restaged>> /\ pc[r] = "launch"
    BY <1>6 DEF Install!InstallPackage, Install!history
  <2>2. stage \in Whole \/ restaged
    BY <2>1 DEF InstallInv, Launching
  <2>3. CASE app' = app /\ Install!Fail(r, download[r])
    BY <1>1, <2>1, <2>3, RunFails
  <2>4. CASE stage \in Install!Content /\ app' = stage
    <3>1. app' # Old /\ (app' \in Whole \/ restaged')
      BY <2>1, <2>2, <2>4, ValuesAssumption DEF Install!Content, Install!Builds, Whole
    <3>2. CASE Install!Succeed(r)
      BY <1>1, <2>1, <3>1, <3>2, RunSucceeds
    <3>3. CASE Install!Fail(r, download[r])
      BY <1>1, <2>1, <3>1, <3>3, RunFails
    <3>4. QED BY <1>6, <3>2, <3>3 DEF Install!InstallPackage
  <2>5. QED BY <1>6, <2>3, <2>4 DEF Install!InstallPackage
<1>7. CASE Install!StartAppImage(r)
  <2>1. UNCHANGED <<stage, prompts, restaged, app>> /\ asset = "appimage"
    BY <1>7 DEF Install!StartAppImage, Install!system, Install!history
  <2>2. QED BY <1>1, <1>7, <2>1, RunSucceeds, RunFails DEF Install!StartAppImage
<1>8. CASE Install!Unsupported(r)
  <2>1. UNCHANGED <<stage, prompts, restaged, app>>
    BY <1>8 DEF Install!Unsupported, Install!system, Install!history
  <2>2. QED BY <1>1, <1>8, <2>1, RunFails DEF Install!Unsupported
<1>9. QED BY <1>3, <1>4, <1>5, <1>6, <1>7, <1>8

(* Homebrew, and macOS up to the script. *)
LEMMA HandOverKeeps ==
    ASSUME InstallInv, NEW r \in Buttons,
           \/ Install!Extract(r) \/ Install!VerifyBundle(r) \/ Install!BrewUpdate(r)
           \/ Install!UntrustedTap(r) \/ Install!BrewTrust(r) \/ Install!BrewFails(r)
           \/ Install!InstalledBundleVersion(r)
    PROVE  InstallInv'
<1>1. /\ UNCHANGED <<served, offer, asset, desktop, script, window, broke, stage, prompts,
                     app, restaged>>
      /\ pc[r] \notin {"idle", "scripting"}
      /\ hash \in [Buttons -> Whole \cup {Nil}]
  BY DEF Install!Extract, Install!VerifyBundle, Install!BrewUpdate, Install!UntrustedTap,
         Install!BrewTrust, Install!BrewFails, Install!InstalledBundleVersion,
         Install!BrewStep, Install!fixed, Install!system, Install!history,
         InstallInv, RunTypes
<1>2. CASE Install!InstalledBundleVersion(r)
  <2>1. CASE UNCHANGED excused /\ app # Old /\ Install!Succeed(r)
    BY <1>1, <2>1, RunSucceeds
  <2>2. CASE UNCHANGED excused /\ Install!Fail(r, Nil)
    BY <1>1, <2>2, RunFails
  <2>3. CASE Install!Succeed(r) /\ excused' = TRUE
    BY <1>1, <2>3, RunSucceeds
  <2>4. QED BY <1>2, <2>1, <2>2, <2>3 DEF Install!InstalledBundleVersion
<1>3. ASSUME ~Install!InstalledBundleVersion(r) PROVE UNCHANGED excused
  BY <1>3 DEF Install!Extract, Install!VerifyBundle, Install!BrewUpdate,
         Install!UntrustedTap, Install!BrewTrust, Install!BrewFails, Install!BrewStep,
         Install!history
<1>4. CASE ~Install!InstalledBundleVersion(r) /\ \E c : Install!Fail(r, c)
  BY <1>1, <1>3, <1>4, RunFails
<1>5. CASE ~Install!InstalledBundleVersion(r) /\ ~\E c : Install!Fail(r, c)
  <2>1. UNCHANGED <<info, download, hash, said, page>>
    BY <1>5 DEF Install!Extract, Install!VerifyBundle, Install!BrewUpdate,
         Install!UntrustedTap, Install!BrewTrust, Install!BrewFails, Install!BrewStep,
         Install!download, Install!answers
  <2>2. \E l \in {"signature", "consent", "upgrade", "trust", "retry"} :
           Install!Goto(r, l) /\ (l \in Checked => pc[r] \in Checked)
    BY <1>5 DEF Install!Extract, Install!VerifyBundle, Install!BrewUpdate,
         Install!UntrustedTap, Install!BrewTrust, Install!BrewFails, Install!BrewStep,
         Checked
  <2>3. pc[r] \in Checked => download[r] \in Whole
    BY DEF InstallInv, Verified
  <2>4. QED BY <1>1, <1>3, <1>5, <2>1, <2>2, <2>3, RunGoesOn
<1>6. QED BY <1>2, <1>4, <1>5

(* The password is given and the script starts. *)
LEMMA ScriptStarts ==
    ASSUME InstallInv, NEW r \in Buttons, Install!RunScript(r)
    PROVE  InstallInv'
<1> USE DEF InstallInv
<1>1. /\ UNCHANGED <<served, offer, asset, desktop, window, broke, excused, stage, prompts,
                     app>>
      /\ pc[r] = "consent"
  BY DEF Install!RunScript, Install!fixed
<1>2. CASE Install!Fail(r, download[r]) /\ UNCHANGED <<script, restaged>>
  BY <1>1, <1>2, RunFails
<1>3. CASE /\ script' = [script EXCEPT ![r] = "kill"] /\ Install!Goto(r, "scripting")
           /\ restaged' = (restaged \/ \E q \in Buttons : script[q] # "none")
           /\ UNCHANGED <<info, download, hash, said, page>>
  <2>1. /\ pc'[r] = "scripting" /\ (\A q \in Buttons : q # r => pc'[q] = pc[q])
        /\ pc' = [q \in Buttons |-> pc'[q]]
        /\ script'[r] = "kill" /\ (\A q \in Buttons : q # r => script'[q] = script[q])
        /\ script' = [q \in Buttons |-> script'[q]]
    BY <1>3 DEF Install!Goto, RunTypes
  <2>2. RunTypes'
    BY <1>1, <1>3, <2>1 DEF RunTypes
  <2>3. download[r] \in Whole
    BY <1>1 DEF Verified, Checked
  <2>4. Verified'
    BY <1>3, <2>1, <2>3 DEF Verified
  <2>5. window = "old" /\ script[r] = "none"
    BY <1>1 DEF Scripts
  <2>6. Scripts'
    BY <1>1, <1>3, <2>1, <2>3, <2>5 DEF Scripts
  <2>7. restaged => restaged'
    BY <1>3
  <2>8. Launching'
    BY <1>1, <2>1, <2>7 DEF Launching
  <2>9. Install!Whole'
    BY <1>1, <2>1, <2>5, <2>7 DEF Install!UpdateDelivers, Install!Whole
  <2>10. Install!Waits'
    BY <1>1, <2>7 DEF Install!UpdateDelivers, Install!Waits
  <2>11. Install!Told'
    BY <1>1, <1>3, <2>5 DEF Install!UpdateDelivers, Install!Told
  <2>12. QED BY <2>2, <2>4, <2>6, <2>8, <2>9, <2>10, <2>11 DEF Install!UpdateDelivers
<1>4. QED
  BY <1>2, <1>3 DEF Install!RunScript, Install!download, Install!answers

(* What goes on once the GUI is gone: its runs are, and the installer's file or *)
(* the script's is whole.                                                      *)
LEMMA SystemKeeps ==
    ASSUME InstallInv,
           UNCHANGED <<served, offer, info, hash, download, asset, desktop, stage, said, page>>,
           restaged' = restaged, excused => excused', broke => broke',
           prompts' \subseteq prompts,
           script' = [r \in Buttons |-> script'[r]],
           \A r \in Buttons : script'[r] # "none" => script[r] # "none",
           \A r \in Buttons : script'[r] \in {"remove", "copy", "open"} => window' # "old",
           \/ window' # "old" /\ pc' = [r \in Buttons |-> "idle"]
           \/ window' = window /\ pc' = pc
           \/ window' # "old" /\ window # "old" /\ pc' = pc,
           Install!Whole',
           app = app' \/ app' # Old,
           app' # Old \/ excused' \/ prompts' = prompts,
           window' = "dead" => broke' \/ \E r \in Buttons : script'[r] # "none"
    PROVE  InstallInv'
<1> USE DEF InstallInv
<1>1. \A r \in Buttons : pc'[r] = pc[r] \/ (pc'[r] = "idle" /\ window' # "old")
  OBVIOUS
<1>2. pc' = [r \in Buttons |-> pc'[r]]
  BY DEF RunTypes
<1>3. RunTypes'
  BY <1>2 DEF RunTypes
<1>4. Verified'
  BY <1>1 DEF Verified, Checked
<1>5. window' # "old" => \A r \in Buttons : pc'[r] = "idle"
  BY DEF Scripts
<1>6. Scripts'
  BY <1>1, <1>5 DEF Scripts
<1>7. Launching'
  BY <1>1 DEF Launching
<1>8. Install!Waits'
  BY DEF Install!UpdateDelivers, Install!Waits
<1>9. Install!Told'
  BY DEF Install!UpdateDelivers, Install!Told
<1>10. QED
  BY <1>3, <1>4, <1>6, <1>7, <1>8, <1>9 DEF Install!UpdateDelivers

(* The elevated installer, the relaunch, brew's own and the script's steps. *)
LEMMA InstallersKeep ==
    ASSUME InstallInv,
           Install!Relaunch \/ \E r \in Buttons :
              \/ Install!Elevated(r) \/ Install!KillApp(r) \/ Install!RemoveApp(r)
              \/ Install!CopyApp(r) \/ Install!OpenApp(r)
    PROVE  InstallInv'
<1>1. /\ UNCHANGED <<served, offer, info, hash, download, asset, desktop, stage, said, page>>
      /\ UNCHANGED restaged
  BY DEF Install!Relaunch, Install!Elevated, Install!KillApp, Install!RemoveApp,
         Install!CopyApp, Install!OpenApp, Install!fixed, Install!download,
         Install!answers, Install!history
<1>2. /\ script = [r \in Buttons |-> script[r]]
      /\ \A r \in Buttons : script[r] \in {"remove", "copy", "open"} => window # "old"
      /\ \A r \in Buttons : script[r] # "none" => download[r] \in Whole
      /\ window = "dead" => broke \/ \E r \in Buttons : script[r] # "none"
      /\ Install!Whole
  BY DEF InstallInv, RunTypes, Scripts, Install!UpdateDelivers, Install!Told
<1>3. CASE Install!Relaunch
  <2>1. /\ window' = "new" /\ pc' = [r \in Buttons |-> "idle"]
        /\ UNCHANGED <<script, prompts, app, broke, excused>>
    BY <1>3 DEF Install!Relaunch, Install!Kill, Install!history
  <2>2. Install!Whole'
    BY <1>1, <1>2, <2>1 DEF Install!Whole
  <2>3. QED BY <1>1, <1>2, <2>1, <2>2, SystemKeeps
<1>4. ASSUME NEW r \in Buttons, Install!Elevated(r) PROVE InstallInv'
  <2>1. /\ UNCHANGED <<script, broke>> /\ prompts' = prompts \ {r} /\ prompts # {}
        /\ \/ /\ stage \in Install!Content /\ app' = stage /\ UNCHANGED excused
              /\ window' = "new" /\ pc' = [q \in Buttons |-> "idle"]
           \/ excused' = TRUE /\ UNCHANGED <<app, window, pc>>
    BY <1>4 DEF Install!Elevated, Install!Kill
  <2>2. stage \in Whole \/ restaged
    BY <2>1 DEF InstallInv, Launching
  <2>3. CASE excused' = TRUE /\ UNCHANGED <<app, window, pc>>
    <3>1. Install!Whole'
      BY <1>1, <1>2, <2>1, <2>3 DEF Install!Whole
    <3>2. QED BY <1>1, <1>2, <2>1, <2>3, <3>1, SystemKeeps
  <2>4. CASE /\ stage \in Install!Content /\ app' = stage /\ UNCHANGED excused
             /\ window' = "new" /\ pc' = [q \in Buttons |-> "idle"]
    <3>1. app' # Old
      BY <2>4, ValuesAssumption DEF Install!Content, Install!Builds
    <3>2. Install!Whole'
      BY <1>1, <2>2, <2>4 DEF Install!Whole, Install!Builds, Whole
    <3>3. QED BY <1>1, <1>2, <2>1, <2>4, <3>1, <3>2, SystemKeeps
  <2>5. QED BY <2>1, <2>3, <2>4
<1>5. ASSUME NEW r \in Buttons, NEW from, NEW to, Install!ScriptStep(r, from, to),
             from # "none"
      PROVE  /\ script[r] = from /\ script'[r] = to /\ script[r] # "none"
             /\ \A q \in Buttons : q # r => script'[q] = script[q]
             /\ script' = [q \in Buttons |-> script'[q]]
  BY <1>2, <1>5 DEF Install!ScriptStep
<1>6. ASSUME NEW r \in Buttons, Install!KillApp(r) PROVE InstallInv'
  <2>1. /\ Install!ScriptStep(r, "kill", "remove")
        /\ window' = "dead" /\ pc' = [q \in Buttons |-> "idle"]
        /\ UNCHANGED <<prompts, app, broke, excused>>
    BY <1>6 DEF Install!KillApp, Install!Kill, Install!history
  <2>2. /\ script[r] = "kill" /\ script'[r] = "remove"
        /\ \A q \in Buttons : q # r => script'[q] = script[q]
        /\ script' = [q \in Buttons |-> script'[q]]
    BY <1>5, <2>1
  <2>3. Install!Whole'
    BY <1>1, <1>2, <2>1, <2>2 DEF Install!Whole
  <2>4. QED BY <1>1, <1>2, <2>1, <2>2, <2>3, SystemKeeps
<1>7. ASSUME NEW r \in Buttons, Install!RemoveApp(r) PROVE InstallInv'
  <2>1. /\ Install!ScriptStep(r, "remove", "copy") /\ app' = "none"
        /\ UNCHANGED <<window, pc, prompts, broke, excused>>
    BY <1>7 DEF Install!RemoveApp, Install!history
  <2>2. /\ script[r] = "remove" /\ script'[r] = "copy"
        /\ \A q \in Buttons : q # r => script'[q] = script[q]
        /\ script' = [q \in Buttons |-> script'[q]]
    BY <1>5, <2>1
  <2>3. Install!Whole' /\ app' # Old
    BY <2>1, <2>2, ValuesAssumption DEF Install!Whole
  <2>4. QED BY <1>1, <1>2, <2>1, <2>2, <2>3, SystemKeeps
<1>8. ASSUME NEW r \in Buttons, Install!CopyApp(r) PROVE InstallInv'
  <2>1. UNCHANGED <<window, pc, prompts, excused>>
    BY <1>8 DEF Install!CopyApp
  <2>2. CASE Install!ScriptStep(r, "copy", "open") /\ app' = download[r] /\ UNCHANGED broke
    <3>1. /\ script[r] = "copy" /\ script'[r] = "open"
          /\ \A q \in Buttons : q # r => script'[q] = script[q]
          /\ script' = [q \in Buttons |-> script'[q]]
      BY <1>5, <2>2
    <3>2. app' \in Whole
      BY <1>2, <2>2, <3>1
    <3>3. Install!Whole' /\ app' # Old
      BY <3>2, ValuesAssumption DEF Install!Whole, Install!Builds, Whole
    <3>4. QED BY <1>1, <1>2, <2>1, <2>2, <3>1, <3>3, SystemKeeps
  <2>3. CASE /\ Install!ScriptStep(r, "copy", "none") /\ app' \in {"none", "torn"}
             /\ broke' = TRUE
    <3>1. /\ script[r] = "copy" /\ script'[r] = "none"
          /\ \A q \in Buttons : q # r => script'[q] = script[q]
          /\ script' = [q \in Buttons |-> script'[q]]
      BY <1>5, <2>3
    <3>2. Install!Whole' /\ app' # Old
      BY <2>3, ValuesAssumption DEF Install!Whole
    <3>3. QED BY <1>1, <1>2, <2>1, <2>3, <3>1, <3>2, SystemKeeps
  <2>4. QED BY <1>8, <2>2, <2>3 DEF Install!CopyApp
<1>9. ASSUME NEW r \in Buttons, Install!OpenApp(r) PROVE InstallInv'
  <2>1. /\ Install!ScriptStep(r, "open", "none") /\ window' = "new"
        /\ UNCHANGED <<pc, prompts, app, broke, excused>>
    BY <1>9 DEF Install!OpenApp, Install!history
  <2>2. /\ script[r] = "open" /\ script'[r] = "none"
        /\ \A q \in Buttons : q # r => script'[q] = script[q]
        /\ script' = [q \in Buttons |-> script'[q]]
    BY <1>5, <2>1
  <2>3. Install!Whole'
    BY <1>1, <1>2, <2>1, <2>2 DEF Install!Whole
  <2>4. window # "old"
    BY <1>2, <2>2
  <2>5. QED BY <1>1, <1>2, <2>1, <2>2, <2>3, <2>4, SystemKeeps
<1>10. QED BY <1>3, <1>4, <1>6, <1>7, <1>8, <1>9

(* Checks, uploads, clicks, and brew's upgrade. *)
LEMMA OutsideInstallKeeps ==
    ASSUME InstallInv,
           \/ Install!CheckForUpdate
           \/ \E f \in {"asset", "sums", "sig"} : Install!Upload(f)
           \/ \E r \in Buttons : Install!RunUpdate(r) \/ Install!BrewUpgrade(r)
    PROVE  InstallInv'
<1> USE DEF InstallInv
<1>1. ASSUME UNCHANGED <<asset, desktop, info, download, hash, pc, stage, prompts, script,
                         app, window, said, page, restaged, broke, excused>>,
             served' \in [{"asset", "sums", "sig"} -> Whole],
             offer' # Nil => offer'.hash \in Whole \cup {Nil}
      PROVE  InstallInv'
  <2>1. RunTypes' /\ Verified' /\ Scripts' /\ Launching'
    BY <1>1 DEF RunTypes, Verified, Scripts, Launching
  <2>2. Install!UpdateDelivers'
    BY <1>1 DEF Install!UpdateDelivers, Install!Whole, Install!Waits, Install!Told
  <2>3. QED BY <2>1, <2>2
<1>2. CASE Install!CheckForUpdate
  <2>1. UNCHANGED <<served, asset, desktop, info, download, hash, pc, stage, prompts, script,
                    app, window, said, page, restaged, broke, excused>>
    BY <1>2 DEF Install!CheckForUpdate, Install!fixed, Install!download, Install!system,
                Install!answers, Install!history
  <2>2. PICK h \in {served["sums"], Nil} : offer' = [build |-> served["asset"], hash |-> h]
    BY <1>2 DEF Install!CheckForUpdate
  <2>3. offer'.hash \in Whole \cup {Nil}
    BY <2>2 DEF RunTypes
  <2>4. QED BY <1>1, <2>1, <2>3 DEF RunTypes
<1>3. ASSUME NEW f \in {"asset", "sums", "sig"}, Install!Upload(f) PROVE InstallInv'
  <2>1. UNCHANGED <<offer, asset, desktop, info, download, hash, pc, stage, prompts, script,
                    app, window, said, page, restaged, broke, excused>>
    BY <1>3 DEF Install!Upload, Install!fixed, Install!download, Install!system,
                Install!answers, Install!history
  <2>2. served' = [served EXCEPT ![f] = "second"]
    BY <1>3 DEF Install!Upload
  <2>3. served' \in [{"asset", "sums", "sig"} -> Whole]
    BY <2>2 DEF RunTypes, Whole
  <2>4. QED BY <1>1, <2>1, <2>3 DEF RunTypes
<1>4. ASSUME NEW r \in Buttons, Install!RunUpdate(r) PROVE InstallInv'
  <2>1. /\ UNCHANGED <<served, offer, asset, desktop, download, hash, stage, prompts, script,
                       app, window, said, page, restaged, broke, excused>>
        /\ window = "old" /\ pc[r] = "idle" /\ offer # Nil
        /\ info' = [info EXCEPT ![r] = offer]
    BY <1>4 DEF Install!RunUpdate, Install!fixed, Install!system, Install!answers,
                Install!history
  <2>2. PICK l \in {"refresh", "download"} : pc' = [pc EXCEPT ![r] = l]
    BY <1>4 DEF Install!RunUpdate, Install!Goto
  <2>3. /\ pc'[r] = l /\ (\A q \in Buttons : q # r => pc'[q] = pc[q])
        /\ pc' = [q \in Buttons |-> pc'[q]]
        /\ info'[r] = offer /\ (\A q \in Buttons : q # r => info'[q] = info[q])
        /\ info' = [q \in Buttons |-> info'[q]]
    BY <2>1, <2>2 DEF RunTypes
  <2>4. RunTypes'
    BY <2>1, <2>3 DEF RunTypes
  <2>5. Verified'
    BY <2>1, <2>3 DEF Verified, RunTypes, Checked
  <2>6. script[r] = "none"
    BY <2>1 DEF Scripts
  <2>7. Scripts'
    BY <2>1, <2>3, <2>6 DEF Scripts
  <2>8. Launching'
    BY <2>1, <2>3 DEF Launching
  <2>9. Install!UpdateDelivers'
    BY <2>1 DEF Install!UpdateDelivers, Install!Whole, Install!Waits, Install!Told
  <2>10. QED BY <2>4, <2>5, <2>7, <2>8, <2>9
<1>5. ASSUME NEW r \in Buttons, Install!BrewUpgrade(r) PROVE InstallInv'
  <2>1. /\ UNCHANGED <<served, offer, asset, desktop, info, download, hash, stage, prompts,
                       script, said, page, restaged, broke, excused>>
        /\ pc[r] \in {"upgrade", "retry"}
    BY <1>5 DEF Install!BrewUpgrade, Install!fixed, Install!history, Install!download,
                Install!answers
  <2>2. CASE Install!Goto(r, "verify") /\ UNCHANGED <<app, window>>
    <3>1. hash' \in [Buttons -> Whole \cup {Nil}]
      BY <2>1 DEF RunTypes
    <3>2. QED BY <2>1, <2>2, <3>1, RunGoesOn DEF Checked
  <2>3. CASE /\ app' \in Install!Builds /\ window' = "new"
             /\ pc' = [q \in Buttons |-> "idle"]
    <3>1. Install!Whole' /\ app' # Old
      BY <2>3, ValuesAssumption DEF Install!Whole, Install!Builds
    <3>2. /\ script = [q \in Buttons |-> script[q]]
      BY DEF RunTypes
    <3>3. QED BY <2>1, <2>3, <3>1, <3>2, SystemKeeps
  <2>4. QED BY <1>5, <2>2, <2>3 DEF Install!BrewUpgrade, Install!Kill
<1>6. QED BY <1>2, <1>3, <1>4, <1>5

(* The invariant holds at first and in every step of the whole. *)
LEMMA InstallInitially ==
    ASSUME UserInit
    PROVE  InstallInv
<1>1. /\ served = [f \in {"asset", "sums", "sig"} |-> "first"] /\ offer = Nil
      /\ info = [r \in Buttons |-> Nil] /\ pc = [r \in Buttons |-> "idle"]
      /\ download = [r \in Buttons |-> Nil] /\ hash = [r \in Buttons |-> Nil]
      /\ prompts = {} /\ script = [r \in Buttons |-> "none"]
      /\ app = Old /\ window = "old" /\ said = [r \in Buttons |-> Nil]
  BY DEF UserInit, Install!Init, Install!Files
<1>2. /\ \A r \in Buttons : /\ pc[r] = "idle" /\ script[r] = "none"
                            /\ said[r] \notin {"ok", "error"}
  BY <1>1, ValuesAssumption
<1>3. RunTypes
  <2>1. hash \in [Buttons -> Whole \cup {Nil}]
    BY <1>1
  <2>2. served \in [{"asset", "sums", "sig"} -> Whole]
    BY <1>1 DEF Whole
  <2>3. /\ info = [r \in Buttons |-> info[r]] /\ pc = [r \in Buttons |-> pc[r]]
        /\ download = [r \in Buttons |-> download[r]]
        /\ script = [r \in Buttons |-> script[r]] /\ said = [r \in Buttons |-> said[r]]
    BY <1>1
  <2>4. QED BY <1>1, <2>1, <2>2, <2>3 DEF RunTypes
<1>4. Verified /\ Scripts /\ Launching
  BY <1>1, <1>2 DEF Verified, Scripts, Launching, Checked
<1>5. Install!UpdateDelivers
  BY <1>1, <1>2 DEF Install!UpdateDelivers, Install!Whole, Install!Waits, Install!Told
<1>6. QED BY <1>3, <1>4, <1>5 DEF InstallInv

(* No step, of this part or of another, breaks the invariant of the installers. *)
LEMMA InstallKept ==
    ASSUME InstallInv, [UserNext]_all
    PROVE  InstallInv'
<1>1. CASE UNCHANGED uvars
  <2>1. UNCHANGED <<served, offer, asset, desktop, info, download, hash, pc, stage, prompts,
                    script, app, window, said, page, restaged, broke, excused>>
    BY <1>1 DEF uvars
  <2>2. RunTypes' /\ Verified' /\ Scripts' /\ Launching'
    BY <2>1 DEF InstallInv, RunTypes, Verified, Scripts, Launching
  <2>3. Install!UpdateDelivers'
    BY <2>1 DEF InstallInv, Install!UpdateDelivers, Install!Whole, Install!Waits, Install!Told
  <2>4. QED BY <2>2, <2>3 DEF InstallInv
<1>2. CASE Install!Next
  BY <1>2, DownloadKeeps, StageKeeps, HandOverKeeps, ScriptStarts, InstallersKeep,
     OutsideInstallKeeps DEF Install!Next, Install!Files
<1>3. QED
  BY <1>1, <1>2 DEF UserNext, userVars, all

(* Whatever is published again on the way and however many runs there are: the *)
(* application is the old one or a whole build that was verified, but while a  *)
(* macOS script copies it; an installer that waits has its file; and what the  *)
(* user was told is so.                                                        *)
(* (app/settings_ops.go RunUpdate, update/installer*.go)                       *)
THEOREM UpdatesAreWhole == UserSpec => []UpdateDelivers
<1>1. UserInit => InstallInv
  BY InstallInitially
<1>2. InstallInv /\ [UserNext]_all => InstallInv'
  BY InstallKept
<1>3. InstallInv => UpdateDelivers
  BY DEF InstallInv, UpdateDelivers
<1>4. QED BY <1>1, <1>2, <1>3, PTL DEF UserSpec, all

-----------------------------------------------------------------------------
(* The connection history: the rows have numbers given out so far. *)
RowTable(f, n) == f \in [DOMAIN f -> History!Row] /\ DOMAIN f \subseteq 1..n
OpenIn(f) == {i \in DOMAIN f : f[i].open}

(* Of a handler's variables only what EXCEPT needs: a handler that runs beside
   another may leave anything in them. *)
SessionTypes ==
    /\ made \in Nat /\ cleared \subseteq 1..made
    /\ RowTable(sessions, made) /\ RowTable(disk, made)
    /\ {dirty, flush, failed, crossing} \subseteq BOOLEAN
    /\ gui \in {"down", "run", "quitting", "flushed"}
    /\ \A r \in History!Subs : handler[r] \in {"idle", "closing", "opening", "tracking"}
    /\ handler = [r \in History!Subs |-> handler[r]]
    /\ event = [r \in History!Subs |-> event[r]]
    /\ opened = [r \in History!Subs |-> opened[r]]

(* What is not on disk has a timer, and what was cleared stays away. *)
RowsOnDisk ==
    failed \/
       /\ cleared \cap (DOMAIN sessions \cup DOMAIN disk) = {}
       /\ gui # "down" => (dirty => flush) /\ (dirty \/ disk = sessions)

GuiDown ==
    gui = "down" =>
       /\ ~crossing /\ seen = Nil
       /\ logged = [t \in {home, work} |-> Nil]
       /\ \A r \in History!Subs : handler[r] = "idle"

AllClosed(f) == \A i \in DOMAIN f : ~f[i].open
GuiFlushed == gui = "flushed" /\ ~crossing => AllClosed(sessions) /\ (failed
    \/ AllClosed(disk))

(* Outside of the races the invariant excepts, one handler runs at a time, and
   only while the GUI does. *)
OneHandler ==
    \A r \in History!Subs : handler[r] # "idle" =>
       /\ gui = "run" /\ event[r] = seen /\ seen # Nil
       /\ \A q \in History!Subs : q # r => handler[q] = "idle"

(* Two tunnels never share a row: closing one leaves the other's alone. *)
OwnRows ==
    /\ logged \in [{home, work} -> (1..made) \cup {Nil}]
    /\ \A t, u \in {home, work} : logged[t] # Nil /\ logged[t] = logged[u] => t = u

(* A handler has made a row and not stored it: nobody else knows it. *)
InHand(r) ==
    /\ opened[r] \in {home, work} \X (1..made)
    /\ logged[opened[r][1]] = Nil
    /\ opened[r][1] \in History!Active(seen)
    /\ \A t \in {home, work} : logged[t] # opened[r][2]

(* Only the tunnels of the event have a session; all that have shaken hands do. *)
TracksSeen == \A t \in {home, work} : logged[t] # Nil => t \in History!Active(seen)
TracksAll == \A t \in {home, work} : seen[t] = "up" => logged[t] # Nil

(* What holds at each step of the handler. *)
HandlerAt ==
    /\ \A r \in History!Subs : handler[r] \in {"opening", "tracking"} => TracksSeen
    /\ \A r \in History!Subs : handler[r] = "tracking" => InHand(r)
    /\ (\A r \in History!Subs : handler[r] = "idle") =>
          IF seen = Nil THEN \A t \in {home, work} : logged[t] = Nil
              ELSE TracksSeen /\ TracksAll

(* Every open row is a tunnel's, or in a handler's hand, unless it was cleared. *)
Holder(i) ==
    \/ \E t \in {home, work} : logged[t] = i
    \/ \E r \in History!Subs : handler[r] = "tracking" /\ opened[r][2] = i

RowsAccounted == \A i \in 1..made : i \in OpenIn(sessions) <=>
    i \notin cleared /\ Holder(i)

SessionInv ==
    /\ SessionTypes /\ RowsOnDisk /\ GuiDown /\ GuiFlushed
    /\ ~crossing => OneHandler /\ OwnRows
    /\ gui = "run" /\ ~crossing => HandlerAt /\ RowsAccounted

(* A row of the history that ends. *)
LEMMA RowEnds ==
    ASSUME NEW n, NEW i \in DOMAIN sessions, RowTable(sessions, n),
           NEW reason \in {Nil, "user", "reconnect", "app_quit"}
    PROVE  /\ RowTable(History!Ended(i, reason), n)
           /\ DOMAIN History!Ended(i, reason) = DOMAIN sessions
           /\ OpenIn(History!Ended(i, reason)) = OpenIn(sessions) \ {i}
<1> DEFINE f == History!Ended(i, reason)
<1>1. /\ DOMAIN f = DOMAIN sessions
      /\ \A j \in DOMAIN sessions : j # i => f[j] = sessions[j]
      /\ f[i].open = FALSE /\ f[i] \in History!Row
  BY DEF RowTable, History!Row, History!Ended
<1>2. f \in [DOMAIN f -> History!Row]
  BY <1>1 DEF RowTable, History!Ended
<1> HIDE DEF f
<1>3. OpenIn(f) = OpenIn(sessions) \ {i}
  BY <1>1 DEF OpenIn
<1>4. RowTable(f, n)
  BY <1>1, <1>2 DEF RowTable
<1>5. QED BY <1>1, <1>3, <1>4 DEF f

(* Rows that go. *)
LEMMA RowsGo ==
    ASSUME NEW n, NEW S, RowTable(sessions, n)
    PROVE  /\ RowTable(History!Remove(S), n)
           /\ DOMAIN History!Remove(S) = DOMAIN sessions \ S
           /\ OpenIn(History!Remove(S)) = OpenIn(sessions) \ S
<1>1. /\ DOMAIN History!Remove(S) = DOMAIN sessions \ S
      /\ \A j \in DOMAIN sessions \ S : History!Remove(S)[j] = sessions[j]
  BY DEF History!Remove, History!Restrict
<1>2. RowTable(History!Remove(S), n)
  BY DEF History!Remove, History!Restrict, RowTable
<1>3. OpenIn(History!Remove(S)) = OpenIn(sessions) \ S
  BY <1>1 DEF OpenIn
<1>4. QED BY <1>1, <1>2, <1>3

(* No session is left open. *)
LEMMA RowsClose ==
    ASSUME NEW n, NEW f, NEW S, RowTable(f, n),
           NEW reason \in {Nil, "user", "reconnect", "app_quit"}
    PROVE  /\ RowTable(History!CloseOpenSessions(f, S, reason), n)
           /\ DOMAIN History!CloseOpenSessions(f, S, reason) \subseteq DOMAIN f
           /\ AllClosed(History!CloseOpenSessions(f, S, reason))
           /\ OpenIn(f) = {} /\ S = {} => History!CloseOpenSessions(f, S, reason) = f
<1> DEFINE g == History!CloseOpenSessions(f, S, reason)
<1>1. DOMAIN g = DOMAIN f \ S
  BY DEF History!CloseOpenSessions
<1>2. \A i \in DOMAIN g : g[i] \in History!Row /\ g[i].open = FALSE
  <2>1. TAKE i \in DOMAIN g
  <2>2. f[i] \in History!Row /\ g[i] = IF f[i].open THEN [f[i] EXCEPT !.open = FALSE,
            !.reason = reason] ELSE f[i]
    BY <1>1, <2>1 DEF History!CloseOpenSessions, RowTable
  <2>3. QED BY <2>2 DEF History!Row
<1>3. OpenIn(f) = {} /\ S = {} => g = f
  <2>1. SUFFICES ASSUME OpenIn(f) = {}, S = {} PROVE g = f
    OBVIOUS
  <2>2. \A i \in DOMAIN f : g[i] = f[i]
    BY <1>1, <2>1 DEF OpenIn, History!CloseOpenSessions
  <2>3. DOMAIN g = DOMAIN f /\ f = [i \in DOMAIN f |-> f[i]]
            /\ g = [i \in DOMAIN g |-> g[i]]
    BY <1>1, <2>1 DEF RowTable, History!CloseOpenSessions
  <2>4. QED BY <2>2, <2>3
<1>4. g = [i \in DOMAIN g |-> g[i]]
  BY DEF History!CloseOpenSessions
<1> HIDE DEF g
<1>5. RowTable(g, n)
  BY <1>1, <1>2, <1>4 DEF RowTable
<1>6. QED BY <1>1, <1>2, <1>3, <1>5 DEF AllClosed, g

(* A new row. *)
LEMMA RowAdded ==
    ASSUME NEW n \in Nat, RowTable(sessions, n), NEW row \in History!Row, row.open
    PROVE  /\ RowTable(History!WithRow(n + 1, row), n + 1)
           /\ DOMAIN History!WithRow(n + 1, row) = DOMAIN sessions \cup {n + 1}
           /\ OpenIn(History!WithRow(n + 1, row)) = OpenIn(sessions) \cup {n + 1}
<1> DEFINE f == History!WithRow(n + 1, row)
<1>1. n + 1 \notin DOMAIN sessions
  BY DEF RowTable
<1>2. /\ DOMAIN f = DOMAIN sessions \cup {n + 1}
      /\ \A i \in DOMAIN sessions : f[i] = sessions[i]
      /\ f[n + 1] = row
  BY <1>1 DEF History!WithRow
<1>3. f = [i \in DOMAIN f |-> f[i]]
  BY DEF History!WithRow
<1> HIDE DEF f
<1>4. OpenIn(f) = OpenIn(sessions) \cup {n + 1}
  BY <1>1, <1>2 DEF OpenIn
<1>5. f \in [DOMAIN f -> History!Row]
  BY <1>2, <1>3 DEF RowTable
<1>6. DOMAIN f \subseteq 1..(n + 1)
  BY <1>2 DEF RowTable
<1>7. QED BY <1>2, <1>4, <1>5, <1>6 DEF RowTable, f

(* What a closed session does to the store. *)
LEMMA SessionCloses ==
    ASSUME SessionTypes, NEW i, NEW reason \in {Nil, "user", "reconnect", "app_quit"},
           History!RecordDisconnect(i, reason)
    PROVE  /\ RowTable(sessions', made) /\ DOMAIN sessions' \subseteq DOMAIN sessions
           /\ OpenIn(sessions') = OpenIn(sessions) \ {i}
           /\ UNCHANGED <<disk, made>>
           /\ UNCHANGED <<sessions, dirty, flush>> \/ (dirty' = TRUE /\ flush' = TRUE)
<1>1. CASE i \in DOMAIN sessions /\ sessions[i].open
  <2>1. /\ sessions' = History!Ended(i, reason) \/ sessions' = History!Remove({i})
        /\ dirty' = TRUE /\ flush' = TRUE /\ UNCHANGED <<disk, made>>
    BY <1>1 DEF History!RecordDisconnect, History!Commit
  <2>2. RowTable(sessions, made)
    BY DEF SessionTypes
  <2>3. CASE sessions' = History!Ended(i, reason)
    BY <1>1, <2>1, <2>2, <2>3, RowEnds
  <2>4. CASE sessions' = History!Remove({i})
    BY <1>1, <2>1, <2>2, <2>4, RowsGo
  <2>5. QED BY <2>1, <2>3, <2>4
<1>2. CASE ~(i \in DOMAIN sessions /\ sessions[i].open)
  BY <1>2 DEF SessionTypes, History!RecordDisconnect, OpenIn
<1>3. QED BY <1>1, <1>2

(* Steps of the helper and the user that leave the bookkeeping alone. *)
LEMMA HistoryFrame ==
    ASSUME SessionInv,
           UNCHANGED <<handler, event, opened, gui, logged, seen, sessions, disk, dirty,
               flush, made,
                       cleared, failed, crossing>>
    PROVE  SessionInv'
BY DEF SessionInv, SessionTypes, RowsOnDisk, GuiDown, GuiFlushed, OneHandler, OwnRows,
       HandlerAt, InHand, TracksSeen,
       TracksAll, RowsAccounted, Holder

(* The timer. *)
LEMMA HistoryFlushes ==
    ASSUME SessionInv, History!FlushTimer
    PROVE  SessionInv'
<1>1. SessionTypes' /\ RowsOnDisk'
  <2>1. /\ UNCHANGED <<handler, event, opened, gui, sessions, made, cleared, crossing>>
        /\ flush' = FALSE
        /\ \/ disk' \in {sessions, disk} /\ (dirty => disk' = sessions) /\ (~dirty =>
                  disk' = disk)
              /\ dirty' = FALSE /\ UNCHANGED failed
           \/ failed' = TRUE /\ UNCHANGED <<disk, dirty>>
    BY DEF History!FlushTimer, History!streams
  <2>2. SessionTypes'
    BY <2>1 DEF SessionInv, SessionTypes
  <2>3. QED BY <2>1, <2>2 DEF SessionInv, SessionTypes, RowsOnDisk
<1>2. GuiDown' /\ GuiFlushed'
  BY DEF SessionInv, SessionTypes, GuiDown, GuiFlushed, History!FlushTimer,
         History!streams, History!helper, History!maps
<1>3. (~crossing => OneHandler /\ OwnRows)'
  BY DEF SessionInv, OneHandler, OwnRows, History!FlushTimer, History!streams,
         History!helper, History!maps
<1>4. (gui = "run" /\ ~crossing => HandlerAt /\ RowsAccounted)'
  BY DEF SessionInv, HandlerAt, InHand, TracksSeen, TracksAll, RowsAccounted, Holder,
         History!FlushTimer,
         History!streams, History!helper, History!maps
<1>5. QED BY <1>1, <1>2, <1>3, <1>4 DEF SessionInv

(* The user clears the history. *)
LEMMA HistoryClears ==
    ASSUME SessionInv, History!ClearConnectionHistory
    PROVE  SessionInv'
<1>1. /\ UNCHANGED <<History!streams, gui, History!maps, made, crossing>> /\ gui = "run"
      /\ sessions' = History!Empty /\ dirty' = FALSE /\ flush' = FALSE
      /\ cleared' = cleared \cup DOMAIN sessions
      /\ \/ disk' = History!Empty /\ UNCHANGED failed
         \/ failed' = TRUE /\ UNCHANGED disk
  BY DEF History!ClearConnectionHistory, History!Clear
<1>2. RowTable(History!Empty, made) /\ DOMAIN History!Empty = {}
          /\ OpenIn(History!Empty) = {}
  BY DEF RowTable, History!Empty, OpenIn
<1>3. SessionTypes'
  BY <1>1, <1>2 DEF SessionInv, SessionTypes, RowTable, History!streams
<1>4. RowsOnDisk' /\ GuiDown' /\ GuiFlushed'
  BY <1>1, <1>2 DEF SessionInv, RowsOnDisk, GuiDown, GuiFlushed
<1>5. (~crossing => OneHandler /\ OwnRows)'
  BY <1>1 DEF SessionInv, OneHandler, OwnRows, History!streams, History!maps
<1>6. ~crossing => HandlerAt'
  BY <1>1 DEF SessionInv, HandlerAt, InHand, TracksSeen, TracksAll, History!streams,
              History!maps
<1>7. ~crossing => RowsAccounted'
  <2>1. SUFFICES ASSUME ~crossing PROVE RowsAccounted'
    OBVIOUS
  <2>2. \A i \in 1..made : Holder(i) => i \in cleared'
    BY <1>1, <2>1 DEF SessionInv, RowsAccounted, OpenIn
  <2>3. \A i \in 1..made : Holder(i)' <=> Holder(i)
    BY <1>1 DEF Holder, History!streams, History!maps
  <2>4. QED BY <1>1, <1>2, <2>2, <2>3 DEF RowsAccounted
<1>8. QED BY <1>1, <1>3, <1>4, <1>5, <1>6, <1>7 DEF SessionInv

(* The old rows go. *)
LEMMA HistoryPrunes ==
    ASSUME SessionInv, History!Prune
    PROVE  SessionInv'
<1>1. PICK S \in SUBSET (DOMAIN sessions \ History!Open) :
          History!Commit(History!Remove(S))
  BY DEF History!Prune
<1>2. UNCHANGED <<History!streams, gui, History!maps, disk, made, History!history>>
          /\ gui = "run"
  BY DEF History!Prune
<1>3. /\ RowTable(sessions', made) /\ DOMAIN sessions' \subseteq DOMAIN sessions
      /\ OpenIn(sessions') = OpenIn(sessions)
  <2>1. S \cap OpenIn(sessions) = {}
    BY DEF History!Open, OpenIn
  <2>2. RowTable(sessions, made) /\ sessions' = History!Remove(S)
    BY <1>1 DEF SessionInv, SessionTypes, History!Commit
  <2>3. QED BY <2>1, <2>2, RowsGo
<1>4. dirty' = TRUE /\ flush' = TRUE
  BY <1>1 DEF History!Commit
<1>5. SessionTypes'
  BY <1>2, <1>3, <1>4 DEF SessionInv, SessionTypes, History!streams, History!history
<1>6. RowsOnDisk' /\ GuiDown' /\ GuiFlushed'
  BY <1>2, <1>3, <1>4 DEF SessionInv, RowsOnDisk, GuiDown, GuiFlushed, History!history
<1>7. (~crossing => OneHandler /\ OwnRows)'
  BY <1>2 DEF SessionInv, OneHandler, OwnRows, History!streams, History!maps,
              History!history
<1>8. ~crossing => HandlerAt' /\ RowsAccounted'
  BY <1>2, <1>3
     DEF SessionInv, HandlerAt, InHand, TracksSeen, TracksAll, RowsAccounted, Holder,
         History!streams, History!maps,
         History!history
<1>9. QED BY <1>2, <1>5, <1>6, <1>7, <1>8 DEF SessionInv, History!history

(* A handler takes its event. *)
LEMMA EventTaken ==
    ASSUME SessionInv, NEW r \in History!Subs, History!Handle(r)
    PROVE  SessionInv'
<1>1. /\ UNCHANGED <<History!store, gui, opened, logged, cleared, failed>>
      /\ inbox[r] # Nil /\ handler[r] = "idle" /\ seen' = inbox[r] /\ gui # "down"
      /\ event' = [event EXCEPT ![r] = inbox[r]]
      /\ handler' = [handler EXCEPT ![r] = IF seen = inbox[r] THEN "idle" ELSE "closing"]
      /\ crossing' = (crossing \/ History!Others(r) \/ gui # "run")
  BY DEF History!Handle, History!Unchanged
<1>2. SessionTypes'
  <2>1. crossing' \in BOOLEAN
    BY <1>1 DEF SessionInv, SessionTypes
  <2>2. QED BY <1>1, <2>1 DEF SessionInv, SessionTypes, History!store
<1>3. RowsOnDisk' /\ GuiDown' /\ GuiFlushed'
  BY <1>1 DEF SessionInv, RowsOnDisk, GuiDown, GuiFlushed, History!store
<1>4. CASE crossing'
  BY <1>2, <1>3, <1>4 DEF SessionInv
<1>5. CASE ~crossing'
  <2>1. ~crossing /\ gui = "run" /\ \A q \in History!Subs : q # r => handler[q] = "idle"
    BY <1>1, <1>5 DEF History!Others
  <2>2. \A q \in History!Subs : handler[q] = "idle"
    BY <1>1, <2>1
  <2>3. /\ handler'[r] = IF seen = inbox[r] THEN "idle" ELSE "closing"
        /\ event'[r] = inbox[r]
        /\ \A q \in History!Subs : q # r => handler'[q] = "idle"
    BY <1>1, <2>1 DEF SessionInv, SessionTypes
  <2>4. OneHandler' /\ OwnRows'
    BY <1>1, <2>1, <2>3 DEF SessionInv, OneHandler, OwnRows, History!store
  <2>5. RowsAccounted'
    BY <1>1, <2>1, <2>2, <2>3 DEF SessionInv, RowsAccounted, Holder, OpenIn, History!store
  <2>6. HandlerAt'
    BY <1>1, <2>1, <2>2, <2>3 DEF SessionInv, HandlerAt, TracksSeen, TracksAll
  <2>7. QED BY <1>2, <1>3, <2>4, <2>5, <2>6 DEF SessionInv
<1>6. QED BY <1>4, <1>5

(* The row of a tunnel that is gone is closed, or at the quit. *)
LEMMA SessionUntracks ==
    ASSUME SessionInv, NEW t \in {home, work}, logged[t] # Nil,
           NEW reason \in {Nil, "user", "reconnect", "app_quit"},
           History!RecordDisconnect(logged[t], reason),
           logged' = [logged EXCEPT ![t] = Nil],
           UNCHANGED <<History!streams, gui, seen, History!history>>, gui # "down",
               gui # "flushed",
           gui = "quitting" \/ \E r \in History!Subs : handler[r] = "closing"
    PROVE  SessionInv'
<1>1. /\ RowTable(sessions', made) /\ DOMAIN sessions' \subseteq DOMAIN sessions
      /\ OpenIn(sessions') = OpenIn(sessions) \ {logged[t]}
      /\ UNCHANGED <<disk, made>>
      /\ UNCHANGED <<sessions, dirty, flush>> \/ (dirty' = TRUE /\ flush' = TRUE)
  BY SessionCloses DEF SessionInv
<1>2. SessionTypes'
  BY <1>1 DEF SessionInv, SessionTypes, History!streams, History!history
<1>3. RowsOnDisk' /\ GuiDown' /\ GuiFlushed'
  <2>1. RowsOnDisk'
    BY <1>1 DEF SessionInv, RowsOnDisk, History!history
  <2>2. QED BY <2>1 DEF GuiDown, GuiFlushed
<1>4. CASE crossing
  BY <1>2, <1>3, <1>4 DEF SessionInv, History!history
<1>5. CASE ~crossing
  <2>1. OwnRows /\ \A u \in {home, work} : logged'[u] = IF u = t THEN Nil ELSE logged[u]
    BY <1>5 DEF SessionInv, OwnRows
  <2>2. OneHandler' /\ OwnRows'
    <3>1. OneHandler'
      BY <1>5 DEF SessionInv, OneHandler, History!streams
    <3>2. QED BY <1>1, <2>1, <3>1 DEF OwnRows
  <2>3. CASE gui = "quitting"
    BY <1>2, <1>3, <1>5, <2>2, <2>3 DEF SessionInv
  <2>4. CASE gui = "run"
    <3>1. PICK r \in History!Subs : handler[r] = "closing"
      BY <2>4
    <3>2. \A q \in History!Subs : handler[q] \notin {"opening", "tracking"}
      BY <1>5, <3>1 DEF SessionInv, OneHandler
    <3>3. HandlerAt'
      BY <3>1, <3>2 DEF HandlerAt, History!streams
    <3>4. RowsAccounted'
      <4>1. SUFFICES ASSUME NEW i \in 1..made
                     PROVE  i \in OpenIn(sessions') <=> i \notin cleared /\ Holder(i)'
        BY <1>1 DEF RowsAccounted, History!history
      <4>2. i \in OpenIn(sessions) <=> i \notin cleared /\ Holder(i)
        BY <1>5, <2>4 DEF SessionInv, RowsAccounted
      <4>3. Holder(i) <=> \E u \in {home, work} : logged[u] = i
        BY <3>2 DEF Holder
      <4>4. Holder(i)' <=> \E u \in {home, work} : logged'[u] = i
        BY <3>2 DEF Holder, History!streams
      <4>5. i # Nil /\ (logged[t] \in 1..made)
        BY <2>1, ValuesAssumption DEF OwnRows
      <4>6. (\E u \in {home, work} : logged'[u] = i) <=>
               i # logged[t] /\ \E u \in {home, work} : logged[u] = i
        BY <2>1, <4>5 DEF OwnRows
      <4>7. QED BY <1>1, <4>2, <4>3, <4>4, <4>6
    <3>5. QED BY <1>2, <1>3, <2>2, <3>3, <3>4 DEF SessionInv
  <2>5. QED BY <2>3, <2>4 DEF SessionInv, SessionTypes
<1>6. QED BY <1>4, <1>5

(* A handler closes the session of a tunnel that is gone. *)
LEMMA SessionClosed ==
    ASSUME SessionInv, NEW r \in History!Subs, NEW t \in {home, work},
        History!CloseSession(r, t)
    PROVE  SessionInv'
<1>1. /\ handler[r] = "closing" /\ logged[t] # Nil
      /\ History!RecordDisconnect(logged[t], IF t \in hint THEN "user" ELSE "reconnect")
      /\ logged' = [logged EXCEPT ![t] = Nil]
      /\ UNCHANGED <<History!streams, gui, seen, History!history>>
  BY DEF History!CloseSession, History!Vanished
<1>2. crossing \/ gui = "run"
  BY <1>1 DEF SessionInv, OneHandler
<1>3. gui # "down"
  BY <1>1 DEF SessionInv, GuiDown
<1>4. CASE gui # "flushed"
  BY <1>1, <1>3, <1>4, SessionUntracks
<1>5. CASE gui = "flushed"
  <2>1. /\ RowTable(sessions', made) /\ DOMAIN sessions' \subseteq DOMAIN sessions
        /\ UNCHANGED <<disk, made>>
        /\ UNCHANGED <<sessions, dirty, flush>> \/ (dirty' = TRUE /\ flush' = TRUE)
    BY <1>1, SessionCloses DEF SessionInv
  <2>2. SessionTypes'
    BY <1>1, <2>1 DEF SessionInv, SessionTypes, History!streams, History!history
  <2>3. RowsOnDisk'
    BY <1>1, <2>1 DEF SessionInv, RowsOnDisk, History!history
  <2>4. crossing'
    BY <1>1, <1>2, <1>5 DEF History!history
  <2>5. GuiDown' /\ GuiFlushed'
    BY <1>1, <1>5, <2>4 DEF GuiDown, GuiFlushed
  <2>6. QED BY <2>2, <2>3, <2>4, <2>5 DEF SessionInv
<1>6. QED BY <1>4, <1>5

(* The pending attempts of tunnels that are gone are dropped. *)
LEMMA AttemptsDropped ==
    ASSUME SessionInv, NEW r \in History!Subs, History!DropPending(r)
    PROVE  SessionInv'
<1>1. /\ handler[r] = "closing" /\ History!Vanished(r) = {}
      /\ handler' = [handler EXCEPT ![r] = "opening"]
      /\ UNCHANGED <<event, opened, gui, logged, seen, History!store, History!history>>
  BY DEF History!DropPending
<1>2. /\ handler'[r] = "opening"
      /\ \A q \in History!Subs : q # r => handler'[q] = handler[q]
  BY <1>1 DEF SessionInv, SessionTypes
<1>3. SessionTypes' /\ RowsOnDisk' /\ GuiDown' /\ GuiFlushed'
  BY <1>1, <1>2 DEF SessionInv, SessionTypes, RowsOnDisk, GuiDown, GuiFlushed,
                    History!store, History!history
<1>4. CASE crossing
  BY <1>1, <1>3, <1>4 DEF SessionInv, History!history
<1>5. CASE ~crossing
  <2>1. OneHandler' /\ OwnRows'
    BY <1>1, <1>2, <1>5 DEF SessionInv, OneHandler, OwnRows, History!store
  <2>2. gui = "run" /\ event[r] = seen /\ \A q \in History!Subs : q # r =>
            handler[q] = "idle"
    BY <1>1, <1>5 DEF SessionInv, OneHandler
  <2>3. TracksSeen
    BY <1>1, <2>2 DEF History!Vanished, TracksSeen
  <2>4. HandlerAt'
    BY <1>1, <1>2, <2>2, <2>3 DEF HandlerAt, TracksSeen
  <2>5. RowsAccounted'
    BY <1>1, <1>2, <1>5, <2>2
       DEF SessionInv, RowsAccounted, Holder, OpenIn, History!store, History!history
  <2>6. QED BY <1>1, <1>3, <2>1, <2>4, <2>5 DEF SessionInv
<1>6. QED BY <1>4, <1>5

(* A tunnel has shaken hands: it gets its row. *)
LEMMA SessionOpened ==
    ASSUME SessionInv, NEW r \in History!Subs, NEW t \in {home, work},
        History!OpenSession(r, t)
    PROVE  SessionInv'
<1> DEFINE row == [tunnel |-> t, open |-> TRUE, reason |-> Nil]
<1>1. /\ handler[r] = "opening" /\ t \in History!Active(event[r]) /\ logged[t] = Nil
      /\ made' = made + 1 /\ sessions' = History!WithRow(made + 1, row)
      /\ dirty' = TRUE /\ flush' = TRUE
      /\ opened' = [opened EXCEPT ![r] = <<t, made + 1>>]
      /\ handler' = [handler EXCEPT ![r] = "tracking"]
      /\ UNCHANGED <<event, gui, History!maps, disk, History!history>>
  BY DEF History!OpenSession, History!Untracked, History!RecordConnect, History!Commit
<1>2. row \in History!Row /\ row.open
  BY DEF History!Row
<1> HIDE DEF row
<1>3. /\ handler'[r] = "tracking" /\ opened'[r] = <<t, made + 1>>
      /\ \A q \in History!Subs : q # r => handler'[q] = handler[q]
             /\ opened'[q] = opened[q]
  BY <1>1 DEF SessionInv, SessionTypes
<1>4. /\ RowTable(sessions', made + 1)
      /\ DOMAIN sessions' = DOMAIN sessions \cup {made + 1}
      /\ OpenIn(sessions') = OpenIn(sessions) \cup {made + 1}
  BY <1>1, <1>2, RowAdded DEF SessionInv, SessionTypes
<1>5. made \in Nat /\ cleared \subseteq 1..made /\ RowTable(sessions, made)
          /\ RowTable(disk, made)
  BY DEF SessionInv, SessionTypes
<1>6. SessionTypes'
  <2>1. cleared \subseteq 1..(made + 1) /\ RowTable(disk, made + 1) /\ made + 1 \in Nat
    BY <1>5 DEF RowTable
  <2>2. QED BY <1>1, <1>3, <1>4, <2>1 DEF SessionInv, SessionTypes, History!history
<1>7. made + 1 \notin cleared /\ made + 1 \notin DOMAIN sessions
          /\ made + 1 \notin DOMAIN disk
  BY <1>5 DEF RowTable
<1>8. RowsOnDisk'
  BY <1>1, <1>4, <1>7 DEF SessionInv, RowsOnDisk, History!history
<1>9. gui # "down" /\ (crossing \/ gui = "run")
  BY <1>1 DEF SessionInv, GuiDown, OneHandler
<1>10. GuiDown' /\ GuiFlushed'
  BY <1>1, <1>9 DEF GuiDown, GuiFlushed, History!history
<1>11. CASE crossing
  BY <1>1, <1>6, <1>8, <1>10, <1>11 DEF SessionInv, History!history
<1>12. CASE ~crossing
  <2>1. gui = "run" /\ event[r] = seen /\ \A q \in History!Subs : q # r =>
            handler[q] = "idle"
    BY <1>1, <1>12 DEF SessionInv, OneHandler
  <2>2. OwnRows /\ TracksSeen
    BY <1>1, <1>12, <2>1 DEF SessionInv, HandlerAt
  <2>3. OneHandler'
    BY <1>1, <1>3, <1>12, <2>1 DEF SessionInv, OneHandler, History!maps
  <2>4. OwnRows'
    BY <1>1, <1>5, <2>2 DEF OwnRows, History!maps
  <2>5. InHand(r)'
    <3>1. <<t, made + 1>> \in {home, work} \X (1..(made + 1))
      BY <1>5
    <3>2. \A u \in {home, work} : logged[u] # made + 1
      BY <1>5, <2>2, ValuesAssumption DEF OwnRows
    <3>3. logged[t] = Nil /\ t \in History!Active(seen)
      BY <1>1, <2>1
    <3>4. QED BY <1>1, <1>3, <3>1, <3>2, <3>3 DEF InHand, History!maps
  <2>6. HandlerAt'
    BY <1>1, <1>3, <2>1, <2>2, <2>5 DEF HandlerAt, TracksSeen, History!maps
  <2>7. RowsAccounted'
    <3>1. SUFFICES ASSUME NEW i \in 1..(made + 1)
                   PROVE  i \in OpenIn(sessions') <=> i \notin cleared /\ Holder(i)'
      BY <1>1 DEF RowsAccounted, History!history
    <3>2. Holder(i)' <=> i = made + 1 \/ \E u \in {home, work} : logged[u] = i
      BY <1>1, <1>3, <2>1 DEF Holder, History!maps
    <3>3. CASE i = made + 1
      BY <1>4, <1>7, <3>2, <3>3
    <3>4. CASE i \in 1..made
      <4>1. Holder(i) <=> \E u \in {home, work} : logged[u] = i
        BY <1>1, <2>1 DEF Holder
      <4>2. i \in OpenIn(sessions) <=> i \notin cleared /\ Holder(i)
        BY <1>12, <2>1, <3>4 DEF SessionInv, RowsAccounted
      <4>3. i # made + 1
        BY <1>5, <3>4
      <4>4. QED BY <1>4, <3>2, <4>1, <4>2, <4>3
    <3>5. QED BY <1>5, <3>1, <3>3, <3>4
  <2>8. QED BY <1>1, <1>6, <1>8, <1>10, <2>3, <2>4, <2>6, <2>7 DEF SessionInv
<1>13. QED BY <1>11, <1>12

(* The row is stored. *)
LEMMA SessionTracked ==
    ASSUME SessionInv, NEW r \in History!Subs, History!Track(r)
    PROVE  SessionInv'
<1>1. /\ handler[r] = "tracking"
      /\ logged' = [logged EXCEPT ![opened[r][1]] = opened[r][2]]
      /\ opened' = [opened EXCEPT ![r] = Nil]
      /\ handler' = [handler EXCEPT ![r] = "opening"]
      /\ UNCHANGED <<event, gui, seen, History!store, History!history>>
  BY DEF History!Track
<1>2. /\ handler'[r] = "opening"
      /\ \A q \in History!Subs : q # r => handler'[q] = handler[q]
             /\ opened'[q] = opened[q]
  BY <1>1 DEF SessionInv, SessionTypes
<1>3. SessionTypes' /\ RowsOnDisk' /\ GuiFlushed'
  BY <1>1, <1>2 DEF SessionInv, SessionTypes, RowsOnDisk, GuiFlushed, History!store,
                    History!history
<1>4. GuiDown'
  BY <1>1 DEF SessionInv, GuiDown
<1>5. CASE crossing
  BY <1>1, <1>3, <1>4, <1>5 DEF SessionInv, History!history
<1>6. CASE ~crossing
  <2>1. gui = "run" /\ event[r] = seen /\ \A q \in History!Subs : q # r =>
            handler[q] = "idle"
    BY <1>1, <1>6 DEF SessionInv, OneHandler
  <2>2. OwnRows /\ TracksSeen /\ InHand(r)
    BY <1>1, <1>6, <2>1 DEF SessionInv, HandlerAt
  <2>3. PICK t \in {home, work}, i \in 1..made : opened[r] = <<t, i>>
    BY <2>2 DEF InHand
  <2>4. /\ \A u \in {home, work} : logged[u] # i
        /\ t \in History!Active(seen) /\ logged[t] = Nil
    BY <2>2, <2>3 DEF InHand
  <2>5. logged' = [logged EXCEPT ![t] = i]
    BY <1>1, <2>3
  <2>6. \A u \in {home, work} : logged'[u] = IF u = t THEN i ELSE logged[u]
    BY <2>2, <2>5 DEF OwnRows
  <2>7. OneHandler'
    BY <1>1, <1>2, <1>6, <2>1 DEF SessionInv, OneHandler
  <2>8. OwnRows'
    <3>1. logged' \in [{home, work} -> (1..made) \cup {Nil}]
      BY <2>2, <2>5 DEF OwnRows
    <3>2. QED BY <1>1, <2>2, <2>4, <2>6, <3>1 DEF OwnRows, History!store
  <2>9. HandlerAt'
    <3>1. TracksSeen'
      BY <1>1, <2>2, <2>4, <2>6 DEF TracksSeen
    <3>2. QED BY <1>1, <1>2, <2>1, <3>1 DEF HandlerAt
  <2>10. RowsAccounted'
    <3>1. SUFFICES ASSUME NEW j \in 1..made
                   PROVE  j \in OpenIn(sessions) <=> j \notin cleared /\ Holder(j)'
      BY <1>1 DEF RowsAccounted, History!store, History!history
    <3>2. j \in OpenIn(sessions) <=> j \notin cleared /\ Holder(j)
      BY <1>6, <2>1 DEF SessionInv, RowsAccounted
    <3>3. Holder(j) <=> j = i \/ \E u \in {home, work} : logged[u] = j
      BY <1>1, <2>1, <2>3 DEF Holder
    <3>4. j # Nil
      BY ValuesAssumption
    <3>5. Holder(j)' <=> \E u \in {home, work} : logged'[u] = j
      BY <1>2, <2>1 DEF Holder
    <3>6. (\E u \in {home, work} : logged'[u] = j) <=>
              j = i \/ \E u \in {home, work} : logged[u] = j
      BY <2>4, <2>6, <3>4
    <3>7. QED BY <3>2, <3>3, <3>5, <3>6
  <2>11. QED BY <1>1, <1>3, <1>4, <2>7, <2>8, <2>9, <2>10 DEF SessionInv
<1>7. QED BY <1>5, <1>6

(* The event is handled. *)
LEMMA EventHandled ==
    ASSUME SessionInv, NEW r \in History!Subs, History!EndHandle(r)
    PROVE  SessionInv'
<1>1. /\ handler[r] = "opening" /\ \A t \in History!Untracked(r) : event[r][t] = "shaking"
      /\ handler' = [handler EXCEPT ![r] = "idle"] /\ event' = [event EXCEPT ![r] = Nil]
      /\ UNCHANGED <<opened, gui, logged, seen, History!store, History!history>>
  BY DEF History!EndHandle
<1>2. /\ handler'[r] = "idle"
      /\ \A q \in History!Subs : q # r => handler'[q] = handler[q] /\ event'[q] = event[q]
  BY <1>1 DEF SessionInv, SessionTypes
<1>3. SessionTypes' /\ RowsOnDisk' /\ GuiDown' /\ GuiFlushed'
  BY <1>1, <1>2 DEF SessionInv, SessionTypes, RowsOnDisk, GuiDown, GuiFlushed,
                    History!store, History!history
<1>4. CASE crossing
  BY <1>1, <1>3, <1>4 DEF SessionInv, History!history
<1>5. CASE ~crossing
  <2>1. /\ gui = "run" /\ event[r] = seen /\ seen # Nil
        /\ \A q \in History!Subs : q # r => handler[q] = "idle"
    BY <1>1, <1>5 DEF SessionInv, OneHandler
  <2>2. OneHandler' /\ OwnRows'
    BY <1>1, <1>2, <1>5 DEF SessionInv, OneHandler, OwnRows, History!store
  <2>3. TracksSeen
    BY <1>1, <1>5, <2>1 DEF SessionInv, HandlerAt
  <2>4. TracksAll
    BY <1>1, <2>1 DEF History!Untracked, History!Active, TracksAll
  <2>5. HandlerAt'
    BY <1>1, <1>2, <2>1, <2>3, <2>4 DEF HandlerAt, TracksSeen, TracksAll
  <2>6. RowsAccounted'
    BY <1>1, <1>2, <1>5, <2>1
       DEF SessionInv, RowsAccounted, Holder, OpenIn, History!store, History!history
  <2>7. QED BY <1>1, <1>3, <2>2, <2>5, <2>6 DEF SessionInv
<1>6. QED BY <1>4, <1>5

(* The GUI starts on the file it finds. *)
LEMMA GuiStarts ==
    ASSUME SessionInv, History!Start
    PROVE  SessionInv'
<1>1. PICK short \in SUBSET OpenIn(disk) :
        /\ sessions' = History!CloseOpenSessions(disk, short, "app_quit")
        /\ dirty' = (OpenIn(disk) # {}) /\ flush' = (OpenIn(disk) # {})
  BY DEF History!Start, OpenIn
<1>2. /\ gui = "down" /\ gui' = "run"
      /\ UNCHANGED <<handler, event, opened, History!maps, disk, made, History!history>>
  BY DEF History!Start
<1>3. /\ RowTable(sessions', made) /\ DOMAIN sessions' \subseteq DOMAIN disk
             /\ AllClosed(sessions')
      /\ OpenIn(disk) = {} => sessions' = disk
  BY <1>1, RowsClose DEF SessionInv, SessionTypes
<1>4. SessionTypes'
  BY <1>1, <1>2, <1>3 DEF SessionInv, SessionTypes, History!history
<1>5. RowsOnDisk' /\ GuiDown' /\ GuiFlushed'
  BY <1>1, <1>2, <1>3 DEF SessionInv, RowsOnDisk, GuiDown, GuiFlushed, History!history
<1>6. /\ seen = Nil /\ logged = [t \in {home, work} |-> Nil]
             /\ \A r \in History!Subs : handler[r] = "idle"
  BY <1>2 DEF SessionInv, GuiDown
<1>7. OneHandler' /\ OwnRows'
  BY <1>2, <1>6 DEF OneHandler, OwnRows, History!maps
<1>8. HandlerAt'
  BY <1>2, <1>6 DEF HandlerAt, History!maps
<1>9. RowsAccounted'
  <2>1. OpenIn(sessions') = {}
    BY <1>3 DEF OpenIn, AllClosed
  <2>2. \A i \in 1..made : ~Holder(i)'
    BY <1>2, <1>6, ValuesAssumption DEF Holder, History!maps
  <2>3. QED BY <1>2, <2>1, <2>2 DEF RowsAccounted
<1>10. QED BY <1>4, <1>5, <1>7, <1>8, <1>9 DEF SessionInv

(* The user quits. *)
LEMMA GuiQuits ==
    ASSUME SessionInv, History!Quit
    PROVE  SessionInv'
<1>1. /\ gui = "run" /\ gui' = "quitting"
      /\ crossing' = (crossing \/ \E r \in History!Subs : handler[r] # "idle")
      /\ UNCHANGED <<History!streams, History!maps, History!store, cleared, failed>>
  BY DEF History!Quit
<1>2. crossing' \in BOOLEAN
  BY <1>1 DEF SessionInv, SessionTypes
<1>3. SessionTypes' /\ RowsOnDisk' /\ GuiDown' /\ GuiFlushed'
  BY <1>1, <1>2 DEF SessionInv, SessionTypes, RowsOnDisk, GuiDown, GuiFlushed,
                    History!streams, History!store
<1>4. (~crossing => OneHandler /\ OwnRows)'
  BY <1>1 DEF SessionInv, OneHandler, OwnRows, History!streams, History!maps,
              History!store
<1>5. QED BY <1>1, <1>3, <1>4 DEF SessionInv

(* The quit closes a session. *)
LEMMA QuitCloses ==
    ASSUME SessionInv, NEW t \in {home, work}, History!CloseAtQuit(t)
    PROVE  SessionInv'
BY SessionUntracks DEF History!CloseAtQuit

(* The quit closes the rest, and writes. *)
LEMMA QuitFlushes ==
    ASSUME SessionInv, History!FlushAtQuit
    PROVE  SessionInv'
<1> DEFINE unwritten == dirty \/ OpenIn(sessions) # {}
<1>1. PICK short \in SUBSET OpenIn(sessions) :
        /\ sessions' = History!CloseOpenSessions(sessions, short, "app_quit")
        /\ flush' = FALSE
        /\ \/ disk' = (IF unwritten THEN sessions' ELSE disk)
              /\ dirty' = FALSE /\ UNCHANGED failed
           \/ unwritten /\ failed' = TRUE /\ dirty' = TRUE /\ UNCHANGED disk
  BY DEF History!FlushAtQuit, History!Open, OpenIn
<1>2. /\ gui = "quitting" /\ gui' = "flushed"
      /\ UNCHANGED <<History!streams, History!maps, made, cleared, crossing>>
  BY DEF History!FlushAtQuit
<1>3. /\ RowTable(sessions', made) /\ DOMAIN sessions' \subseteq DOMAIN sessions
             /\ AllClosed(sessions')
      /\ ~unwritten => sessions' = sessions
  BY <1>1, RowsClose DEF SessionInv, SessionTypes
<1>4. failed' \/ (disk' = sessions' /\ dirty' = FALSE)
  <2>1. ~unwritten => disk = sessions \/ failed
    BY <1>2 DEF SessionInv, RowsOnDisk
  <2>2. QED BY <1>1, <1>3, <2>1
<1>5. SessionTypes'
  <2>1. RowTable(disk', made) /\ failed' \in BOOLEAN /\ dirty' \in BOOLEAN
    BY <1>1, <1>3 DEF SessionInv, SessionTypes
  <2>2. QED BY <1>1, <1>2, <1>3, <2>1 DEF SessionInv, SessionTypes, History!streams
<1>6. RowsOnDisk'
  <2>1. SUFFICES ASSUME ~failed' PROVE RowsOnDisk'
    BY DEF RowsOnDisk
  <2>2. disk' = sessions' /\ dirty' = FALSE /\ ~failed
    BY <1>1, <1>4, <2>1
  <2>3. QED BY <1>2, <1>3, <2>2 DEF SessionInv, RowsOnDisk
<1>7. GuiDown' /\ GuiFlushed'
  BY <1>2, <1>3, <1>4 DEF GuiDown, GuiFlushed
<1>8. (~crossing => OneHandler /\ OwnRows)'
  BY <1>2 DEF SessionInv, OneHandler, OwnRows, History!streams, History!maps
<1>9. QED BY <1>2, <1>5, <1>6, <1>7, <1>8 DEF SessionInv

(* The process ends. *)
LEMMA GuiExits ==
    ASSUME SessionInv, History!Exit
    PROVE  SessionInv'
<1>1. RowTable(History!Empty, made) /\ DOMAIN History!Empty = {}
  BY DEF RowTable, History!Empty
<1>2. SessionTypes'
  BY <1>1 DEF SessionInv, SessionTypes, History!Exit
<1>3. RowsOnDisk'
  BY <1>1 DEF SessionInv, RowsOnDisk, History!Exit
<1>4. GuiDown' /\ GuiFlushed' /\ OneHandler' /\ OwnRows'
  BY DEF GuiDown, GuiFlushed, OneHandler, OwnRows, History!Exit
<1>5. QED BY <1>2, <1>3, <1>4 DEF SessionInv, History!Exit

(* There is no history at first. *)
LEMMA HistoryInitially == UserInit => SessionInv
<1> SUFFICES ASSUME History!Init PROVE SessionInv
  BY DEF UserInit
<1>1. RowTable(History!Empty, made) /\ DOMAIN History!Empty = {}
  BY DEF RowTable, History!Empty
<1>2. SessionTypes /\ RowsOnDisk
  BY <1>1 DEF History!Init, SessionTypes, RowsOnDisk
<1>3. GuiDown /\ GuiFlushed /\ OneHandler /\ OwnRows
  BY DEF History!Init, GuiDown, GuiFlushed, OneHandler, OwnRows
<1>4. QED BY <1>2, <1>3 DEF History!Init, SessionInv

(* No step, of this part or of another, breaks the invariant of the history. *)
LEMMA HistoryKeeps ==
    ASSUME SessionInv, [UserNext]_all
    PROVE  SessionInv'
<1> USE DEF History!helper, History!streams, History!maps, History!store, History!history
<1>1. CASE \E t \in {home, work} : History!Connect(t) \/ History!Handshake(t)
          \/ History!Drop(t)
  BY <1>1, HistoryFrame DEF History!Connect, History!Handshake, History!Drop
<1>2. CASE \E t \in {home, work} : History!Mark(t) \/ History!Disconnected(t)
          \/ History!CallFailed(t)
  BY <1>2, HistoryFrame DEF History!Mark, History!Disconnected, History!CallFailed
<1>3. CASE History!Broadcast
  BY <1>3, HistoryFrame DEF History!Broadcast
<1>4. CASE History!Resubscribe
  BY <1>4, HistoryFrame DEF History!Resubscribe
<1>5. CASE History!FlushTimer \/ History!ClearConnectionHistory \/ History!Prune
  BY <1>5, HistoryFlushes, HistoryClears, HistoryPrunes
<1>6. CASE History!Start \/ History!Quit \/ History!FlushAtQuit \/ History!Exit
  BY <1>6, GuiStarts, GuiQuits, QuitFlushes, GuiExits
<1>7. CASE \E t \in {home, work} :
              \/ History!CloseAtQuit(t)
              \/ \E r \in History!Subs : History!CloseSession(r, t)
                     \/ History!OpenSession(r, t)
  BY <1>7, QuitCloses, SessionClosed, SessionOpened
<1>8. CASE \E r \in History!Subs : History!Handle(r) \/ History!DropPending(r)
          \/ History!Track(r) \/ History!EndHandle(r)
  BY <1>8, EventTaken, AttemptsDropped, SessionTracked, EventHandled
<1>9. CASE UNCHANGED hvars
  BY <1>9, HistoryFrame DEF hvars
<1>10. QED
  BY <1>1, <1>2, <1>3, <1>4, <1>5, <1>6, <1>7, <1>8, <1>9
     DEF UserNext, userVars, all, History!Next

(* The invariant says what the run checks. *)
LEMMA HistorySays ==
    ASSUME SessionInv
    PROVE  HistoryExact
<1>1. History!SessionsFollow
  <2>1. SUFFICES ASSUME gui = "run", ~crossing, \A r \in History!Subs :
            handler[r] = "idle"
                 PROVE  /\ \A t \in {home, work} :
                              /\ seen # Nil /\ seen[t] = "up" => logged[t] # Nil
                              /\ logged[t] # Nil => seen # Nil
                                     /\ t \in History!Active(seen)
                        /\ History!Open =
                            {logged[t] : t \in {home, work}} \ (cleared \cup {Nil})
    BY DEF History!SessionsFollow
  <2>2. \A t \in {home, work} :
           /\ seen # Nil /\ seen[t] = "up" => logged[t] # Nil
           /\ logged[t] # Nil => seen # Nil /\ t \in History!Active(seen)
    BY <2>1 DEF SessionInv, HandlerAt, TracksSeen, TracksAll
  <2>3. History!Open \subseteq 1..made /\ History!Open = OpenIn(sessions)
    BY DEF SessionInv, SessionTypes, RowTable, History!Open, OpenIn
  <2>4. \A i \in 1..made :
           i \in History!Open <=> i \notin cleared /\ \E t \in {home, work} :
               logged[t] = i
    BY <2>1, <2>3 DEF SessionInv, RowsAccounted, Holder
  <2>5. \A t \in {home, work} : logged[t] \in (1..made) \cup {Nil}
    BY <2>1 DEF SessionInv, OwnRows
  <2>6. History!Open = {logged[t] : t \in {home, work}} \ (cleared \cup {Nil})
    <3>1. Nil \notin 1..made
      BY ValuesAssumption
    <3>2. QED BY <2>3, <2>4, <2>5, <3>1
  <2>7. QED BY <2>2, <2>6
<1>2. History!HistoryKept
  BY DEF SessionInv, RowsOnDisk, GuiFlushed, AllClosed, History!HistoryKept
<1>3. QED BY <1>1, <1>2 DEF HistoryExact

(* Once an event of the helper's is handled, the tunnels that had shaken hands *)
(* in it have their session and no other tunnel has one, and every open row is *)
(* some tunnel's; what the user has cleared stays away, a change that is not   *)
(* on disk has a timer, and a quit leaves no row open on disk.  Not where two  *)
(* handlers, or a handler and the quit, run side by side, a write or the       *)
(* file's removal fails, or the process dies before the timer.                 *)
(* (app/tunnel_ops.go ReconcileHistoryFromStatus, CloseHistorySessions;        *)
(* storage/history.go)                                                         *)
THEOREM HistoryFollowsTheTunnels == UserSpec => []HistoryExact
<1>1. UserInit => SessionInv
  BY HistoryInitially
<1>2. SessionInv /\ [UserNext]_all => SessionInv'
  BY HistoryKeeps
<1>3. SessionInv => HistoryExact
  BY HistorySays
<1>4. QED BY <1>1, <1>2, <1>3, PTL DEF UserSpec, all

-----------------------------------------------------------------------------
(* The settings in force: the calls and the saves there are. *)
SaveStages == {"idle", "load", "write", "start", "level", "path", "key"}
Message == Settings!Live \X BOOLEAN
Call == [field : Settings!Live, value : BOOLEAN, at : {"sent", "done", "failed"}]
CtlCall == [field : Settings!Ctl, value : BOOLEAN, at : {"dial", "call"}]
SaveCall == [at : SaveStages, payload : Settings!Settings \cup {Nil},
             prev : Settings!Settings \cup {Nil}, behind : BOOLEAN]

Without(S) == \A why \in S : why \notin unmatched

(* The saves that have not written yet.  Two of them, or one whose payload is
   older than the file, end with writers that crossed. *)
Pend == {s \in Settings!Saves : save[s].at \in {"load", "write"}}
Doomed == (\E s \in Pend : save[s].behind) \/ Pend = Settings!Saves

(* What the file says of a field once they have written. *)
WillSay(f, v) ==
    IF Pend = {} THEN config[f] = v ELSE \A s \in Pend : save[s].payload[f] = v

(* The helper has taken the dialog's change of this field, or `ctl set` has
   written it and not told the helper. *)
CallDone(f) == call # Nil /\ call.at = "done" /\ call.field = f
CtlFor(f) == ctl # Nil /\ ctl.field = f

(* Of the events on their way, none is about this field; the last about it says v. *)
Unmentioned(m, f) == \A i \in 1..Len(m) : m[i][1] # f
Tells(m, f, v) ==
    \A i \in 1..Len(m) :
        m[i][1] = f /\ (\A j \in (i + 1)..Len(m) : m[j][1] # f) => m[i][2] = v

SettingsTypes ==
    /\ platform \in {"windows", "unix"} /\ helperAt \in {"down", "starting", "up"}
    /\ {attached, pathRules, pathOwner, sleepActive, guiLevel, loginEntry, hotkey,
        dialog, saveTimer} \subseteq BOOLEAN
    /\ claimer \in {"down", "claiming", "enabling", "up"}
    /\ config \in Settings!Settings /\ copy \in Settings!Settings
    /\ switches \in [Settings!Live -> BOOLEAN]
    /\ mail \in Seq(Message)
    /\ call \in Call \cup {Nil} /\ ctl \in CtlCall \cup {Nil}
    /\ save \in [Settings!Saves -> SaveCall]

(* What goes with what, whatever crossed. *)
Shapes ==
    /\ \A s \in Settings!Saves :
         /\ save[s].at # "idle" => save[s].payload \in Settings!Settings
         /\ save[s].at \notin {"idle", "load"} => save[s].prev \in Settings!Settings
    /\ helperAt # "up" => ~attached /\ claimer = "down"
    /\ ~attached => mail = <<>>
    /\ saveTimer \/ call # Nil => dialog
    /\ call # Nil /\ call.at = "sent" => attached
    /\ ctl # Nil /\ ctl.at = "call" => helperAt # "down"

(* Somebody holds the override while the helper believes so, and nobody else's
   is left where it is a process. *)
SleepPart ==
    /\ sleepHeld \subseteq {1, 2} /\ (platform = "unix" => sleepHeld \subseteq {1})
    /\ sleepActive /\ "killed" \notin unmatched => sleepHeld # {}
    /\ ~sleepActive /\ platform = "unix" => sleepHeld = {}

(* The last event about a switch says how it is. *)
MailSays == \A f \in Settings!Live : Tells(mail, f, switches[f])

(* The rules of a helper that serves are its own. *)
RulesOwned ==
    /\ helperAt = "starting" => ~pathRules
    /\ helperAt = "up" /\ pathRules => pathOwner \/ claimer = "enabling"

(* There are rules, or soon, only with the master switch on, or where the save
   that turned it off has yet to clear them. *)
PathPart ==
    helperAt # "down" /\ (pathRules \/ claimer \in {"claiming", "enabling"}) =>
        \/ config["path"]
        \/ \E s \in Settings!Saves :
               save[s].at \in {"start", "level", "path"} /\ save[s].prev["path"]

(* Writers that have not crossed: one save at a time has effects, and the file
   is still what it wrote; one about to write has compared the file as it is;
   `ctl set` and the dialog's call are not both under way. *)
OneWriter ==
    /\ \A s \in Settings!Saves :
          save[s].at \in Settings!Effects => config = save[s].payload
    /\ \A s, r \in Settings!Saves :
          save[s].at \in Settings!Effects /\ save[r].at \in Settings!Effects => s = r
    /\ \A s \in Settings!Saves :
          save[s].at = "write" /\ ~save[s].behind => save[s].prev = config
    /\ call # Nil => ctl = Nil
    /\ ctl # Nil =>
          /\ config[ctl.field] = ctl.value
          /\ \A s \in Pend : ~save[s].behind => save[s].payload[ctl.field] = ctl.value

(* The login entry and the hotkey follow the file, or what the save that is to
   change them has compared it with. *)
EntryPart ==
    /\ \A s \in Settings!Saves :
          save[s].at = "start" => loginEntry = save[s].prev["start"]
    /\ (\A s \in Settings!Saves : save[s].at # "start") => loginEntry = config["start"]

KeyPart ==
    /\ \A s \in Settings!Saves :
          save[s].at \in Settings!Effects => hotkey = save[s].prev["key"]
    /\ (\A s \in Settings!Saves : save[s].at \notin Settings!Effects) =>
          hotkey = config["key"]

(* The GUI's own level is the file's, or somebody has yet to set it. *)
GuiLevelPart ==
    \/ guiLevel = config["level"] \/ saveTimer
    \/ call # Nil /\ call.field = "level"
    \/ ctl # Nil /\ ctl.at = "dial" /\ ctl.field = "level"
    \/ \E s \in Settings!Saves : save[s].at \in {"load", "write", "start", "level"}

(* What the helper has answered is what it does. *)
Answered == \A f \in Settings!Live : CallDone(f) => switches[f] = call.value

(* A switch is as the file will say, or a change of it is on its way to the file. *)
LivePart ==
    ~Doomed =>
        \A f \in Settings!Live :
            WillSay(f, switches[f]) \/ CallDone(f) \/ saveTimer \/ CtlFor(f)

(* An open dialog shows a switch as it is once the events have arrived. *)
LiveCopy ==
    dialog /\ "unseen" \notin unmatched =>
        \A f \in Settings!Live :
            (Unmentioned(mail, f) => copy[f] = switches[f]) \/ CallDone(f) \/ CtlFor(f)

(* The events say what the file will say. *)
MailPart ==
    ~Doomed /\ ~saveTimer =>
        \A f \in Settings!Live :
            \/ \E v \in BOOLEAN : Tells(mail, f, v) /\ WillSay(f, v)
            \/ CallDone(f) \/ CtlFor(f)

(* And so does an open dialog, once they have arrived. *)
CopyPart ==
    ~Doomed /\ ~saveTimer /\ dialog /\ "unseen" \notin unmatched =>
        /\ \A f \in Settings!Live :
              (Unmentioned(mail, f) => WillSay(f, copy[f])) \/ CallDone(f) \/ CtlFor(f)
        /\ \A f \in Settings!Fields \ Settings!Live : WillSay(f, copy[f])

Applied ==
    Without({"crossed"}) =>
        /\ OneWriter /\ MailPart /\ CopyPart
        /\ Without({"cut"}) => EntryPart
        /\ Without({"cut", "refused"}) => KeyPart
        /\ Without({"cut", "missed", "guiLevel"}) => GuiLevelPart
        /\ Without({"cut", "missed"}) /\ helperAt # "down" =>
              Answered /\ LivePart /\ LiveCopy

SettingsInv ==
    /\ SettingsTypes /\ Shapes /\ SleepPart /\ MailSays /\ RulesOwned
    /\ Without({"crossed", "cut", "missed", "late"}) => PathPart
    /\ Applied

(* Of no events anything holds. *)
LEMMA MailEmpty == ASSUME NEW f, NEW v PROVE Tells(<<>>, f, v) /\ Unmentioned(<<>>, f)
BY DEF Tells, Unmentioned

(* One more event. *)
LEMMA MailAppend ==
    ASSUME NEW m \in Seq(Message), NEW g \in Settings!Live, NEW w \in BOOLEAN
    PROVE  /\ Append(m, <<g, w>>) \in Seq(Message)
           /\ Append(m, <<g, w>>) # <<>>
           /\ \A f : Unmentioned(Append(m, <<g, w>>), f) <=> g # f /\ Unmentioned(m, f)
           /\ \A f, v : Tells(Append(m, <<g, w>>), f, v) <=>
                           IF g = f THEN w = v ELSE Tells(m, f, v)
<1> DEFINE x == <<g, w>>
           n == Append(m, x)
<1>1. x \in Message /\ x[1] = g /\ x[2] = w
  BY DEF Message
<1> HIDE DEF x
<1>2. /\ n \in Seq(Message) /\ Len(n) = Len(m) + 1 /\ Len(m) \in Nat
      /\ \A i \in 1..Len(m) : n[i] = m[i]
      /\ n[Len(m) + 1] = x
  BY <1>1
<1>3. n # <<>>
  BY <1>2
<1> HIDE DEF n
<1>4. \A f : Unmentioned(n, f) <=> g # f /\ Unmentioned(m, f)
  <2>1. TAKE f
  <2>2. ASSUME Unmentioned(n, f) PROVE g # f /\ Unmentioned(m, f)
    BY <1>1, <1>2, <2>2 DEF Unmentioned
  <2>3. ASSUME g # f, Unmentioned(m, f) PROVE Unmentioned(n, f)
    <3>1. SUFFICES ASSUME NEW i \in 1..Len(n) PROVE n[i][1] # f
      BY DEF Unmentioned
    <3>2. i \in 1..Len(m) \/ i = Len(m) + 1
      BY <1>2
    <3>3. QED BY <1>1, <1>2, <2>3, <3>2 DEF Unmentioned
  <2>4. QED BY <2>2, <2>3
<1>5. ASSUME NEW v PROVE Tells(n, g, v) <=> w = v
  <2>1. ASSUME Tells(n, g, v) PROVE w = v
    <3>1. Len(n) \in 1..Len(n) /\ n[Len(n)] = x
      BY <1>2
    <3>2. \A j \in (Len(n) + 1)..Len(n) : FALSE
      BY <1>2
    <3>3. QED BY <1>1, <2>1, <3>1, <3>2 DEF Tells
  <2>2. ASSUME w = v PROVE Tells(n, g, v)
    <3>1. SUFFICES ASSUME NEW i \in 1..Len(n), n[i][1] = g,
                          \A j \in (i + 1)..Len(n) : n[j][1] # g
                   PROVE  n[i][2] = v
      BY DEF Tells
    <3>2. i = Len(n)
      <4>1. SUFFICES ASSUME i # Len(n) PROVE FALSE
        OBVIOUS
      <4>2. Len(n) \in (i + 1)..Len(n)
        BY <1>2, <4>1
      <4>3. n[Len(n)][1] = g
        BY <1>1, <1>2
      <4>4. QED BY <3>1, <4>2, <4>3
    <3>3. QED BY <1>1, <1>2, <2>2, <3>2
  <2>3. QED BY <2>1, <2>2
<1>6. ASSUME NEW f, NEW v, g # f PROVE Tells(n, f, v) <=> Tells(m, f, v)
  <2>1. ASSUME Tells(n, f, v) PROVE Tells(m, f, v)
    <3>1. SUFFICES ASSUME NEW i \in 1..Len(m), m[i][1] = f,
                          \A j \in (i + 1)..Len(m) : m[j][1] # f
                   PROVE  m[i][2] = v
      BY DEF Tells
    <3>2. i \in 1..Len(n) /\ n[i] = m[i]
      BY <1>2
    <3>3. \A j \in (i + 1)..Len(n) : n[j][1] # f
      <4>1. TAKE j \in (i + 1)..Len(n)
      <4>2. j \in (i + 1)..Len(m) \/ j = Len(m) + 1
        BY <1>2
      <4>3. CASE j = Len(m) + 1
        BY <1>1, <1>2, <1>6, <4>3
      <4>4. CASE j \in (i + 1)..Len(m)
        BY <1>2, <3>1, <4>4
      <4>5. QED BY <4>2, <4>3, <4>4
    <3>4. QED BY <2>1, <3>1, <3>2, <3>3 DEF Tells
  <2>2. ASSUME Tells(m, f, v) PROVE Tells(n, f, v)
    <3>1. SUFFICES ASSUME NEW i \in 1..Len(n), n[i][1] = f,
                          \A j \in (i + 1)..Len(n) : n[j][1] # f
                   PROVE  n[i][2] = v
      BY DEF Tells
    <3>2. i \in 1..Len(m)
      <4>1. i # Len(m) + 1
        BY <1>1, <1>2, <1>6, <3>1
      <4>2. QED BY <1>2, <4>1
    <3>3. \A j \in (i + 1)..Len(m) : m[j][1] # f
      <4>1. TAKE j \in (i + 1)..Len(m)
      <4>2. j \in (i + 1)..Len(n) /\ n[j] = m[j]
        BY <1>2, <3>2
      <4>3. QED BY <3>1, <4>2
    <3>4. QED BY <1>2, <2>2, <3>1, <3>2, <3>3 DEF Tells
  <2>3. QED BY <2>1, <2>2
<1>7. QED BY <1>2, <1>3, <1>4, <1>5, <1>6 DEF n, x

(* One event less. *)
LEMMA MailTail ==
    ASSUME NEW m \in Seq(Message), m # <<>>
    PROVE  /\ Tail(m) \in Seq(Message)
           /\ Head(m) \in Message
           /\ \A f : Unmentioned(Tail(m), f) /\ Head(m)[1] # f => Unmentioned(m, f)
           /\ \A f, v : Tells(m, f, v) => Tells(Tail(m), f, v)
           /\ \A f, v : Tells(m, f, v) /\ Head(m)[1] = f /\ Unmentioned(Tail(m), f) =>
                           Head(m)[2] = v
<1> DEFINE n == Tail(m)
<1>1. /\ n \in Seq(Message) /\ Len(n) = Len(m) - 1 /\ Len(m) \in Nat \ {0}
             /\ Len(n) \in Nat
      /\ \A i \in 1..Len(n) : n[i] = m[i + 1]
      /\ Head(m) = m[1] /\ Head(m) \in Message
  OBVIOUS
<1> HIDE DEF n
<1>2. \A i \in 1..Len(m) : i = 1 \/ (i - 1 \in 1..Len(n) /\ n[i - 1] = m[i])
  BY <1>1
<1>3. ASSUME NEW f, Unmentioned(n, f), Head(m)[1] # f PROVE Unmentioned(m, f)
  BY <1>1, <1>2, <1>3 DEF Unmentioned
<1>4. ASSUME NEW f, NEW v, Tells(m, f, v) PROVE Tells(n, f, v)
  <2>1. SUFFICES ASSUME NEW i \in 1..Len(n), n[i][1] = f,
                        \A j \in (i + 1)..Len(n) : n[j][1] # f
                 PROVE  n[i][2] = v
    BY DEF Tells
  <2>2. i + 1 \in 1..Len(m) /\ m[i + 1] = n[i]
    BY <1>1
  <2>3. \A j \in (i + 2)..Len(m) : m[j][1] # f
    <3>1. TAKE j \in (i + 2)..Len(m)
    <3>2. j - 1 \in (i + 1)..Len(n) /\ j \in 1..Len(m) /\ j # 1
      BY <1>1
    <3>3. QED BY <1>2, <2>1, <3>2
  <2>4. (i + 1) + 1 = i + 2
    BY <1>1
  <2>5. QED BY <1>4, <2>1, <2>2, <2>3, <2>4 DEF Tells
<1>5. ASSUME NEW f, NEW v, Tells(m, f, v), Head(m)[1] = f, Unmentioned(n, f)
      PROVE  Head(m)[2] = v
  <2>1. \A j \in 2..Len(m) : m[j][1] # f
    <3>1. TAKE j \in 2..Len(m)
    <3>2. j - 1 \in 1..Len(n) /\ j \in 1..Len(m) /\ j # 1
      BY <1>1
    <3>3. QED BY <1>2, <1>5, <3>2 DEF Unmentioned
  <2>2. 1 \in 1..Len(m) /\ 1 + 1 = 2
    BY <1>1
  <2>3. QED BY <1>1, <1>5, <2>1, <2>2 DEF Tells
<1>6. QED BY <1>1, <1>3, <1>4, <1>5 DEF n

(* Steps that change nothing the settings file is compared with. *)
LEMMA AppliedFrame ==
    ASSUME Applied,
           UNCHANGED <<config, switches, copy, mail, save, call, ctl, saveTimer, dialog,
                       guiLevel, loginEntry, hotkey>>,
           helperAt' = "down" <=> helperAt = "down", unmatched \subseteq unmatched'
    PROVE  Applied'
BY DEF Applied, Without, OneWriter, MailPart, CopyPart, EntryPart, KeyPart, GuiLevelPart,
       Answered, LivePart, LiveCopy, Pend, Doomed, WillSay, CallDone, CtlFor

(* Steps that leave the rules and the master switch alone. *)
LEMMA PathFrame ==
    ASSUME Without({"crossed", "cut", "missed", "late"}) => PathPart,
           UNCHANGED <<helperAt, pathRules, claimer, config>>,
               unmatched \subseteq unmatched',
           \A s \in Settings!Saves : save[s].at \in {"start", "level", "path"} =>
              save'[s].at \in {"start", "level", "path"} /\ save'[s].prev = save[s].prev
    PROVE  Without({"crossed", "cut", "missed", "late"})' => PathPart'
BY DEF Without, PathPart

(* Steps that leave the sleep override alone. *)
LEMMA SleepFrame ==
    ASSUME SleepPart, UNCHANGED <<platform, sleepActive, sleepHeld>>,
           "killed" \in unmatched => "killed" \in unmatched'
    PROVE  SleepPart'
BY DEF SleepPart

(* The sleep override is asked for or given back. *)
LEMMA RefreshKeeps ==
    ASSUME SleepPart, sleepActive \in BOOLEAN, platform \in {"windows", "unix"},
        NEW wanted \in BOOLEAN,
           Settings!Refresh(wanted), UNCHANGED platform, "killed" \in unmatched =>
               "killed" \in unmatched'
    PROVE  SleepPart' /\ sleepActive' \in BOOLEAN
<1> DEFINE desired == wanted /\ claimer # "down"
<1>1. desired \in BOOLEAN
  OBVIOUS
<1>2. \/ UNCHANGED <<sleepActive, sleepHeld>>
      \/ /\ sleepActive' = desired
         /\ \E who \in IF platform = "windows" THEN {1, 2} ELSE {1} :
                sleepHeld' = IF desired THEN sleepHeld \cup {who} ELSE sleepHeld \ {who}
  BY DEF Settings!Refresh, Settings!sleep
<1> HIDE DEF desired
<1>3. CASE UNCHANGED <<sleepActive, sleepHeld>>
  BY <1>3, SleepFrame
<1>4. CASE sleepActive' = desired /\ \E who \in IF platform = "windows" THEN {1, 2}
          ELSE {1} :
                sleepHeld' = IF desired THEN sleepHeld \cup {who} ELSE sleepHeld \ {who}
  BY <1>1, <1>4 DEF SleepPart
<1>5. QED BY <1>2, <1>3, <1>4

(* What the helper, the user and the system do without the file. *)
LEMMA HelperAlone ==
    ASSUME SettingsInv, Settings!SleepTick \/ Settings!ChildKilled
        \/ Settings!HelperServes \/ Settings!ClientSwapped \/ Settings!Connect
                   \/ Settings!ConnectStep \/ Settings!Disconnect
    PROVE  SettingsInv'
<1>1. /\ UNCHANGED <<platform, config, switches, copy, mail, save, call, ctl, saveTimer,
                     dialog, guiLevel, loginEntry, hotkey>>
      /\ helperAt' = "down" <=> helperAt = "down"
      /\ unmatched \subseteq unmatched'
  BY DEF Settings!SleepTick, Settings!ChildKilled, Settings!HelperServes,
         Settings!ClientSwapped, Settings!Connect, Settings!ConnectStep,
         Settings!Disconnect, Settings!Excuse, Settings!daemon, Settings!desktop,
         Settings!view
<1>2. Applied' /\ MailSays'
  BY <1>1, AppliedFrame DEF SettingsInv, MailSays
<1>3. SleepPart' /\ sleepActive' \in BOOLEAN
  <2>1. sleepActive \in BOOLEAN /\ platform \in {"windows", "unix"}
            /\ switches["sleep"] \in BOOLEAN
    BY DEF SettingsInv, SettingsTypes, Settings!Live
  <2>2. CASE Settings!SleepTick
    BY <1>1, <2>1, <2>2, RefreshKeeps DEF SettingsInv, Settings!SleepTick
  <2>3. CASE Settings!ChildKilled
    BY <2>1, <2>3 DEF SettingsInv, SleepPart, Settings!ChildKilled, Settings!Excuse
  <2>4. CASE UNCHANGED Settings!sleep
    BY <1>1, <2>1, <2>4, SleepFrame DEF SettingsInv, Settings!sleep
  <2>5. QED
    BY <2>2, <2>3, <2>4
       DEF Settings!HelperServes, Settings!ClientSwapped, Settings!Connect,
           Settings!ConnectStep, Settings!Disconnect
<1>4. CASE Settings!SleepTick \/ Settings!ChildKilled
  <2>1. UNCHANGED <<helperAt, attached, claimer, pathRules, pathOwner>>
    BY <1>4 DEF Settings!SleepTick, Settings!ChildKilled, Settings!daemon
  <2>2. SettingsTypes' /\ Shapes' /\ RulesOwned'
    BY <1>1, <1>3, <2>1 DEF SettingsInv, SettingsTypes, Shapes, RulesOwned
  <2>3. (Without({"crossed", "cut", "missed", "late"}) => PathPart)'
    BY <1>1, <2>1, PathFrame DEF SettingsInv
  <2>4. QED BY <1>2, <1>3, <2>2, <2>3 DEF SettingsInv
<1>5. CASE Settings!HelperServes \/ Settings!ClientSwapped
  <2>1. SettingsTypes' /\ Shapes' /\ RulesOwned'
    <3>1. /\ UNCHANGED <<claimer, pathRules, pathOwner>> /\ helperAt' = "up"
          /\ attached' = attached \/ attached' = TRUE
          /\ helperAt = "starting" \/ helperAt = "up"
      BY <1>5 DEF Settings!HelperServes, Settings!ClientSwapped, Settings!daemon
    <3>2. SettingsTypes'
      BY <1>1, <1>3, <3>1 DEF SettingsInv, SettingsTypes
    <3>3. Shapes'
      BY <1>1, <3>1 DEF SettingsInv, Shapes
    <3>4. QED BY <3>1, <3>2, <3>3 DEF SettingsInv, RulesOwned
  <2>2. (Without({"crossed", "cut", "missed", "late"}) => PathPart)'
    BY <1>1, <1>5 DEF SettingsInv, Without, PathPart, Settings!HelperServes,
                      Settings!ClientSwapped, Settings!daemon
  <2>3. QED BY <1>2, <1>3, <2>1, <2>2 DEF SettingsInv
<1>6. CASE Settings!Connect \/ Settings!ConnectStep \/ Settings!Disconnect
  <2>1. helperAt = "up"
    BY <1>6 DEF SettingsInv, Shapes, Settings!Connect, Settings!ConnectStep,
                Settings!Disconnect
  <2>2. SettingsTypes' /\ Shapes' /\ RulesOwned'
    <3>1. /\ claimer' \in {"down", "claiming", "enabling", "up"}
          /\ {pathRules', pathOwner'} \subseteq BOOLEAN /\ UNCHANGED <<helperAt,
                                                                       attached>>
      BY <1>6 DEF SettingsInv, SettingsTypes, Settings!Connect, Settings!ConnectStep,
                  Settings!Disconnect
    <3>2. SettingsTypes'
      BY <1>1, <1>3, <3>1 DEF SettingsInv, SettingsTypes
    <3>3. Shapes'
      BY <1>1, <2>1, <3>1 DEF SettingsInv, Shapes
    <3>4. RulesOwned'
      <4>1. RulesOwned /\ pathOwner \in BOOLEAN /\ pathRules \in BOOLEAN
        BY DEF SettingsInv, SettingsTypes
      <4>2. CASE Settings!Connect
        BY <2>1, <4>1, <4>2 DEF RulesOwned, Settings!Connect
      <4>3. CASE Settings!ConnectStep
        BY <2>1, <4>1, <4>3 DEF RulesOwned, Settings!ConnectStep
      <4>4. CASE Settings!Disconnect
        BY <2>1, <4>1, <4>4 DEF RulesOwned, Settings!Disconnect
      <4>5. QED BY <1>6, <4>2, <4>3, <4>4
    <3>5. QED BY <3>2, <3>3, <3>4
  <2>3. (Without({"crossed", "cut", "missed", "late"}) => PathPart)'
    BY <1>1, <1>6, <2>1
       DEF SettingsInv, Without, PathPart, RulesOwned, SettingsTypes, Settings!Connect,
           Settings!ConnectStep, Settings!Disconnect
  <2>4. QED BY <1>2, <1>3, <2>2, <2>3 DEF SettingsInv
<1>7. QED BY <1>4, <1>5, <1>6

(* A new helper restores its switches from the file. *)
LEMMA HelperStartsKeeps ==
    ASSUME SettingsInv, Settings!HelperStarts
    PROVE  SettingsInv'
<1>1. /\ helperAt = "down" /\ helperAt' = "starting" /\ pathRules' = FALSE
      /\ switches' = [f \in Settings!Live |-> config[f]]
      /\ UNCHANGED <<platform, config, attached, claimer, pathOwner, sleepActive,
                     sleepHeld, guiLevel, loginEntry, hotkey, dialog, copy, saveTimer,
                     call, mail, save, ctl>>
      /\ unmatched' = IF saveTimer \/ call # Nil
             \/ Settings!Pending THEN unmatched \cup {"missed"} ELSE unmatched
  BY DEF Settings!HelperStarts, Settings!Restored, Settings!Excuse, Settings!sleep,
         Settings!desktop, Settings!view
<1>2. SettingsTypes' /\ Shapes' /\ RulesOwned'
  BY <1>1 DEF SettingsInv, SettingsTypes, Shapes, RulesOwned, Settings!Settings,
              Settings!Live, Settings!Fields
<1>3. SleepPart'
  BY <1>1, SleepFrame DEF SettingsInv
<1>4. mail = <<>> /\ mail' = <<>> /\ claimer = "down"
  BY <1>1 DEF SettingsInv, Shapes
<1>5. MailSays'
  BY <1>4, MailEmpty DEF MailSays
<1>6. PathPart'
  BY <1>1, <1>4 DEF PathPart
<1>7. Applied'
  <2>1. SUFFICES ASSUME Without({"crossed"})' PROVE Applied'
    BY DEF Applied
  <2>2. Without({"crossed"}) /\ unmatched \subseteq unmatched'
    BY <1>1, <2>1 DEF Without
  <2>3. OneWriter' /\ MailPart' /\ CopyPart'
    BY <1>1, <2>2
       DEF SettingsInv, Applied, OneWriter, MailPart, CopyPart, Pend, Doomed, WillSay,
           CallDone, CtlFor
  <2>4. /\ Without({"cut"})' => EntryPart'
        /\ Without({"cut", "refused"})' => KeyPart'
        /\ Without({"cut", "missed", "guiLevel"})' => GuiLevelPart'
    BY <1>1, <2>2 DEF SettingsInv, Applied, Without, EntryPart, KeyPart, GuiLevelPart
  <2>5. ASSUME Without({"cut", "missed"})' PROVE Answered' /\ LivePart' /\ LiveCopy'
    <3>1. ~saveTimer /\ call = Nil /\ Pend = {} /\ unmatched' = unmatched
      BY <1>1, <2>5 DEF Without, Settings!Pending, Pend
    <3>2. Answered'
      BY <1>1, <3>1 DEF Answered, CallDone
    <3>3. LivePart'
      BY <1>1, <3>1 DEF LivePart, WillSay, Pend, Settings!Live
    <3>4. LiveCopy'
      <4>1. CopyPart /\ ~Doomed
        BY <2>2, <3>1 DEF SettingsInv, Applied, Doomed, Settings!Saves
      <4>2. QED BY <1>1, <3>1, <4>1 DEF LiveCopy, CopyPart, WillSay, CallDone, CtlFor
    <3>5. QED BY <3>2, <3>3, <3>4
  <2>6. QED BY <2>3, <2>4, <2>5 DEF Applied
<1>8. QED BY <1>2, <1>3, <1>5, <1>6, <1>7 DEF SettingsInv

(* The helper dies, and its switches with it. *)
LEMMA HelperDiesKeeps ==
    ASSUME SettingsInv, Settings!HelperDies
    PROVE  SettingsInv'
<1>1. /\ helperAt' = "down" /\ attached' = FALSE
             /\ switches' = [f \in Settings!Live |-> FALSE]
      /\ claimer' = "down" /\ pathOwner' = FALSE /\ sleepActive' = FALSE
             /\ sleepHeld' = {} /\ mail' = <<>>
      /\ call' = IF call # Nil
             /\ call.at = "sent" THEN [call EXCEPT !.at = "failed"] ELSE call
      /\ ctl' = IF ctl # Nil /\ ctl.at = "call" THEN Nil ELSE ctl
      /\ unmatched' = IF mail # <<>> \/ ctl # Nil THEN unmatched \cup {"unseen"}
             ELSE unmatched
      /\ UNCHANGED <<platform, config, pathRules, guiLevel, loginEntry, hotkey, dialog,
                     copy, saveTimer, save>>
  BY DEF Settings!HelperDies, Settings!Excuse, Settings!desktop
<1>2. /\ call' \in Call \cup {Nil} /\ ctl' \in CtlCall \cup {Nil}
      /\ call' # Nil <=> call # Nil
      /\ call' # Nil => call'.field = call.field /\ call'.value = call.value
             /\ call'.at # "sent"
      /\ ctl' # Nil => ctl' = ctl /\ ctl.at = "dial"
      /\ \A f \in Settings!Live : CallDone(f)' <=> CallDone(f)
  <2>1. CASE call # Nil /\ call.at = "sent"
    <3>1. /\ call' \in Call /\ call'.at = "failed" /\ call'.field = call.field
          /\ call'.value = call.value
      BY <1>1, <2>1 DEF SettingsInv, SettingsTypes, Call
    <3>2. call' # Nil
      BY <3>1, ValuesAssumption DEF Call, Settings!Live
    <3>3. QED BY <1>1, <2>1, <3>1, <3>2 DEF SettingsInv, SettingsTypes, CtlCall, CallDone
  <2>2. CASE ~(call # Nil /\ call.at = "sent")
    BY <1>1, <2>2 DEF SettingsInv, SettingsTypes, CtlCall, CallDone
  <2>3. QED BY <2>1, <2>2
<1>3. SettingsTypes'
  <2>1. switches' \in [Settings!Live -> BOOLEAN] /\ mail' \in Seq(Message)
    BY <1>1
  <2>2. QED BY <1>1, <1>2, <2>1 DEF SettingsInv, SettingsTypes
<1>4. Shapes'
  BY <1>1, <1>2 DEF SettingsInv, Shapes
<1>5. SleepPart' /\ RulesOwned' /\ PathPart'
  BY <1>1 DEF SleepPart, RulesOwned, PathPart
<1>6. MailSays'
  BY <1>1, MailEmpty DEF MailSays
<1>7. Applied'
  <2>1. SUFFICES ASSUME Without({"crossed"})' PROVE Applied'
    BY DEF Applied
  <2>2. Without({"crossed"}) /\ unmatched \subseteq unmatched'
    BY <1>1, <2>1 DEF Without
  <2>3. OneWriter'
    BY <1>1, <1>2, <2>2 DEF SettingsInv, Applied, OneWriter, Pend
  <2>4. MailPart'
    <3>1. SUFFICES ASSUME ~Doomed', NEW f \in Settings!Live
                   PROVE  \E v \in BOOLEAN : Tells(mail', f, v) /\ WillSay(f, v)'
      BY DEF MailPart
    <3>2. PICK v \in BOOLEAN : WillSay(f, v)
      <4>1. Pend = {} \/ \E s \in Settings!Saves : Pend = {s}
        BY <1>1, <3>1 DEF Doomed, Pend, Settings!Saves
      <4>2. f \in Settings!Fields /\ config[f] \in BOOLEAN
        BY DEF SettingsInv, SettingsTypes, Settings!Settings, Settings!Fields
      <4>3. \A s \in Pend : save[s].payload[f] \in BOOLEAN
        BY <4>2 DEF SettingsInv, Shapes, Pend, Settings!Settings
      <4>4. QED BY <4>1, <4>2, <4>3 DEF WillSay
    <3>3. QED BY <1>1, <3>2, MailEmpty DEF WillSay, Pend
  <2>5. CopyPart'
    <3>1. SUFFICES ASSUME ~Doomed', ~saveTimer', dialog',
              "unseen" \notin unmatched' PROVE CopyPart'
      BY DEF CopyPart
    <3>2. mail = <<>> /\ ctl = Nil /\ "unseen" \notin unmatched
      BY <1>1, <3>1
    <3>3. QED
      BY <1>1, <1>2, <2>2, <3>1, <3>2
         DEF SettingsInv, Applied, CopyPart, Doomed, Pend, WillSay, CtlFor
  <2>6. /\ Without({"cut"})' => EntryPart'
        /\ Without({"cut", "refused"})' => KeyPart'
        /\ Without({"cut", "missed", "guiLevel"})' => GuiLevelPart'
    BY <1>1, <1>2, <2>2
       DEF SettingsInv, Applied, Without, EntryPart, KeyPart, GuiLevelPart
  <2>7. QED BY <1>1, <2>3, <2>4, <2>5, <2>6 DEF Applied
<1>8. QED BY <1>3, <1>4, <1>5, <1>6, <1>7 DEF SettingsInv

(* Unless writers are about to cross, the file will say something. *)
LEMMA WillBe ==
    ASSUME SettingsInv, ~Doomed, NEW f \in Settings!Fields
    PROVE  \E v \in BOOLEAN : WillSay(f, v)
<1>1. Pend = {} \/ \E s \in Settings!Saves : Pend = {s}
  BY DEF Doomed, Pend, Settings!Saves
<1>2. config[f] \in BOOLEAN
  BY DEF SettingsInv, SettingsTypes, Settings!Settings
<1>3. \A s \in Pend : save[s].payload[f] \in BOOLEAN
  BY DEF SettingsInv, Shapes, Pend, Settings!Settings
<1>4. QED BY <1>1, <1>2, <1>3 DEF WillSay

(* Nothing of this is about the helper's rules or the sleep override. *)
LEMMA DialogFrame ==
    ASSUME SettingsInv,
           UNCHANGED <<platform, config, helperAt, attached, switches, claimer, pathRules,
                       pathOwner, sleepActive, sleepHeld, loginEntry, hotkey>>,
           unmatched \ {"unseen"} \subseteq unmatched',
           \A s \in Settings!Saves : save[s].at \in {"start", "level", "path"} =>
              save'[s].at \in {"start", "level", "path"} /\ save'[s].prev = save[s].prev
    PROVE  /\ SleepPart' /\ RulesOwned'
           /\ (Without({"crossed", "cut", "missed", "late"}) => PathPart)'
BY DEF SettingsInv, SleepPart, RulesOwned, PathPart, Without

(* The dialog reads the file. *)
LEMMA OpenDialogKeeps ==
    ASSUME SettingsInv, Settings!OpenDialog
    PROVE  SettingsInv'
<1>1. /\ ~saveTimer /\ call = Nil /\ dialog' = TRUE /\ copy' = config
      /\ unmatched' = (unmatched \ {"unseen"})
                       \cup (IF Settings!Pending THEN {"unseen"} ELSE {})
      /\ UNCHANGED <<platform, config, helperAt, attached, switches, claimer, pathRules,
                     pathOwner, sleepActive, sleepHeld, guiLevel, loginEntry, hotkey,
                     saveTimer, call, mail, save, ctl>>
  BY DEF Settings!OpenDialog, Settings!daemon, Settings!sleep, Settings!desktop
<1>2. /\ SleepPart' /\ RulesOwned'
      /\ (Without({"crossed", "cut", "missed", "late"}) => PathPart)'
  BY <1>1, DialogFrame
<1>3. SettingsTypes' /\ Shapes' /\ MailSays'
  BY <1>1 DEF SettingsInv, SettingsTypes, Shapes, MailSays
<1>4. Applied'
  <2>1. SUFFICES ASSUME Without({"crossed"})' PROVE Applied'
    BY DEF Applied
  <2>2. Without({"crossed"}) /\ unmatched \ {"unseen"} \subseteq unmatched'
    BY <1>1, <2>1 DEF Without
  <2>3. OneWriter' /\ MailPart'
    BY <1>1, <2>2
       DEF SettingsInv, Applied, OneWriter, MailPart, Pend, Doomed, WillSay, CallDone,
           CtlFor
  <2>4. "unseen" \notin unmatched' => Pend = {}
    BY <1>1 DEF Settings!Pending, Pend
  <2>5. CopyPart'
    BY <1>1, <2>4 DEF CopyPart, WillSay, Pend
  <2>6. /\ Without({"cut"})' => EntryPart'
        /\ Without({"cut", "refused"})' => KeyPart'
        /\ Without({"cut", "missed", "guiLevel"})' => GuiLevelPart'
    BY <1>1, <2>2 DEF SettingsInv, Applied, Without, EntryPart, KeyPart, GuiLevelPart
  <2>7. ASSUME Without({"cut", "missed"})', helperAt' # "down"
        PROVE  Answered' /\ LivePart' /\ LiveCopy'
    <3>1. Answered /\ LivePart
      BY <1>1, <2>2, <2>7 DEF SettingsInv, Applied, Without
    <3>2. Answered' /\ LivePart'
      BY <1>1, <3>1 DEF Answered, LivePart, Pend, Doomed, WillSay, CallDone, CtlFor
    <3>3. LiveCopy'
      <4>1. SUFFICES ASSUME "unseen" \notin unmatched', NEW f \in Settings!Live
                     PROVE  copy'[f] = switches'[f] \/ CtlFor(f)'
        BY DEF LiveCopy
      <4>2. Pend = {} /\ ~Doomed
        BY <2>4, <4>1 DEF Doomed, Settings!Saves
      <4>3. QED BY <1>1, <3>1, <4>2 DEF LivePart, WillSay, CallDone, CtlFor
    <3>4. QED BY <3>2, <3>3
  <2>8. QED BY <2>3, <2>5, <2>6, <2>7 DEF Applied
<1>5. QED BY <1>2, <1>3, <1>4 DEF SettingsInv

(* The dialog closes. *)
LEMMA CloseDialogKeeps ==
    ASSUME SettingsInv, Settings!CloseDialog
    PROVE  SettingsInv'
<1>1. /\ call = Nil /\ ~saveTimer /\ dialog' = FALSE
      /\ UNCHANGED <<platform, config, helperAt, attached, switches, claimer, pathRules,
                     pathOwner, sleepActive, sleepHeld, guiLevel, loginEntry, hotkey,
                     copy, saveTimer, call, mail, save, ctl, unmatched>>
  BY DEF Settings!CloseDialog, Settings!daemon, Settings!sleep, Settings!desktop
<1>2. /\ SleepPart' /\ RulesOwned'
      /\ (Without({"crossed", "cut", "missed", "late"}) => PathPart)'
  BY <1>1, DialogFrame
<1>3. SettingsTypes' /\ Shapes' /\ MailSays'
  BY <1>1 DEF SettingsInv, SettingsTypes, Shapes, MailSays
<1>4. CopyPart' /\ LiveCopy'
  BY <1>1 DEF CopyPart, LiveCopy
<1>5. Applied'
  BY <1>1, <1>4
     DEF SettingsInv, Applied, Without, OneWriter, MailPart, EntryPart, KeyPart,
         GuiLevelPart, Answered, LivePart, Pend, Doomed, WillSay, CallDone, CtlFor
<1>6. QED BY <1>2, <1>3, <1>5 DEF SettingsInv

(* The dialog asks the helper. *)
LEMMA ToggleLiveKeeps ==
    ASSUME SettingsInv, NEW f \in Settings!Live, Settings!ToggleLive(f)
    PROVE  SettingsInv'
<1>1. /\ dialog /\ call = Nil
      /\ call' = [field |-> f, value |-> ~copy[f], at |-> IF attached THEN "sent"
             ELSE "failed"]
      /\ guiLevel' = IF f = "level" THEN ~copy[f] ELSE guiLevel
      /\ unmatched' = IF ctl # Nil THEN unmatched \cup {"crossed"} ELSE unmatched
      /\ UNCHANGED <<platform, config, helperAt, attached, switches, claimer, pathRules,
                     pathOwner, sleepActive, sleepHeld, loginEntry, hotkey, dialog, copy,
                     saveTimer, mail, save, ctl>>
  BY DEF Settings!ToggleLive, Settings!Excuse, Settings!daemon, Settings!sleep
<1>2. copy[f] \in BOOLEAN
  BY DEF SettingsInv, SettingsTypes, Settings!Settings, Settings!Fields
<1>3. /\ call' \in Call /\ call'.field = f
      /\ (call'.at = "sent" /\ attached) \/ call'.at = "failed"
  BY <1>1, <1>2 DEF Call
<1>4. call' # Nil /\ guiLevel' \in BOOLEAN
  BY <1>1, <1>2, <1>3, ValuesAssumption
     DEF Call, Settings!Live, SettingsInv, SettingsTypes
<1>5. /\ SleepPart' /\ RulesOwned'
      /\ (Without({"crossed", "cut", "missed", "late"}) => PathPart)'
  BY <1>1, DialogFrame
<1>6. SettingsTypes' /\ Shapes' /\ MailSays'
  <2>1. SettingsTypes'
    BY <1>1, <1>3, <1>4 DEF SettingsInv, SettingsTypes
  <2>2. Shapes'
    BY <1>1, <1>3 DEF SettingsInv, Shapes
  <2>3. QED BY <1>1, <2>1, <2>2 DEF SettingsInv, MailSays
<1>7. \A g \in Settings!Live : ~CallDone(g) /\ ~CallDone(g)'
  BY <1>1, <1>3 DEF CallDone
<1>8. Applied'
  <2>1. SUFFICES ASSUME Without({"crossed"})' PROVE Applied'
    BY DEF Applied
  <2>2. Without({"crossed"}) /\ unmatched' = unmatched /\ ctl = Nil
    BY <1>1, <2>1 DEF Without
  <2>3. OneWriter'
    BY <1>1, <2>2 DEF SettingsInv, Applied, OneWriter, Pend
  <2>4. MailPart' /\ CopyPart'
    BY <1>1, <1>7, <2>2
       DEF SettingsInv, Applied, MailPart, CopyPart, Pend, Doomed, WillSay, CtlFor
  <2>5. /\ Without({"cut"})' => EntryPart'
        /\ Without({"cut", "refused"})' => KeyPart'
    BY <1>1, <2>2 DEF SettingsInv, Applied, Without, EntryPart, KeyPart
  <2>6. Without({"cut", "missed", "guiLevel"})' => GuiLevelPart'
    BY <1>1, <1>3, <1>4, <2>2 DEF SettingsInv, Applied, Without, GuiLevelPart
  <2>7. Without({"cut", "missed"})' /\ helperAt' # "down" =>
            Answered' /\ LivePart' /\ LiveCopy'
    BY <1>1, <1>7, <2>2
       DEF SettingsInv, Applied, Without, Answered, LivePart, LiveCopy, Pend, Doomed,
           WillSay, CtlFor
  <2>8. QED BY <2>3, <2>4, <2>5, <2>6, <2>7 DEF Applied
<1>9. QED BY <1>5, <1>6, <1>8 DEF SettingsInv

(* The helper has answered, or could not be asked. *)
LEMMA ToggleAnsweredKeeps ==
    ASSUME SettingsInv, Settings!ToggleAnswered
    PROVE  SettingsInv'
<1>1. /\ call # Nil /\ call.at \in {"done", "failed"} /\ call' = Nil
      /\ UNCHANGED <<platform, config, helperAt, attached, switches, claimer, pathRules,
                     pathOwner, sleepActive, sleepHeld, guiLevel, loginEntry, hotkey,
                     dialog, mail, save, ctl>>
  BY DEF Settings!ToggleAnswered, Settings!daemon, Settings!sleep, Settings!desktop
<1>2. CASE call.at = "done"
  <2>1. /\ copy' = [copy EXCEPT ![call.field] = call.value] /\ saveTimer' = TRUE
        /\ unmatched' = unmatched
    BY <1>2 DEF Settings!ToggleAnswered, Settings!Accepted
  <2>2. PICK f \in Settings!Live, v \in BOOLEAN : call.field = f /\ call.value = v
    BY <1>1 DEF SettingsInv, SettingsTypes, Call
  <2>3. copy' \in Settings!Settings /\ \A g \in Settings!Live :
            copy'[g] = IF g = f THEN v ELSE copy[g]
    BY <2>1, <2>2 DEF SettingsInv, SettingsTypes, Settings!Settings, Settings!Fields
  <2>4. /\ SleepPart' /\ RulesOwned'
        /\ (Without({"crossed", "cut", "missed", "late"}) => PathPart)'
    BY <1>1, <2>1, DialogFrame
  <2>5. SettingsTypes' /\ Shapes' /\ MailSays'
    BY <1>1, <2>1, <2>3 DEF SettingsInv, SettingsTypes, Shapes, MailSays
  <2>6. Applied'
    <3>1. SUFFICES ASSUME Without({"crossed"})' PROVE Applied'
      BY DEF Applied
    <3>2. Without({"crossed"})
      BY <2>1, <3>1 DEF Without
    <3>3. OneWriter' /\ MailPart' /\ CopyPart' /\ GuiLevelPart'
      BY <1>1, <2>1, <3>2
         DEF SettingsInv, Applied, OneWriter, MailPart, CopyPart, GuiLevelPart, Pend
    <3>4. /\ Without({"cut"})' => EntryPart'
          /\ Without({"cut", "refused"})' => KeyPart'
      BY <1>1, <2>1, <3>2 DEF SettingsInv, Applied, Without, EntryPart, KeyPart
    <3>5. ASSUME Without({"cut", "missed"})', helperAt' # "down"
          PROVE  Answered' /\ LivePart' /\ LiveCopy'
      <4>1. Answered /\ LiveCopy
        BY <1>1, <2>1, <3>2, <3>5 DEF SettingsInv, Applied, Without
      <4>2. switches[f] = v
        BY <1>1, <1>2, <2>2, <4>1 DEF Answered, CallDone
      <4>3. \A g \in Settings!Live : ~CallDone(g)' /\ (CallDone(g) => g = f)
        BY <1>1, <2>2 DEF CallDone
      <4>4. LiveCopy'
        BY <1>1, <2>1, <2>3, <4>1, <4>2, <4>3 DEF LiveCopy, CtlFor
      <4>5. QED BY <2>1, <4>3, <4>4 DEF Answered, LivePart
    <3>6. QED BY <3>3, <3>4, <3>5 DEF Applied
  <2>7. QED BY <2>4, <2>5, <2>6 DEF SettingsInv
<1>3. CASE call.at = "failed"
  <2>1. /\ UNCHANGED <<copy, saveTimer>>
        /\ unmatched' = IF call.field = "level" THEN unmatched \cup {"guiLevel"}
               ELSE unmatched
    BY <1>3 DEF Settings!ToggleAnswered, Settings!Accepted, Settings!Excuse
  <2>2. \A g \in Settings!Live : ~CallDone(g)' /\ ~CallDone(g)
    BY <1>1, <1>3 DEF CallDone
  <2>3. /\ SleepPart' /\ RulesOwned'
        /\ (Without({"crossed", "cut", "missed", "late"}) => PathPart)'
    BY <1>1, <2>1, DialogFrame
  <2>4. SettingsTypes' /\ Shapes' /\ MailSays'
    BY <1>1, <2>1 DEF SettingsInv, SettingsTypes, Shapes, MailSays
  <2>5. Applied'
    <3>1. SUFFICES ASSUME Without({"crossed"})' PROVE Applied'
      BY DEF Applied
    <3>2. Without({"crossed"}) /\ unmatched \subseteq unmatched'
      BY <2>1, <3>1 DEF Without
    <3>3. OneWriter' /\ MailPart' /\ CopyPart'
      BY <1>1, <2>1, <2>2, <3>2
         DEF SettingsInv, Applied, OneWriter, MailPart, CopyPart, Pend, Doomed, WillSay,
             CtlFor
    <3>4. /\ Without({"cut"})' => EntryPart'
          /\ Without({"cut", "refused"})' => KeyPart'
          /\ Without({"cut", "missed", "guiLevel"})' => GuiLevelPart'
      BY <1>1, <2>1, <3>2
         DEF SettingsInv, Applied, Without, EntryPart, KeyPart, GuiLevelPart
    <3>5. Without({"cut", "missed"})' /\ helperAt' # "down" =>
              Answered' /\ LivePart' /\ LiveCopy'
      BY <1>1, <2>1, <2>2, <3>2
         DEF SettingsInv, Applied, Without, Answered, LivePart, LiveCopy, Pend, Doomed,
             WillSay, CtlFor
    <3>6. QED BY <3>3, <3>4, <3>5 DEF Applied
  <2>6. QED BY <2>3, <2>4, <2>5 DEF SettingsInv
<1>4. QED BY <1>1, <1>2, <1>3

(* The dialog changes a field that no helper is asked for. *)
LEMMA ToggleSavedKeeps ==
    ASSUME SettingsInv, NEW f \in Settings!Fields \ Settings!Live, Settings!ToggleSaved(f)
    PROVE  SettingsInv'
<1>1. /\ dialog /\ copy' = [copy EXCEPT ![f] = ~copy[f]] /\ saveTimer' = TRUE
      /\ UNCHANGED <<platform, config, helperAt, attached, switches, claimer, pathRules,
                     pathOwner, sleepActive, sleepHeld, guiLevel, loginEntry, hotkey,
                     dialog, call, mail, save, ctl, unmatched>>
  BY DEF Settings!ToggleSaved, Settings!daemon, Settings!sleep, Settings!desktop
<1>2. copy' \in Settings!Settings /\ \A g \in Settings!Live : copy'[g] = copy[g]
  BY <1>1 DEF SettingsInv, SettingsTypes, Settings!Settings, Settings!Live,
              Settings!Fields
<1>3. /\ SleepPart' /\ RulesOwned'
      /\ (Without({"crossed", "cut", "missed", "late"}) => PathPart)'
  BY <1>1, DialogFrame
<1>4. SettingsTypes' /\ Shapes' /\ MailSays'
  BY <1>1, <1>2 DEF SettingsInv, SettingsTypes, Shapes, MailSays
<1>5. MailPart' /\ CopyPart' /\ GuiLevelPart' /\ LivePart'
  BY <1>1 DEF MailPart, CopyPart, GuiLevelPart, LivePart
<1>6. Applied'
  BY <1>1, <1>2, <1>5
     DEF SettingsInv, Applied, Without, OneWriter, EntryPart, KeyPart, Answered,
         LiveCopy, Pend, CallDone, CtlFor
<1>7. QED BY <1>3, <1>4, <1>6 DEF SettingsInv

(* An event of the helper's arrives. *)
LEMMA MailArrivesKeeps ==
    ASSUME SettingsInv, Settings!MailArrives
    PROVE  SettingsInv'
<1>1. /\ mail # <<>> /\ mail' = Tail(mail)
      /\ copy' = IF dialog THEN [copy EXCEPT ![Head(mail)[1]] = Head(mail)[2]] ELSE copy
      /\ UNCHANGED <<platform, config, helperAt, attached, switches, claimer, pathRules,
                     pathOwner, sleepActive, sleepHeld, guiLevel, loginEntry, hotkey,
                     dialog, saveTimer, call, save, ctl, unmatched>>
  BY DEF Settings!MailArrives, Settings!daemon, Settings!sleep, Settings!desktop
<1>2. mail \in Seq(Message)
  BY DEF SettingsInv, SettingsTypes
<1>3. PICK g \in Settings!Live, w \in BOOLEAN : Head(mail)[1] = g /\ Head(mail)[2] = w
  BY <1>1, <1>2, MailTail DEF Message
<1>4. /\ mail' \in Seq(Message)
      /\ \A f : Unmentioned(mail', f) /\ g # f => Unmentioned(mail, f)
      /\ \A f, v : Tells(mail, f, v) => Tells(mail', f, v)
      /\ \A f, v : Tells(mail, f, v) /\ g = f /\ Unmentioned(mail', f) => w = v
  BY <1>1, <1>2, <1>3, MailTail
<1>5. /\ copy' \in Settings!Settings
      /\ dialog => \A f \in Settings!Fields : copy'[f] = IF f = g THEN w ELSE copy[f]
  BY <1>1, <1>3 DEF SettingsInv, SettingsTypes, Settings!Settings, Settings!Fields
<1>6. /\ SleepPart' /\ RulesOwned'
      /\ (Without({"crossed", "cut", "missed", "late"}) => PathPart)'
  BY <1>1, DialogFrame
<1>7. SettingsTypes' /\ Shapes' /\ MailSays'
  BY <1>1, <1>4, <1>5 DEF SettingsInv, SettingsTypes, Shapes, MailSays
<1>8. Applied'
  <2>1. SUFFICES ASSUME Without({"crossed"})' PROVE Applied'
    BY DEF Applied
  <2>2. OneWriter /\ MailPart /\ CopyPart
    BY <1>1, <2>1 DEF SettingsInv, Applied, Without
  <2>3. OneWriter'
    BY <1>1, <2>2 DEF OneWriter, Pend
  <2>4. MailPart'
    BY <1>1, <1>4, <2>2 DEF MailPart, Pend, Doomed, WillSay, CallDone, CtlFor
  <2>5. CopyPart'
    <3>1. SUFFICES ASSUME ~Doomed, ~saveTimer, dialog, "unseen" \notin unmatched
              PROVE CopyPart'
      BY <1>1 DEF CopyPart, Doomed, Pend
    <3>2. \A f, v : WillSay(f, v)' <=> WillSay(f, v)
      BY <1>1 DEF WillSay, Pend
    <3>3. \A f \in Settings!Fields \ Settings!Live : WillSay(f, copy'[f])
      BY <1>5, <2>2, <3>1 DEF CopyPart
    <3>4. ASSUME NEW f \in Settings!Live, Unmentioned(mail', f), ~CallDone(f), ~CtlFor(f)
          PROVE  WillSay(f, copy'[f])
      <4>1. CASE f = g
        <5>1. PICK v \in BOOLEAN : Tells(mail, f, v) /\ WillSay(f, v)
          BY <2>2, <3>1, <3>4 DEF MailPart
        <5>2. copy'[f] = v
          BY <1>4, <1>5, <3>1, <3>4, <4>1, <5>1 DEF Settings!Fields
        <5>3. QED BY <5>1, <5>2
      <4>2. CASE f # g
        <5>1. Unmentioned(mail, f) /\ copy'[f] = copy[f]
          BY <1>4, <1>5, <3>1, <3>4, <4>2 DEF Settings!Fields
        <5>2. QED BY <2>2, <3>1, <3>4, <5>1 DEF CopyPart
      <4>3. QED BY <4>1, <4>2
    <3>5. QED BY <1>1, <3>2, <3>3, <3>4 DEF CopyPart, CallDone, CtlFor
  <2>6. /\ Without({"cut"})' => EntryPart'
        /\ Without({"cut", "refused"})' => KeyPart'
        /\ Without({"cut", "missed", "guiLevel"})' => GuiLevelPart'
    BY <1>1, <2>1 DEF SettingsInv, Applied, Without, EntryPart, KeyPart, GuiLevelPart
  <2>7. ASSUME Without({"cut", "missed"})', helperAt' # "down"
        PROVE  Answered' /\ LivePart' /\ LiveCopy'
    <3>1. Answered /\ LivePart /\ LiveCopy
      BY <1>1, <2>1, <2>7 DEF SettingsInv, Applied, Without
    <3>2. Answered' /\ LivePart'
      BY <1>1, <3>1 DEF Answered, LivePart, Pend, Doomed, WillSay, CallDone, CtlFor
    <3>3. LiveCopy'
      <4>1. SUFFICES ASSUME dialog, "unseen" \notin unmatched, NEW f \in Settings!Live,
                            Unmentioned(mail', f), ~CallDone(f), ~CtlFor(f)
                     PROVE  copy'[f] = switches[f]
        BY <1>1 DEF LiveCopy, CallDone, CtlFor
      <4>2. CASE f = g
        BY <1>4, <1>5, <4>1, <4>2 DEF SettingsInv, MailSays, Settings!Fields
      <4>3. CASE f # g
        BY <1>4, <1>5, <3>1, <4>1, <4>3 DEF LiveCopy, Settings!Fields
      <4>4. QED BY <4>2, <4>3
    <3>4. QED BY <3>2, <3>3
  <2>8. QED BY <2>3, <2>4, <2>5, <2>6, <2>7 DEF Applied
<1>9. QED BY <1>6, <1>7, <1>8 DEF SettingsInv

(* A switch is set in the helper, and said to the GUI. *)
LEMMA ApplyDoes ==
    ASSUME SettingsInv, NEW f \in Settings!Live, NEW v \in BOOLEAN, Settings!Apply(f, v),
           UNCHANGED platform, unmatched \subseteq unmatched'
    PROVE  /\ switches' \in [Settings!Live -> BOOLEAN] /\ switches'[f] = v
           /\ \A g \in Settings!Live \ {f} : switches'[g] = switches[g]
           /\ mail' \in Seq(Message) /\ (~attached => mail' = <<>>)
           /\ \A g \in Settings!Live \ {f} : Unmentioned(mail', g) <=>
                  Unmentioned(mail, g)
           /\ \A g \in Settings!Live \ {f}, w \in BOOLEAN : Tells(mail', g, w) <=>
                  Tells(mail, g, w)
           /\ MailSays'
           /\ Unmentioned(mail', f) => ~attached \/ Settings!Silent(f, v)
           /\ SleepPart' /\ sleepActive' \in BOOLEAN
<1>1. switches' \in [Settings!Live -> BOOLEAN] /\ switches'[f] = v
          /\ \A g \in Settings!Live \ {f} : switches'[g] = switches[g]
  BY DEF SettingsInv, SettingsTypes, Settings!Apply
<1>2. mail \in Seq(Message) /\ MailSays /\ switches \in [Settings!Live -> BOOLEAN]
  BY DEF SettingsInv, SettingsTypes
<1>3. SleepPart' /\ sleepActive' \in BOOLEAN
  <2>1. SleepPart /\ sleepActive \in BOOLEAN /\ platform \in {"windows", "unix"}
    BY DEF SettingsInv, SettingsTypes
  <2>2. CASE f = "sleep"
    BY <2>1, <2>2, RefreshKeeps DEF Settings!Apply
  <2>3. CASE f # "sleep"
    BY <2>1, <2>3, SleepFrame DEF Settings!Apply, Settings!sleep
  <2>4. QED BY <2>2, <2>3
<1>4. CASE Settings!Silent(f, v)
  <2>1. mail' = mail /\ switches[f] = v
    BY <1>4 DEF Settings!Apply, Settings!Silent
  <2>2. MailSays'
    BY <1>1, <1>2, <2>1 DEF MailSays
  <2>3. QED BY <1>1, <1>2, <1>3, <1>4, <2>1, <2>2 DEF SettingsInv, Shapes
<1>5. CASE ~Settings!Silent(f, v) /\ attached
  <2>1. mail' = Append(mail, <<f, v>>)
    BY <1>5 DEF Settings!Apply, Settings!Broadcast
  <2>2. /\ mail' \in Seq(Message)
        /\ \A g : Unmentioned(mail', g) <=> f # g /\ Unmentioned(mail, g)
        /\ \A g, w : Tells(mail', g, w) <=> IF f = g THEN v = w ELSE Tells(mail, g, w)
    BY <1>2, <2>1, MailAppend
  <2>3. MailSays'
    BY <1>1, <1>2, <2>2 DEF MailSays
  <2>4. QED BY <1>1, <1>3, <1>5, <2>2, <2>3
<1>6. CASE ~Settings!Silent(f, v) /\ ~attached
  <2>1. mail' = mail /\ mail = <<>>
    BY <1>6 DEF SettingsInv, Shapes, Settings!Apply, Settings!Broadcast
  <2>2. MailSays'
    BY <2>1, MailEmpty DEF MailSays
  <2>3. QED BY <1>1, <1>2, <1>3, <1>6, <2>1, <2>2
<1>7. QED BY <1>4, <1>5, <1>6

(* The helper takes the change. *)
LEMMA HandleToggleKeeps ==
    ASSUME SettingsInv, Settings!HandleToggle
    PROVE  SettingsInv'
<1>1. /\ call # Nil /\ call.at = "sent" /\ helperAt = "up" /\ attached
      /\ call' = [call EXCEPT !.at = "done"] /\ unmatched \subseteq unmatched'
      /\ UNCHANGED <<platform, config, helperAt, attached, claimer, pathRules, pathOwner,
                     guiLevel, loginEntry, hotkey, dialog, copy, saveTimer, save, ctl>>
  BY DEF Settings!HandleToggle, Settings!Reachable, Settings!Excuse, Settings!desktop
<1>2. PICK f \in Settings!Live, v \in BOOLEAN : call.field = f /\ call.value = v
  BY <1>1 DEF SettingsInv, SettingsTypes, Call
<1>3. Settings!Apply(f, v)
  BY <1>2 DEF Settings!HandleToggle
<1>4. /\ switches' \in [Settings!Live -> BOOLEAN] /\ switches'[f] = v
      /\ \A g \in Settings!Live \ {f} : switches'[g] = switches[g]
      /\ mail' \in Seq(Message)
      /\ \A g \in Settings!Live \ {f} : Unmentioned(mail', g) <=> Unmentioned(mail, g)
      /\ \A g \in Settings!Live \ {f}, w \in BOOLEAN : Tells(mail', g, w) <=>
             Tells(mail, g, w)
      /\ MailSays' /\ SleepPart' /\ sleepActive' \in BOOLEAN
  BY <1>1, <1>2, <1>3, ApplyDoes
<1>5. call' \in Call /\ call'.at = "done" /\ call'.field = f /\ call'.value = v
  BY <1>1, <1>2 DEF SettingsInv, SettingsTypes, Call
<1>6. call' # Nil
  BY <1>5, ValuesAssumption DEF Call, Settings!Live
<1>7. sleepHeld' \in SUBSET {1, 2}
  BY <1>4 DEF SleepPart
<1>8. SettingsTypes' /\ Shapes' /\ RulesOwned'
  <2>1. SettingsTypes'
    BY <1>1, <1>4, <1>5 DEF SettingsInv, SettingsTypes
  <2>2. Shapes'
    BY <1>1, <1>5 DEF SettingsInv, Shapes
  <2>3. QED BY <1>1, <2>1, <2>2 DEF SettingsInv, RulesOwned
<1>9. (Without({"crossed", "cut", "missed", "late"}) => PathPart)'
  BY <1>1, PathFrame DEF SettingsInv
<1>10. CallDone(f)' /\ \A g \in Settings!Live : ~CallDone(g) /\ (g # f => ~CallDone(g)')
  BY <1>1, <1>5, <1>6 DEF CallDone
<1>11. Applied'
  <2>1. SUFFICES ASSUME Without({"crossed"})' PROVE Applied'
    BY DEF Applied
  <2>2. Without({"crossed"})
    BY <1>1, <2>1 DEF Without
  <2>3. OneWriter /\ MailPart /\ CopyPart
    BY <2>2 DEF SettingsInv, Applied
  <2>4. ctl = Nil
    BY <1>1, <2>3 DEF OneWriter
  <2>5. OneWriter'
    BY <1>1, <2>3, <2>4 DEF OneWriter, Pend
  <2>6. /\ Pend' = Pend /\ Doomed' = Doomed
        /\ \A g, w : WillSay(g, w)' <=> WillSay(g, w)
        /\ \A g : CtlFor(g)' <=> CtlFor(g)
    BY <1>1 DEF Pend, Doomed, WillSay, CtlFor
  <2>7. MailPart'
    BY <1>1, <1>4, <1>10, <2>3, <2>6 DEF MailPart
  <2>8. CopyPart'
    BY <1>1, <1>4, <1>10, <2>3, <2>6 DEF CopyPart
  <2>9. /\ Without({"cut"})' => EntryPart'
        /\ Without({"cut", "refused"})' => KeyPart'
    BY <1>1, <2>2 DEF SettingsInv, Applied, Without, EntryPart, KeyPart
  <2>10. Without({"cut", "missed", "guiLevel"})' => GuiLevelPart'
    BY <1>1, <1>2, <1>5, <1>6, <2>2 DEF SettingsInv, Applied, Without, GuiLevelPart
  <2>11. ASSUME Without({"cut", "missed"})', helperAt' # "down"
         PROVE  Answered' /\ LivePart' /\ LiveCopy'
    <3>1. LivePart /\ LiveCopy
      BY <1>1, <2>2, <2>11 DEF SettingsInv, Applied, Without
    <3>2. Answered'
      BY <1>4, <1>5, <1>10 DEF Answered
    <3>3. LivePart'
      BY <1>1, <1>4, <1>10, <2>6, <3>1 DEF LivePart
    <3>4. LiveCopy'
      BY <1>1, <1>4, <1>10, <2>6, <3>1 DEF LiveCopy
    <3>5. QED BY <3>2, <3>3, <3>4
  <2>12. QED BY <2>5, <2>7, <2>8, <2>9, <2>10, <2>11 DEF Applied
<1>12. QED BY <1>4, <1>8, <1>9, <1>11 DEF SettingsInv

(* A save starts: what it carries is what the file will say. *)
LEMMA BeginDoes ==
    ASSUME SettingsInv, NEW s \in Settings!Saves, NEW payload \in Settings!Settings,
        NEW behind \in BOOLEAN,
           Settings!Begin(s, payload, behind)
    PROVE  /\ save' \in [Settings!Saves -> SaveCall]
           /\ save[s].at = "idle" /\ save'[s].at = "load"
           /\ save'[s].payload = payload /\ save'[s].behind = behind
           /\ \A r \in Settings!Saves \ {s} : save'[r] = save[r]
           /\ Pend' = Pend \cup {s}
           /\ ~Doomed' => /\ Pend = {} /\ ~Doomed /\ ~behind
                          /\ \A f, v : WillSay(f, v)' <=> payload[f] = v
<1> DEFINE new == [at |-> "load", payload |-> payload, prev |-> Nil, behind |-> behind]
<1>1. new \in SaveCall
  BY DEF SaveCall, SaveStages
<1>2. save[s].at = "idle" /\ save' = [save EXCEPT ![s] = new]
          /\ save \in [Settings!Saves -> SaveCall]
  BY DEF Settings!Begin, SettingsInv, SettingsTypes
<1>3. new.at = "load" /\ new.payload = payload /\ new.behind = behind
  OBVIOUS
<1> HIDE DEF new
<1>4. save' \in [Settings!Saves -> SaveCall] /\ save'[s] = new
          /\ \A r \in Settings!Saves \ {s} : save'[r] = save[r]
  BY <1>1, <1>2
<1>5. Pend' = Pend \cup {s}
  BY <1>2, <1>3, <1>4 DEF Pend
<1>6. ASSUME ~Doomed'
      PROVE  /\ Pend = {} /\ ~Doomed /\ ~behind
             /\ \A f, v : WillSay(f, v)' <=> payload[f] = v
  <2>1. ~behind
    BY <1>3, <1>4, <1>5, <1>6 DEF Doomed
  <2>2. Pend = {}
    <3>1. s \notin Pend /\ Pend \subseteq Settings!Saves
      BY <1>2 DEF Pend
    <3>2. Pend' # Settings!Saves
      BY <1>6 DEF Doomed
    <3>3. QED BY <1>5, <3>1, <3>2 DEF Settings!Saves
  <2>3. Pend' = {s}
    BY <1>5, <2>2
  <2>4. QED BY <1>3, <1>4, <2>1, <2>2, <2>3 DEF WillSay, Doomed, Settings!Saves
<1>7. QED BY <1>2, <1>3, <1>4, <1>5, <1>6

(* The dialog's save starts, 300 ms later. *)
LEMMA TimerFiresKeeps ==
    ASSUME SettingsInv, Settings!TimerFires
    PROVE  SettingsInv'
<1>1. /\ saveTimer /\ saveTimer' = FALSE
      /\ UNCHANGED <<platform, config, helperAt, attached, switches, claimer, pathRules,
                     pathOwner, sleepActive, sleepHeld, guiLevel, loginEntry, hotkey,
                     dialog, copy, call, mail, ctl, unmatched>>
  BY DEF Settings!TimerFires, Settings!daemon, Settings!sleep, Settings!desktop
<1> DEFINE old == mail # <<>> \/ ctl # Nil \/ "unseen" \in unmatched
<1>2. PICK s \in Settings!Saves : Settings!Begin(s, copy, old)
  BY DEF Settings!TimerFires
<1>3. old \in BOOLEAN /\ copy \in Settings!Settings
  BY DEF SettingsInv, SettingsTypes
<1>4. ~old => mail = <<>> /\ ctl = Nil /\ "unseen" \notin unmatched
  OBVIOUS
<1>5. ctl # Nil => old
  OBVIOUS
<1> HIDE DEF old
<1>6. /\ save' \in [Settings!Saves -> SaveCall]
      /\ save[s].at = "idle" /\ save'[s].at = "load"
      /\ save'[s].payload = copy /\ save'[s].behind = old
      /\ \A r \in Settings!Saves \ {s} : save'[r] = save[r]
      /\ Pend' = Pend \cup {s}
      /\ ~Doomed' => ~old /\ \A f, v : WillSay(f, v)' <=> copy[f] = v
  BY <1>2, <1>3, BeginDoes
<1>7. /\ SleepPart' /\ RulesOwned'
      /\ (Without({"crossed", "cut", "missed", "late"}) => PathPart)'
  BY <1>1, <1>6, DialogFrame
<1>8. SettingsTypes' /\ Shapes' /\ MailSays'
  BY <1>1, <1>3, <1>6 DEF SettingsInv, SettingsTypes, Shapes, MailSays
<1>9. Applied'
  <2>1. SUFFICES ASSUME Without({"crossed"})' PROVE Applied'
    BY DEF Applied
  <2>2. OneWriter /\ CopyPart
    BY <1>1, <2>1 DEF SettingsInv, Applied, Without
  <2>3. OneWriter'
    BY <1>1, <1>5, <1>6, <2>2 DEF OneWriter, Settings!Effects, Pend
  <2>4. MailPart'
    <3>1. SUFFICES ASSUME ~Doomed', NEW f \in Settings!Live
                   PROVE  \E v \in BOOLEAN : Tells(mail', f, v) /\ WillSay(f, v)'
      BY DEF MailPart
    <3>2. copy[f] \in BOOLEAN
      BY <1>3 DEF Settings!Settings, Settings!Fields
    <3>3. QED BY <1>1, <1>4, <1>6, <3>1, <3>2, MailEmpty
  <2>5. CopyPart'
    BY <1>1, <1>6 DEF CopyPart
  <2>6. /\ Without({"cut"})' => EntryPart'
        /\ Without({"cut", "refused"})' => KeyPart'
    BY <1>1, <1>6, <2>1
       DEF SettingsInv, Applied, Without, EntryPart, KeyPart, Settings!Effects
  <2>7. GuiLevelPart'
    BY <1>6 DEF GuiLevelPart
  <2>8. ASSUME Without({"cut", "missed"})', helperAt' # "down"
        PROVE  Answered' /\ LivePart' /\ LiveCopy'
    <3>1. Answered /\ LiveCopy
      BY <1>1, <2>1, <2>8 DEF SettingsInv, Applied, Without
    <3>2. Answered' /\ LiveCopy'
      BY <1>1, <3>1 DEF Answered, LiveCopy, CallDone, CtlFor
    <3>3. LivePart'
      <4>1. SUFFICES ASSUME ~Doomed', NEW f \in Settings!Live
                PROVE copy[f] = switches[f] \/ CallDone(f)
        BY <1>1, <1>6 DEF LivePart, CallDone
      <4>2. dialog /\ mail = <<>> /\ ctl = Nil /\ "unseen" \notin unmatched
        BY <1>1, <1>4, <1>6, <4>1 DEF SettingsInv, Shapes
      <4>3. QED BY <3>1, <4>2, MailEmpty DEF LiveCopy, CtlFor
    <3>4. QED BY <3>2, <3>3
  <2>9. QED BY <2>3, <2>4, <2>5, <2>6, <2>7, <2>8 DEF Applied
<1>10. QED BY <1>7, <1>8, <1>9 DEF SettingsInv

(* The list saves its preferences over what it has read. *)
LEMMA SaveListPrefsKeeps ==
    ASSUME SettingsInv, Settings!SaveListPrefs
    PROVE  SettingsInv'
<1>1. UNCHANGED <<platform, config, helperAt, attached, switches, claimer, pathRules,
                  pathOwner, sleepActive, sleepHeld, guiLevel, loginEntry, hotkey, dialog,
                  copy, saveTimer, call, mail, ctl, unmatched>>
  BY DEF Settings!SaveListPrefs, Settings!daemon, Settings!sleep, Settings!desktop,
         Settings!view
<1>2. PICK s \in Settings!Saves : Settings!Begin(s, config, FALSE)
  BY DEF Settings!SaveListPrefs
<1>3. config \in Settings!Settings
  BY DEF SettingsInv, SettingsTypes
<1>4. /\ save' \in [Settings!Saves -> SaveCall]
      /\ save[s].at = "idle" /\ save'[s].at = "load" /\ save'[s].payload = config
      /\ \A r \in Settings!Saves \ {s} : save'[r] = save[r]
      /\ ~Doomed' => /\ ~Doomed /\ Pend = {}
                     /\ \A f, v : WillSay(f, v)' <=> config[f] = v
  BY <1>2, <1>3, BeginDoes
<1>5. /\ SleepPart' /\ RulesOwned'
      /\ (Without({"crossed", "cut", "missed", "late"}) => PathPart)'
  BY <1>1, <1>4, DialogFrame
<1>6. SettingsTypes' /\ Shapes' /\ MailSays'
  BY <1>1, <1>3, <1>4 DEF SettingsInv, SettingsTypes, Shapes, MailSays
<1>7. ~Doomed' => ~Doomed /\ \A f, v : WillSay(f, v)' <=> WillSay(f, v)
  BY <1>4 DEF WillSay
<1>8. Applied'
  <2>1. SUFFICES ASSUME Without({"crossed"})' PROVE Applied'
    BY DEF Applied
  <2>2. OneWriter /\ MailPart /\ CopyPart
    BY <1>1, <2>1 DEF SettingsInv, Applied, Without
  <2>3. OneWriter'
    BY <1>1, <1>4, <2>2 DEF OneWriter, Settings!Effects, Pend
  <2>4. MailPart' /\ CopyPart'
    BY <1>1, <1>7, <2>2 DEF MailPart, CopyPart, CallDone, CtlFor
  <2>5. /\ Without({"cut"})' => EntryPart'
        /\ Without({"cut", "refused"})' => KeyPart'
    BY <1>1, <1>4, <2>1
       DEF SettingsInv, Applied, Without, EntryPart, KeyPart, Settings!Effects
  <2>6. GuiLevelPart'
    BY <1>4 DEF GuiLevelPart
  <2>7. Without({"cut", "missed"})' /\ helperAt' # "down" =>
            Answered' /\ LivePart' /\ LiveCopy'
    BY <1>1, <1>7, <2>1
       DEF SettingsInv, Applied, Without, Answered, LivePart, LiveCopy, CallDone, CtlFor
  <2>8. QED BY <2>3, <2>4, <2>5, <2>6, <2>7 DEF Applied
<1>9. QED BY <1>5, <1>6, <1>8 DEF SettingsInv

(* A save goes on to its next step, and what it carries stays. *)
LEMMA GotoDoes ==
    ASSUME SettingsInv, NEW s \in Settings!Saves, NEW at \in SaveStages \ {"idle"},
        Settings!Goto(s, at),
           save[s].at \notin {"idle", "load"}, at \notin {"load", "write"}
    PROVE  /\ save' \in [Settings!Saves -> SaveCall]
           /\ save'[s].at = at /\ save'[s].payload = save[s].payload
           /\ save'[s].prev = save[s].prev
           /\ \A r \in Settings!Saves \ {s} : save'[r] = save[r]
           /\ save[s].payload \in Settings!Settings /\ save[s].prev \in Settings!Settings
           /\ save[s].at \notin {"load", "write"} =>
                 /\ Pend' = Pend /\ Doomed' = Doomed
                 /\ \A r \in Pend : save'[r] = save[r]
<1>1. save \in [Settings!Saves -> SaveCall] /\ save' = [save EXCEPT ![s].at = at]
  BY DEF Settings!Goto, SettingsInv, SettingsTypes
<1>2. save'[s] = [save[s] EXCEPT !.at = at] /\ \A r \in Settings!Saves \ {s} :
          save'[r] = save[r]
  BY <1>1
<1>3. save'[s] \in SaveCall /\ save'[s].at = at /\ save'[s].payload = save[s].payload
      /\ save'[s].prev = save[s].prev
  BY <1>1, <1>2 DEF SaveCall
<1>4. save' \in [Settings!Saves -> SaveCall]
  BY <1>1, <1>2, <1>3
<1>5. save[s].payload \in Settings!Settings /\ save[s].prev \in Settings!Settings
  BY DEF SettingsInv, Shapes
<1>6. ASSUME save[s].at \notin {"load", "write"}
      PROVE  /\ Pend' = Pend /\ Doomed' = Doomed
             /\ \A r \in Pend : save'[r] = save[r]
  <2>1. Pend' = Pend /\ \A r \in Pend : save'[r] = save[r]
    BY <1>2, <1>3, <1>6 DEF Pend
  <2>2. QED BY <2>1 DEF Doomed
<1>7. QED BY <1>2, <1>3, <1>4, <1>5, <1>6

(* A save ends. *)
LEMMA DoneDoes ==
    ASSUME SettingsInv, NEW s \in Settings!Saves, Settings!Done(s),
        save[s].at \in Settings!Effects
    PROVE  /\ save' \in [Settings!Saves -> SaveCall] /\ save'[s].at = "idle"
           /\ \A r \in Settings!Saves \ {s} : save'[r] = save[r]
           /\ save[s].payload \in Settings!Settings /\ save[s].prev \in Settings!Settings
           /\ Pend' = Pend /\ Doomed' = Doomed
           /\ \A r \in Pend : save'[r] = save[r]
<1>1. Settings!Idle \in SaveCall /\ Settings!Idle.at = "idle"
  BY DEF Settings!Idle, SaveCall, SaveStages
<1>2. save \in [Settings!Saves -> SaveCall] /\ save' = [save EXCEPT ![s] = Settings!Idle]
  BY DEF Settings!Done, SettingsInv, SettingsTypes
<1>3. save' \in [Settings!Saves -> SaveCall] /\ save'[s] = Settings!Idle
      /\ \A r \in Settings!Saves \ {s} : save'[r] = save[r]
  BY <1>1, <1>2
<1>4. Pend' = Pend /\ \A r \in Pend : save'[r] = save[r]
  BY <1>1, <1>3 DEF Pend, Settings!Effects
<1>5. Doomed' = Doomed
  BY <1>4 DEF Doomed
<1>6. save[s].payload \in Settings!Settings /\ save[s].prev \in Settings!Settings
  BY DEF SettingsInv, Shapes, Settings!Effects
<1>7. QED BY <1>1, <1>3, <1>4, <1>5, <1>6

(* SaveSettings reads what it will compare with. *)
LEMMA LoadPrevKeeps ==
    ASSUME SettingsInv, NEW s \in Settings!Saves, Settings!LoadPrev(s)
    PROVE  SettingsInv'
<1>1. /\ save[s].at = "load" /\ save' = [save EXCEPT ![s].at = "write",
             ![s].prev = config]
      /\ UNCHANGED <<platform, config, helperAt, attached, switches, claimer, pathRules,
                     pathOwner, sleepActive, sleepHeld, guiLevel, loginEntry, hotkey,
                     dialog, copy, saveTimer, call, mail, ctl, unmatched>>
  BY DEF Settings!LoadPrev, Settings!daemon, Settings!sleep, Settings!desktop,
         Settings!view
<1>2. config \in Settings!Settings /\ save \in [Settings!Saves -> SaveCall]
  BY DEF SettingsInv, SettingsTypes
<1>3. /\ save'[s] = [save[s] EXCEPT !.at = "write", !.prev = config]
      /\ \A r \in Settings!Saves \ {s} : save'[r] = save[r]
  BY <1>1, <1>2
<1>4. /\ save'[s] \in SaveCall /\ save'[s].at = "write" /\ save'[s].prev = config
      /\ save'[s].payload = save[s].payload /\ save'[s].behind = save[s].behind
  <2>1. save[s] \in SaveCall
    BY <1>2
  <2>2. [save[s] EXCEPT !.at = "write"] \in SaveCall
    BY <2>1 DEF SaveCall, SaveStages
  <2>3. QED BY <1>2, <1>3, <2>1, <2>2 DEF SaveCall, SaveStages
<1>5. save' \in [Settings!Saves -> SaveCall]
  BY <1>1, <1>2, <1>3, <1>4
<1>6. /\ SleepPart' /\ RulesOwned'
      /\ (Without({"crossed", "cut", "missed", "late"}) => PathPart)'
  BY <1>1, <1>3, DialogFrame
<1>7. SettingsTypes' /\ Shapes' /\ MailSays'
  BY <1>1, <1>2, <1>3, <1>4, <1>5 DEF SettingsInv, SettingsTypes, Shapes, MailSays
<1>8. /\ Pend' = Pend
      /\ \A r \in Settings!Saves : save'[r].payload = save[r].payload
             /\ save'[r].behind = save[r].behind
  BY <1>1, <1>3, <1>4 DEF Pend
<1>9. Doomed' = Doomed /\ \A f, v : WillSay(f, v)' <=> WillSay(f, v)
  BY <1>1, <1>8 DEF Doomed, WillSay, Pend
<1>10. Applied'
  <2>1. SUFFICES ASSUME Without({"crossed"})' PROVE Applied'
    BY DEF Applied
  <2>2. OneWriter /\ MailPart /\ CopyPart
    BY <1>1, <2>1 DEF SettingsInv, Applied, Without
  <2>3. OneWriter'
    <3>1. \A r \in Settings!Saves : save'[r].at \in Settings!Effects =>
              r # s /\ save'[r] = save[r]
      BY <1>3, <1>4 DEF Settings!Effects
    <3>2. \A r \in Settings!Saves : save'[r].at = "write" /\ ~save'[r].behind =>
              save'[r].prev = config
      BY <1>3, <1>4, <2>2 DEF OneWriter
    <3>3. \A r \in Pend' : r \in Pend /\ r \in Settings!Saves
      BY <1>8 DEF Pend
    <3>4. QED BY <1>1, <1>8, <2>2, <3>1, <3>2, <3>3 DEF OneWriter
  <2>4. MailPart' /\ CopyPart'
    BY <1>1, <1>9, <2>2 DEF MailPart, CopyPart, CallDone, CtlFor
  <2>5. /\ Without({"cut"})' => EntryPart'
        /\ Without({"cut", "refused"})' => KeyPart'
    BY <1>1, <1>3, <1>4, <2>1
       DEF SettingsInv, Applied, Without, EntryPart, KeyPart, Settings!Effects
  <2>6. GuiLevelPart'
    BY <1>4 DEF GuiLevelPart
  <2>7. Without({"cut", "missed"})' /\ helperAt' # "down" =>
            Answered' /\ LivePart' /\ LiveCopy'
    BY <1>1, <1>9, <2>1
       DEF SettingsInv, Applied, Without, Answered, LivePart, LiveCopy, CallDone, CtlFor
  <2>8. QED BY <2>3, <2>4, <2>5, <2>6, <2>7 DEF Applied
<1>11. QED BY <1>6, <1>7, <1>10 DEF SettingsInv

(* It writes the file. *)
LEMMA WriteKeeps ==
    ASSUME SettingsInv, NEW s \in Settings!Saves, Settings!Write(s)
    PROVE  SettingsInv'
<1>1. /\ save[s].at = "write" /\ config' = save[s].payload /\ save' = Settings!Overtake(s)
      /\ unmatched' = IF save[s].behind \/ \E r \in Settings!Others(s) :
             save[r].at \in Settings!Effects
                    THEN unmatched \cup {"crossed"} ELSE unmatched
      /\ UNCHANGED <<platform, helperAt, attached, switches, claimer, pathRules,
                     pathOwner, sleepActive, sleepHeld, guiLevel, loginEntry, hotkey,
                     dialog, copy, saveTimer, call, mail, ctl>>
  BY DEF Settings!Write, Settings!Excuse, Settings!daemon, Settings!sleep,
         Settings!desktop, Settings!view
<1>2. /\ save \in [Settings!Saves -> SaveCall]
      /\ save[s].payload \in Settings!Settings /\ save[s].prev \in Settings!Settings
  BY <1>1 DEF SettingsInv, SettingsTypes, Shapes
<1>3. /\ save'[s] = [save[s] EXCEPT !.at = "start"]
      /\ \A r \in Settings!Saves \ {s} :
            save'[r] = IF save[r].at \in {"load", "write"}
                       THEN [save[r] EXCEPT !.behind = TRUE]
                       ELSE save[r]
  BY <1>1 DEF Settings!Overtake
<1>4. /\ save'[s] \in SaveCall /\ save'[s].at = "start" /\ save'[s].prev = save[s].prev
      /\ save'[s].payload = save[s].payload
  BY <1>2, <1>3 DEF SaveCall, SaveStages
<1>5. \A r \in Settings!Saves \ {s} :
          /\ save'[r] \in SaveCall /\ save'[r].at = save[r].at
                 /\ save'[r].prev = save[r].prev
          /\ save'[r].payload = save[r].payload
          /\ r \in Pend => save'[r].behind = TRUE
  BY <1>2, <1>3 DEF SaveCall, Pend
<1>6. save' \in [Settings!Saves -> SaveCall]
  <2>1. DOMAIN save' = Settings!Saves /\ save' = [r \in Settings!Saves |-> save'[r]]
    BY <1>1 DEF Settings!Overtake
  <2>2. QED BY <1>4, <1>5, <2>1
<1>7. SettingsTypes' /\ Shapes' /\ MailSays' /\ SleepPart' /\ RulesOwned'
  <2>1. SettingsTypes'
    BY <1>1, <1>2, <1>6 DEF SettingsInv, SettingsTypes
  <2>2. Shapes'
    BY <1>1, <1>2, <1>4, <1>5 DEF SettingsInv, Shapes
  <2>3. SleepPart'
    BY <1>1, SleepFrame DEF SettingsInv
  <2>4. QED BY <1>1, <2>1, <2>2, <2>3 DEF SettingsInv, MailSays, RulesOwned
<1>8. ASSUME Without({"crossed"})'
      PROVE  /\ Without({"crossed"}) /\ unmatched' = unmatched /\ ~save[s].behind
          /\ OneWriter
             /\ save[s].prev = config /\ \A r \in Settings!Saves :
                    save[r].at \notin Settings!Effects
  <2>1. Without({"crossed"}) /\ unmatched' = unmatched /\ ~save[s].behind
        /\ \A r \in Settings!Others(s) : save[r].at \notin Settings!Effects
    BY <1>1, <1>8 DEF Without
  <2>2. \A r \in Settings!Saves : save[r].at \notin Settings!Effects
    BY <1>1, <2>1 DEF Settings!Others, Settings!Effects
  <2>3. OneWriter
    BY <2>1 DEF SettingsInv, Applied
  <2>4. QED BY <1>1, <2>1, <2>2, <2>3 DEF OneWriter
<1>9. (Without({"crossed", "cut", "missed", "late"}) => PathPart)'
  <2>1. SUFFICES ASSUME Without({"crossed", "cut", "missed", "late"})' PROVE PathPart'
    OBVIOUS
  <2>2. Without({"crossed"})'
    BY <2>1 DEF Without
  <2>3. PathPart
    BY <1>8, <2>1, <2>2 DEF SettingsInv, Without
  <2>4. QED BY <1>1, <1>4, <1>8, <2>2, <2>3 DEF PathPart, Settings!Effects
<1>10. Applied'
  <2>1. SUFFICES ASSUME Without({"crossed"})' PROVE Applied'
    BY DEF Applied
  <2>2. /\ Without({"crossed"}) /\ unmatched' = unmatched /\ ~save[s].behind /\ OneWriter
        /\ save[s].prev = config /\ \A r \in Settings!Saves :
               save[r].at \notin Settings!Effects
    BY <1>8, <2>1
  <2>3. s \in Pend /\ Pend' = Pend \ {s}
    BY <1>1, <1>4, <1>5 DEF Pend
  <2>4. \A r \in Pend' : save'[r].behind = TRUE /\ r # s /\ r \in Settings!Saves
            /\ r \in Pend
    BY <1>5, <2>3 DEF Pend
  <2>5. ~Doomed' => /\ Pend' = {} /\ Pend = {s} /\ ~Doomed
                    /\ \A f, v : WillSay(f, v)' <=> WillSay(f, v)
    <3>1. SUFFICES ASSUME ~Doomed'
                   PROVE  /\ Pend' = {} /\ Pend = {s} /\ ~Doomed
                          /\ \A f, v : WillSay(f, v)' <=> WillSay(f, v)
      OBVIOUS
    <3>2. Pend' = {}
      BY <2>4, <3>1 DEF Doomed
    <3>3. Pend = {s}
      BY <2>3, <3>2
    <3>4. ~Doomed
      BY <2>2, <3>3 DEF Doomed, Settings!Saves
    <3>5. QED BY <1>1, <3>2, <3>3, <3>4 DEF WillSay
  <2>6. OneWriter'
    <3>1. \A r \in Settings!Saves : save'[r].at \in Settings!Effects => r = s
      BY <1>5, <2>2
    <3>2. config' = save'[s].payload
      BY <1>1, <1>4
    <3>3. \A r \in Settings!Saves : save'[r].at = "write" => save'[r].behind = TRUE
      BY <1>4, <1>5 DEF Pend
    <3>4. call # Nil => ctl = Nil
      BY <2>2 DEF OneWriter
    <3>5. ctl # Nil => config'[ctl.field] = ctl.value
      BY <1>1, <2>2, <2>3 DEF OneWriter
    <3>6. QED BY <1>1, <2>4, <3>1, <3>2, <3>3, <3>4, <3>5 DEF OneWriter
  <2>7. MailPart' /\ CopyPart'
    BY <1>1, <2>2, <2>5 DEF SettingsInv, Applied, MailPart, CopyPart, CallDone, CtlFor
  <2>8. Without({"cut"})' => EntryPart'
    <3>1. SUFFICES ASSUME Without({"cut"}) PROVE EntryPart'
      BY <2>2 DEF Without
    <3>2. loginEntry = config["start"]
      BY <2>2, <3>1 DEF SettingsInv, Applied, EntryPart, Settings!Effects
    <3>3. QED BY <1>1, <1>4, <1>5, <2>2, <3>2 DEF EntryPart, Settings!Effects
  <2>9. Without({"cut", "refused"})' => KeyPart'
    <3>1. SUFFICES ASSUME Without({"cut", "refused"}) PROVE KeyPart'
      BY <2>2 DEF Without
    <3>2. hotkey = config["key"]
      BY <2>2, <3>1 DEF SettingsInv, Applied, KeyPart
    <3>3. QED BY <1>1, <1>4, <1>5, <2>2, <3>2 DEF KeyPart, Settings!Effects
  <2>10. GuiLevelPart'
    BY <1>4 DEF GuiLevelPart
  <2>11. Without({"cut", "missed"})' /\ helperAt' # "down" =>
             Answered' /\ LivePart' /\ LiveCopy'
    BY <1>1, <2>2, <2>5
       DEF SettingsInv, Applied, Without, Answered, LivePart, LiveCopy, CallDone, CtlFor
  <2>12. QED BY <2>6, <2>7, <2>8, <2>9, <2>10, <2>11 DEF Applied
<1>11. QED BY <1>7, <1>9, <1>10 DEF SettingsInv

(* The login entry. *)
LEMMA AutostartKeeps ==
    ASSUME SettingsInv, NEW s \in Settings!Saves, Settings!Autostart(s)
    PROVE  SettingsInv'
<1> DEFINE wanted == save[s].payload["start"]
<1>1. /\ save[s].at = "start" /\ unmatched \subseteq unmatched'
      /\ UNCHANGED <<platform, config, helperAt, attached, switches, claimer, pathRules,
                     pathOwner, sleepActive, sleepHeld, guiLevel, hotkey, dialog, copy,
                     saveTimer, call, mail, ctl>>
  BY DEF Settings!Autostart, Settings!Excuse, Settings!daemon, Settings!sleep,
         Settings!view
<1>2. save[s].payload \in Settings!Settings /\ save[s].prev \in Settings!Settings
  BY <1>1 DEF SettingsInv, Shapes
<1>3. wanted \in BOOLEAN /\ save[s].prev["start"] \in BOOLEAN
  BY <1>2 DEF Settings!Settings, Settings!Fields
<1>4. loginEntry \in BOOLEAN
  BY DEF SettingsInv, SettingsTypes
<1>5. CASE /\ Settings!Goto(s, "level") /\ unmatched' = unmatched
           /\ \/ loginEntry' = loginEntry /\ wanted = save[s].prev["start"]
              \/ loginEntry' = wanted
  <2>1. /\ save' \in [Settings!Saves -> SaveCall]
        /\ save'[s].at = "level" /\ save'[s].payload = save[s].payload
        /\ save'[s].prev = save[s].prev
        /\ \A r \in Settings!Saves \ {s} : save'[r] = save[r]
        /\ Pend' = Pend /\ Doomed' = Doomed
        /\ \A r \in Pend : save'[r] = save[r]
    BY <1>1, <1>5, GotoDoes DEF SaveStages
  <2>2. SettingsTypes' /\ Shapes' /\ MailSays' /\ RulesOwned' /\ SleepPart'
    <3>1. loginEntry' \in BOOLEAN
      BY <1>3, <1>4, <1>5
    <3>2. SettingsTypes'
      BY <1>1, <2>1, <3>1 DEF SettingsInv, SettingsTypes
    <3>3. Shapes'
      BY <1>1, <1>2, <2>1 DEF SettingsInv, Shapes
    <3>4. SleepPart'
      BY <1>1, SleepFrame DEF SettingsInv
    <3>5. QED BY <1>1, <3>2, <3>3, <3>4 DEF SettingsInv, MailSays, RulesOwned
  <2>3. (Without({"crossed", "cut", "missed", "late"}) => PathPart)'
    BY <1>1, <2>1, PathFrame DEF SettingsInv
  <2>4. Applied'
    <3>1. SUFFICES ASSUME Without({"crossed"})' PROVE Applied'
      BY DEF Applied
    <3>2. Without({"crossed"}) /\ OneWriter
      BY <1>5, <3>1 DEF SettingsInv, Applied, Without
    <3>3. OneWriter'
      BY <1>1, <2>1, <3>2 DEF OneWriter, Settings!Effects, Pend
    <3>4. \A f, v : WillSay(f, v)' <=> WillSay(f, v)
      BY <1>1, <2>1 DEF WillSay
    <3>5. MailPart' /\ CopyPart'
      BY <1>1, <1>5, <2>1, <3>2, <3>4
         DEF SettingsInv, Applied, MailPart, CopyPart, CallDone, CtlFor
    <3>6. Without({"cut"})' => EntryPart'
      <4>1. SUFFICES ASSUME Without({"cut"}) PROVE EntryPart'
        BY <1>5 DEF Without
      <4>2. loginEntry = save[s].prev["start"]
        BY <1>1, <3>2, <4>1 DEF SettingsInv, Applied, EntryPart
      <4>3. config = save[s].payload /\ \A r \in Settings!Saves \ {s} :
                save[r].at # "start"
        BY <1>1, <3>2 DEF OneWriter, Settings!Effects
      <4>4. loginEntry' = config'["start"]
        BY <1>1, <1>5, <4>2, <4>3
      <4>5. QED BY <2>1, <4>3, <4>4 DEF EntryPart
    <3>7. Without({"cut", "refused"})' => KeyPart'
      BY <1>1, <1>5, <2>1, <3>2
         DEF SettingsInv, Applied, Without, KeyPart, Settings!Effects
    <3>8. GuiLevelPart'
      BY <2>1 DEF GuiLevelPart
    <3>9. Without({"cut", "missed"})' /\ helperAt' # "down" =>
              Answered' /\ LivePart' /\ LiveCopy'
      BY <1>1, <1>5, <2>1, <3>2, <3>4
         DEF SettingsInv, Applied, Without, Answered, LivePart, LiveCopy, CallDone,
             CtlFor
    <3>10. QED BY <3>3, <3>5, <3>6, <3>7, <3>8, <3>9 DEF Applied
  <2>5. QED BY <2>2, <2>3, <2>4 DEF SettingsInv
<1>6. CASE Settings!Done(s) /\ loginEntry' \in {loginEntry, FALSE}
          /\ "cut" \in unmatched' /\ unmatched' = unmatched \cup {"cut"}
  <2>1. /\ save' \in [Settings!Saves -> SaveCall] /\ save'[s].at = "idle"
        /\ \A r \in Settings!Saves \ {s} : save'[r] = save[r]
        /\ Pend' = Pend /\ Doomed' = Doomed
        /\ \A r \in Pend : save'[r] = save[r]
    BY <1>1, <1>6, DoneDoes DEF Settings!Effects
  <2>2. SettingsTypes' /\ Shapes' /\ MailSays' /\ RulesOwned' /\ SleepPart'
    <3>1. loginEntry' \in BOOLEAN
      BY <1>4, <1>6
    <3>2. SettingsTypes'
      BY <1>1, <2>1, <3>1 DEF SettingsInv, SettingsTypes
    <3>3. Shapes'
      BY <1>1, <2>1 DEF SettingsInv, Shapes
    <3>4. SleepPart'
      BY <1>1, <1>6, SleepFrame DEF SettingsInv
    <3>5. QED BY <1>1, <3>2, <3>3, <3>4 DEF SettingsInv, MailSays, RulesOwned
  <2>3. ~Without({"cut"})' /\ ~Without({"crossed", "cut", "missed", "late"})'
        /\ ~Without({"cut", "refused"})' /\ ~Without({"cut", "missed", "guiLevel"})'
        /\ ~Without({"cut", "missed"})'
    BY <1>6 DEF Without
  <2>4. Applied'
    <3>1. SUFFICES ASSUME Without({"crossed"})' PROVE Applied'
      BY DEF Applied
    <3>2. OneWriter /\ MailPart /\ CopyPart
      BY <1>6, <3>1 DEF SettingsInv, Applied, Without
    <3>3. OneWriter'
      BY <1>1, <2>1, <3>2 DEF OneWriter, Settings!Effects, Pend
    <3>4. \A f, v : WillSay(f, v)' <=> WillSay(f, v)
      BY <1>1, <2>1 DEF WillSay
    <3>5. MailPart' /\ CopyPart'
      BY <1>1, <1>6, <2>1, <3>2, <3>4 DEF MailPart, CopyPart, CallDone, CtlFor
    <3>6. QED BY <2>3, <3>3, <3>5 DEF Applied
  <2>5. QED BY <2>2, <2>3, <2>4 DEF SettingsInv
<1>7. QED BY <1>5, <1>6 DEF Settings!Autostart, Settings!Excuse

(* The log level is pushed to the helper. *)
LEMMA PushLevelKeeps ==
    ASSUME SettingsInv, NEW s \in Settings!Saves, Settings!PushLevel(s)
    PROVE  SettingsInv'
<1> DEFINE level == save[s].payload["level"]
<1>1. /\ save[s].at = "level" /\ Settings!Goto(s, "path") /\ guiLevel' = level
             /\ unmatched \subseteq unmatched'
      /\ UNCHANGED <<platform, config, helperAt, attached, claimer, pathRules, pathOwner,
                     loginEntry, hotkey, dialog, copy, saveTimer, call, ctl>>
  BY DEF Settings!PushLevel, Settings!Excuse, Settings!view
<1>2. /\ save' \in [Settings!Saves -> SaveCall] /\ save'[s].at = "path"
      /\ save'[s].payload = save[s].payload /\ save'[s].prev = save[s].prev
      /\ \A r \in Settings!Saves \ {s} : save'[r] = save[r]
      /\ save[s].payload \in Settings!Settings /\ save[s].prev \in Settings!Settings
      /\ Pend' = Pend /\ Doomed' = Doomed
      /\ \A r \in Pend : save'[r] = save[r]
  BY <1>1, GotoDoes DEF SaveStages
<1>3. level \in BOOLEAN
  BY <1>2 DEF Settings!Settings, Settings!Fields, Settings!Live
<1>4. /\ switches' \in [Settings!Live -> BOOLEAN] /\ mail' \in Seq(Message)
             /\ (~attached => mail' = <<>>)
      /\ MailSays' /\ SleepPart' /\ sleepActive' \in BOOLEAN
  <2>1. CASE Settings!Reachable
    BY <1>1, <1>3, <2>1, ApplyDoes DEF Settings!PushLevel, Settings!Live
  <2>2. CASE ~Settings!Reachable
    BY <1>1, <2>2, SleepFrame
       DEF Settings!PushLevel, SettingsInv, SettingsTypes, Shapes, MailSays,
           Settings!sleep
  <2>3. QED BY <2>1, <2>2
<1>5. SettingsTypes' /\ Shapes' /\ RulesOwned'
  <2>1. SettingsTypes'
    BY <1>1, <1>2, <1>3, <1>4 DEF SettingsInv, SettingsTypes
  <2>2. Shapes'
    BY <1>1, <1>2, <1>4 DEF SettingsInv, Shapes
  <2>3. QED BY <1>1, <2>1, <2>2 DEF SettingsInv, RulesOwned
<1>6. (Without({"crossed", "cut", "missed", "late"}) => PathPart)'
  BY <1>1, <1>2, PathFrame DEF SettingsInv
<1>7. Applied'
  <2>1. SUFFICES ASSUME Without({"crossed"})' PROVE Applied'
    BY DEF Applied
  <2>2. Without({"crossed"}) /\ OneWriter /\ MailPart /\ CopyPart
    BY <1>1, <2>1 DEF SettingsInv, Applied, Without
  <2>3. config = save[s].payload /\ \A r \in Settings!Saves \ {s} :
            save[r].at \notin Settings!Effects
    BY <1>1, <2>2 DEF OneWriter, Settings!Effects
  <2>4. OneWriter'
    BY <1>1, <1>2, <2>2 DEF OneWriter, Settings!Effects, Pend
  <2>5. \A f, v : WillSay(f, v)' <=> WillSay(f, v)
    BY <1>1, <1>2 DEF WillSay
  <2>6. /\ \A f \in Settings!Live : CallDone(f)' <=> CallDone(f)
        /\ \A f \in Settings!Live : CtlFor(f)' <=> CtlFor(f)
    BY <1>1 DEF CallDone, CtlFor
  <2>7. Without({"cut"})' => EntryPart'
    BY <1>1, <1>2, <2>2 DEF SettingsInv, Applied, Without, EntryPart
  <2>8. Without({"cut", "refused"})' => KeyPart'
    BY <1>1, <1>2, <2>2 DEF SettingsInv, Applied, Without, KeyPart, Settings!Effects
  <2>9. GuiLevelPart'
    BY <1>1, <2>3 DEF GuiLevelPart
  <2>10. CASE ~Settings!Reachable
    <3>1. UNCHANGED <<switches, mail>> /\ (helperAt # "down" => "missed" \in unmatched')
      BY <2>10 DEF Settings!PushLevel, Settings!Excuse
    <3>2. MailPart' /\ CopyPart'
      BY <1>1, <1>2, <2>2, <2>5, <2>6, <3>1 DEF MailPart, CopyPart
    <3>3. ~(Without({"cut", "missed"})' /\ helperAt' # "down")
      BY <1>1, <3>1 DEF Without
    <3>4. QED BY <2>4, <2>7, <2>8, <2>9, <3>2, <3>3 DEF Applied
  <2>11. CASE Settings!Reachable /\ switches["level"] = level
    <3>1. switches' = switches /\ mail' = mail
      <4>1. Settings!Silent("level", level)
        BY <2>11 DEF Settings!Silent
      <4>2. switches' = [switches EXCEPT !["level"] = level] /\ mail' = mail
        BY <2>11, <4>1 DEF Settings!PushLevel, Settings!Apply
      <4>3. QED BY <2>11, <4>2 DEF SettingsInv, SettingsTypes
    <3>2. MailPart' /\ CopyPart'
      BY <1>1, <1>2, <2>2, <2>5, <2>6, <3>1 DEF MailPart, CopyPart
    <3>3. Without({"cut", "missed"})' /\ helperAt' # "down" =>
              Answered' /\ LivePart' /\ LiveCopy'
      BY <1>1, <1>2, <2>2, <2>5, <2>6, <3>1
         DEF SettingsInv, Applied, Without, Answered, LivePart, LiveCopy
    <3>4. QED BY <2>4, <2>7, <2>8, <2>9, <3>2, <3>3 DEF Applied
  <2>12. CASE Settings!Reachable /\ switches["level"] # level
    <3>1. /\ Settings!Apply("level", level) /\ attached /\ helperAt # "down"
          /\ unmatched' = IF saveTimer \/ call # Nil
                 \/ Settings!Pending THEN unmatched \cup {"crossed"} ELSE unmatched
      BY <2>12 DEF Settings!PushLevel, Settings!Excuse, Settings!Reachable
    <3>2. unmatched' = unmatched /\ ~saveTimer /\ call = Nil /\ ~Settings!Pending
      BY <2>1, <3>1 DEF Without
    <3>3. Pend = {} /\ ~Doomed
      BY <3>2 DEF Settings!Pending, Pend, Doomed, Settings!Saves
    <3>4. /\ switches'["level"] = level /\ \A g \in Settings!Live \ {"level"} :
                 switches'[g] = switches[g]
          /\ \A g \in Settings!Live \ {"level"} : Unmentioned(mail', g) <=>
                 Unmentioned(mail, g)
          /\ \A g \in Settings!Live \ {"level"}, w \in BOOLEAN :
                 Tells(mail', g, w) <=> Tells(mail, g, w)
          /\ ~Unmentioned(mail', "level") /\ MailSays'
      BY <1>1, <1>3, <2>12, <3>1, ApplyDoes DEF Settings!Live, Settings!Silent
    <3>5. WillSay("level", level) /\ Tells(mail', "level", level)
      BY <1>3, <2>3, <3>3, <3>4 DEF WillSay, MailSays, Settings!Live
    <3>6. MailPart'
      <4>1. SUFFICES ASSUME NEW f \in Settings!Live
                     PROVE  (\E v \in BOOLEAN : Tells(mail', f, v) /\ WillSay(f, v))
                         \/ CtlFor(f)
        BY <1>2, <2>5, <2>6 DEF MailPart
      <4>2. CASE f = "level"
        BY <1>3, <3>5, <4>2
      <4>3. CASE f # "level"
        BY <2>2, <3>2, <3>3, <3>4, <4>3 DEF MailPart, CallDone
      <4>4. QED BY <4>2, <4>3
    <3>7. CopyPart'
      BY <1>1, <1>2, <2>2, <2>5, <2>6, <3>2, <3>3, <3>4 DEF CopyPart
    <3>8. ASSUME Without({"cut", "missed"})' PROVE Answered' /\ LivePart' /\ LiveCopy'
      <4>1. LivePart /\ LiveCopy
        BY <2>2, <3>1, <3>2, <3>8 DEF SettingsInv, Applied, Without
      <4>2. Answered'
        BY <2>6, <3>2 DEF Answered, CallDone
      <4>3. LivePart'
        BY <1>1, <1>2, <2>5, <2>6, <3>2, <3>3, <3>4, <3>5, <4>1 DEF LivePart
      <4>4. LiveCopy'
        BY <1>1, <2>6, <3>2, <3>4, <4>1 DEF LiveCopy
      <4>5. QED BY <4>2, <4>3, <4>4
    <3>9. QED BY <2>4, <2>7, <2>8, <2>9, <3>6, <3>7, <3>8 DEF Applied
  <2>13. QED BY <2>10, <2>11, <2>12
<1>8. QED BY <1>4, <1>5, <1>6, <1>7 DEF SettingsInv

(* The rules are cleared if the master switch was turned off. *)
LEMMA ClearPathKeeps ==
    ASSUME SettingsInv, NEW s \in Settings!Saves, Settings!ClearPath(s)
    PROVE  SettingsInv'
<1>1. /\ save[s].at = "path" /\ Settings!Goto(s, "key") /\ unmatched \subseteq unmatched'
      /\ UNCHANGED <<platform, config, helperAt, attached, switches, claimer, sleepActive,
                     sleepHeld, guiLevel, loginEntry, hotkey, dialog, copy, saveTimer,
                     call, mail, ctl>>
  BY DEF Settings!ClearPath, Settings!Excuse, Settings!sleep, Settings!desktop,
         Settings!view
<1>2. /\ save' \in [Settings!Saves -> SaveCall] /\ save'[s].at = "key"
      /\ save'[s].payload = save[s].payload /\ save'[s].prev = save[s].prev
      /\ \A r \in Settings!Saves \ {s} : save'[r] = save[r]
      /\ save[s].payload \in Settings!Settings /\ save[s].prev \in Settings!Settings
      /\ Pend' = Pend /\ Doomed' = Doomed
      /\ \A r \in Pend : save'[r] = save[r]
  BY <1>1, GotoDoes DEF SaveStages
<1>3. pathRules \in BOOLEAN /\ pathOwner \in BOOLEAN
  BY DEF SettingsInv, SettingsTypes
<1>4. \/ /\ Settings!TurnedOff(s) /\ helperAt = "up" /\ pathOwner' = FALSE
                /\ pathRules' = (pathRules /\ ~pathOwner)
         /\ claimer \in {"claiming", "enabling"} => "late" \in unmatched'
      \/ /\ UNCHANGED <<pathOwner, pathRules>>
         /\ Settings!TurnedOff(s) /\ helperAt # "down" => "missed" \in unmatched'
  BY DEF Settings!ClearPath, Settings!Reachable, Settings!Excuse
<1>5. SettingsTypes' /\ Shapes' /\ MailSays' /\ SleepPart' /\ RulesOwned'
  <2>1. pathRules' \in BOOLEAN /\ pathOwner' \in BOOLEAN
    BY <1>3, <1>4
  <2>2. SettingsTypes'
    BY <1>1, <1>2, <2>1 DEF SettingsInv, SettingsTypes
  <2>3. Shapes'
    BY <1>1, <1>2 DEF SettingsInv, Shapes
  <2>4. SleepPart'
    BY <1>1, SleepFrame DEF SettingsInv
  <2>5. RulesOwned'
    <3>1. RulesOwned
      BY DEF SettingsInv
    <3>2. CASE helperAt = "up" /\ pathOwner' = FALSE /\ pathRules' = (pathRules
              /\ ~pathOwner)
      BY <1>1, <1>3, <3>1, <3>2 DEF RulesOwned
    <3>3. CASE UNCHANGED <<pathOwner, pathRules>>
      BY <1>1, <3>1, <3>3 DEF RulesOwned
    <3>4. QED BY <1>4, <3>2, <3>3
  <2>6. QED BY <1>1, <2>2, <2>3, <2>4, <2>5 DEF SettingsInv, MailSays
<1>6. (Without({"crossed", "cut", "missed", "late"}) => PathPart)'
  <2>1. SUFFICES
          ASSUME Without({"crossed", "cut", "missed", "late"})', helperAt' # "down",
                 pathRules' \/ claimer' \in {"claiming", "enabling"}
          PROVE  \/ config'["path"]
                 \/ \E r \in Settings!Saves :
                       /\ save'[r].at \in {"start", "level", "path"}
                       /\ save'[r].prev["path"]
    BY DEF PathPart
  <2>2. Without({"crossed", "cut", "missed", "late"}) /\ Without({"crossed"})
    BY <1>1, <2>1 DEF Without
  <2>3. ~Settings!TurnedOff(s) /\ UNCHANGED <<pathOwner, pathRules>>
    <3>1. CASE Settings!TurnedOff(s) /\ UNCHANGED <<pathOwner, pathRules>>
      BY <1>1, <1>4, <2>1, <3>1 DEF Without, SettingsInv, RulesOwned
    <3>2. CASE Settings!TurnedOff(s) /\ helperAt = "up" /\ pathOwner' = FALSE
              /\ pathRules' = (pathRules /\ ~pathOwner)
               /\ (claimer \in {"claiming", "enabling"} => "late" \in unmatched')
      BY <1>1, <1>3, <2>1, <3>2 DEF Without, SettingsInv, RulesOwned
    <3>3. QED BY <1>4, <3>1, <3>2
  <2>4. save[s].prev["path"] => config["path"]
    BY <1>1, <1>2, <2>2, <2>3
       DEF SettingsInv, Applied, OneWriter, Settings!Effects, Settings!TurnedOff
  <2>5. QED BY <1>1, <1>2, <2>1, <2>2, <2>3, <2>4 DEF SettingsInv, PathPart
<1>7. Applied'
  <2>1. SUFFICES ASSUME Without({"crossed"})' PROVE Applied'
    BY DEF Applied
  <2>2. Without({"crossed"}) /\ OneWriter /\ MailPart /\ CopyPart
    BY <1>1, <2>1 DEF SettingsInv, Applied, Without
  <2>3. OneWriter'
    BY <1>1, <1>2, <2>2 DEF OneWriter, Settings!Effects, Pend
  <2>4. \A f, v : WillSay(f, v)' <=> WillSay(f, v)
    BY <1>1, <1>2 DEF WillSay
  <2>5. MailPart' /\ CopyPart'
    BY <1>1, <1>2, <2>2, <2>4 DEF MailPart, CopyPart, CallDone, CtlFor
  <2>6. Without({"cut"})' => EntryPart'
    BY <1>1, <1>2, <2>2 DEF SettingsInv, Applied, Without, EntryPart
  <2>7. Without({"cut", "refused"})' => KeyPart'
    BY <1>1, <1>2, <2>2 DEF SettingsInv, Applied, Without, KeyPart, Settings!Effects
  <2>8. Without({"cut", "missed", "guiLevel"})' => GuiLevelPart'
    BY <1>1, <1>2, <2>2 DEF SettingsInv, Applied, Without, GuiLevelPart
  <2>9. Without({"cut", "missed"})' /\ helperAt' # "down" =>
            Answered' /\ LivePart' /\ LiveCopy'
    BY <1>1, <1>2, <2>2, <2>4
       DEF SettingsInv, Applied, Without, Answered, LivePart, LiveCopy, CallDone, CtlFor
  <2>10. QED BY <2>3, <2>5, <2>6, <2>7, <2>8, <2>9 DEF Applied
<1>8. QED BY <1>5, <1>6, <1>7 DEF SettingsInv

(* The hotkey is registered anew, and the save is over. *)
LEMMA HotkeyKeeps ==
    ASSUME SettingsInv, NEW s \in Settings!Saves, Settings!Hotkey(s)
    PROVE  SettingsInv'
<1>1. /\ save[s].at = "key" /\ Settings!Done(s) /\ unmatched \subseteq unmatched'
      /\ UNCHANGED <<platform, config, helperAt, attached, switches, claimer, pathRules,
                     pathOwner, sleepActive, sleepHeld, guiLevel, loginEntry, dialog,
                     copy, saveTimer, call, mail, ctl>>
  BY DEF Settings!Hotkey, Settings!Excuse, Settings!daemon, Settings!sleep, Settings!view
<1>2. /\ save' \in [Settings!Saves -> SaveCall] /\ save'[s].at = "idle"
      /\ \A r \in Settings!Saves \ {s} : save'[r] = save[r]
      /\ save[s].payload \in Settings!Settings /\ save[s].prev \in Settings!Settings
      /\ Pend' = Pend /\ Doomed' = Doomed
      /\ \A r \in Pend : save'[r] = save[r]
  BY <1>1, DoneDoes DEF Settings!Effects
<1>3. \/ hotkey' = hotkey /\ save[s].prev["key"] = save[s].payload["key"]
      \/ hotkey' = save[s].payload["key"]
      \/ hotkey' = hotkey /\ "refused" \in unmatched'
  BY DEF Settings!Hotkey, Settings!Excuse
<1>4. hotkey \in BOOLEAN /\ save[s].payload["key"] \in BOOLEAN
  BY <1>2 DEF SettingsInv, SettingsTypes, Settings!Settings, Settings!Fields
<1>5. SettingsTypes' /\ Shapes' /\ MailSays' /\ SleepPart' /\ RulesOwned'
  <2>1. hotkey' \in BOOLEAN
    BY <1>3, <1>4
  <2>2. SettingsTypes'
    BY <1>1, <1>2, <2>1 DEF SettingsInv, SettingsTypes
  <2>3. Shapes'
    BY <1>1, <1>2 DEF SettingsInv, Shapes
  <2>4. SleepPart'
    <3>1. "killed" \in unmatched => "killed" \in unmatched'
      BY <1>1
    <3>2. QED BY <1>1, <3>1, SleepFrame DEF SettingsInv
  <2>5. QED BY <1>1, <2>2, <2>3, <2>4 DEF SettingsInv, MailSays, RulesOwned
<1>6. (Without({"crossed", "cut", "missed", "late"}) => PathPart)'
  BY <1>1, <1>2, PathFrame DEF SettingsInv
<1>7. Applied'
  <2>1. SUFFICES ASSUME Without({"crossed"})' PROVE Applied'
    BY DEF Applied
  <2>2. Without({"crossed"}) /\ OneWriter /\ MailPart /\ CopyPart
    BY <1>1, <2>1 DEF SettingsInv, Applied, Without
  <2>3. OneWriter'
    BY <1>1, <1>2, <2>2 DEF OneWriter, Settings!Effects, Pend
  <2>4. \A f, v : WillSay(f, v)' <=> WillSay(f, v)
    BY <1>1, <1>2 DEF WillSay
  <2>5. MailPart' /\ CopyPart'
    BY <1>1, <1>2, <2>2, <2>4 DEF MailPart, CopyPart, CallDone, CtlFor
  <2>6. Without({"cut"})' => EntryPart'
    BY <1>1, <1>2, <2>2 DEF SettingsInv, Applied, Without, EntryPart
  <2>7. Without({"cut", "refused"})' => KeyPart'
    <3>1. SUFFICES ASSUME Without({"cut", "refused"})' PROVE KeyPart'
      OBVIOUS
    <3>2. Without({"cut", "refused"})
      BY <1>1, <3>1 DEF Without
    <3>3. hotkey = save[s].prev["key"]
      BY <1>1, <2>2, <3>2 DEF SettingsInv, Applied, KeyPart, Settings!Effects
    <3>4. config = save[s].payload /\ \A r \in Settings!Saves \ {s} :
              save[r].at \notin Settings!Effects
      BY <1>1, <2>2 DEF OneWriter, Settings!Effects
    <3>5. "refused" \notin unmatched'
      BY <3>1 DEF Without
    <3>6. hotkey' = config'["key"]
      BY <1>1, <1>3, <3>3, <3>4, <3>5
    <3>7. QED BY <1>2, <3>4, <3>6 DEF KeyPart, Settings!Effects
  <2>8. Without({"cut", "missed", "guiLevel"})' => GuiLevelPart'
    BY <1>1, <1>2, <2>2 DEF SettingsInv, Applied, Without, GuiLevelPart
  <2>9. Without({"cut", "missed"})' /\ helperAt' # "down" =>
            Answered' /\ LivePart' /\ LiveCopy'
    BY <1>1, <1>2, <2>2, <2>4
       DEF SettingsInv, Applied, Without, Answered, LivePart, LiveCopy, CallDone, CtlFor
  <2>10. QED BY <2>3, <2>5, <2>6, <2>7, <2>8, <2>9 DEF Applied
<1>8. QED BY <1>5, <1>6, <1>7 DEF SettingsInv

(* `ctl set` writes one field. *)
LEMMA CtlWriteKeeps ==
    ASSUME SettingsInv, NEW f \in Settings!Ctl, Settings!CtlWrite(f)
    PROVE  SettingsInv'
<1>1. /\ ctl = Nil /\ config' = [config EXCEPT ![f] = ~config[f]]
      /\ ctl' = [field |-> f, value |-> ~config[f], at |-> "dial"]
      /\ save' = [s \in Settings!Saves |-> IF save[s].at \in {"load", "write"}
                                  THEN [save[s] EXCEPT !.behind = TRUE] ELSE save[s]]
      /\ unmatched' = IF call # Nil \/ \E s \in Settings!Saves :
             save[s].at \in Settings!Effects
                    THEN unmatched \cup {"crossed"} ELSE unmatched
      /\ UNCHANGED <<platform, helperAt, attached, switches, claimer, pathRules,
                     pathOwner, sleepActive, sleepHeld, guiLevel, loginEntry, hotkey,
                     dialog, copy, saveTimer, call, mail>>
  BY DEF Settings!CtlWrite, Settings!Excuse, Settings!daemon, Settings!sleep,
         Settings!desktop, Settings!view
<1>2. config \in Settings!Settings /\ save \in [Settings!Saves -> SaveCall]
          /\ f \in Settings!Fields /\ f \in Settings!Live
  BY DEF SettingsInv, SettingsTypes, Settings!Ctl, Settings!Live, Settings!Fields
<1>3. /\ config' \in Settings!Settings /\ config'[f] = ~config[f] /\ config[f] \in BOOLEAN
      /\ \A g \in Settings!Fields : g # f => config'[g] = config[g]
  BY <1>1, <1>2 DEF Settings!Settings
<1>4. /\ ctl' \in CtlCall /\ ctl'.field = f /\ ctl'.value = config'[f] /\ ctl'.at = "dial"
  BY <1>1, <1>3 DEF CtlCall
<1>5. ctl' # Nil
  BY <1>4, ValuesAssumption DEF CtlCall, Settings!Ctl
<1>6. \A s \in Settings!Saves :
          /\ save'[s] \in SaveCall /\ save'[s].at = save[s].at
                 /\ save'[s].prev = save[s].prev
          /\ save'[s].payload = save[s].payload
          /\ s \in Pend => save'[s].behind = TRUE
  BY <1>1, <1>2 DEF SaveCall, Pend
<1>7. save' \in [Settings!Saves -> SaveCall]
  BY <1>1, <1>6
<1>8. SettingsTypes' /\ Shapes' /\ MailSays' /\ SleepPart' /\ RulesOwned'
  <2>1. SettingsTypes'
    BY <1>1, <1>3, <1>4, <1>7 DEF SettingsInv, SettingsTypes
  <2>2. Shapes'
    BY <1>1, <1>4, <1>6 DEF SettingsInv, Shapes
  <2>3. SleepPart'
    BY <1>1, SleepFrame DEF SettingsInv
  <2>4. QED BY <1>1, <2>1, <2>2, <2>3 DEF SettingsInv, MailSays, RulesOwned
<1>9. (Without({"crossed", "cut", "missed", "late"}) => PathPart)'
  <2>1. config'["path"] = config["path"]
    BY <1>3 DEF Settings!Ctl, Settings!Fields
  <2>2. unmatched \subseteq unmatched'
    BY <1>1
  <2>3. QED BY <1>1, <1>6, <2>1, <2>2 DEF SettingsInv, Without, PathPart
<1>10. Applied'
  <2>1. SUFFICES ASSUME Without({"crossed"})' PROVE Applied'
    BY DEF Applied
  <2>2. /\ Without({"crossed"}) /\ unmatched' = unmatched /\ call = Nil
        /\ \A s \in Settings!Saves : save[s].at \notin Settings!Effects
    BY <1>1, <2>1 DEF Without
  <2>3. Pend' = Pend /\ \A s \in Pend : s \in Settings!Saves /\ save'[s].behind = TRUE
    BY <1>6 DEF Pend
  <2>4. \A g : CallDone(g)' <=> CallDone(g)
    BY <1>1 DEF CallDone
  <2>5. CtlFor(f)' /\ \A g : ~CtlFor(g)
    BY <1>1, <1>4, <1>5 DEF CtlFor
  <2>6. ~Doomed' => /\ Pend = {} /\ ~Doomed
                    /\ \A g \in Settings!Fields : \A v : g # f =>
                           (WillSay(g, v)' <=> WillSay(g, v))
    <3>1. SUFFICES ASSUME ~Doomed'
                   PROVE  /\ Pend = {} /\ ~Doomed
                          /\ \A g \in Settings!Fields : \A v : g # f =>
                                 (WillSay(g, v)' <=> WillSay(g, v))
      OBVIOUS
    <3>2. Pend = {}
      BY <2>3, <3>1 DEF Doomed
    <3>3. QED BY <1>3, <2>3, <3>2 DEF Doomed, WillSay, Settings!Saves
  <2>7. OneWriter'
    <3>1. \A s \in Settings!Saves : save'[s].at \notin Settings!Effects
      BY <1>6, <2>2
    <3>2. \A s \in Settings!Saves : save'[s].at = "write" => save'[s].behind = TRUE
      BY <1>6 DEF Pend
    <3>3. QED BY <1>1, <1>4, <2>2, <2>3, <3>1, <3>2 DEF OneWriter
  <2>8. MailPart' /\ CopyPart'
    <3>1. MailPart /\ CopyPart
      BY <2>2 DEF SettingsInv, Applied
    <3>2. MailPart'
      BY <1>1, <2>4, <2>5, <2>6, <3>1 DEF MailPart, Settings!Fields
    <3>3. CopyPart'
      BY <1>1, <1>2, <2>4, <2>5, <2>6, <3>1 DEF CopyPart, Settings!Fields
    <3>4. QED BY <3>2, <3>3
  <2>9. Without({"cut"})' => EntryPart'
    <3>1. config'["start"] = config["start"]
      BY <1>3 DEF Settings!Ctl, Settings!Fields
    <3>2. QED BY <1>1, <1>6, <2>2, <3>1 DEF SettingsInv, Applied, Without, EntryPart
  <2>10. Without({"cut", "refused"})' => KeyPart'
    <3>1. config'["key"] = config["key"]
      BY <1>3 DEF Settings!Ctl, Settings!Fields
    <3>2. QED BY <1>1, <1>6, <2>2, <3>1 DEF SettingsInv, Applied, Without, KeyPart
  <2>11. Without({"cut", "missed", "guiLevel"})' => GuiLevelPart'
    <3>1. SUFFICES ASSUME Without({"cut", "missed", "guiLevel"}), f # "level"
                   PROVE  GuiLevelPart'
      BY <1>4, <1>5, <2>2 DEF GuiLevelPart, Without
    <3>2. GuiLevelPart /\ config'["level"] = config["level"]
      BY <1>3, <2>2, <3>1 DEF SettingsInv, Applied, Settings!Fields, Settings!Live
    <3>3. QED BY <1>1, <1>6, <3>2 DEF GuiLevelPart
  <2>12. Without({"cut", "missed"})' /\ helperAt' # "down" =>
             Answered' /\ LivePart' /\ LiveCopy'
    <3>1. SUFFICES ASSUME Without({"cut", "missed"}), helperAt # "down"
                   PROVE  Answered' /\ LivePart' /\ LiveCopy'
      BY <1>1, <2>2 DEF Without
    <3>2. Answered /\ LivePart /\ LiveCopy
      BY <2>2, <3>1 DEF SettingsInv, Applied
    <3>3. Answered' /\ LiveCopy'
      BY <1>1, <2>2, <2>4, <2>5, <3>2 DEF Answered, LiveCopy
    <3>4. LivePart'
      BY <1>1, <2>4, <2>5, <2>6, <3>2 DEF LivePart, Settings!Fields
    <3>5. QED BY <3>3, <3>4
  <2>13. QED BY <2>7, <2>8, <2>9, <2>10, <2>11, <2>12 DEF Applied
<1>11. QED BY <1>8, <1>9, <1>10 DEF SettingsInv

(* It looks for the helper. *)
LEMMA CtlDialKeeps ==
    ASSUME SettingsInv, Settings!CtlDial
    PROVE  SettingsInv'
<1>1. /\ ctl # Nil /\ ctl.at = "dial" /\ unmatched \subseteq unmatched'
      /\ UNCHANGED <<platform, config, helperAt, attached, switches, claimer, pathRules,
                     pathOwner, sleepActive, sleepHeld, guiLevel, loginEntry, hotkey,
                     dialog, copy, saveTimer, call, mail, save>>
  BY DEF Settings!CtlDial, Settings!Excuse, Settings!daemon, Settings!sleep,
         Settings!desktop, Settings!view
<1>2. /\ SleepPart' /\ RulesOwned'
      /\ (Without({"crossed", "cut", "missed", "late"}) => PathPart)'
  BY <1>1, DialogFrame
<1>3. ctl \in CtlCall
  BY <1>1 DEF SettingsInv, SettingsTypes
<1>4. CASE helperAt = "down"
  <2>1. ctl' = Nil /\ {"unseen", "guiLevel"} \subseteq unmatched'
    BY <1>4 DEF Settings!CtlDial
  <2>2. SettingsTypes' /\ Shapes' /\ MailSays'
    BY <1>1, <2>1 DEF SettingsInv, SettingsTypes, Shapes, MailSays
  <2>3. Applied'
    <3>1. SUFFICES ASSUME Without({"crossed"})' PROVE Applied'
      BY DEF Applied
    <3>2. Without({"crossed"})
      BY <1>1, <3>1 DEF Without
    <3>3. OneWriter'
      BY <1>1, <2>1, <3>2 DEF SettingsInv, Applied, OneWriter, Pend
    <3>4. MailPart'
      <4>1. SUFFICES ASSUME ~Doomed', NEW f \in Settings!Live
                     PROVE  \E v \in BOOLEAN : Tells(mail', f, v) /\ WillSay(f, v)'
        BY DEF MailPart
      <4>2. mail' = <<>> /\ f \in Settings!Fields /\ ~Doomed
        BY <1>1, <1>4, <4>1 DEF SettingsInv, Shapes, Settings!Fields, Doomed, Pend
      <4>3. PICK v \in BOOLEAN : WillSay(f, v)
        BY <4>2, WillBe
      <4>4. QED BY <1>1, <4>2, <4>3, MailEmpty DEF WillSay, Pend
    <3>5. CopyPart'
      BY <2>1 DEF CopyPart
    <3>6. /\ Without({"cut"})' => EntryPart'
          /\ Without({"cut", "refused"})' => KeyPart'
      BY <1>1, <3>2 DEF SettingsInv, Applied, Without, EntryPart, KeyPart
    <3>7. ~Without({"cut", "missed", "guiLevel"})'
      BY <2>1 DEF Without
    <3>8. QED BY <1>1, <1>4, <3>3, <3>4, <3>5, <3>6, <3>7 DEF Applied
  <2>4. QED BY <1>2, <2>2, <2>3 DEF SettingsInv
<1>5. CASE helperAt # "down"
  <2>1. /\ ctl' = [ctl EXCEPT !.at = "call"]
        /\ ctl.field = "level" => "guiLevel" \in unmatched'
        /\ "unseen" \in unmatched' <=> "unseen" \in unmatched
    BY <1>5 DEF Settings!CtlDial, Settings!Excuse
  <2>2. /\ ctl' \in CtlCall /\ ctl'.field = ctl.field /\ ctl'.value = ctl.value
        /\ ctl'.at = "call"
    BY <1>3, <2>1 DEF CtlCall
  <2>3. ctl' # Nil
    BY <2>2, ValuesAssumption DEF CtlCall, Settings!Ctl
  <2>4. SettingsTypes' /\ Shapes' /\ MailSays'
    BY <1>1, <1>5, <2>2 DEF SettingsInv, SettingsTypes, Shapes, MailSays
  <2>5. \A g : CtlFor(g)' <=> CtlFor(g)
    BY <1>1, <2>2, <2>3 DEF CtlFor
  <2>6. Applied'
    <3>1. SUFFICES ASSUME Without({"crossed"})' PROVE Applied'
      BY DEF Applied
    <3>2. Without({"crossed"}) /\ OneWriter /\ MailPart /\ CopyPart
      BY <1>1, <3>1 DEF SettingsInv, Applied, Without
    <3>3. OneWriter'
      BY <1>1, <2>2, <2>3, <3>2 DEF OneWriter, Pend
    <3>4. MailPart' /\ CopyPart'
      BY <1>1, <2>1, <2>5, <3>2 DEF MailPart, CopyPart, Pend, Doomed, WillSay, CallDone
    <3>5. /\ Without({"cut"})' => EntryPart'
          /\ Without({"cut", "refused"})' => KeyPart'
      BY <1>1, <3>2 DEF SettingsInv, Applied, Without, EntryPart, KeyPart
    <3>6. Without({"cut", "missed", "guiLevel"})' => GuiLevelPart'
      BY <1>1, <2>1, <3>2 DEF SettingsInv, Applied, Without, GuiLevelPart
    <3>7. Without({"cut", "missed"})' /\ helperAt' # "down" =>
              Answered' /\ LivePart' /\ LiveCopy'
      BY <1>1, <2>1, <2>5, <3>2
         DEF SettingsInv, Applied, Without, Answered, LivePart, LiveCopy, Pend, Doomed,
             WillSay, CallDone
    <3>8. QED BY <3>3, <3>4, <3>5, <3>6, <3>7 DEF Applied
  <2>7. QED BY <1>2, <2>4, <2>6 DEF SettingsInv
<1>6. QED BY <1>4, <1>5

(* The helper takes it. *)
LEMMA CtlAppliedKeeps ==
    ASSUME SettingsInv, Settings!CtlApplied
    PROVE  SettingsInv'
<1>1. /\ ctl # Nil /\ ctl.at = "call" /\ helperAt = "up" /\ ctl' = Nil
      /\ UNCHANGED <<platform, config, helperAt, attached, claimer, pathRules, pathOwner,
                     guiLevel, loginEntry, hotkey, dialog, copy, saveTimer, call, save>>
  BY DEF Settings!CtlApplied, Settings!desktop, Settings!view
<1>2. PICK f \in Settings!Live, v \in BOOLEAN : ctl.field = f /\ ctl.value = v
  BY <1>1 DEF SettingsInv, SettingsTypes, CtlCall, Settings!Ctl, Settings!Live
<1>3. /\ Settings!Apply(f, v)
      /\ unmatched' = IF Settings!Unheard(f, v) THEN unmatched \cup {"unseen"}
             ELSE unmatched
  BY <1>2 DEF Settings!CtlApplied, Settings!Excuse
<1>4. /\ switches' \in [Settings!Live -> BOOLEAN] /\ switches'[f] = v
      /\ \A g \in Settings!Live \ {f} : switches'[g] = switches[g]
      /\ mail' \in Seq(Message) /\ (~attached => mail' = <<>>)
      /\ \A g \in Settings!Live \ {f} : Unmentioned(mail', g) <=> Unmentioned(mail, g)
      /\ \A g \in Settings!Live \ {f}, w \in BOOLEAN : Tells(mail', g, w) <=>
             Tells(mail, g, w)
      /\ Unmentioned(mail', f) => ~attached \/ Settings!Silent(f, v)
      /\ MailSays' /\ SleepPart' /\ sleepActive' \in BOOLEAN
  BY <1>1, <1>2, <1>3, ApplyDoes
<1>5. SettingsTypes' /\ Shapes' /\ RulesOwned'
  <2>1. SettingsTypes'
    BY <1>1, <1>4 DEF SettingsInv, SettingsTypes
  <2>2. Shapes'
    BY <1>1, <1>4 DEF SettingsInv, Shapes
  <2>3. QED BY <1>1, <2>1, <2>2 DEF SettingsInv, RulesOwned
<1>6. unmatched \subseteq unmatched'
  BY <1>3
<1>7. (Without({"crossed", "cut", "missed", "late"}) => PathPart)'
  BY <1>1, <1>6, PathFrame DEF SettingsInv
<1>8. Applied'
  <2>1. SUFFICES ASSUME Without({"crossed"})' PROVE Applied'
    BY DEF Applied
  <2>2. Without({"crossed"}) /\ OneWriter /\ MailPart /\ CopyPart
    BY <1>6, <2>1 DEF SettingsInv, Applied, Without
  <2>3. OneWriter'
    BY <1>1, <2>2 DEF OneWriter, Pend
  <2>4. call = Nil /\ \A g : ~CallDone(g) /\ ~CallDone(g)'
    BY <1>1, <2>2 DEF OneWriter, CallDone
  <2>5. \A g : ~CtlFor(g)' /\ (CtlFor(g) => g = f)
    BY <1>1, <1>2 DEF CtlFor
  <2>6. Doomed' = Doomed /\ \A g, w : WillSay(g, w)' <=> WillSay(g, w)
    BY <1>1 DEF Doomed, WillSay, Pend
  <2>7. ~Doomed => WillSay(f, v)
    BY <1>1, <1>2, <2>2 DEF OneWriter, Doomed, WillSay
  <2>8. Tells(mail', f, v)
    BY <1>4 DEF MailSays
  <2>9. MailPart'
    <3>1. SUFFICES ASSUME ~Doomed, ~saveTimer, NEW g \in Settings!Live
                   PROVE  \E w \in BOOLEAN : Tells(mail', g, w) /\ WillSay(g, w)
      BY <1>1, <2>6 DEF MailPart
    <3>2. CASE g = f
      BY <1>2, <2>7, <2>8, <3>1, <3>2
    <3>3. CASE g # f
      BY <1>4, <2>2, <2>4, <2>5, <3>1, <3>3 DEF MailPart
    <3>4. QED BY <3>2, <3>3
  <2>10. "unseen" \notin unmatched' /\ Unmentioned(mail', f) => copy[f] = v
    BY <1>3, <1>4 DEF Settings!Unheard
  <2>11. CopyPart'
    <3>1. SUFFICES ASSUME ~Doomed, ~saveTimer, dialog, "unseen" \notin unmatched'
              PROVE CopyPart'
      BY <1>1, <2>6 DEF CopyPart
    <3>2. "unseen" \notin unmatched
      BY <1>6, <3>1
    <3>3. ASSUME NEW g \in Settings!Live, Unmentioned(mail', g) PROVE WillSay(g, copy[g])
      <4>1. CASE g = f
        BY <2>7, <2>10, <3>1, <3>3, <4>1
      <4>2. CASE g # f
        BY <1>4, <2>2, <2>4, <2>5, <3>1, <3>2, <3>3, <4>2 DEF CopyPart
      <4>3. QED BY <4>1, <4>2
    <3>4. QED BY <1>1, <2>2, <2>6, <3>1, <3>2, <3>3 DEF CopyPart
  <2>12. /\ Without({"cut"})' => EntryPart'
         /\ Without({"cut", "refused"})' => KeyPart'
         /\ Without({"cut", "missed", "guiLevel"})' => GuiLevelPart'
    BY <1>1, <1>6, <2>2
       DEF SettingsInv, Applied, Without, EntryPart, KeyPart, GuiLevelPart
  <2>13. ASSUME Without({"cut", "missed"})' PROVE Answered' /\ LivePart' /\ LiveCopy'
    <3>1. LivePart /\ LiveCopy
      BY <1>1, <1>6, <2>2, <2>13 DEF SettingsInv, Applied, Without
    <3>2. Answered'
      BY <2>4 DEF Answered
    <3>3. LivePart'
      BY <1>1, <1>4, <2>4, <2>5, <2>6, <2>7, <3>1 DEF LivePart
    <3>4. LiveCopy'
      <4>1. SUFFICES ASSUME dialog, "unseen" \notin unmatched', NEW g \in Settings!Live,
                            Unmentioned(mail', g)
                     PROVE  copy[g] = switches'[g]
        BY <1>1 DEF LiveCopy
      <4>2. "unseen" \notin unmatched
        BY <1>6, <4>1
      <4>3. CASE g = f
        BY <1>4, <2>10, <4>1, <4>3
      <4>4. CASE g # f
        BY <1>4, <2>4, <2>5, <3>1, <4>1, <4>2, <4>4 DEF LiveCopy
      <4>5. QED BY <4>3, <4>4
    <3>5. QED BY <3>2, <3>3, <3>4
  <2>14. QED BY <2>3, <2>9, <2>11, <2>12, <2>13 DEF Applied
<1>9. QED BY <1>4, <1>5, <1>7, <1>8 DEF SettingsInv

(* A fresh start is in force. *)
LEMMA SettingsInitially == ASSUME UserInit PROVE SettingsInv
<1>1. PICK on \in BOOLEAN :
          /\ platform \in {"windows", "unix"}
          /\ config = [f \in Settings!Fields |-> on] /\ copy = config
          /\ helperAt = "up" /\ attached = TRUE /\ switches = [f \in Settings!Live |-> on]
          /\ claimer = "down" /\ pathRules = FALSE /\ pathOwner = FALSE
          /\ sleepActive = FALSE /\ sleepHeld = {}
          /\ guiLevel = on /\ loginEntry = on /\ hotkey = on
          /\ dialog = FALSE /\ saveTimer = FALSE /\ call = Nil /\ mail = <<>>
          /\ save = [s \in Settings!Saves |-> Settings!Idle] /\ ctl = Nil
                 /\ unmatched = {}
  BY DEF UserInit, Settings!Init
<1>2. Settings!Idle \in SaveCall /\ Settings!Idle.at = "idle"
  BY DEF Settings!Idle, SaveCall, SaveStages
<1>3. config \in Settings!Settings /\ switches \in [Settings!Live -> BOOLEAN]
          /\ \A f \in Settings!Live : config[f] = switches[f]
  BY <1>1 DEF Settings!Settings, Settings!Fields
<1>4. SettingsTypes
  <2>1. save \in [Settings!Saves -> SaveCall] /\ mail \in Seq(Message)
    BY <1>1, <1>2
  <2>2. QED BY <1>1, <1>3, <2>1 DEF SettingsTypes
<1>5. \A s \in Settings!Saves : save[s].at = "idle"
  BY <1>1, <1>2
<1>6. Pend = {} /\ ~Doomed
  BY <1>5 DEF Pend, Doomed, Settings!Saves
<1>7. Shapes /\ SleepPart /\ RulesOwned /\ PathPart
  BY <1>1, <1>5 DEF Shapes, SleepPart, RulesOwned, PathPart
<1>8. MailSays
  BY <1>1, MailEmpty DEF MailSays
<1>9. Applied
  <2>1. OneWriter /\ EntryPart /\ KeyPart /\ GuiLevelPart
    BY <1>1, <1>5, <1>6
       DEF OneWriter, EntryPart, KeyPart, GuiLevelPart, Settings!Effects, Settings!Fields,
           Settings!Live
  <2>2. MailPart
    BY <1>1, <1>3, <1>6, MailEmpty DEF MailPart, WillSay
  <2>3. CopyPart /\ LiveCopy
    BY <1>1 DEF CopyPart, LiveCopy
  <2>4. Answered /\ LivePart
    BY <1>1, <1>3, <1>6 DEF Answered, CallDone, LivePart, WillSay
  <2>5. QED BY <2>1, <2>2, <2>3, <2>4 DEF Applied
<1>10. QED BY <1>4, <1>7, <1>8, <1>9 DEF SettingsInv

(* No step, of this part or of another, breaks the invariant of the settings. *)
LEMMA SettingsKept == ASSUME SettingsInv, [UserNext]_all PROVE SettingsInv'
<1>1. CASE UNCHANGED svars
  BY <1>1
     DEF svars, SettingsInv, SettingsTypes, Shapes, SleepPart, MailSays, RulesOwned,
         PathPart, Applied, Without, OneWriter, MailPart, CopyPart, EntryPart, KeyPart,
         GuiLevelPart, Answered, LivePart, LiveCopy, Pend, Doomed, WillSay, CallDone,
         CtlFor
<1>2. CASE Settings!SleepTick \/ Settings!ChildKilled \/ Settings!HelperServes
          \/ Settings!ClientSwapped \/ Settings!Connect \/ Settings!ConnectStep
           \/ Settings!Disconnect
  BY <1>2, HelperAlone
<1>3. CASE Settings!HelperStarts \/ Settings!HelperDies
  BY <1>3, HelperStartsKeeps, HelperDiesKeeps
<1>4. CASE Settings!OpenDialog \/ Settings!CloseDialog \/ Settings!TimerFires
          \/ Settings!MailArrives \/ Settings!HandleToggle
           \/ Settings!ToggleAnswered \/ Settings!SaveListPrefs
  BY <1>4, OpenDialogKeeps, CloseDialogKeeps, TimerFiresKeeps, MailArrivesKeeps,
     HandleToggleKeeps, ToggleAnsweredKeeps, SaveListPrefsKeeps
<1>5. CASE \/ \E f \in Settings!Live : Settings!ToggleLive(f)
           \/ \E f \in Settings!Fields \ Settings!Live : Settings!ToggleSaved(f)
           \/ \E f \in Settings!Ctl : Settings!CtlWrite(f)
  BY <1>5, ToggleLiveKeeps, ToggleSavedKeeps, CtlWriteKeeps
<1>6. CASE \E s \in Settings!Saves :
          Settings!LoadPrev(s) \/ Settings!Write(s) \/ Settings!Autostart(s)
              \/ Settings!PushLevel(s) \/ Settings!ClearPath(s) \/ Settings!Hotkey(s)
  BY <1>6, LoadPrevKeeps, WriteKeeps, AutostartKeeps, PushLevelKeeps, ClearPathKeeps,
     HotkeyKeeps
<1>7. CASE Settings!CtlDial \/ Settings!CtlApplied
  BY <1>7, CtlDialKeeps, CtlAppliedKeeps
<1>8. QED BY <1>1, <1>2, <1>3, <1>4, <1>5, <1>6, <1>7
        DEF UserNext, userVars, all, Settings!Next

(* The invariant says what the run checks. *)
LEMMA SettingsSay == ASSUME SettingsInv PROVE SettingsInForce
<1>1. SUFFICES ASSUME Settings!Quiet PROVE SettingsInForce
  BY DEF SettingsInForce, Settings!SettingsInForce
<1>2. /\ helperAt = "up" /\ attached /\ call = Nil /\ ~saveTimer /\ mail = <<>>
             /\ ctl = Nil
      /\ claimer \in {"down", "up"}
      /\ \A s \in Settings!Saves : save[s].at = "idle"
  BY <1>1 DEF Settings!Quiet, Settings!Reachable
<1>3. Pend = {} /\ ~Doomed
  BY <1>2 DEF Pend, Doomed, Settings!Saves
<1>4. \A S : Settings!Excused(S) \/ Without(S)
  BY DEF Settings!Excused, Without
<1>5. \A f, v : WillSay(f, v) <=> config[f] = v
  BY <1>3 DEF WillSay
<1>6. \A f : ~CallDone(f) /\ ~CtlFor(f)
  BY <1>2 DEF CallDone, CtlFor
<1>7. Applied
  BY DEF SettingsInv
<1>8. Settings!Excused({"crossed", "missed", "cut"}) \/ \A f \in Settings!Live :
          switches[f] = config[f]
  <2>1. SUFFICES ASSUME Without({"crossed", "missed", "cut"})
            PROVE \A f \in Settings!Live : switches[f] = config[f]
    BY <1>4
  <2>2. LivePart
    <3>1. Without({"crossed"}) /\ Without({"cut", "missed"})
      BY <2>1 DEF Without
    <3>2. QED BY <1>2, <1>7, <3>1 DEF Applied
  <2>3. QED BY <1>2, <1>3, <1>5, <1>6, <2>2 DEF LivePart
<1>9. ~dialog \/ Settings!Excused({"crossed", "unseen"}) \/ copy = config
  <2>1. SUFFICES ASSUME dialog, Without({"crossed", "unseen"}) PROVE copy = config
    BY <1>4
  <2>2. CopyPart /\ "unseen" \notin unmatched
    <3>1. Without({"crossed"}) /\ "unseen" \notin unmatched
      BY <2>1 DEF Without
    <3>2. QED BY <1>7, <3>1 DEF Applied
  <2>3. \A f \in Settings!Live : Unmentioned(mail, f)
    BY <1>2, MailEmpty
  <2>4. \A f \in Settings!Fields : config[f] = copy[f]
    BY <1>2, <1>3, <1>5, <1>6, <2>1, <2>2, <2>3 DEF CopyPart
  <2>5. QED BY <2>4 DEF SettingsInv, SettingsTypes, Settings!Settings
<1>10. Settings!Excused({"crossed", "cut", "missed", "guiLevel"})
           \/ guiLevel = config["level"]
  <2>1. SUFFICES ASSUME Without({"crossed", "cut", "missed", "guiLevel"})
                 PROVE  guiLevel = config["level"]
    BY <1>4
  <2>2. GuiLevelPart
    <3>1. Without({"crossed"}) /\ Without({"cut", "missed", "guiLevel"})
      BY <2>1 DEF Without
    <3>2. QED BY <1>7, <3>1 DEF Applied
  <2>3. QED BY <1>2, <2>2 DEF GuiLevelPart
<1>11. Settings!Excused({"crossed", "cut"}) \/ loginEntry = config["start"]
  <2>1. SUFFICES ASSUME Without({"crossed", "cut"}) PROVE loginEntry = config["start"]
    BY <1>4
  <2>2. EntryPart
    <3>1. Without({"crossed"}) /\ Without({"cut"})
      BY <2>1 DEF Without
    <3>2. QED BY <1>7, <3>1 DEF Applied
  <2>3. QED BY <1>2, <2>2 DEF EntryPart
<1>12. Settings!Excused({"crossed", "cut", "refused"}) \/ hotkey = config["key"]
  <2>1. SUFFICES ASSUME Without({"crossed", "cut", "refused"})
            PROVE hotkey = config["key"]
    BY <1>4
  <2>2. KeyPart
    <3>1. Without({"crossed"}) /\ Without({"cut", "refused"})
      BY <2>1 DEF Without
    <3>2. QED BY <1>7, <3>1 DEF Applied
  <2>3. QED BY <1>2, <2>2 DEF KeyPart, Settings!Effects
<1>13. Settings!Excused({"crossed", "cut", "missed", "late"}) \/ (pathRules =>
           config["path"])
  <2>1. SUFFICES ASSUME Without({"crossed", "cut", "missed", "late"}), pathRules
            PROVE config["path"]
    BY <1>4
  <2>2. QED BY <1>2, <2>1 DEF SettingsInv, PathPart
<1>14. /\ sleepActive /\ ~Settings!Excused({"killed"}) => sleepHeld # {}
       /\ ~sleepActive /\ platform = "unix" => sleepHeld = {}
  BY <1>4 DEF SettingsInv, SleepPart, Without
<1>15. QED
  BY <1>8, <1>9, <1>10, <1>11, <1>12, <1>13, <1>14
     DEF SettingsInForce, Settings!SettingsInForce

(* When everything has come to rest, what is in force is what the settings     *)
(* file says, and so does an open dialog: the helper's switches after any      *)
(* number of restarts, both log levels, the login entry, the hotkey, no DNS    *)
(* path rules with the master switch off, and the machine kept awake exactly   *)
(* while the setting and a tunnel ask for it.  Except after the writers,       *)
(* restarts and refusals the property names.                                   *)
(* (app/settings_ops.go SaveSettings, helper.go)                               *)
THEOREM SettingsComeIntoForce == UserSpec => []SettingsInForce
<1>1. UserInit => SettingsInv
  BY SettingsInitially
<1>2. SettingsInv /\ [UserNext]_all => SettingsInv'
  BY SettingsKept
<1>3. SettingsInv => SettingsInForce
  BY SettingsSay
<1>4. QED BY <1>1, <1>2, <1>3, PTL DEF UserSpec, all

-----------------------------------------------------------------------------
(* The tunnels' files. *)
FoldOf(n) == IF n = Home THEN home ELSE n
FileIds == {stored, imported, old1, old2}
FileCalls ==
    {"Save", "Write", "Stamp", "UpdateMeta", "MustExist", "NotUp", "TakeDown", "RemoveConf",
     "RemoveMeta", "DropRules", "Rename", "LocalRename", "RenameConf", "RenameMeta", "Unlock",
     "MoveRules", "SaveSettings", "SaveMeta", "ReplaceRaw", "Copy", "RemoveSource", "Mark",
     "Connect"}
FileStep ==
    [op : FileCalls, n : FileNames \cup {Nil},
     m : FileNames \cup {Nil, "fresh"} \cup BOOLEAN \cup [FileNames -> FileIds \cup {Nil}],
     k : FileIds \cup {Nil}, seen : (SUBSET (FileNames \X FileIds)) \cup {Nil}]

(* The steps that the calls under way have left. *)
Left == UNION {{ftodo[t][i] : i \in 1..Len(ftodo[t])} : t \in Files!Threads}

OldName(n) == CASE n = Home -> old1 [] n = work -> old2 [] OTHER -> Nil

(* What a step brings along. *)
Sound(s) ==
    /\ s.op \notin {"Unlock", "Mark", "SaveSettings"} => s.n \in FileNames
    /\ s.op \in {"Rename", "LocalRename", "RenameConf", "RenameMeta", "MoveRules"} =>
          s.m \in FileNames
    /\ s.op \in {"Save", "Write", "Connect", "RemoveConf", "Copy", "RemoveSource"} =>
          s.k \in FileIds
    /\ s.op = "Write" =>
          s.seen \in SUBSET (FileNames \X FileIds) /\ \A p \in s.seen : p[1] = s.n
    /\ s.op \in {"Copy", "RemoveSource"} => s.k = OldName(s.n)
    /\ s.op = "SaveSettings" => s.m \in [FileNames -> FileIds \cup {Nil}]

FileTypes ==
    /\ foldsCase \in BOOLEAN
    /\ conf \in [FileNames -> FileIds \cup {Nil}]
    /\ policies \in [FileNames -> FileIds \cup {Nil}]
    /\ legacy \in [FileNames -> FileIds \cup {Nil}]
    /\ \A n \in FileNames : legacy[n] \in {OldName(n), Nil}
    /\ conns \subseteq FileNames \X FileIds
    /\ ftodo \in [Files!Threads -> Seq(FileStep)]
    /\ owed \subseteq FileIds

OneEntry ==
    foldsCase => \A m, n \in FileNames :
        conf[m] # Nil /\ conf[n] # Nil /\ FoldOf(m) = FoldOf(n) => m = n

OnDisk(k) == \E n \in FileNames : conf[n] = k
Sources == \A s \in Left : s.op = "RemoveSource" /\ s.k \in owed => OnDisk(s.k)

FilesInv ==
    /\ FileTypes /\ OneEntry
    /\ \A s \in Left : Sound(s)
    /\ crossed \/ (KeysKept /\ Sources)

(* A step that takes nothing owed from the disk, and owes nothing that is not there. *)
Spares ==
    \A k \in owed' : IF k \in owed THEN OnDisk(k) => OnDisk(k)' ELSE OnDisk(k)'

(* Names that differ in case only fold to one. *)
LEMMA FileNamesFold ==
    \A n \in FileNames :
        [m \in FileNames |-> IF m = Home THEN home ELSE m][n] = FoldOf(n)
BY DEF FoldOf

(* The entries that a path finds, as a set of names. *)
LEMMA Lookup ==
    ASSUME NEW f, NEW n \in FileNames
    PROVE  Files!Entries(f, n) =
               {m \in FileNames :
                   f[m] # Nil /\ (m = n \/ (foldsCase /\ FoldOf(m) = FoldOf(n)))}
BY FileNamesFold DEF Files!Entries

(* With one entry for a name the path resolves to it or to nothing. *)
LEMMA Resolves ==
    ASSUME FileTypes, OneEntry, NEW n \in FileNames
    PROVE  \/ Files!Entries(conf, n) = {} /\ Files!Content(conf, n) = Nil /\ conf[n] = Nil
           \/ \E e \in FileNames :
                 /\ Files!Entries(conf, n) = {e} /\ Files!Content(conf, n) = conf[e]
                 /\ conf[e] \in FileIds /\ FoldOf(e) = FoldOf(n) /\ (e # n => foldsCase)
<1>1. CASE Files!Entries(conf, n) = {}
  <2>1. conf[n] = Nil
    BY <1>1, Lookup
  <2>2. QED BY <1>1, <2>1 DEF Files!Content
<1>2. CASE Files!Entries(conf, n) # {}
  <2>1. PICK e \in Files!Entries(conf, n) : e = CHOOSE m \in Files!Entries(conf, n) : TRUE
    BY <1>2
  <2>2. /\ e \in FileNames /\ conf[e] # Nil /\ FoldOf(e) = FoldOf(n) /\ (e # n => foldsCase)
    BY <2>1, Lookup
  <2>3. \A m \in Files!Entries(conf, n) : m = e
    BY <2>2, Lookup DEF OneEntry
  <2>4. Files!Entries(conf, n) = {e}
    BY <2>1, <2>3
  <2>5. Files!Content(conf, n) = conf[e]
    BY <1>2, <2>1 DEF Files!Content
  <2>6. conf[e] \in FileIds
    BY <2>2 DEF FileTypes
  <2>7. QED BY <2>2, <2>4, <2>5, <2>6
<1>3. QED BY <1>1, <1>2

(* What is written under a name takes the place of what the name resolves to. *)
LEMMA PutKeeps ==
    ASSUME FileTypes, OneEntry, NEW n \in FileNames, NEW k \in FileIds,
           conf' = Files!Put(conf, n, k), UNCHANGED foldsCase
    PROVE  /\ conf' \in [FileNames -> FileIds \cup {Nil}] /\ OneEntry'
           /\ conf'[n] = k
           /\ \A m \in FileNames :
                 m # n /\ m \notin Files!Entries(conf, n) => conf'[m] = conf[m]
<1>1. conf' = [m \in FileNames |-> IF m = n THEN k
                                   ELSE IF m \in Files!Entries(conf, n) THEN Nil ELSE conf[m]]
  BY DEF Files!Put, Files!Without
<1>2. conf' \in [FileNames -> FileIds \cup {Nil}]
  BY <1>1 DEF FileTypes
<1>3. OneEntry'
  <2>1. SUFFICES ASSUME foldsCase, NEW l \in FileNames, NEW m \in FileNames,
                        conf'[l] # Nil, conf'[m] # Nil, FoldOf(l) = FoldOf(m)
                 PROVE  l = m
    BY DEF OneEntry
  <2>2. ASSUME NEW d \in FileNames, conf'[d] # Nil, d # n
        PROVE  conf[d] # Nil /\ FoldOf(d) # FoldOf(n)
    BY <1>1, <2>1, <2>2, Lookup
  <2>3. QED BY <2>1, <2>2 DEF OneEntry
<1>4. QED BY <1>1, <1>2, <1>3

(* What is removed leaves the other entries as they are. *)
LEMMA WithoutKeeps ==
    ASSUME FileTypes, OneEntry, NEW n \in FileNames,
           conf' = Files!Without(conf, n), UNCHANGED foldsCase
    PROVE  /\ conf' \in [FileNames -> FileIds \cup {Nil}] /\ OneEntry'
           /\ \A m \in FileNames : m \notin Files!Entries(conf, n) => conf'[m] = conf[m]
<1>1. conf' = [m \in FileNames |-> IF m \in Files!Entries(conf, n) THEN Nil ELSE conf[m]]
  BY DEF Files!Without
<1>2. conf' \in [FileNames -> FileIds \cup {Nil}]
  BY <1>1 DEF FileTypes
<1>3. \A m \in FileNames : conf'[m] # Nil => conf[m] # Nil
  BY <1>1
<1>4. OneEntry'
  BY <1>3 DEF OneEntry
<1>5. QED BY <1>1, <1>2, <1>4

(* A tunnel that is renamed, from whatever its name resolves to, over nothing but
   itself. *)
LEMMA MovedKeeps ==
    ASSUME FileTypes, OneEntry, NEW n \in FileNames, NEW m \in FileNames,
           Files!Entries(conf, n) # {},
           conf' = Files!Moved(conf, n, m), UNCHANGED foldsCase
    PROVE  /\ conf' \in [FileNames -> FileIds \cup {Nil}] /\ OneEntry'
           /\ Files!Entries(conf, m) \subseteq Files!Entries(conf, n) =>
                 \A k \in FileIds : OnDisk(k) => OnDisk(k)'
<1>1. PICK e \in FileNames :
         /\ Files!Entries(conf, n) = {e} /\ Files!Content(conf, n) = conf[e]
         /\ conf[e] \in FileIds
  BY Resolves
<1> DEFINE g == Files!Without(conf, n)
<1>2. g = [l \in FileNames |-> IF l = e THEN Nil ELSE conf[l]]
  BY <1>1 DEF Files!Without
<1>3. conf' = [l \in FileNames |-> IF l = m THEN conf[e]
                                   ELSE IF l \in Files!Entries(g, m) THEN Nil ELSE g[l]]
  BY <1>1 DEF Files!Moved, Files!Without
<1>4. conf' \in [FileNames -> FileIds \cup {Nil}]
  BY <1>1, <1>2, <1>3 DEF FileTypes
<1>5. OneEntry'
  <2>1. SUFFICES ASSUME foldsCase, NEW l \in FileNames, NEW d \in FileNames,
                        conf'[l] # Nil, conf'[d] # Nil, FoldOf(l) = FoldOf(d)
                 PROVE  l = d
    BY DEF OneEntry
  <2>2. ASSUME NEW c \in FileNames, conf'[c] # Nil, c # m
        PROVE  conf[c] # Nil /\ FoldOf(c) # FoldOf(m)
    <3>1. c \notin Files!Entries(g, m) /\ g[c] # Nil
      BY <1>3, <2>2
    <3>2. g[c] = conf[c]
      BY <1>2, <3>1
    <3>3. QED BY <2>1, <3>1, <3>2, Lookup
  <2>3. QED BY <2>1, <2>2 DEF OneEntry
<1>6. ASSUME Files!Entries(conf, m) \subseteq Files!Entries(conf, n),
             NEW k \in FileIds, NEW l \in FileNames, conf[l] = k
      PROVE  OnDisk(k)'
  <2>1. CASE l = e
    BY <1>3, <1>6, <2>1 DEF OnDisk
  <2>2. CASE l # e
    <3>1. g[l] = conf[l] /\ conf[l] # Nil
      BY <1>2, <1>6, <2>2, ValuesAssumption DEF FileIds
    <3>2. l \notin Files!Entries(conf, m)
      BY <1>1, <1>6, <2>2
    <3>3. l # m /\ l \notin Files!Entries(g, m)
      BY <3>1, <3>2, Lookup
    <3>4. conf'[l] = k
      BY <1>3, <1>6, <3>1, <3>3
    <3>5. QED BY <3>4 DEF OnDisk
  <2>3. QED BY <2>1, <2>2
<1>7. QED BY <1>4, <1>5, <1>6 DEF OnDisk

(* The steps that are left. *)
LEMMA LeftHead ==
    ASSUME FileTypes, \A s \in Left : Sound(s), NEW t \in Files!Threads, ftodo[t] # <<>>
    PROVE  /\ Head(ftodo[t]) \in Left /\ Head(ftodo[t]) \in FileStep
           /\ Sound(Head(ftodo[t])) /\ ftodo[t] \in Seq(FileStep)
<1>1. ftodo[t] \in Seq(FileStep)
  BY DEF FileTypes
<1>2. Head(ftodo[t]) = ftodo[t][1] /\ 1 \in 1..Len(ftodo[t]) /\ ftodo[t][1] \in FileStep
  BY <1>1
<1>3. Head(ftodo[t]) \in Left
  BY <1>2 DEF Left
<1>4. QED BY <1>1, <1>2, <1>3

(* A step done leaves the rest, and those that take its place. *)
LEMMA LeftGoes ==
    ASSUME FileTypes, NEW t \in Files!Threads, NEW next \in Seq(FileStep), ftodo[t] # <<>>,
           Files!Goes(t, next)
    PROVE  /\ ftodo' \in [Files!Threads -> Seq(FileStep)]
           /\ Left' \subseteq Left \cup {next[i] : i \in 1..Len(next)}
<1>1. ftodo[t] \in Seq(FileStep) /\ Tail(ftodo[t]) \in Seq(FileStep)
  BY DEF FileTypes
<1>2. /\ ftodo' = [ftodo EXCEPT ![t] = next \o Tail(ftodo[t])]
      /\ next \o Tail(ftodo[t]) \in Seq(FileStep)
  BY <1>1 DEF Files!Goes
<1>3. ftodo' \in [Files!Threads -> Seq(FileStep)]
  BY <1>2 DEF FileTypes
<1>4. ASSUME NEW i \in 1..Len(next \o Tail(ftodo[t]))
      PROVE  (next \o Tail(ftodo[t]))[i] \in Left \cup {next[j] : j \in 1..Len(next)}
  <2>1. Len(next \o Tail(ftodo[t])) = Len(next) + Len(Tail(ftodo[t]))
    BY <1>1
  <2>2. CASE i <= Len(next)
    BY <1>1, <2>2
  <2>3. CASE i > Len(next)
    <3>1. (next \o Tail(ftodo[t]))[i] = Tail(ftodo[t])[i - Len(next)]
      BY <1>1, <2>1, <2>3
    <3>2. /\ i - Len(next) + 1 \in 1..Len(ftodo[t])
          /\ Tail(ftodo[t])[i - Len(next)] = ftodo[t][i - Len(next) + 1]
      BY <1>1, <2>1, <2>3
    <3>3. QED BY <3>1, <3>2 DEF Left
  <2>4. QED BY <2>2, <2>3
<1>5. ASSUME NEW u \in Files!Threads, NEW i \in 1..Len(ftodo'[u])
      PROVE  ftodo'[u][i] \in Left \cup {next[j] : j \in 1..Len(next)}
  <2>1. CASE u = t
    <3>1. ftodo'[u] = next \o Tail(ftodo[t])
      BY <1>2, <2>1 DEF FileTypes
    <3>2. QED BY <1>4, <1>5, <3>1
  <2>2. CASE u # t
    <3>1. ftodo'[u] = ftodo[u]
      BY <1>2, <2>2 DEF FileTypes
    <3>2. QED BY <1>5, <3>1 DEF Left
  <2>3. QED BY <2>1, <2>2
<1>6. ASSUME NEW s \in Left' PROVE s \in Left \cup {next[j] : j \in 1..Len(next)}
  <2>1. PICK u \in Files!Threads : s \in {ftodo'[u][i] : i \in 1..Len(ftodo'[u])}
    BY <1>6 DEF Left
  <2>2. PICK i \in 1..Len(ftodo'[u]) : s = ftodo'[u][i]
    BY <2>1
  <2>3. QED BY <1>5, <2>2
<1>7. QED BY <1>3, <1>6

(* A call that begins has all its steps left. *)
LEMMA LeftBegins ==
    ASSUME FileTypes, NEW t \in Files!Threads, NEW steps \in Seq(FileStep),
           ftodo' = [ftodo EXCEPT ![t] = steps]
    PROVE  /\ ftodo' \in [Files!Threads -> Seq(FileStep)]
           /\ Left' \subseteq Left \cup {steps[i] : i \in 1..Len(steps)}
<1>1. ftodo' \in [Files!Threads -> Seq(FileStep)]
  BY DEF FileTypes
<1>2. \A u \in Files!Threads : ftodo'[u] = IF u = t THEN steps ELSE ftodo[u]
  BY DEF FileTypes
<1>3. ASSUME NEW u \in Files!Threads, NEW i \in 1..Len(ftodo'[u])
      PROVE  ftodo'[u][i] \in Left \cup {steps[j] : j \in 1..Len(steps)}
  BY <1>2, <1>3 DEF Left
<1>4. QED BY <1>1, <1>3 DEF Left

(* The call ends here, one way or another. *)
LEMMA LeftReturns ==
    ASSUME FileTypes, NEW t \in Files!Threads, Files!Returns(t)
    PROVE  ftodo' \in [Files!Threads -> Seq(FileStep)] /\ Left' \subseteq Left
<1>1. <<>> \in Seq(FileStep) /\ {<<>>[i] : i \in 1..Len(<<>>)} = {}
  OBVIOUS
<1>2. ftodo' = [ftodo EXCEPT ![t] = <<>>]
  BY DEF Files!Returns
<1>3. QED BY <1>1, <1>2, LeftBegins

(* A step done, and nothing in its place. *)
LEMMA LeftGoesOn ==
    ASSUME FileTypes, NEW t \in Files!Threads, ftodo[t] # <<>>, Files!Goes(t, <<>>)
    PROVE  ftodo' \in [Files!Threads -> Seq(FileStep)] /\ Left' \subseteq Left
<1>1. <<>> \in Seq(FileStep) /\ {<<>>[i] : i \in 1..Len(<<>>)} = {}
  OBVIOUS
<1>2. QED BY <1>1, LeftGoes

(* A step done, and one in its place. *)
LEMMA LeftGoesTo ==
    ASSUME FileTypes, NEW t \in Files!Threads, ftodo[t] # <<>>, NEW s \in FileStep,
           Files!Goes(t, <<s>>)
    PROVE  ftodo' \in [Files!Threads -> Seq(FileStep)] /\ Left' \subseteq Left \cup {s}
<1>1. <<s>> \in Seq(FileStep) /\ {<<s>>[i] : i \in 1..Len(<<s>>)} = {s}
  OBVIOUS
<1>2. QED BY <1>1, LeftGoes

(* A step that takes from the disk nothing that is owed. *)
LEMMA FilesStep ==
    ASSUME FilesInv, FileTypes', OneEntry', UNCHANGED legacy, crossed => crossed',
           NEW N, Left' \subseteq Left \cup N,
           \A s \in N : Sound(s) /\ s.op # "RemoveSource",
           crossed' \/ Spares
    PROVE  FilesInv'
<1>1. \A s \in Left' : Sound(s)
  BY DEF FilesInv
<1>2. ASSUME ~crossed' PROVE KeysKept' /\ Sources'
  <2> USE DEF Spares
  <2>1. KeysKept /\ Sources /\ ~crossed
    BY <1>2 DEF FilesInv
  <2>2. KeysKept'
    <3>1. SUFFICES ASSUME NEW k \in owed'
                   PROVE  \E n \in FileNames : conf'[n] = k \/ legacy'[n] = k
      BY DEF KeysKept, Files!KeysKept
    <3>2. CASE k \in owed
      BY <1>2, <2>1, <3>2 DEF KeysKept, Files!KeysKept, OnDisk
    <3>3. CASE k \notin owed
      BY <1>2, <3>3 DEF OnDisk
    <3>4. QED BY <3>2, <3>3
  <2>3. Sources'
    <3>1. SUFFICES ASSUME NEW s \in Left', s.op = "RemoveSource", s.k \in owed'
                   PROVE  OnDisk(s.k)'
      BY DEF Sources
    <3>2. s \in Left
      BY <3>1
    <3>3. QED BY <1>2, <2>1, <3>1, <3>2 DEF Sources
  <2>4. QED BY <2>2, <2>3
<1>3. (\A s \in Left : Sound(s))'
  BY <1>1 DEF Sound
<1>4. QED BY <1>2, <1>3 DEF FilesInv

(* Steps that a call may begin with. *)
Fine == {s \in FileStep : Sound(s) /\ s.op # "RemoveSource"}

(* A call begins without touching the disk. *)
LEMMA BeginKeeps ==
    ASSUME FilesInv, NEW t \in Files!Threads, NEW steps \in Seq(Fine), Files!Begin(t, steps)
    PROVE  FilesInv'
<1>1. /\ ftodo' = [ftodo EXCEPT ![t] = steps]
      /\ UNCHANGED <<foldsCase, conf, policies, legacy, conns, owed, crossed>>
  BY DEF Files!Begin
<1>2. /\ steps \in Seq(FileStep)
      /\ \A s \in {steps[i] : i \in 1..Len(steps)} : Sound(s) /\ s.op # "RemoveSource"
  BY DEF Fine
<1>3. /\ ftodo' \in [Files!Threads -> Seq(FileStep)]
      /\ Left' \subseteq Left \cup {steps[i] : i \in 1..Len(steps)}
  BY <1>1, <1>2, LeftBegins DEF FilesInv
<1>4. FileTypes' /\ OneEntry'
  BY <1>1, <1>3 DEF FilesInv, FileTypes, OneEntry
<1>5. Spares
  BY <1>1 DEF OnDisk, Spares
<1>6. QED BY <1>1, <1>2, <1>3, <1>4, <1>5, FilesStep

(* What the model builds its steps from. *)
LEMMA StepShape ==
    ASSUME NEW op \in FileCalls, NEW n \in FileNames \cup {Nil},
           NEW m \in FileNames \cup {Nil, "fresh"}, NEW k \in FileIds \cup {Nil}
    PROVE  /\ Files!Step(op, n, m, k) \in FileStep
           /\ Files!Step(op, n, m, k).op = op /\ Files!Step(op, n, m, k).n = n
           /\ Files!Step(op, n, m, k).m = m /\ Files!Step(op, n, m, k).k = k
<1> DEFINE s == [op |-> op, n |-> n, m |-> m, k |-> k, seen |-> Nil]
<1>1. Files!Step(op, n, m, k) = s
  BY DEF Files!Step
<1>2. /\ m \in FileNames \cup {Nil, "fresh"} \cup BOOLEAN \cup [FileNames -> FileIds \cup {Nil}]
      /\ Nil \in (SUBSET (FileNames \X FileIds)) \cup {Nil}
  OBVIOUS
<1>3. s \in FileStep
  BY <1>2 DEF FileStep, FileCalls
<1>4. QED BY <1>1, <1>3

(* The steps that calls begin with bring along what they need, and remove no source. *)
LEMMA FineSteps ==
    ASSUME NEW n \in FileNames
    PROVE  /\ \A m \in {Nil, "fresh"}, k \in FileIds : Files!Step("Save", n, m, k) \in Fine
           /\ \A k \in FileIds : \A op \in {"Connect", "Stamp", "UpdateMeta", "SaveMeta",
                                         "ReplaceRaw", "RemoveConf"} :
                 Files!Step(op, n, Nil, k) \in Fine
           /\ \A op \in {"MustExist", "NotUp", "TakeDown", "RemoveMeta", "DropRules"} :
                 Files!Step(op, n, Nil, Nil) \in Fine
           /\ \A m \in FileNames, k \in FileIds, op \in {"Rename", "LocalRename"} :
                 Files!Step(op, n, m, k) \in Fine
           /\ \A m \in FileNames : Files!Step("MoveRules", n, m, Nil) \in Fine
<1>1. ASSUME NEW op \in FileCalls, NEW m \in FileNames \cup {Nil, "fresh"},
             NEW k \in FileIds \cup {Nil},
             op \notin {"Write", "Copy", "RemoveSource", "SaveSettings"},
             op \in {"Save", "Connect", "RemoveConf"} => k \in FileIds,
             op \in {"Rename", "LocalRename", "RenameConf", "RenameMeta", "MoveRules"}
               => m \in FileNames
      PROVE  Files!Step(op, n, m, k) \in Fine
  <2> DEFINE s == Files!Step(op, n, m, k)
  <2>1. /\ s \in FileStep /\ s.op = op /\ s.n = n /\ s.m = m /\ s.k = k
    BY StepShape
  <2> HIDE DEF s
  <2>2. Sound(s) /\ s.op # "RemoveSource"
    BY <1>1, <2>1 DEF Sound
  <2>3. s \in Fine
    BY <2>1, <2>2 DEF Fine
  <2>4. QED BY <2>3 DEF s
<1>2. \A m \in {Nil, "fresh"}, k \in FileIds : Files!Step("Save", n, m, k) \in Fine
  BY <1>1 DEF FileCalls
<1>3. \A k \in FileIds : \A op \in {"Connect", "Stamp", "UpdateMeta", "SaveMeta",
                                "ReplaceRaw", "RemoveConf"} :
         Files!Step(op, n, Nil, k) \in Fine
  BY <1>1 DEF FileCalls
<1>4. \A op \in {"MustExist", "NotUp", "TakeDown", "RemoveMeta", "DropRules"} :
         Files!Step(op, n, Nil, Nil) \in Fine
  BY <1>1 DEF FileCalls
<1>5. \A m \in FileNames, k \in FileIds, op \in {"Rename", "LocalRename"} :
         Files!Step(op, n, m, k) \in Fine
  BY <1>1 DEF FileCalls
<1>6. \A m \in FileNames : Files!Step("MoveRules", n, m, Nil) \in Fine
  BY <1>1 DEF FileCalls
<1>7. QED BY <1>2, <1>3, <1>4, <1>5, <1>6

(* Lists of them. *)
LEMMA FineLists ==
    /\ <<>> \in Seq(Fine)
    /\ \A a \in Fine : <<a>> \in Seq(Fine)
    /\ \A a, b \in Fine : <<a, b>> \in Seq(Fine)
    /\ \A a, b, c \in Fine : <<a, b, c>> \in Seq(Fine)
    /\ \A a, b, c, d \in Fine : <<a, b, c, d>> \in Seq(Fine)
    /\ \A s, l \in Seq(Fine) : s \o l \in Seq(Fine)
OBVIOUS

(* A new key is a key. *)
LEMMA FreshIds == Files!Fresh \subseteq FileIds
BY DEF Files!Fresh, FileIds

(* And so is what a .conf holds. *)
LEMMA ConfIds ==
    ASSUME FileTypes, NEW n \in FileNames, conf[n] # Nil
    PROVE  conf[n] \in FileIds
BY DEF FileTypes

(* Who calls. *)
LEMMA ThreadsAre == {"gui", "flush", "ctl", "auto"} = Files!Threads
BY DEF Files!Threads

(* The calls that begin with what is on disk. *)
LEMMA ImportsKeep ==
    ASSUME FilesInv, NEW n \in FileNames,
           Files!ImportConfig(n) \/ Files!ImportZip(n) \/ Files!CtlImport(n)
    PROVE  FilesInv'
<1>1. ASSUME NEW m \in FileNames, Files!ImportConfig(m) PROVE FilesInv'
  <2>1. PICK k \in Files!Fresh :
          Files!Begin("gui", <<Files!Step("Save", m, "fresh", k)>> \o
              IF Files!Exists(m) THEN <<>> ELSE <<Files!Step("UpdateMeta", m, Nil, k)>>)
    BY <1>1 DEF Files!ImportConfig
  <2>2. <<Files!Step("Save", m, "fresh", k)>> \o
            (IF Files!Exists(m) THEN <<>> ELSE <<Files!Step("UpdateMeta", m, Nil, k)>>)
          \in Seq(Fine)
    BY FreshIds, FineSteps, FineLists
  <2>3. QED BY <2>1, <2>2, BeginKeeps, ThreadsAre
<1>2. CASE Files!ImportZip(n)
  <2>1. PICK m \in Files!UniqueName(n) : Files!ImportConfig(m)
    BY <1>2 DEF Files!ImportZip
  <2>2. m \in FileNames
    BY DEF Files!UniqueName
  <2>3. QED BY <1>1, <2>1, <2>2
<1>3. CASE Files!CtlImport(n)
  <2>1. PICK k \in Files!Fresh : Files!Begin("ctl", <<Files!Step("Save", n, "fresh", k)>>)
    BY <1>3 DEF Files!CtlImport
  <2>2. <<Files!Step("Save", n, "fresh", k)>> \in Seq(Fine)
    BY FreshIds, FineSteps, FineLists
  <2>3. QED BY <2>1, <2>2, BeginKeeps, ThreadsAre
<1>4. QED BY <1>1, <1>2, <1>3

(* A settings file with tunnels in it, with or without its scripts. *)
LEMMA ImportSettingsKeeps ==
    ASSUME FilesInv, NEW n \in FileNames, Files!ImportSettings(n)
    PROVE  FilesInv'
<1>1. PICK k \in Files!Fresh, m \in Files!UniqueName(n), packed \in BOOLEAN,
           scripts \in BOOLEAN :
         Files!Begin("gui",
             <<Files!Step("Save", m, "fresh", k), Files!Step("UpdateMeta", m, Nil, k),
               Files!Step("SaveMeta", m, Nil, k)>>
             \o (IF packed THEN <<Files!Step("ReplaceRaw", n, Nil, k)>> ELSE <<>>)
             \o (IF scripts THEN <<Files!Step("MustExist", m, Nil, Nil),
                                   Files!Step("Save", m, Nil, k)>> ELSE <<>>))
  BY DEF Files!ImportSettings
<1>2. k \in FileIds /\ m \in FileNames
  BY FreshIds DEF Files!UniqueName
<1>3. <<Files!Step("Save", m, "fresh", k), Files!Step("UpdateMeta", m, Nil, k),
        Files!Step("SaveMeta", m, Nil, k)>> \in Seq(Fine)
  BY <1>2, FineSteps, FineLists
<1>4. (IF packed THEN <<Files!Step("ReplaceRaw", n, Nil, k)>> ELSE <<>>) \in Seq(Fine)
  BY <1>2, FineSteps, FineLists
<1>5. (IF scripts THEN <<Files!Step("MustExist", m, Nil, Nil), Files!Step("Save", m, Nil, k)>>
       ELSE <<>>) \in Seq(Fine)
  BY <1>2, FineSteps, FineLists
<1>6. QED BY <1>1, <1>3, <1>4, <1>5, FineLists, BeginKeeps, ThreadsAre

(* Calls on a tunnel there is. *)
LEMMA EditsKeep ==
    ASSUME FilesInv, NEW n \in FileNames,
           \/ Files!UpdateConfig(n) \/ Files!SetNotes(n) \/ Files!SetPolicies(n)
           \/ Files!GuiConnect(n) \/ Files!AutomationConnect(n)
    PROVE  FilesInv'
<1>1. conf[n] # Nil /\ conf[n] \in FileIds
  BY ConfIds
     DEF FilesInv, Files!UpdateConfig, Files!SetNotes, Files!SetPolicies, Files!GuiConnect,
         Files!AutomationConnect
<1>2. PICK t \in Files!Threads, steps \in Seq(Fine) : Files!Begin(t, steps)
  <2>1. /\ <<Files!Step("Save", n, Nil, conf[n])>> \in Seq(Fine)
        /\ <<Files!Step("MustExist", n, Nil, Nil),
             Files!Step("UpdateMeta", n, Nil, conf[n])>> \in Seq(Fine)
        /\ <<Files!Step("UpdateMeta", n, Nil, conf[n])>> \in Seq(Fine)
        /\ <<Files!Load(n)>> \in Seq(Fine)
        /\ <<Files!Step("Save", n, Nil, conf[n]), Files!Load(n)>> \in Seq(Fine)
    BY <1>1, FineSteps, FineLists DEF Files!Load
  <2>2. QED BY <2>1, ThreadsAre
            DEF Files!UpdateConfig, Files!SetNotes, Files!SetPolicies, Files!GuiConnect,
                Files!AutomationConnect
<1>3. QED BY <1>2, BeginKeeps

(* Deletions, by the dialog and by wgctl. *)
LEMMA DeletesKeep ==
    ASSUME FilesInv, NEW n \in FileNames, Files!DeleteTunnel(n) \/ Files!CtlDelete(n)
    PROVE  FilesInv'
<1>1. conf[n] \in FileIds
  BY ConfIds DEF FilesInv, Files!DeleteTunnel, Files!CtlDelete
<1>2. \A op \in {"NotUp", "TakeDown"} :
         <<Files!Step(op, n, Nil, Nil), Files!Step("RemoveConf", n, Nil, conf[n]),
           Files!Step("RemoveMeta", n, Nil, Nil), Files!Step("DropRules", n, Nil, Nil)>>
           \in Seq(Fine)
  BY <1>1, FineSteps, FineLists
<1>3. PICK t \in Files!Threads, steps \in Seq(Fine) : Files!Begin(t, steps)
  BY <1>2, ThreadsAre DEF Files!DeleteTunnel, Files!CtlDelete
<1>4. QED BY <1>3, BeginKeeps

(* Renames, through the helper or without it. *)
LEMMA RenamesBegin ==
    ASSUME FilesInv, NEW n \in FileNames, NEW m \in FileNames,
           Files!CtlLocalRename(n, m) \/ \E t \in Files!Threads : Files!RenameTunnel(t, n, m)
    PROVE  FilesInv'
<1>1. conf[n] \in FileIds
  BY ConfIds DEF FilesInv, Files!CtlLocalRename, Files!RenameTunnel
<1>2. \A op \in {"Rename", "LocalRename"} :
         <<Files!Step(op, n, m, conf[n]), Files!Step("MoveRules", n, m, Nil)>> \in Seq(Fine)
  BY <1>1, FineSteps, FineLists
<1>3. PICK t \in Files!Threads, steps \in Seq(Fine) : Files!Begin(t, steps)
  BY <1>2, ThreadsAre DEF Files!CtlLocalRename, Files!RenameTunnel
<1>4. QED BY <1>3, BeginKeeps

(* The settings dialog reads the policies. *)
LEMMA SettingsOpen ==
    ASSUME FilesInv, Files!OpenSettings
    PROVE  FilesInv'
<1> DEFINE s == [op |-> "SaveSettings", n |-> Nil, m |-> policies, k |-> Nil, seen |-> Nil]
<1>1. policies \in [FileNames -> FileIds \cup {Nil}]
  BY DEF FilesInv, FileTypes
<1>2. s \in Fine
  <2>1. /\ s.m \in FileNames \cup {Nil, "fresh"} \cup BOOLEAN
                    \cup [FileNames -> FileIds \cup {Nil}]
        /\ Nil \in (SUBSET (FileNames \X FileIds)) \cup {Nil}
    BY <1>1
  <2>2. s \in FileStep
    BY <2>1 DEF FileStep, FileCalls
  <2>3. Sound(s) /\ s.op # "RemoveSource"
    BY <1>1 DEF Sound
  <2>4. QED BY <2>2, <2>3 DEF Fine
<1>3. <<s>> \in Seq(Fine)
  BY <1>2, FineLists
<1>4. Files!Begin("flush", <<s>>)
  BY DEF Files!OpenSettings
<1>5. QED BY <1>3, <1>4, BeginKeeps, ThreadsAre

(* The helper writes the endpoint it has chosen. *)
LEMMA EndpointsSwitch ==
    ASSUME FilesInv, NEW c \in conns, Files!SwitchEndpoint(c)
    PROVE  FilesInv'
<1>1. c[1] \in FileNames /\ c[2] \in FileIds
  BY DEF FilesInv, FileTypes
<1>2. <<Files!Step("Save", c[1], Nil, c[2])>> \in Seq(Fine)
  BY <1>1, FineSteps, FineLists
<1>3. QED BY <1>2, BeginKeeps, ThreadsAre DEF Files!SwitchEndpoint

(* The migration copies what is in the old directory. *)
LEMMA MigrationBegins ==
    ASSUME FilesInv, NEW overwrite \in BOOLEAN, Files!MigrateLegacyData(overwrite)
    PROVE  FilesInv'
<1> DEFINE items == {n \in FileNames : legacy[n] # Nil}
           taken == {n \in items : overwrite \/ ~Files!Conflicts(n)}
           Copies == {[op |-> "Copy", n |-> n, m |-> Files!Conflicts(n), k |-> legacy[n],
                       seen |-> Nil] : n \in taken}
           mark == Files!Step("Mark", Nil, Nil, Nil)
           last == IF taken # {} /\ taken = items THEN <<mark>> ELSE <<>>
<1>1. PICK order \in [1..Cardinality(taken) -> Copies] : Files!Begin("gui", order \o last)
  <2>1. \A S : Files!Cardinality(S) = Cardinality(S)
    BY DEF Files!Cardinality, Cardinality
  <2>2. QED BY <2>1 DEF Files!MigrateLegacyData
<1>2. Cardinality(taken) \in Nat
  <2>1. /\ IsFiniteSet({}) /\ FileNames = (({} \cup {home}) \cup {Home}) \cup {work}
    BY FS_EmptySet DEF FileNames
  <2>2. IsFiniteSet({} \cup {home})
    BY <2>1, FS_AddElement
  <2>3. IsFiniteSet(({} \cup {home}) \cup {Home})
    BY <2>2, FS_AddElement
  <2>4. IsFiniteSet(FileNames)
    BY <2>1, <2>3, FS_AddElement
  <2>5. taken \subseteq FileNames
    OBVIOUS
  <2>6. IsFiniteSet(taken)
    BY <2>4, <2>5, FS_Subset
  <2>7. QED BY <2>6, FS_CardinalityType
<1>3. Copies \subseteq Fine
  <2>1. SUFFICES ASSUME NEW n \in taken
                 PROVE  [op |-> "Copy", n |-> n, m |-> Files!Conflicts(n), k |-> legacy[n],
                         seen |-> Nil] \in Fine
    OBVIOUS
  <2> DEFINE s == [op |-> "Copy", n |-> n, m |-> Files!Conflicts(n), k |-> legacy[n],
                   seen |-> Nil]
  <2>2. n \in FileNames /\ legacy[n] \in FileIds /\ legacy[n] = OldName(n)
    BY DEF FilesInv, FileTypes
  <2>3. Files!Conflicts(n) \in BOOLEAN
    BY DEF Files!Conflicts, Files!Exists
  <2>4. /\ Files!Conflicts(n) \in FileNames \cup {Nil, "fresh"} \cup BOOLEAN
                                  \cup [FileNames -> FileIds \cup {Nil}]
        /\ Nil \in (SUBSET (FileNames \X FileIds)) \cup {Nil}
    BY <2>3
  <2>5. s \in FileStep
    BY <2>2, <2>4 DEF FileStep, FileCalls
  <2>6. Sound(s) /\ s.op # "RemoveSource"
    BY <2>2 DEF Sound
  <2>7. QED BY <2>5, <2>6 DEF Fine
<1>4. order \in Seq(Fine)
  <2>1. order \in [1..Cardinality(taken) -> Fine]
    BY <1>3
  <2> HIDE DEF taken
  <2>2. QED BY <1>2, <2>1
<1>5. mark \in Fine
  <2>1. mark \in FileStep /\ mark.op = "Mark"
    BY StepShape DEF FileCalls
  <2>2. Sound(mark) /\ mark.op # "RemoveSource"
    BY <2>1 DEF Sound
  <2>3. QED BY <2>1, <2>2 DEF Fine
<1>6. order \o last \in Seq(Fine)
  BY <1>4, <1>5, FineLists
<1>7. QED BY <1>1, <1>6, BeginKeeps, ThreadsAre

(* A step that leaves what is on disk, and goes on to one that is fine or to none. *)
LEMMA DiskAlone ==
    ASSUME FilesInv, UNCHANGED <<foldsCase, conf, legacy, owed>>,
           ftodo' \in [Files!Threads -> Seq(FileStep)],
           NEW N, Left' \subseteq Left \cup N, \A s \in N : Sound(s) /\ s.op # "RemoveSource",
           policies' \in [FileNames -> FileIds \cup {Nil}],
           conns' \subseteq FileNames \X FileIds, crossed => crossed'
    PROVE  FilesInv'
<1>1. FileTypes' /\ OneEntry'
  BY DEF FilesInv, FileTypes, OneEntry
<1>2. Spares
  BY DEF OnDisk, Spares
<1>3. QED BY <1>1, <1>2, FilesStep

(* The same where nothing takes the place of the step. *)
LEMMA DiskStays ==
    ASSUME FilesInv, UNCHANGED <<foldsCase, conf, legacy, owed>>,
           ftodo' \in [Files!Threads -> Seq(FileStep)], Left' \subseteq Left,
           policies' \in [FileNames -> FileIds \cup {Nil}],
           conns' \subseteq FileNames \X FileIds, crossed => crossed'
    PROVE  FilesInv'
<1>1. PICK N : N = {}
  OBVIOUS
<1>2. Left' \subseteq Left \cup N /\ \A s \in N : Sound(s) /\ s.op # "RemoveSource"
  BY <1>1
<1>3. QED BY <1>2, DiskAlone

(* The same for a step that is done, or with which the call ends. *)
LEMMA StepsFinish ==
    ASSUME FilesInv, NEW t \in Files!Threads, ftodo[t] # <<>>,
           Files!Goes(t, <<>>) \/ Files!Returns(t),
           UNCHANGED <<foldsCase, conf, legacy, owed>>,
           policies' \in [FileNames -> FileIds \cup {Nil}],
           conns' \subseteq FileNames \X FileIds, crossed => crossed'
    PROVE  FilesInv'
<1>1. ftodo' \in [Files!Threads -> Seq(FileStep)] /\ Left' \subseteq Left
  BY LeftReturns, LeftGoesOn DEF FilesInv
<1>2. QED BY <1>1, DiskStays

(* Sidecars, checks and marks. *)
LEMMA SidecarsKeep ==
    ASSUME FilesInv, NEW t \in Files!Threads,
           \/ Files!Stamp(t) \/ Files!UpdateMeta(t) \/ Files!MustExist(t) \/ Files!NotUp(t)
           \/ Files!RemoveMeta(t) \/ Files!SaveMeta(t) \/ Files!Unlock(t) \/ Files!Mark(t)
    PROVE  FilesInv'
<1>1. /\ UNCHANGED <<foldsCase, conf, policies, legacy, conns, owed, crossed>>
      /\ ftodo[t] # <<>> /\ (Files!Goes(t, <<>>) \/ Files!Returns(t))
  BY DEF Files!Stamp, Files!UpdateMeta, Files!MustExist, Files!NotUp, Files!RemoveMeta,
         Files!SaveMeta, Files!Unlock, Files!Mark, Files!At
<1>2. /\ policies' \in [FileNames -> FileIds \cup {Nil}]
      /\ conns' \subseteq FileNames \X FileIds
  BY <1>1 DEF FilesInv, FileTypes
<1>3. QED BY <1>1, <1>2, StepsFinish

(* The policies in the settings file. *)
LEMMA PoliciesKeep ==
    ASSUME FilesInv, NEW t \in Files!Threads,
           \/ Files!DropRules(t) \/ Files!MoveRules(t) \/ Files!SaveSettings(t)
           \/ Files!ReplaceRaw(t)
    PROVE  FilesInv'
<1> DEFINE s == Head(ftodo[t])
<1>1. /\ UNCHANGED <<foldsCase, conf, legacy, conns, owed, crossed>>
      /\ ftodo[t] # <<>> /\ Files!Goes(t, <<>>)
  BY DEF Files!DropRules, Files!MoveRules, Files!SaveSettings, Files!ReplaceRaw, Files!At
<1>2. s \in FileStep /\ Sound(s)
  BY <1>1, LeftHead DEF FilesInv
<1>3. policies \in [FileNames -> FileIds \cup {Nil}]
  BY DEF FilesInv, FileTypes
<1>4. policies' \in [FileNames -> FileIds \cup {Nil}]
  <2>1. CASE Files!DropRules(t)
    <3>1. policies' = [policies EXCEPT ![s.n] = Nil]
      BY <2>1 DEF Files!DropRules, Files!Dropped
    <3>2. QED BY <1>3, <3>1
  <2>2. CASE Files!MoveRules(t)
    <3>1. s.n \in FileNames
      BY <1>2, <2>2 DEF Files!MoveRules, Files!At, Sound
    <3>2. policies' = Files!RulesMoved(s.n, s.m)
      BY <2>2 DEF Files!MoveRules
    <3>3. QED BY <1>3, <3>1, <3>2 DEF Files!RulesMoved
  <2>3. CASE Files!SaveSettings(t)
    BY <1>2, <2>3 DEF Files!SaveSettings, Files!At, Sound
  <2>4. CASE Files!ReplaceRaw(t)
    <3>1. policies' = [n \in FileNames |-> IF n = s.n THEN s.k ELSE Nil]
      BY <2>4 DEF Files!ReplaceRaw
    <3>2. s.k \in FileIds \cup {Nil}
      BY <1>2 DEF FileStep
    <3>3. QED BY <3>1, <3>2
  <2>5. QED BY <2>1, <2>2, <2>3, <2>4
<1>5. conns' \subseteq FileNames \X FileIds
  BY <1>1 DEF FilesInv, FileTypes
<1>6. QED BY <1>1, <1>4, <1>5, StepsFinish

(* The list saves the policies it shows. *)
LEMMA RulesSaved ==
    ASSUME FilesInv, NEW n \in FileNames, Files!SaveAutomationRules(n)
    PROVE  FilesInv'
<1>1. /\ UNCHANGED <<foldsCase, conf, legacy, conns, owed, crossed, ftodo>>
      /\ policies' = [policies EXCEPT ![n] = conf[n]]
  BY DEF Files!SaveAutomationRules
<1>2. /\ ftodo' \in [Files!Threads -> Seq(FileStep)]
      /\ policies' \in [FileNames -> FileIds \cup {Nil}]
      /\ conns' \subseteq FileNames \X FileIds
  BY <1>1 DEF FilesInv, FileTypes
<1>3. Left' \subseteq Left
  BY <1>1 DEF Left
<1>4. QED BY <1>1, <1>2, <1>3, DiskStays

(* The tunnels that are up. *)
LEMMA ConnectionsKeep ==
    ASSUME FilesInv, NEW t \in Files!Threads, Files!Connect(t) \/ Files!TakeDown(t)
    PROVE  FilesInv'
<1> DEFINE s == Head(ftodo[t])
<1>1. /\ UNCHANGED <<foldsCase, conf, policies, legacy, owed>> /\ (crossed => crossed')
      /\ ftodo[t] # <<>> /\ Files!Goes(t, <<>>)
  <2>1. CASE Files!Connect(t)
    BY <2>1 DEF Files!Connect, Files!At
  <2>2. CASE Files!TakeDown(t)
    BY <2>2 DEF Files!TakeDown, Files!At
  <2>3. QED BY <2>1, <2>2
<1>2. Sound(s)
  BY <1>1, LeftHead DEF FilesInv
<1>3. /\ policies' \in [FileNames -> FileIds \cup {Nil}]
      /\ conns \subseteq FileNames \X FileIds
  BY <1>1 DEF FilesInv, FileTypes
<1>4. conns' \subseteq FileNames \X FileIds
  <2>1. CASE Files!TakeDown(t)
    BY <1>3, <2>1 DEF Files!TakeDown
  <2>2. CASE Files!Connect(t)
    <3>1. s.n \in FileNames /\ s.k \in FileIds
      BY <1>2, <2>2 DEF Files!Connect, Files!At, Sound
    <3>2. conns' \in {conns, conns \cup {<<s.n, s.k>>}}
      BY <2>2 DEF Files!Connect
    <3>3. QED BY <1>3, <3>1, <3>2
  <2>3. QED BY <2>1, <2>2
<1>5. QED BY <1>1, <1>3, <1>4, StepsFinish

(* A disconnect, by whoever. *)
LEMMA DisconnectsKeep ==
    ASSUME FilesInv, NEW c \in conns, Files!Disconnect(c)
    PROVE  FilesInv'
<1>1. /\ UNCHANGED <<foldsCase, conf, policies, legacy, owed, crossed, ftodo>>
      /\ conns' = conns \ {c}
  BY DEF Files!Disconnect
<1>2. /\ ftodo' \in [Files!Threads -> Seq(FileStep)]
      /\ policies' \in [FileNames -> FileIds \cup {Nil}]
      /\ conns' \subseteq FileNames \X FileIds
  BY <1>1 DEF FilesInv, FileTypes
<1>3. Left' \subseteq Left
  BY <1>1 DEF Left
<1>4. QED BY <1>1, <1>2, <1>3, DiskStays

(* A process dies and leaves its steps undone. *)
LEMMA DeathsKeep ==
    ASSUME FilesInv, NEW t \in Files!Threads, Files!Die(t)
    PROVE  FilesInv'
<1>1. /\ UNCHANGED <<foldsCase, conf, policies, legacy, owed, crossed>>
      /\ conns' \in {conns, {}}
      /\ \E gone \in SUBSET Files!Threads :
            ftodo' = [u \in Files!Threads |-> IF u \in gone THEN <<>> ELSE ftodo[u]]
  BY DEF Files!Die
<1>2. /\ policies' \in [FileNames -> FileIds \cup {Nil}]
      /\ conns' \subseteq FileNames \X FileIds
  BY <1>1 DEF FilesInv, FileTypes
<1>3. PICK gone \in SUBSET Files!Threads :
         ftodo' = [u \in Files!Threads |-> IF u \in gone THEN <<>> ELSE ftodo[u]]
  BY <1>1
<1>4. ftodo' \in [Files!Threads -> Seq(FileStep)]
  BY <1>3 DEF FilesInv, FileTypes
<1>5. \A u \in Files!Threads : \A i \in 1..Len(ftodo'[u]) : ftodo'[u][i] \in Left
  <2>1. SUFFICES ASSUME NEW u \in Files!Threads, NEW i \in 1..Len(ftodo'[u])
                 PROVE  ftodo'[u][i] \in Left
    OBVIOUS
  <2>2. ftodo'[u] = ftodo[u]
    BY <1>3, <2>1
  <2>3. QED BY <2>1, <2>2 DEF Left
<1>6. Left' \subseteq Left
  BY <1>5 DEF Left
<1>7. QED BY <1>1, <1>2, <1>4, <1>6, DiskStays

(* Save: the check finds no other name in its place. *)
LEMMA SaveKeeps ==
    ASSUME FilesInv, NEW t \in Files!Threads, Files!Save(t)
    PROVE  FilesInv'
<1> DEFINE s == Head(ftodo[t])
           w == [s EXCEPT !.op = "Write", !.seen = Files!View(s.n)]
<1>1. /\ UNCHANGED <<foldsCase, conf, policies, legacy, conns, owed, crossed>>
      /\ ftodo[t] # <<>> /\ s.op = "Save"
      /\ IF Files!SaveRefused(s.n) THEN Files!Returns(t) ELSE Files!Goes(t, <<w>>)
  BY DEF Files!Save, Files!At
<1>2. /\ policies' \in [FileNames -> FileIds \cup {Nil}]
      /\ conns' \subseteq FileNames \X FileIds
  BY <1>1 DEF FilesInv, FileTypes
<1>3. s \in FileStep /\ Sound(s) /\ s.n \in FileNames /\ s.k \in FileIds
  BY <1>1, LeftHead DEF FilesInv, Sound
<1>4. CASE Files!SaveRefused(s.n)
  BY <1>1, <1>2, <1>4, StepsFinish
<1>5. CASE ~Files!SaveRefused(s.n)
  <2>1. Files!View(s.n) \in SUBSET (FileNames \X FileIds)
    BY <1>3, Lookup DEF Files!View, FilesInv, FileTypes
  <2>2. \A p \in Files!View(s.n) : p[1] = s.n
    <3>1. ASSUME NEW m \in Files!Entries(conf, s.n) PROVE m = s.n
      BY <1>3, <1>5, Lookup, FileNamesFold DEF Files!SaveRefused, Files!CaseVariant
    <3>2. QED BY <3>1 DEF Files!View
  <2>3. w \in FileStep /\ w.op = "Write" /\ w.n = s.n /\ w.k = s.k /\ w.seen = Files!View(s.n)
    BY <1>3, <2>1 DEF FileStep, FileCalls
  <2>4. Sound(w) /\ w.op # "RemoveSource"
    BY <1>3, <2>1, <2>2, <2>3 DEF Sound
  <2>5. ftodo' \in [Files!Threads -> Seq(FileStep)] /\ Left' \subseteq Left \cup {w}
    BY <1>1, <1>5, <2>3, LeftGoesTo DEF FilesInv
  <2>6. \A x \in {w} : Sound(x) /\ x.op # "RemoveSource"
    BY <2>4
  <2>7. QED BY <1>1, <1>2, <2>5, <2>6, DiskAlone
<1>6. QED BY <1>4, <1>5

(* Write: over the tunnel that was there, or over none. *)
LEMMA FileWriteKeeps ==
    ASSUME FilesInv, NEW t \in Files!Threads, Files!Write(t)
    PROVE  FilesInv'
<1> DEFINE s == Head(ftodo[t])
           k == IF s.m = "fresh" /\ conf[s.n] # Nil THEN conf[s.n] ELSE s.k
           stamp == Files!Step("Stamp", s.n, Nil, k)
<1>1. /\ UNCHANGED <<foldsCase, policies, legacy, conns>> /\ (crossed => crossed')
      /\ ftodo[t] # <<>> /\ s.op = "Write"
      /\ conf' = Files!Put(conf, s.n, k)
      /\ crossed' \/ (/\ Files!View(s.n) = s.seen
                      /\ s.m = "fresh" \/ Files!Content(conf, s.n) \in {Nil, k})
      /\ owed' = IF s.m = "fresh" THEN owed \cup {k} ELSE owed
      /\ Files!Goes(t, IF s.seen = {} THEN <<stamp>> ELSE <<>>)
  BY DEF Files!Write, Files!At
<1>2. s \in FileStep /\ Sound(s) /\ s.n \in FileNames /\ s.k \in FileIds
      /\ \A p \in s.seen : p[1] = s.n
  BY <1>1, LeftHead DEF FilesInv, Sound
<1>3. k \in FileIds
  BY <1>2 DEF FilesInv, FileTypes
<1> HIDE DEF k
<1>4. stamp \in Fine
  BY <1>2, <1>3, FineSteps
<1>5. ftodo' \in [Files!Threads -> Seq(FileStep)] /\ Left' \subseteq Left \cup {stamp}
  <2>1. stamp \in FileStep
    BY <1>4 DEF Fine
  <2>2. QED BY <1>1, <2>1, LeftGoesTo, LeftGoesOn DEF FilesInv
<1>6. /\ conf' \in [FileNames -> FileIds \cup {Nil}] /\ OneEntry' /\ conf'[s.n] = k
      /\ \A m \in FileNames :
            m # s.n /\ m \notin Files!Entries(conf, s.n) => conf'[m] = conf[m]
  BY <1>1, <1>2, <1>3, PutKeeps DEF FilesInv
<1>7. FileTypes'
  BY <1>1, <1>3, <1>5, <1>6 DEF FilesInv, FileTypes
<1>8. ASSUME ~crossed', NEW l \in FileIds, NEW m \in FileNames, conf[m] = l PROVE OnDisk(l)'
  <2>1. conf[m] # Nil
    BY <1>8, ValuesAssumption DEF FileIds
  <2>2. ASSUME NEW e \in Files!Entries(conf, s.n) PROVE e = s.n
    <3>1. <<e, conf[e]>> \in s.seen
      BY <1>1, <1>8, <2>2 DEF Files!View
    <3>2. QED BY <1>2, <3>1
  <2>3. CASE m # s.n
    BY <1>6, <1>8, <2>2, <2>3 DEF OnDisk
  <2>4. CASE m = s.n
    <3>1. m \in Files!Entries(conf, s.n)
      BY <2>1, <2>4, Lookup
    <3>2. Files!Content(conf, s.n) = conf[m]
      BY <1>2, <2>2, <2>4, <3>1 DEF Files!Content
    <3>3. k = conf[m]
      BY <1>1, <1>8, <2>1, <2>4, <3>2 DEF k
    <3>4. QED BY <1>6, <1>8, <2>4, <3>3 DEF OnDisk
  <2>5. QED BY <2>3, <2>4
<1>9. \E n \in FileNames : conf'[n] = k
  BY <1>2, <1>6
<1>10. crossed' \/ Spares
  <2>1. owed \subseteq FileIds
    BY DEF FilesInv, FileTypes
  <2>2. \A l \in owed' : l \in owed \/ l = k
    BY <1>1
  <2>3. QED BY <1>8, <1>9, <2>1, <2>2 DEF OnDisk, Spares
<1>11. PICK N : N = {stamp}
  OBVIOUS
<1>12. Left' \subseteq Left \cup N /\ \A x \in N : Sound(x) /\ x.op # "RemoveSource"
  BY <1>4, <1>5, <1>11 DEF Fine
<1>13. QED BY <1>1, <1>6, <1>7, <1>10, <1>12, FilesStep

(* A deletion takes the tunnel that is deleted. *)
LEMMA RemoveConfKeeps ==
    ASSUME FilesInv, NEW t \in Files!Threads, Files!RemoveConf(t)
    PROVE  FilesInv'
<1> DEFINE s == Head(ftodo[t])
           sidecar == Files!Step("RemoveMeta", s.n, Nil, Nil)
<1>1. /\ UNCHANGED <<foldsCase, policies, legacy, conns>> /\ (crossed => crossed')
      /\ ftodo[t] # <<>> /\ s.op = "RemoveConf"
      /\ conf' = Files!Without(conf, s.n) /\ owed' = owed \ {s.k}
      /\ crossed' \/ conf[s.n] = s.k
      /\ \/ Files!Goes(t, <<>>)
         \/ ftodo' = [ftodo EXCEPT ![t] = <<sidecar>>]
  BY DEF Files!RemoveConf, Files!At
<1>2. Sound(s) /\ s.n \in FileNames
  BY <1>1, LeftHead DEF FilesInv, Sound
<1>3. sidecar \in Fine
  BY <1>2, FineSteps
<1>4. ftodo' \in [Files!Threads -> Seq(FileStep)] /\ Left' \subseteq Left \cup {sidecar}
  <2>1. <<sidecar>> \in Seq(FileStep)
        /\ {<<sidecar>>[i] : i \in 1..Len(<<sidecar>>)} = {sidecar}
    BY <1>3 DEF Fine
  <2>2. CASE Files!Goes(t, <<>>)
    BY <1>1, <2>2, LeftGoesOn DEF FilesInv
  <2>3. CASE ftodo' = [ftodo EXCEPT ![t] = <<sidecar>>]
    <3>1. /\ ftodo' \in [Files!Threads -> Seq(FileStep)]
          /\ Left' \subseteq Left \cup {<<sidecar>>[i] : i \in 1..Len(<<sidecar>>)}
      BY <2>1, <2>3, LeftBegins DEF FilesInv
    <3>2. QED BY <2>1, <3>1
  <2>4. QED BY <1>1, <2>2, <2>3
<1>5. /\ conf' \in [FileNames -> FileIds \cup {Nil}] /\ OneEntry'
      /\ \A m \in FileNames : m \notin Files!Entries(conf, s.n) => conf'[m] = conf[m]
  BY <1>1, <1>2, WithoutKeeps DEF FilesInv
<1>6. FileTypes'
  BY <1>1, <1>4, <1>5 DEF FilesInv, FileTypes
<1>7. ASSUME ~crossed', NEW l \in owed', NEW m \in FileNames, conf[m] = l PROVE OnDisk(l)'
  <2>1. l # s.k /\ l # Nil
    BY <1>1, <1>7, ValuesAssumption DEF FilesInv, FileTypes, FileIds
  <2>2. m \notin Files!Entries(conf, s.n)
    <3>1. conf[s.n] = s.k /\ m # s.n /\ s.k # Nil
      BY <1>1, <1>2, <1>7, <2>1, ValuesAssumption DEF FileIds, Sound
    <3>2. QED BY <1>2, <1>7, <2>1, <3>1, Lookup DEF FilesInv, OneEntry
  <2>3. QED BY <1>5, <1>7, <2>2 DEF OnDisk
<1>8. crossed' \/ Spares
  BY <1>1, <1>7 DEF OnDisk, Spares
<1>9. PICK N : N = {sidecar}
  OBVIOUS
<1>10. Left' \subseteq Left \cup N /\ \A x \in N : Sound(x) /\ x.op # "RemoveSource"
  BY <1>3, <1>4, <1>9 DEF Fine
<1>11. QED BY <1>1, <1>5, <1>6, <1>8, <1>10, FilesStep

(* Renames. *)
LEMMA RenameShapes ==
    ASSUME FilesInv, NEW s \in FileStep, Sound(s), s.op \in {"Rename", "LocalRename"}
    PROVE  Files!RenameSteps(s) \in Seq(Fine)
<1> DEFINE c == [s EXCEPT !.op = "RenameConf"]
           m == [s EXCEPT !.op = "RenameMeta"]
<1>1. /\ c \in FileStep /\ c.op = "RenameConf" /\ c.n = s.n /\ c.m = s.m /\ c.k = s.k
      /\ m \in FileStep /\ m.op = "RenameMeta" /\ m.n = s.n /\ m.m = s.m /\ m.k = s.k
  BY DEF FileStep, FileCalls
<1>2. s.n \in FileNames /\ s.m \in FileNames
  BY DEF Sound
<1>3. Sound(c) /\ Sound(m) /\ c.op # "RemoveSource" /\ m.op # "RemoveSource"
  BY <1>1, <1>2 DEF Sound
<1>4. c \in Fine /\ m \in Fine
  BY <1>1, <1>3 DEF Fine
<1>5. <<c>> \in Seq(Fine) /\ <<m>> \in Seq(Fine) /\ <<>> \in Seq(Fine)
  BY <1>4, FineLists
<1>6. QED BY <1>5, FineLists DEF Files!RenameSteps

(* The steps of a rename take the place of the call. *)
LEMMA FineGoes ==
    ASSUME FilesInv, NEW t \in Files!Threads, ftodo[t] # <<>>, NEW next \in Seq(Fine),
           Files!Goes(t, next), UNCHANGED <<foldsCase, conf, policies, legacy, conns, owed>>,
           crossed => crossed'
    PROVE  FilesInv'
<1>1. /\ next \in Seq(FileStep)
      /\ \A s \in {next[i] : i \in 1..Len(next)} : Sound(s) /\ s.op # "RemoveSource"
  BY DEF Fine
<1>2. /\ ftodo' \in [Files!Threads -> Seq(FileStep)]
      /\ Left' \subseteq Left \cup {next[i] : i \in 1..Len(next)}
  BY <1>1, LeftGoes DEF FilesInv
<1>3. /\ policies' \in [FileNames -> FileIds \cup {Nil}]
      /\ conns' \subseteq FileNames \X FileIds
  BY DEF FilesInv, FileTypes
<1>4. PICK N : N = {next[i] : i \in 1..Len(next)}
  OBVIOUS
<1>5. Left' \subseteq Left \cup N /\ \A s \in N : Sound(s) /\ s.op # "RemoveSource"
  BY <1>1, <1>2, <1>4
<1>6. QED BY <1>2, <1>3, <1>5, DiskAlone

(* The rename itself, in the helper or in wgctl. *)
LEMMA RenamesKeep ==
    ASSUME FilesInv, NEW t \in Files!Threads, Files!Rename(t) \/ Files!LocalRename(t)
    PROVE  FilesInv'
<1> DEFINE s == Head(ftodo[t])
           unlock == Files!Step("Unlock", Nil, Nil, Nil)
<1>1. /\ UNCHANGED <<foldsCase, conf, policies, legacy, conns, owed>> /\ (crossed => crossed')
      /\ ftodo[t] # <<>> /\ s.op \in {"Rename", "LocalRename"}
      /\ \/ Files!Returns(t)
         \/ Files!Goes(t, Files!RenameSteps(s) \o <<unlock>>)
         \/ Files!Goes(t, Files!RenameSteps(s))
  <2>1. CASE Files!Rename(t)
    BY <2>1 DEF Files!Rename, Files!At
  <2>2. CASE Files!LocalRename(t)
    BY <2>2 DEF Files!LocalRename, Files!At
  <2>3. QED BY <2>1, <2>2
<1>2. s \in FileStep /\ Sound(s)
  BY <1>1, LeftHead DEF FilesInv
<1>3. Files!RenameSteps(s) \in Seq(Fine)
  BY <1>1, <1>2, RenameShapes
<1>4. <<unlock>> \in Seq(Fine)
  <2>1. unlock \in FileStep /\ unlock.op = "Unlock"
    BY StepShape DEF FileCalls
  <2>2. Sound(unlock) /\ unlock.op # "RemoveSource"
    BY <2>1 DEF Sound
  <2>3. QED BY <2>1, <2>2, FineLists DEF Fine
<1>5. Files!RenameSteps(s) \o <<unlock>> \in Seq(Fine)
  BY <1>3, <1>4, FineLists
<1>6. CASE Files!Returns(t)
  <2>1. /\ policies' \in [FileNames -> FileIds \cup {Nil}]
        /\ conns' \subseteq FileNames \X FileIds
    BY <1>1 DEF FilesInv, FileTypes
  <2>2. QED BY <1>1, <1>6, <2>1, StepsFinish
<1>7. CASE Files!Goes(t, Files!RenameSteps(s) \o <<unlock>>)
  BY <1>1, <1>5, <1>7, FineGoes
<1>8. CASE Files!Goes(t, Files!RenameSteps(s))
  BY <1>1, <1>3, <1>8, FineGoes
<1>9. QED BY <1>1, <1>6, <1>7, <1>8

(* The rename of a .conf, there or back. *)
LEMMA ConfMoves ==
    ASSUME FilesInv, NEW t \in Files!Threads, ftodo[t] # <<>>,
           NEW n \in FileNames, NEW m \in FileNames, Files!Exists(n),
           conf' = Files!Moved(conf, n, m),
           crossed' \/ Files!Entries(conf, m) \subseteq Files!Entries(conf, n),
           Files!Goes(t, <<>>) \/ Files!Returns(t),
           UNCHANGED <<foldsCase, policies, legacy, conns, owed>>, crossed => crossed'
    PROVE  FilesInv'
<1>1. ftodo' \in [Files!Threads -> Seq(FileStep)] /\ Left' \subseteq Left
  BY LeftReturns, LeftGoesOn DEF FilesInv
<1>2. /\ conf' \in [FileNames -> FileIds \cup {Nil}] /\ OneEntry'
      /\ Files!Entries(conf, m) \subseteq Files!Entries(conf, n) =>
            \A k \in FileIds : OnDisk(k) => OnDisk(k)'
  BY MovedKeeps DEF FilesInv, Files!Exists
<1>3. FileTypes'
  BY <1>1, <1>2 DEF FilesInv, FileTypes
<1>4. crossed' \/ Spares
  <2>1. owed' = owed /\ owed \subseteq FileIds
    BY DEF FilesInv, FileTypes
  <2>2. QED BY <1>2, <2>1 DEF Spares
<1>5. PICK N : N = {}
  OBVIOUS
<1>6. Left' \subseteq Left \cup N /\ \A s \in N : Sound(s) /\ s.op # "RemoveSource"
  BY <1>1, <1>5
<1>7. QED BY <1>2, <1>3, <1>4, <1>6, FilesStep

(* Both files of a rename, one after the other. *)
LEMMA MovesKeep ==
    ASSUME FilesInv, NEW t \in Files!Threads, Files!RenameConf(t) \/ Files!RenameMeta(t)
    PROVE  FilesInv'
<1> DEFINE s == Head(ftodo[t])
<1>1. /\ UNCHANGED <<foldsCase, policies, legacy, conns, owed>>
      /\ ftodo[t] # <<>> /\ s.op \in {"RenameConf", "RenameMeta"}
      /\ Files!Goes(t, <<>>) \/ Files!Returns(t)
      /\ crossed => crossed'
      /\ \/ UNCHANGED conf
         \/ /\ Files!Exists(s.n) /\ conf' = Files!Moved(conf, s.n, s.m)
            /\ crossed' \/ Files!Entries(conf, s.m) \subseteq Files!Entries(conf, s.n)
         \/ /\ Files!Exists(s.m) /\ conf' = Files!Moved(conf, s.m, s.n)
            /\ crossed' \/ Files!Entries(conf, s.n) \subseteq Files!Entries(conf, s.m)
  <2>1. CASE Files!RenameConf(t)
    BY <2>1 DEF Files!RenameConf, Files!At
  <2>2. CASE Files!RenameMeta(t)
    BY <2>2 DEF Files!RenameMeta, Files!At
  <2>3. QED BY <2>1, <2>2
<1>2. s.n \in FileNames /\ s.m \in FileNames
  BY <1>1, LeftHead DEF FilesInv, Sound
<1>3. CASE UNCHANGED conf
  <2>1. /\ policies' \in [FileNames -> FileIds \cup {Nil}]
        /\ conns' \subseteq FileNames \X FileIds
    BY <1>1 DEF FilesInv, FileTypes
  <2>2. QED BY <1>1, <1>3, <2>1, StepsFinish
<1>4. CASE ~UNCHANGED conf
  BY <1>1, <1>2, <1>4, ConfMoves
<1>5. QED BY <1>3, <1>4

(* The copy of a tunnel from the old directory: the source goes afterwards. *)
LEMMA CopyKeeps ==
    ASSUME FilesInv, NEW t \in Files!Threads, Files!Copy(t)
    PROVE  FilesInv'
<1> DEFINE s == Head(ftodo[t])
           rm == [s EXCEPT !.op = "RemoveSource"]
           now == Files!Content(conf, s.n)
<1>1. /\ UNCHANGED <<foldsCase, policies, legacy, conns>>
      /\ ftodo[t] # <<>> /\ s.op = "Copy"
      /\ \/ Files!Goes(t, <<>>) /\ UNCHANGED <<conf, crossed, owed>>
         \/ /\ conf' = IF now = Nil THEN Files!Put(conf, s.n, s.k) ELSE conf
            /\ crossed => crossed'
            /\ owed' = IF now = Nil THEN owed ELSE owed \ {s.k}
            /\ Files!Goes(t, <<rm>>)
  BY DEF Files!Copy, Files!At
<1>2. s \in FileStep /\ Sound(s) /\ s.n \in FileNames /\ s.k \in FileIds /\ s.k = OldName(s.n)
  BY <1>1, LeftHead DEF FilesInv, Sound
<1>3. /\ policies' \in [FileNames -> FileIds \cup {Nil}]
      /\ conns' \subseteq FileNames \X FileIds
  BY <1>1 DEF FilesInv, FileTypes
<1>4. CASE Files!Goes(t, <<>>) /\ UNCHANGED <<conf, crossed, owed>>
  BY <1>1, <1>3, <1>4, StepsFinish
<1>5. CASE /\ conf' = IF now = Nil THEN Files!Put(conf, s.n, s.k) ELSE conf
           /\ crossed => crossed'
           /\ owed' = IF now = Nil THEN owed ELSE owed \ {s.k}
           /\ Files!Goes(t, <<rm>>)
  <2>1. rm \in FileStep /\ rm.op = "RemoveSource" /\ rm.n = s.n /\ rm.k = s.k
    BY <1>2 DEF FileStep, FileCalls
  <2>2. Sound(rm)
    BY <1>2, <2>1 DEF Sound
  <2>3. ftodo' \in [Files!Threads -> Seq(FileStep)] /\ Left' \subseteq Left \cup {rm}
    BY <1>1, <1>5, <2>1, LeftGoesTo DEF FilesInv
  <2>4. /\ conf' \in [FileNames -> FileIds \cup {Nil}] /\ OneEntry'
        /\ now = Nil => conf'[s.n] = s.k
        /\ \A k \in FileIds : OnDisk(k) => OnDisk(k)'
    <3>1. CASE now # Nil
      BY <1>1, <1>5, <3>1 DEF FilesInv, FileTypes, OneEntry, OnDisk
    <3>2. CASE now = Nil
      <4>1. Files!Entries(conf, s.n) = {} /\ conf[s.n] = Nil
        BY <1>2, <3>2, Resolves, ValuesAssumption DEF FilesInv, FileIds
      <4>2. /\ conf' \in [FileNames -> FileIds \cup {Nil}] /\ OneEntry' /\ conf'[s.n] = s.k
            /\ \A m \in FileNames : m # s.n => conf'[m] = conf[m]
        BY <1>1, <1>2, <1>5, <3>2, <4>1, PutKeeps DEF FilesInv
      <4>3. ASSUME NEW k \in FileIds, NEW m \in FileNames, conf[m] = k PROVE OnDisk(k)'
        <5>1. m # s.n
          BY <4>1, <4>3, ValuesAssumption DEF FileIds
        <5>2. QED BY <4>2, <4>3, <5>1 DEF OnDisk
      <4>4. QED BY <4>2, <4>3 DEF OnDisk
    <3>3. QED BY <3>1, <3>2
  <2>5. FileTypes'
    BY <1>1, <1>3, <1>5, <2>3, <2>4 DEF FilesInv, FileTypes
  <2>6. \A x \in Left' : Sound(x)
    BY <2>2, <2>3 DEF FilesInv
  <2>7. ASSUME ~crossed' PROVE KeysKept' /\ Sources'
    <3>1. KeysKept /\ Sources /\ ~crossed /\ owed' \subseteq owed /\ owed \subseteq FileIds
      BY <1>5, <2>7 DEF FilesInv, FileTypes
    <3>2. KeysKept'
      BY <1>1, <2>4, <3>1 DEF KeysKept, Files!KeysKept, OnDisk
    <3>3. Sources'
      <4>1. SUFFICES ASSUME NEW x \in Left', x.op = "RemoveSource", x.k \in owed'
                     PROVE  OnDisk(x.k)'
        BY DEF Sources
      <4>2. CASE x \in Left
        BY <2>4, <3>1, <4>1, <4>2 DEF Sources
      <4>3. CASE x = rm
        <5>1. now = Nil
          BY <1>5, <2>1, <4>1, <4>3
        <5>2. \E n \in FileNames : conf'[n] = x.k
          BY <1>2, <2>1, <2>4, <4>3, <5>1
        <5>3. QED BY <5>2 DEF OnDisk
      <4>4. QED BY <2>3, <4>1, <4>2, <4>3
    <3>4. QED BY <3>2, <3>3
  <2>8. (\A x \in Left : Sound(x))'
    BY <2>6 DEF Sound
  <2>9. QED BY <2>4, <2>5, <2>7, <2>8 DEF FilesInv
<1>6. QED BY <1>1, <1>4, <1>5

(* The source goes when its copy is there. *)
LEMMA SourcesGo ==
    ASSUME FilesInv, NEW t \in Files!Threads, Files!RemoveSource(t)
    PROVE  FilesInv'
<1> DEFINE s == Head(ftodo[t])
<1>1. /\ UNCHANGED <<foldsCase, conf, policies, conns, owed, crossed>>
      /\ ftodo[t] # <<>> /\ s.op = "RemoveSource" /\ Files!Goes(t, <<>>)
      /\ legacy' = [legacy EXCEPT ![s.n] = Nil]
  BY DEF Files!RemoveSource, Files!At
<1>2. s \in Left /\ s.n \in FileNames /\ s.k = OldName(s.n)
  BY <1>1, LeftHead DEF FilesInv, Sound
<1>3. ftodo' \in [Files!Threads -> Seq(FileStep)] /\ Left' \subseteq Left
  BY <1>1, LeftGoesOn DEF FilesInv
<1>4. FileTypes' /\ OneEntry'
  BY <1>1, <1>3 DEF FilesInv, FileTypes, OneEntry
<1>5. \A x \in Left' : Sound(x)
  BY <1>3 DEF FilesInv
<1>6. ASSUME ~crossed' PROVE KeysKept' /\ Sources'
  <2>1. KeysKept /\ Sources /\ ~crossed
    BY <1>1, <1>6 DEF FilesInv
  <2>2. Sources'
    BY <1>1, <1>3, <2>1 DEF Sources, OnDisk
  <2>3. KeysKept'
    <3>1. SUFFICES ASSUME NEW k \in owed
                   PROVE  \E n \in FileNames : conf[n] = k \/ legacy'[n] = k
      BY <1>1 DEF KeysKept, Files!KeysKept
    <3>2. PICK n \in FileNames : conf[n] = k \/ legacy[n] = k
      BY <2>1, <3>1 DEF KeysKept, Files!KeysKept
    <3>3. CASE n # s.n \/ conf[n] = k
      BY <1>1, <3>2, <3>3 DEF FilesInv, FileTypes
    <3>4. CASE n = s.n /\ legacy[n] = k
      <4>1. k # Nil /\ k = OldName(n)
        BY <3>1, <3>4, ValuesAssumption DEF FilesInv, FileTypes, FileIds
      <4>2. OnDisk(k)
        BY <1>1, <1>2, <2>1, <3>1, <3>4, <4>1 DEF Sources
      <4>3. QED BY <4>2 DEF OnDisk
    <3>5. QED BY <3>2, <3>3, <3>4
  <2>4. QED BY <2>2, <2>3
<1>7. (\A x \in Left : Sound(x))'
  BY <1>5 DEF Sound
<1>8. QED BY <1>4, <1>6, <1>7 DEF FilesInv

(* The invariant holds at first and in every step of the whole. *)
LEMMA FilesInitially == ASSUME UserInit PROVE FilesInv
<1>1. /\ foldsCase \in BOOLEAN
      /\ conf = [n \in FileNames |-> IF n = home THEN stored ELSE Nil]
      /\ policies = conf
      /\ legacy \in {[n \in FileNames |-> OldName(n)], [n \in FileNames |-> Nil]}
      /\ conns = {} /\ ftodo = [t \in Files!Threads |-> <<>>]
      /\ owed = ({conf[n] : n \in FileNames} \cup {legacy[n] : n \in FileNames}) \ {Nil}
  BY DEF UserInit, Files!Init, OldName
<1>2. \A n \in FileNames :
        OldName(n) \in FileIds \cup {Nil} /\ legacy[n] \in {OldName(n), Nil}
  BY <1>1 DEF OldName, FileIds
<1>3. /\ conf \in [FileNames -> FileIds \cup {Nil}]
      /\ legacy \in [FileNames -> FileIds \cup {Nil}]
      /\ owed \subseteq FileIds
  BY <1>1, <1>2 DEF FileIds
<1>4. ftodo \in [Files!Threads -> Seq(FileStep)] /\ Left = {}
  BY <1>1 DEF Left
<1>5. FileTypes
  BY <1>1, <1>2, <1>3, <1>4 DEF FileTypes
<1>6. OneEntry
  BY <1>1 DEF OneEntry
<1>7. KeysKept /\ Sources
  BY <1>1, <1>4 DEF KeysKept, Files!KeysKept, Sources
<1>8. QED BY <1>4, <1>5, <1>6, <1>7 DEF FilesInv

(* No step, of this part or of another, breaks the invariant of the files. *)
LEMMA FilesKept == ASSUME FilesInv, [UserNext]_all PROVE FilesInv'
<1>1. CASE UNCHANGED fvars
  <2>1. UNCHANGED <<foldsCase, conf, policies, legacy, conns, ftodo, owed, crossed>>
    BY <1>1 DEF fvars
  <2>2. /\ ftodo' \in [Files!Threads -> Seq(FileStep)] /\ Left' \subseteq Left
        /\ policies' \in [FileNames -> FileIds \cup {Nil}]
        /\ conns' \subseteq FileNames \X FileIds
    BY <2>1 DEF FilesInv, FileTypes, Left
  <2>3. QED BY <2>1, <2>2, DiskStays
<1>2. CASE \E n \in FileNames :
              \/ Files!ImportConfig(n) \/ Files!ImportZip(n) \/ Files!CtlImport(n)
              \/ Files!UpdateConfig(n) \/ Files!SetNotes(n) \/ Files!SetPolicies(n)
              \/ Files!DeleteTunnel(n) \/ Files!CtlDelete(n) \/ Files!SaveAutomationRules(n)
              \/ Files!ImportSettings(n) \/ Files!GuiConnect(n) \/ Files!AutomationConnect(n)
  BY <1>2, ImportsKeep, EditsKeep, DeletesKeep, RulesSaved, ImportSettingsKeeps
<1>3. CASE \E n, m \in FileNames : \/ Files!CtlLocalRename(n, m)
                                   \/ \E t \in Files!Threads : Files!RenameTunnel(t, n, m)
  BY <1>3, RenamesBegin
<1>4. CASE \/ Files!OpenSettings \/ \E o \in BOOLEAN : Files!MigrateLegacyData(o)
           \/ \E c \in conns : Files!Disconnect(c) \/ Files!SwitchEndpoint(c)
  BY <1>4, SettingsOpen, MigrationBegins, DisconnectsKeep, EndpointsSwitch
<1>5. CASE \E t \in Files!Threads :
              \/ Files!Save(t) \/ Files!Write(t) \/ Files!RemoveConf(t) \/ Files!Rename(t)
              \/ Files!LocalRename(t) \/ Files!RenameConf(t) \/ Files!RenameMeta(t)
              \/ Files!Copy(t) \/ Files!RemoveSource(t)
  BY <1>5, SaveKeeps, FileWriteKeeps, RemoveConfKeeps, RenamesKeep, MovesKeep, CopyKeeps,
     SourcesGo
<1>6. CASE \E t \in Files!Threads :
              \/ Files!Stamp(t) \/ Files!UpdateMeta(t) \/ Files!MustExist(t) \/ Files!NotUp(t)
              \/ Files!TakeDown(t) \/ Files!RemoveMeta(t) \/ Files!DropRules(t)
              \/ Files!Unlock(t) \/ Files!MoveRules(t) \/ Files!SaveSettings(t)
              \/ Files!SaveMeta(t) \/ Files!ReplaceRaw(t) \/ Files!Mark(t) \/ Files!Connect(t)
              \/ Files!Die(t)
  BY <1>6, SidecarsKeep, PoliciesKeep, ConnectionsKeep, DeathsKeep
<1>7. QED
  BY <1>1, <1>2, <1>3, <1>4, <1>5, <1>6 DEF UserNext, userVars, all, Files!Next

(* The tunnels the user has and did not delete are on disk, under whatever     *)
(* name, at every step of every call and after every death of a process,       *)
(* however many imports, edits, renames, migrations and deletions there are:   *)
(* none of them destroys another tunnel's private key.  Not where a step found *)
(* the disk other than its call had checked.                                   *)
(* (storage/tunnels.go Save, Delete, Rename; storage/legacy.go)                *)
THEOREM KeysAreKept == UserSpec => []KeysKept
<1>1. UserInit => FilesInv
  BY FilesInitially
<1>2. FilesInv /\ [UserNext]_all => FilesInv'
  BY FilesKept
<1>3. FilesInv => KeysKept
  BY DEF FilesInv, KeysKept, Files!KeysKept
<1>4. QED BY <1>1, <1>2, <1>3, PTL DEF UserSpec, all

=============================================================================
