----------------------------- MODULE TunnelFiles -----------------------------
(* The tunnels on disk: NAME.conf, its sidecar NAME.meta.json and the
   automation policy that config.json keeps under the name
   (internal/storage/tunnels.go, settings.go, legacy.go), with everybody who
   writes them: the GUI (internal/app), ctl (internal/cli), and the helper with
   its renames, connects and endpoint switches (internal/helper).

   TunnelStore's mutex is a process' own; only config.json has a lock between
   processes.  A call is a list of steps, one per change of the disk, and other
   processes' steps fall between them; those of the same process only between
   two calls of the store.  A process may die between any two steps.

   A tunnel is an identity: what an import under a new name creates.  An edit,
   an import over an existing name and a migration with "overwrite" change the
   tunnel of that name and keep its sidecar and its policy, by intent
   (file_ops.go:142-146).  A sidecar and a policy are the identity they were
   written for.

   Left out: contents, permissions, the sync of directories, deletions and
   renames of the "active" tunnel's files from outside; and of a rename the
   helper's cached config, and the policy's default and latches, which move with
   its rules (RenameTunnelRules in AutomationPolicy). *)
EXTENDS Naturals, Sequences, FiniteSets

CONSTANTS
    Names,      \* tunnel names
    Fold,       \* a name in lower case
    Ids,        \* tunnels: the stored one, the legacy ones, those of imports
    Stored,     \* [Names -> Ids \cup {None}], the tunnels at the start
    Legacy,     \* likewise, those in the pre-rename directory
    None,
    MaxOps      \* bound: operations begun

VARIABLES
    ci,         \* the file system folds case
    conf,       \* NAME.conf: the tunnel in it
    meta,       \* NAME.meta.json: the tunnel it was written for
    rules,      \* the policy under a name: the tunnel it was written for
    legacy,     \* the pre-rename directory
    marked,     \* legacy-migration.json says migrated or dismissed
    up,         \* connected tunnels: <<name, tunnel>>
    mu,         \* connectMu's holder
    todo,       \* each thread's remaining steps
    ops,        \* operations begun
    owed,       \* tunnels the user has and has not deleted
    died,       \* a process has died
    raced,      \* a step found the disk other than its call had checked
    stray       \* something was written by name for a tunnel not there or moving

vars == <<ci, conf, meta, rules, legacy, marked, up, mu, todo, ops, owed, died,
          raced, stray>>

Threads == {"gui", "flush", "ctl", "auto"}
Maybe == Ids \cup {None}

TypeOK ==
    /\ ci \in BOOLEAN /\ marked \in BOOLEAN /\ died \in BOOLEAN
    /\ raced \in BOOLEAN /\ stray \in BOOLEAN
    /\ conf \in [Names -> Maybe] /\ meta \in [Names -> Maybe]
    /\ rules \in [Names -> Maybe] /\ legacy \in [Names -> Maybe]
    /\ up \subseteq Names \X Ids
    /\ mu \in Threads \cup {None}
    /\ ops \in 0 .. MaxOps /\ owed \subseteq Ids

Init ==
    /\ ci \in BOOLEAN
    /\ conf = Stored /\ meta = Stored /\ rules = Stored
    /\ legacy \in {Legacy, [n \in Names |-> None]}
    /\ marked = FALSE
    /\ up = {} /\ mu = None /\ todo = [t \in Threads |-> <<>>] /\ ops = 0
    /\ owed = ({Stored[n] : n \in Names} \cup {legacy[n] : n \in Names}) \ {None}
    /\ died = FALSE /\ raced = FALSE /\ stray = FALSE

-----------------------------------------------------------------------------
(* The directory. *)

\* The entries that a path resolves to.
Entries(f, n) == {m \in Names : f[m] # None /\ (m = n \/ (ci /\ Fold[m] = Fold[n]))}
Content(f, n) == IF Entries(f, n) = {} THEN None
                 ELSE f[CHOOSE m \in Entries(f, n) : TRUE]
Exists(n) == Entries(conf, n) # {}
View(n) == {<<m, conf[m]>> : m \in Entries(conf, n)}
Without(f, n) == [m \in Names |-> IF m \in Entries(f, n) THEN None ELSE f[m]]
Put(f, n, k) == [Without(f, n) EXCEPT ![n] = k]

\* A stored name that differs by case only, whatever the file system.
CaseVariant(n) == \E m \in Names \ {n} : conf[m] # None /\ Fold[m] = Fold[n]

UniqueName(n) == IF Exists(n) THEN {m \in Names : ~Exists(m) /\ ~CaseVariant(m)} ELSE {n}

IsUp(n) == \E c \in up : c[1] = n

-----------------------------------------------------------------------------
(* Threads and steps. *)

Step(op, n, m, k) == [op |-> op, n |-> n, m |-> m, k |-> k, seen |-> None]

\* Steps taken with the store's mutex held since the step before, and the
\* process they run in.
Inside == {"Write", "Stamp", "RemoveMeta", "RenameConf", "RenameMeta"}
HelperSteps == {"Rename", "LocalRename", "RenameConf", "RenameMeta", "Connect"}
Process(t) ==
    CASE todo[t] # <<>> /\ Head(todo[t]).op \in HelperSteps /\ mu = t -> "helper"
      [] t = "auto" -> "helper"
      [] t \in {"gui", "flush"} -> "app"
      [] OTHER -> "ctl"
Held(t) == \E u \in Threads \ {t} :
              /\ todo[u] # <<>> /\ Head(todo[u]).op \in Inside
              /\ Process(u) = Process(t)

\* The next step of t is op, and then the steps `next`, with the rest after
\* them; or t returns and drops the rest.
At(t, op) == todo[t] # <<>> /\ Head(todo[t]).op = op
Goes(t, next) == todo' = [todo EXCEPT ![t] = next \o Tail(@)]
Returns(t) == todo' = [todo EXCEPT ![t] = <<>>]

\* A step is about a name, in whatever case.
About(s, n) == \E m \in Names : m \in {s.n, s.m} /\ Fold[m] = Fold[n]

\* Another thread is at work on a name; another process is in the middle of a
\* store's call on it.
Busy(n, t) == \E u \in Threads \ {t} : \E i \in DOMAIN todo[u] : About(todo[u][i], n)
Crossed(n, t) == \E u \in Threads \ {t} :
                    todo[u] # <<>> /\ Head(todo[u]).op \in Inside /\ About(Head(todo[u]), n)

Begin(t, steps) ==
    /\ todo[t] = <<>> /\ ops < MaxOps
    /\ ops' = ops + 1
    /\ todo' = [todo EXCEPT ![t] = steps]
    /\ UNCHANGED <<ci, conf, meta, rules, legacy, marked, up, mu, owed, died, raced, stray>>

-----------------------------------------------------------------------------
(* Save: the checks, the rename of the temporary file over the target, and the
   sidecar of a new tunnel. *)

(* Mutant: names that differ by case are different. *)
SaveRefused_Mut(n) == FALSE

SaveRefused(n) == CaseVariant(n)

Save(t) ==
    /\ At(t, "Save") /\ ~Held(t)
    /\ LET s == Head(todo[t]) IN
       IF SaveRefused(s.n) THEN Returns(t)
       ELSE Goes(t, <<[s EXCEPT !.op = "Write", !.seen = View(s.n)]>>)
    /\ UNCHANGED <<ci, conf, meta, rules, legacy, marked, up, mu, ops, owed, died, raced, stray>>

\* A tunnel not on disk is created; over an existing name the tunnel stays.
Write(t) ==
    /\ At(t, "Write") /\ ~Held(t)
    /\ LET s == Head(todo[t])
           now == Content(conf, s.n)
           \* An import over its own name keeps the tunnel; an edit is of the
           \* tunnel it loaded.
           k == IF s.m = "fresh" /\ conf[s.n] # None THEN conf[s.n] ELSE s.k
       IN /\ conf' = Put(conf, s.n, k)
          /\ raced' = (raced \/ View(s.n) # s.seen \/ (s.m # "fresh" /\ now \notin {None, k}))
          /\ owed' = IF s.m = "fresh" THEN owed \cup {k} ELSE owed
          /\ Goes(t, IF s.seen = {} THEN <<Step("Stamp", s.n, None, k)>> ELSE <<>>)
    /\ UNCHANGED <<ci, meta, rules, legacy, marked, up, mu, ops, died, stray>>

\* A sidecar is read, changed and written: what it held stays.
Touch(t, n, k) ==
    /\ meta' = IF Content(meta, n) = None THEN Put(meta, n, k) ELSE meta
    /\ stray' = (stray \/ Content(conf, n) # k \/ Busy(n, t))

Stamp(t) ==
    /\ At(t, "Stamp") /\ ~Held(t)
    /\ Touch(t, Head(todo[t]).n, Head(todo[t]).k)
    /\ Goes(t, <<>>)
    /\ UNCHANGED <<ci, conf, rules, legacy, marked, up, mu, ops, owed, died, raced>>

\* SetTunnelNotes, the probe targets and the endpoint settings look whether
\* the tunnel exists before; SetTunnelPolicies and SetTunnelBinding do not.
UpdateMeta(t) ==
    /\ At(t, "UpdateMeta") /\ ~Held(t)
    /\ Touch(t, Head(todo[t]).n, Head(todo[t]).k)
    /\ Goes(t, <<>>)
    /\ UNCHANGED <<ci, conf, rules, legacy, marked, up, mu, ops, owed, died, raced>>

MustExist(t) ==
    /\ At(t, "MustExist") /\ ~Held(t)
    /\ IF Exists(Head(todo[t]).n) THEN Goes(t, <<>>) ELSE Returns(t)
    /\ UNCHANGED <<ci, conf, meta, rules, legacy, marked, up, mu, ops, owed, died, raced, stray>>

-----------------------------------------------------------------------------
(* Imports, edits and sidecars. *)

Fresh == Ids \ ({conf[n] : n \in Names} \cup {legacy[n] : n \in Names} \cup owed
                \cup {meta[n] : n \in Names} \cup {rules[n] : n \in Names}
                \cup UNION {{todo[t][i].k : i \in 1 .. Len(todo[t])} : t \in Threads})

\* A file, a QR code or an archive's entry; over an existing name the user has
\* agreed to it.  A new tunnel takes the master switch over.
ImportConfig(n) ==
    \E k \in Fresh :
       Begin("gui", <<Step("Save", n, "fresh", k)>>
                    \o IF Exists(n) THEN <<>> ELSE <<Step("UpdateMeta", n, None, k)>>)

ImportZip(n) == \E m \in UniqueName(n) : ImportConfig(m)

\* ctl refuses an existing name before the import.
CtlImport(n) ==
    /\ ~Exists(n)
    /\ \E k \in Fresh : Begin("ctl", <<Step("Save", n, "fresh", k)>>)

\* UpdateConfig: an edit of the editor's text, whatever has become of the
\* tunnel; the endpoint switches load the config, measure, and save it.
UpdateConfig(n) ==
    conf[n] # None /\ Begin("gui", <<Step("Save", n, None, conf[n])>>)

SetNotes(n) ==
    conf[n] # None
    /\ Begin("flush", <<Step("MustExist", n, None, None), Step("UpdateMeta", n, None, conf[n])>>)

SetPolicies(n) ==
    conf[n] # None /\ Begin("flush", <<Step("UpdateMeta", n, None, conf[n])>>)

-----------------------------------------------------------------------------
(* Delete: the .conf, the sidecar, and under config.json's lock the policy. *)

\* The GUI refuses a connected tunnel, ctl disconnects it first.
DeleteTunnel(n) ==
    conf[n] # None
    /\ Begin("gui", <<Step("NotUp", n, None, None), Step("RemoveConf", n, None, conf[n]),
                      Step("RemoveMeta", n, None, None), Step("DropRules", n, None, None)>>)

CtlDelete(n) ==
    conf[n] # None
    /\ Begin("ctl", <<Step("TakeDown", n, None, None), Step("RemoveConf", n, None, conf[n]),
                      Step("RemoveMeta", n, None, None), Step("DropRules", n, None, None)>>)

NotUp(t) ==
    /\ At(t, "NotUp")
    /\ IF IsUp(Head(todo[t]).n) THEN Returns(t) ELSE Goes(t, <<>>)
    /\ UNCHANGED <<ci, conf, meta, rules, legacy, marked, up, mu, ops, owed, died, raced, stray>>

TakeDown(t) ==
    /\ At(t, "TakeDown") /\ (mu = None \/ ~IsUp(Head(todo[t]).n))
    /\ up' = {c \in up : c[1] # Head(todo[t]).n}
    /\ Goes(t, <<>>)
    /\ UNCHANGED <<ci, conf, meta, rules, legacy, marked, mu, ops, owed, died, raced, stray>>

\* With no .conf left the sidecar goes all the same, and the call ends there.
RemoveConf(t) ==
    /\ At(t, "RemoveConf") /\ ~Held(t)
    /\ LET s == Head(todo[t]) IN
       /\ conf' = Without(conf, s.n)
       /\ owed' = owed \ {s.k}
       /\ raced' = (raced \/ conf[s.n] # s.k \/ IsUp(s.n))
       /\ IF Exists(s.n) THEN Goes(t, <<>>)
          ELSE todo' = [todo EXCEPT ![t] = <<Step("RemoveMeta", s.n, None, None)>>]
    /\ UNCHANGED <<ci, meta, rules, legacy, marked, up, mu, ops, died, stray>>

RemoveMeta(t) ==
    /\ At(t, "RemoveMeta") /\ ~Held(t)
    /\ meta' = Without(meta, Head(todo[t]).n)
    /\ Goes(t, <<>>)
    /\ UNCHANGED <<ci, conf, rules, legacy, marked, up, mu, ops, owed, died, raced, stray>>

\* DeleteTunnelRules.
Dropped(n) == [rules EXCEPT ![n] = None]

DropRules(t) ==
    /\ At(t, "DropRules")
    /\ rules' = Dropped(Head(todo[t]).n)
    /\ stray' = (stray \/ Content(conf, Head(todo[t]).n) # None)
    /\ Goes(t, <<>>)
    /\ UNCHANGED <<ci, conf, meta, legacy, marked, up, mu, ops, owed, died, raced>>

-----------------------------------------------------------------------------
(* Rename: the helper moves the files under connectMu; the caller then moves
   the policy. *)

RenameTunnel(t, n, m) ==
    /\ t \in {"gui", "ctl"} /\ n # m /\ conf[n] # None
    /\ Begin(t, <<Step("Rename", n, m, conf[n]), Step("MoveRules", n, m, None)>>)

\* ctl with no helper to ask; the GUI's way with one too old to know.
CtlLocalRename(n, m) ==
    /\ up = {} /\ n # m /\ conf[n] # None
    /\ Begin("ctl", <<Step("LocalRename", n, m, conf[n]), Step("MoveRules", n, m, None)>>)

PureCaseChange(n, m) == Fold[n] = Fold[m]

\* Rename's checks and the probe of both targets.
RenameRefused(n, m) ==
    \/ ~Exists(n)
    \/ ~PureCaseChange(n, m) /\ (Exists(m) \/ CaseVariant(m))
    \/ ~PureCaseChange(n, m) /\ Content(meta, n) # None /\ Content(meta, m) # None

RenameSteps(s) ==
    <<[s EXCEPT !.op = "RenameConf"]>>
    \o IF Content(meta, s.n) = None THEN <<>> ELSE <<[s EXCEPT !.op = "RenameMeta"]>>

(* Mutant: a connected tunnel is renamed. *)
ActiveRefused_Mut(n) == FALSE

\* handleRename takes connectMu, and refuses a tunnel that is up.
ActiveRefused(n) == IsUp(n)

Rename(t) ==
    /\ At(t, "Rename") /\ mu = None
    /\ ~\E u \in Threads : Process(u) = "helper" /\ todo[u] # <<>> /\ Head(todo[u]).op \in Inside
    /\ LET s == Head(todo[t]) IN
       IF ActiveRefused(s.n) \/ RenameRefused(s.n, s.m)
       THEN Returns(t) /\ UNCHANGED mu
       ELSE Goes(t, RenameSteps(s) \o <<Step("Unlock", None, None, None)>>) /\ mu' = t
    /\ raced' = (raced \/ Crossed(Head(todo[t]).n, t))
    /\ stray' = (stray \/ Crossed(Head(todo[t]).m, t))
    /\ UNCHANGED <<ci, conf, meta, rules, legacy, marked, up, ops, owed, died>>

LocalRename(t) ==
    /\ At(t, "LocalRename") /\ ~Held(t)
    /\ LET s == Head(todo[t]) IN
       IF RenameRefused(s.n, s.m) THEN Returns(t) ELSE Goes(t, RenameSteps(s))
    /\ raced' = (raced \/ Crossed(Head(todo[t]).n, t))
    /\ stray' = (stray \/ Crossed(Head(todo[t]).m, t))
    /\ UNCHANGED <<ci, conf, meta, rules, legacy, marked, up, mu, ops, owed, died>>

Moved(f, n, m) == [Without(Without(f, n), m) EXCEPT ![m] = Content(f, n)]

RenameConf(t) ==
    /\ At(t, "RenameConf") /\ ~Held(t)
    /\ LET s == Head(todo[t]) IN
       IF Exists(s.n)
       THEN /\ conf' = Moved(conf, s.n, s.m)
            /\ raced' = (raced \/ conf[s.n] # s.k \/ (IsUp(s.n) /\ mu # t)
                         \/ Entries(conf, s.m) \ Entries(conf, s.n) # {})
            /\ Goes(t, <<>>) /\ UNCHANGED mu
       ELSE /\ Returns(t) /\ mu' = (IF mu = t THEN None ELSE mu)
            /\ UNCHANGED <<conf, raced>>
    /\ UNCHANGED <<ci, meta, rules, legacy, marked, up, ops, owed, died, stray>>

\* A failure moves the .conf back.
RenameMeta(t) ==
    /\ At(t, "RenameMeta") /\ ~Held(t)
    /\ LET s == Head(todo[t])
           raw == Content(conf, s.m) # s.k \/ Entries(conf, s.n) \ Entries(conf, s.m) # {}
           side == Entries(meta, s.m) \ Entries(meta, s.n) # {}
       IN
       /\ \/ /\ Content(meta, s.n) # None
             /\ meta' = Moved(meta, s.n, s.m)
             /\ raced' = (raced \/ raw \/ side)
             /\ Goes(t, <<>>) /\ UNCHANGED <<conf, mu>>
          \/ /\ conf' = IF Exists(s.m) THEN Moved(conf, s.m, s.n) ELSE conf
             /\ raced' = (raced \/ raw \/ IsUp(s.m))
             /\ Returns(t) /\ mu' = (IF mu = t THEN None ELSE mu)
             /\ UNCHANGED meta
       /\ stray' = (stray \/ side \/ conf[s.m] # s.k \/ Content(meta, s.n) # s.k)
    /\ UNCHANGED <<ci, rules, legacy, marked, up, ops, owed, died>>

Unlock(t) ==
    /\ At(t, "Unlock")
    /\ mu' = None /\ Goes(t, <<>>)
    /\ UNCHANGED <<ci, conf, meta, rules, legacy, marked, up, ops, owed, died, raced, stray>>

\* RenameTunnelRules.
RulesMoved(n, m) ==
    IF rules[n] = None THEN rules ELSE [rules EXCEPT ![m] = rules[n], ![n] = None]

MoveRules(t) ==
    /\ At(t, "MoveRules")
    /\ LET s == Head(todo[t]) IN
       /\ rules' = RulesMoved(s.n, s.m)
       /\ stray' = (stray \/ (rules[s.n] # None /\ (conf[s.m] # rules[s.n] \/ Busy(s.m, t))))
    /\ Goes(t, <<>>)
    /\ UNCHANGED <<ci, conf, meta, legacy, marked, up, mu, ops, owed, died, raced>>

-----------------------------------------------------------------------------
(* Settings. *)

SaveAutomationRules(n) ==
    /\ conf[n] # None /\ ops < MaxOps
    /\ ops' = ops + 1
    /\ rules' = [rules EXCEPT ![n] = conf[n]]
    /\ stray' = (stray \/ Busy(n, None))
    /\ UNCHANGED <<ci, conf, meta, legacy, marked, up, mu, todo, owed, died, raced>>

\* The settings dialog sends back every policy it was given when it opened;
\* applySettingsPayload keeps the latches and the resolver lists only.
OpenSettings ==
    Begin("flush", <<[op |-> "SaveSettings", n |-> None, m |-> rules, k |-> None, seen |-> None]>>)

SaveSettings(t) ==
    /\ At(t, "SaveSettings")
    /\ rules' = Head(todo[t]).m
    /\ stray' = (stray \/ rules # Head(todo[t]).m)
    /\ Goes(t, <<>>)
    /\ UNCHANGED <<ci, conf, meta, legacy, marked, up, mu, ops, owed, died, raced>>

\* A package of one tunnel: the tunnel under a free name, its sidecar after it,
\* config.json, if packed, with the policy under the name it had, and the
\* tunnel again if its scripts must be pointed at this machine's.
ImportSettings(n) ==
    \E k \in Fresh, m \in UniqueName(n), config \in BOOLEAN, scripts \in BOOLEAN :
       Begin("gui", <<Step("Save", m, "fresh", k), Step("UpdateMeta", m, None, k),
                      Step("SaveMeta", m, None, k)>>
                    \o (IF config THEN <<Step("ReplaceRaw", n, None, k)>> ELSE <<>>)
                    \o (IF scripts THEN <<Step("MustExist", m, None, None), Step("Save", m, None, k)>>
                        ELSE <<>>))

SaveMeta(t) ==
    /\ At(t, "SaveMeta") /\ ~Held(t)
    /\ LET s == Head(todo[t]) IN
       /\ meta' = Put(meta, s.n, s.k)
       /\ stray' = (stray \/ Content(conf, s.n) # s.k \/ Busy(s.n, t))
    /\ Goes(t, <<>>)
    /\ UNCHANGED <<ci, conf, rules, legacy, marked, up, mu, ops, owed, died, raced>>

ReplaceRaw(t) ==
    /\ At(t, "ReplaceRaw")
    /\ LET s == Head(todo[t]) IN
       /\ rules' = [n \in Names |-> IF n = s.n THEN s.k ELSE None]
       /\ stray' = (stray \/ conf[s.n] # s.k \/ Busy(s.n, t))
    /\ Goes(t, <<>>)
    /\ UNCHANGED <<ci, conf, meta, legacy, marked, up, mu, ops, owed, died, raced>>

-----------------------------------------------------------------------------
(* The pre-rename directory: copied file by file past the store, the source
   removed after each copy. *)

Conflicts(n) == Exists(n)

MigrateLegacyData(overwrite) ==
    LET items == {n \in Names : legacy[n] # None}
        taken == {n \in items : overwrite \/ ~Conflicts(n)}
        Copies(S) == {[op |-> "Copy", n |-> n, m |-> Conflicts(n), k |-> legacy[n], seen |-> None]
                        : n \in S}
    IN /\ items # {} /\ ~marked
       /\ \E order \in [1 .. Cardinality(taken) -> Copies(taken)] :
             /\ \A i, j \in DOMAIN order : i # j => order[i] # order[j]
             /\ Begin("gui", order \o IF taken # {} /\ taken = items
                                      THEN <<Step("Mark", None, None, None)>> ELSE <<>>)

\* The target is truncated and filled, then the source goes.  A copy that
\* fails leaves the target and the source as they are here; with another one
\* that succeeded and nothing skipped the migration is recorded all the same.
Copy(t) ==
    /\ At(t, "Copy")
    /\ LET s == Head(todo[t])
           now == Content(conf, s.n)
       IN \/ Goes(t, <<>>) /\ UNCHANGED <<conf, raced, owed>>
          \/ /\ conf' = IF now = None THEN Put(conf, s.n, s.k) ELSE conf
             /\ raced' = (raced \/ (now # None /\ ~s.m))
             /\ owed' = IF now = None THEN owed ELSE owed \ {s.k}
             /\ Goes(t, <<[s EXCEPT !.op = "RemoveSource"]>>)
    /\ UNCHANGED <<ci, meta, rules, legacy, marked, up, mu, ops, died, stray>>

RemoveSource(t) ==
    /\ At(t, "RemoveSource")
    /\ legacy' = [legacy EXCEPT ![Head(todo[t]).n] = None]
    /\ Goes(t, <<>>)
    /\ UNCHANGED <<ci, conf, meta, rules, marked, up, mu, ops, owed, died, raced, stray>>

Mark(t) ==
    /\ At(t, "Mark")
    /\ marked' = (\E n \in Names : Legacy[n] # None /\ legacy[n] = None)
    /\ Goes(t, <<>>)
    /\ UNCHANGED <<ci, conf, meta, rules, legacy, up, mu, ops, owed, died, raced, stray>>

-----------------------------------------------------------------------------
(* Connects: the config is loaded first, and the helper is asked later, or
   takes connectMu later, with what was loaded. *)

Load(n) == Step("Connect", n, None, conf[n])

\* The GUI may save the endpoint it measured best in between.
GuiConnect(n) ==
    /\ conf[n] # None
    /\ \/ Begin("gui", <<Load(n)>>)
       \/ Begin("gui", <<Step("Save", n, None, conf[n]), Load(n)>>)

AutomationConnect(n) == conf[n] # None /\ Begin("auto", <<Load(n)>>)

Connect(t) ==
    /\ At(t, "Connect") /\ mu = None
    /\ LET s == Head(todo[t]) IN
       /\ up' = IF IsUp(s.n) THEN up ELSE up \cup {<<s.n, s.k>>}
       /\ raced' = (raced \/ (~IsUp(s.n) /\ conf[s.n] # s.k))
    /\ Goes(t, <<>>)
    /\ UNCHANGED <<ci, conf, meta, rules, legacy, marked, mu, ops, owed, died, stray>>

Disconnect(c) ==
    /\ mu = None /\ up' = up \ {c}
    /\ UNCHANGED <<ci, conf, meta, rules, legacy, marked, mu, todo, ops, owed, died, raced, stray>>

\* A retry's endpoint switch saves the config it was handed.
SwitchEndpoint(c) == Begin("auto", <<Step("Save", c[1], None, c[2])>>)

-----------------------------------------------------------------------------
(* A process dies; with the helper go the connections and the calls it is
   serving, whose callers fail and stop. *)

Die(t) ==
    /\ todo[t] # <<>>
    /\ LET gone == {u \in Threads : Process(u) = Process(t)} IN
       /\ todo' = [u \in Threads |-> IF u \in gone THEN <<>> ELSE todo[u]]
       /\ up' = IF Process(t) = "helper" THEN {} ELSE up
       /\ mu' = IF mu \in gone THEN None ELSE mu
    /\ died' = TRUE
    /\ UNCHANGED <<ci, conf, meta, rules, legacy, marked, ops, owed, raced, stray>>

Next ==
    \/ \E n \in Names :
          \/ ImportConfig(n) \/ ImportZip(n) \/ CtlImport(n) \/ UpdateConfig(n)
          \/ SetNotes(n) \/ SetPolicies(n) \/ DeleteTunnel(n) \/ CtlDelete(n)
          \/ SaveAutomationRules(n) \/ ImportSettings(n) \/ GuiConnect(n)
          \/ AutomationConnect(n)
    \/ \E n, m \in Names : CtlLocalRename(n, m) \/ \E t \in Threads : RenameTunnel(t, n, m)
    \/ OpenSettings \/ \E o \in BOOLEAN : MigrateLegacyData(o)
    \/ \E c \in up : Disconnect(c) \/ SwitchEndpoint(c)
    \/ \E t \in Threads :
          \/ Save(t) \/ Write(t) \/ Stamp(t) \/ UpdateMeta(t) \/ MustExist(t)
          \/ NotUp(t) \/ TakeDown(t) \/ RemoveConf(t) \/ RemoveMeta(t) \/ DropRules(t)
          \/ Rename(t) \/ LocalRename(t) \/ RenameConf(t) \/ RenameMeta(t) \/ Unlock(t)
          \/ MoveRules(t) \/ SaveSettings(t) \/ SaveMeta(t) \/ ReplaceRaw(t)
          \/ Copy(t) \/ RemoveSource(t) \/ Mark(t) \/ Connect(t)
          \/ Die(t)

Spec == Init /\ [][Next]_vars

-----------------------------------------------------------------------------
(* Properties. *)

\* The tunnels the user has and did not delete are on disk, under whatever
\* name, at every moment of every call and after every death of a process: no
\* import, edit, rename, change of case or migration destroys another tunnel's
\* private key (tunnels.go:35-38 and 362-369).  Excepted is a file that another
\* process puts in place between a call's check and its rename, the window that
\* tunnels.go:144-146 accepts, and a migrated one whose name differs by case from
\* a stored one: the migration does not look for those, and where the file
\* system tells them apart a change of case renames one over the other.
KeysKept ==
    raced \/ \A k \in owed : \E n \in Names : conf[n] = k \/ legacy[n] = k

\* A sidecar, a policy and a connection under a name are those of the tunnel
\* stored there, so that a new tunnel never inherits an old one's (issue #12),
\* once the calls on it have returned; unless a process died in the middle of
\* one, or something was written by name for a tunnel that had gone meanwhile or
\* was being moved.
BelongTogether ==
    died \/ raced \/ stray \/ \E t \in Threads : todo[t] # <<>>
    \/ /\ \A n \in Names : conf[n] # None =>
             Content(meta, n) \in {None, conf[n]} /\ rules[n] \in {None, conf[n]}
       /\ \A c \in up : Content(conf, c[1]) = c[2]

=============================================================================
