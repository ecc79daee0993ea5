--------------------------- MODULE AutomationPolicy ---------------------------
(***************************************************************************)
(* The stored policies (Settings.Automation and the manual latches) and    *)
(* every operation that edits them: the GUI's editor, `ctl automation`,    *)
(* rename and delete, and EnsureAutomation, with which each of them and    *)
(* the engine begins.  Each is one locked read-modify-write of             *)
(* settings.json.  What the stored policies mean is AutomationRules.       *)
(***************************************************************************)
EXTENDS AutomationRules

CONSTANTS
    Tunnels,
    Rules,       \* the rules the user may write
    Contexts,    \* the network contexts
    MaxRules     \* bound: the rules of all tunnels together

(* A rule's conditions are a list, and a window has the clock times of one day,
   or none (parseClock).  A context has the fields of NetworkContext. *)
ASSUME PolicyAssumption ==
    /\ MaxRules \in Nat
    /\ \A r \in Rules :
          /\ r.when = [i \in 1..Len(r.when) |-> r.when[i]]
          /\ Len(r.when) \in Nat
          /\ \A i \in DOMAIN r.when :
                r.when[i].type = "time" /\ r.when[i].val # Bad =>
                   /\ r.when[i].val.start \in {Unset} \cup 0..(DayLen - 1)
                   /\ r.when[i].val.end \in {Unset} \cup 0..(DayLen - 1)
    /\ \A ctx \in Contexts :
          ctx = [ssid |-> ctx.ssid, ips |-> ctx.ips, mac |-> ctx.mac,
                 gwIP |-> ctx.gwIP, ifaces |-> ctx.ifaces, now |-> ctx.now]

VARIABLES
    policy,      \* Automation.PerTunnel and .Defaults, by tunnel
    off, on      \* ManualOffTunnels, ManualOnTunnels

vars == <<policy, off, on>>

NoPolicy == [rules |-> <<>>, def |-> Absent]

Lists == UNION {[1..n -> Rules] : n \in 0..MaxRules}

RulesOf(pol) == UNION {{<<t, i>> : i \in DOMAIN pol[t].rules} : t \in Tunnels}

(* EnsureAutomation, on load. *)
Normal(p) == [rules |-> NormalRules(p.rules),
              def |-> NormalDefault(p.rules, p.def)]
Loaded == [t \in Tunnels |-> Normal(policy[t])]

(* A file of an older version, or one edited by hand: any rules, and a
   Default State or none. *)
Init ==
    /\ policy \in [Tunnels -> [rules : Lists, def : {Absent, Connect}]]
    /\ Cardinality(RulesOf(policy)) <= MaxRules
    /\ off = {}
    /\ on = {}

-----------------------------------------------------------------------------
(* SaveAutomationRules: malformed rules are refused, a Default State that is
   no action is stored as disconnect. *)
SaveAutomationRules(t, rules, def) ==
    /\ \A i \in DOMAIN rules : ValidRule(rules[i])
    /\ policy' = [Loaded EXCEPT ![t] =
                     [rules |-> rules,
                      def |-> IF KnownAction(def) THEN def ELSE Disconnect]]
    /\ UNCHANGED <<off, on>>

AutomationAdd(t, r) ==
    /\ ValidRule(r)
    /\ policy' = [Loaded EXCEPT ![t] =
                     [rules |-> Append(@.rules, r),
                      def |-> IF @.def = Absent THEN Disconnect ELSE @.def]]
    /\ UNCHANGED <<off, on>>

(* The last rule takes the entry with it only if no Default State is known. *)
AutomationRm(t, i) ==
    /\ i \in DOMAIN Loaded[t].rules
    /\ LET rest == [j \in 1..(Len(Loaded[t].rules) - 1) |->
                       Loaded[t].rules[IF j < i THEN j ELSE j + 1]]
       IN policy' = [Loaded EXCEPT ![t] =
                        IF rest = <<>> /\ ~KnownAction(@.def) THEN NoPolicy
                        ELSE [rules |-> rest, def |-> @.def]]
    /\ UNCHANGED <<off, on>>

AutomationMove(t, from, to) ==
    /\ {from, to} \subseteq DOMAIN Loaded[t].rules
    /\ LET old == Loaded[t].rules
           moved == [j \in DOMAIN old |->
                        IF j = to THEN old[from]
                        ELSE IF from <= j /\ j < to THEN old[j + 1]
                        ELSE IF to < j /\ j <= from THEN old[j - 1]
                        ELSE old[j]]
       IN policy' = [Loaded EXCEPT ![t].rules = moved]
    /\ UNCHANGED <<off, on>>

AutomationDefault(t, def) ==
    /\ KnownAction(def)
    /\ policy' = [Loaded EXCEPT ![t].def = def]
    /\ UNCHANGED <<off, on>>

-----------------------------------------------------------------------------
(* The latches, and the entries of a tunnel that goes or changes its name.
   These operations do not normalise. *)

SetManualOff(t) ==
    /\ off' = off \cup {t} /\ on' = on \ {t}
    /\ UNCHANGED policy

SetManualOn(t) ==
    /\ on' = on \cup {t} /\ off' = off \ {t}
    /\ UNCHANGED policy

(* ClearManualOverride, and ClearAllManualOverrides. *)
ClearOverrides(ts) ==
    /\ off' = off \ ts /\ on' = on \ ts
    /\ UNCHANGED policy

(* The entries move, each if there is one, over what the new name may have. *)
RenameTunnelRules(t, u) ==
    /\ t # u
    /\ policy' = [policy EXCEPT
                     ![u] = [rules |-> IF policy[t] # NoPolicy
                                       THEN policy[t].rules ELSE @.rules,
                             def |-> IF policy[t].def # Absent
                                     THEN policy[t].def ELSE @.def],
                     ![t] = NoPolicy]
    /\ off' = IF t \in off THEN (off \ {t}) \cup {u}
              ELSE IF t \in on THEN off \ {u} ELSE off
    /\ on' = IF t \in on THEN (on \ {t}) \cup {u}
             ELSE IF t \in off THEN on \ {u} ELSE on

DeleteTunnelRules(t) ==
    /\ policy' = [policy EXCEPT ![t] = NoPolicy]
    /\ off' = off \ {t} /\ on' = on \ {t}

-----------------------------------------------------------------------------
Edit(t) ==
    \/ \E rules \in Lists, def \in {None, Connect} :
          SaveAutomationRules(t, rules, def)
    \/ \E r \in Rules : AutomationAdd(t, r)
    \/ \E i \in 1..MaxRules : AutomationRm(t, i)
    \/ \E i, j \in 1..MaxRules : AutomationMove(t, i, j)
    \/ \E def \in {Connect, Disconnect} : AutomationDefault(t, def)

Manual(t) ==
    \/ SetManualOff(t)
    \/ SetManualOn(t)
    \/ ClearOverrides({t})

Next ==
    /\ \/ \E t \in Tunnels : Edit(t) \/ Manual(t) \/ DeleteTunnelRules(t)
       \/ \E t, u \in Tunnels : RenameTunnelRules(t, u)
       \/ ClearOverrides(Tunnels)
    /\ Cardinality(RulesOf(policy')) <= MaxRules

Spec == Init /\ [][Next]_vars

-----------------------------------------------------------------------------
(* Properties *)

(* What the helper may know of a tunnel beside policy and context. *)
Envs(t) ==
    [exempted : BOOLEAN, paused : BOOLEAN, off : {t \in off}, on : {t \in on},
     active : BOOLEAN, backingOff : BOOLEAN, policyBlock : BOOLEAN,
     dnsBlock : {FALSE}]

Decision(t, ctx, e) == Decide(Normal(policy[t]), ctx, e)

TypeOK ==
    /\ \A t \in Tunnels :
          /\ \A i \in DOMAIN policy[t].rules : policy[t].rules[i] \in Rules
          /\ policy[t].def \in {Absent, Connect, Disconnect}
    /\ off \in SUBSET Tunnels
    /\ on \in SUBSET Tunnels

(* The editor's preview marks the rule the engine enforces ("The returned state
   is exactly what Evaluate would decide"). *)
MarkingAgrees ==
    \A t \in Tunnels, ctx \in Contexts :
        EvaluatePolicy(policy[t].rules, policy[t].def, ctx)
            = DetailPolicy(policy[t].rules, policy[t].def, ctx)

(* Where the engine connects the gate of a retry is open, and what passes the
   gate the engine does not take down again. *)
GateAgrees ==
    \A t \in Tunnels, ctx \in Contexts : \A e \in Envs(t) :
        LET d == Decision(t, ctx, e)
        IN /\ d.action = Connect => ConnectAllowed(d)
           /\ ConnectAllowed(d) =>
                 Decision(t, ctx, [e EXCEPT !.active = TRUE]).action
                     # Disconnect

(* `ctl automation` shows "connect" or "disconnect" for exactly what the
   engine would do. *)
PreviewAgrees ==
    \A t \in Tunnels, ctx \in Contexts : \A e \in Envs(t) :
        LET d == Decision(t, ctx, e)
        IN \A a \in {Connect, Disconnect} : Preview(d) = a <=> d.action = a

(* "The two paths acting on DIFFERENT verdicts is what lets a stale-handshake
   reconnect connect a tunnel whose rule says disconnect": the engine, the
   editor, the gate of the retries and the preview, each with its own code,
   come to one verdict on every stored policy. *)
OneVerdict == MarkingAgrees /\ GateAgrees /\ PreviewAgrees

(* The migration of an old file changes no verdict, except that a tunnel with
   rules and no Default State, which was left alone where no rule matched,
   is now off there; and doing it again changes nothing. *)
MigrationKeepsVerdicts ==
    \A t \in Tunnels :
        LET old == policy[t]
            new == Normal(old)
        IN /\ Normal(new) = new
           /\ old.def = Absent => \A ctx \in Contexts :
                LET verdict == EvaluatePolicy(old.rules, Absent, ctx)
                IN EvaluatePolicy(new.rules, new.def, ctx) =
                      IF verdict = Unmanaged /\ old.rules # <<>>
                      THEN Disconnect ELSE verdict

(* What the engine does without knowing the SSID it would do whatever the
   SSID turns out to be ("never act on half a context"). *)
BlindActionIsSafe ==
    \A t \in Tunnels, ctx \in Contexts : \A e \in Envs(t) :
        LET d == Decision(t, ctx, e)
        IN SSIDUndecidable(ctx) /\ KnownAction(d.action) =>
              \A c \in Contexts :
                 Decision(t, [ctx EXCEPT !.ssid = c.ssid], e).action = d.action

(* The minutes the clock runs through from a window's start to its end. *)
WindowMinutes(w) ==
    LET start == IF w.start = Unset THEN 0 ELSE w.start
        end == IF w.end = Unset THEN DayLen ELSE w.end
        length == IF start <= end THEN end - start ELSE DayLen - start + end
    IN {(start + k) % DayLen : k \in 0..(length - 1)}

(* A window covers those minutes, whether or not midnight lies between them,
   on its days. *)
WindowsExact ==
    \A t \in Tunnels : \A i \in DOMAIN policy[t].rules :
        \A j \in DOMAIN policy[t].rules[i].when :
            LET c == policy[t].rules[i].when[j]
            IN c.type = "time" /\ ValidCondition(c) =>
                  \A day \in 0..6, m \in 0..(DayLen - 1) :
                      InWindow(c.val, [day |-> day, mins |-> m]) <=>
                          /\ c.val.days = {} \/ day \in c.val.days
                          /\ m \in WindowMinutes(c.val)

=============================================================================
