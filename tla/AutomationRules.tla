---------------------------- MODULE AutomationRules ----------------------------
(***************************************************************************)
(* The verdict on one tunnel (internal/wifi/automation.go and              *)
(* internal/helper/decision.go): ordered rules over the network context,   *)
(* the Default State, and the gates in front of and behind them.  Pure     *)
(* operators, no state.                                                    *)
(*                                                                         *)
(* A condition is a record [type, val]; val is Bad when the text does not  *)
(* parse (an empty SSID, no CIDR, not 12 hex digits ...).  A subnet is the *)
(* set of its addresses.  A MAC or an interface name is a pair <<what it   *)
(* denotes, how it is written>>: separators and case.  A rule is           *)
(* [when, match, do] with when a sequence.  A time window is               *)
(* [days, start, end] in minutes, Unset (-1) for a clock left empty.       *)
(***************************************************************************)
EXTENDS Integers, Sequences, FiniteSets

CONSTANTS
    Bad,         \* what a malformed condition has for a value
    DayLen       \* the minutes of a day

ASSUME RulesAssumption == DayLen \in Nat \ {0}

Unset == -1
None == ""       \* no SSID, no gateway, no action, no block

Connect == "connect"
Disconnect == "disconnect"
Unmanaged == "unmanaged"
Absent == "absent"      \* a tunnel without an entry in Automation.Defaults

(* actionState *)
KnownAction(a) == a \in {Connect, Disconnect}

(* canonicalMAC, and the case folding of interface names. *)
Canonical(name) == IF name = Bad THEN None ELSE name[1]

-----------------------------------------------------------------------------
(* Conditions and rules *)

ValidWindow(w) ==
    /\ w.start # Unset \/ w.end # Unset \/ w.days # {}
    /\ w.days \subseteq 0..6

ValidCondition(c) ==
    CASE c.type \in {"wifi", "ethernet", "none_match"} -> TRUE
      [] c.type = "time" -> c.val # Bad /\ ValidWindow(c.val)
      [] c.type \in {"ssid", "subnet", "network", "gateway_ip", "interface"} ->
            c.val # Bad
      [] OTHER -> FALSE

ValidRule(r) ==
    /\ KnownAction(r.do)
    /\ r.match \in {"", "all"}
    /\ r.when # <<>>
    /\ \A i \in DOMAIN r.when : ValidCondition(r.when[i])

(* Mutant: no wrap past midnight. *)
InWindow_Mut(w, now) ==
    LET start == IF w.start = Unset THEN 0 ELSE w.start
        end == IF w.end = Unset THEN DayLen ELSE w.end
    IN /\ w.days # {} => now.day \in w.days
       /\ start <= now.mins /\ now.mins < end

(* The end is exclusive; a start after the end wraps past midnight, and the
   day is the one the clock shows, not the one the window began on. *)
InWindow(w, now) ==
    LET start == IF w.start = Unset THEN 0 ELSE w.start
        end == IF w.end = Unset THEN DayLen ELSE w.end
    IN /\ w.days # {} => now.day \in w.days
       /\ \/ w.start = Unset /\ w.end = Unset
          \/ start <= end /\ start <= now.mins /\ now.mins < end
          \/ start > end /\ (start <= now.mins \/ now.mins < end)

ConditionMatches(c, ctx) ==
    CASE c.type = "none_match" -> TRUE
      [] c.type = "ssid" -> ctx.ssid # None /\ c.val = ctx.ssid
      [] c.type = "wifi" -> ctx.ssid # None
      [] c.type = "subnet" -> c.val \cap ctx.ips # {}
      [] c.type = "network" ->
            Canonical(c.val) # None /\ Canonical(c.val) = Canonical(ctx.mac)
      [] c.type = "gateway_ip" -> c.val = ctx.gwIP
      [] c.type = "interface" ->
            \E f \in ctx.ifaces : Canonical(f.name) = Canonical(c.val)
      [] c.type = "ethernet" -> \E f \in ctx.ifaces : ~f.wifi
      [] c.type = "time" -> InWindow(c.val, ctx.now)

RuleMatches(r, ctx) ==
    /\ r.when # <<>>
    /\ \A i \in DOMAIN r.when : ConditionMatches(r.when[i], ctx)

-----------------------------------------------------------------------------
(* The control path and the marking path *)

(* Evaluate: the first rule that is well-formed and matches. *)
Evaluate(rules, ctx) ==
    LET firing == {i \in DOMAIN rules :
                      ValidRule(rules[i]) /\ RuleMatches(rules[i], ctx)}
    IN IF firing = {} THEN Unmanaged
       ELSE rules[CHOOSE i \in firing : \A j \in firing : i <= j].do

(* EvaluatePolicy: the Default State when no rule decides. *)
EvaluatePolicy(rules, def, ctx) ==
    LET state == Evaluate(rules, ctx)
    IN IF state = Unmanaged /\ KnownAction(def) THEN def ELSE state

(* EvaluateDetail's marks, one per rule. *)
Marks(rules, ctx) ==
    [i \in DOMAIN rules |->
        ValidRule(rules[i]) /\ RuleMatches(rules[i], ctx)]

(* EvaluateDetail's state: it walks every rule, and a rule decides while the
   state is still unmanaged. *)
DetailState(rules, ctx) ==
    LET Walk[i \in 0..Len(rules)] ==
            IF i = 0 THEN Unmanaged
            ELSE IF Walk[i - 1] = Unmanaged /\ Marks(rules, ctx)[i]
                    /\ KnownAction(rules[i].do)
                 THEN rules[i].do
                 ELSE Walk[i - 1]
    IN Walk[Len(rules)]

(* EvaluatePolicyDetail *)
DetailPolicy(rules, def, ctx) ==
    LET state == DetailState(rules, ctx)
    IN IF state = Unmanaged /\ KnownAction(def) THEN def ELSE state

-----------------------------------------------------------------------------
(* Normalize: the first lone "otherwise" rule becomes the Default State, and
   it and what follows it go; an explicit Default State is kept. *)

Otherwise(r) ==
    ValidRule(r) /\ Len(r.when) = 1 /\ r.when[1].type = "none_match"

(* The first "otherwise" rule, one past the end when there is none. *)
Cut(rules) ==
    LET otherwise == {i \in DOMAIN rules : Otherwise(rules[i])}
    IN IF otherwise = {} THEN Len(rules) + 1
       ELSE CHOOSE i \in otherwise : \A j \in otherwise : i <= j

(* Mutant: the rules behind the "otherwise" rule stay, and come alive. *)
NormalRules_Mut(rules) == SelectSeq(rules, LAMBDA r : ~Otherwise(r))

NormalRules(rules) == SubSeq(rules, 1, Cut(rules) - 1)

NormalDefault(rules, def) ==
    IF rules = <<>> \/ def # Absent THEN def
    ELSE IF Cut(rules) <= Len(rules) THEN rules[Cut(rules)].do
    ELSE Disconnect

-----------------------------------------------------------------------------
(* The gates *)

(* SSIDUndecidable and RulesReferenceSSID: a Wi-Fi interface has an address
   and no report tells the network's name. *)
SSIDUndecidable(ctx) ==
    ctx.ssid = None /\ \E f \in ctx.ifaces : f.wifi /\ f.active

(* Mutant: "any Wi-Fi" is not taken for a condition on the SSID. *)
RulesReferenceSSID_Mut(rules) ==
    \E i \in DOMAIN rules : \E j \in DOMAIN rules[i].when :
        rules[i].when[j].type = "ssid"

RulesReferenceSSID(rules) ==
    \E i \in DOMAIN rules : \E j \in DOMAIN rules[i].when :
        rules[i].when[j].type \in {"ssid", "wifi"}

(* reconcileAction *)
Reconcile(state, active, off, on) ==
    IF state = Connect
    THEN IF off THEN "skip-manual-off" ELSE IF active THEN None ELSE Connect
    ELSE IF state = Disconnect
    THEN IF on THEN "skip-manual-on" ELSE IF active THEN Disconnect ELSE None
    ELSE None

(* EvaluateTunnelDecision over the tunnel's policy p [rules, def], the context
   and the helper's state e [exempted, paused, off, on, active, backingOff,
   policyBlock, dnsBlock].  The desired state stays unmanaged when a gate
   answers before the rules are read. *)
Decide(p, ctx, e) ==
    LET hasPolicy == p.rules # <<>> \/ p.def \notin {Absent, None}
        known == ctx.ssid # None \/ ctx.ips # {}
        blind == /\ hasPolicy
                 /\ SSIDUndecidable(ctx) /\ RulesReferenceSSID(p.rules)
        gate == IF ~known THEN "unresolved"
                ELSE IF e.exempted \/ e.paused THEN None
                ELSE IF blind THEN "unresolved"
                ELSE "open"
        desired == IF gate = "open" THEN DetailPolicy(p.rules, p.def, ctx)
                   ELSE Unmanaged
        base == Reconcile(desired, e.active, e.off, e.on)
        action == IF gate # "open" THEN gate
                  ELSE IF base # Connect THEN base
                  ELSE IF e.policyBlock \/ e.dnsBlock THEN "blocked"
                  ELSE IF e.backingOff THEN "deferred"
                  ELSE Connect
    IN [action |-> action, desired |-> desired, hasPolicy |-> hasPolicy,
        known |-> known, blind |-> blind, exempted |-> e.exempted,
        paused |-> e.paused, on |-> e.on, off |-> e.off]

(* Mutant: the reconnect gate looks at the decision's action alone. *)
ConnectAllowed_Mut(d) == d.action # Disconnect

(* DecisionConnectAllowed: may the reconnect monitor put the tunnel back up? *)
ConnectAllowed(d) ==
    /\ ~d.paused /\ ~d.exempted
    /\ \/ ~d.hasPolicy \/ d.on
       \/ d.known /\ ~d.blind /\ d.desired # Disconnect

(* What handleAutomationPreview shows. *)
Preview(d) ==
    IF d.exempted THEN "disabled"
    ELSE CASE d.action = "blocked" -> "blocked"
           [] d.action = "unresolved" ->
                 IF d.blind THEN "ssid-blind" ELSE "network-unidentified"
           [] d.action = Connect ->
                 IF d.off THEN "manual-off" ELSE "connect"
           [] d.action = Disconnect ->
                 IF d.on THEN "manual-on" ELSE "disconnect"
           [] d.action = "skip-manual-off" -> "manual-off"
           [] d.action = "skip-manual-on" -> "manual-on"
           [] d.action = "deferred" -> "backoff"
           [] OTHER -> Unmanaged

=============================================================================
