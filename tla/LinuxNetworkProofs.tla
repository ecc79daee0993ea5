------------------------- MODULE LinuxNetworkProofs --------------------------
(***************************************************************************)
(* What the program leaves of routing and of names on Linux, proved for    *)
(* any tunnels, tables, DNS servers and physical interfaces, and any       *)
(* number of operations, failures, crashes and recoveries.                 *)
(*                                                                         *)
(* An operation is a list of steps still to take.  While a tunnel comes,   *)
(* the list is one of those its connect goes through, and the step that is *)
(* next tells what is in the kernel already.  A disconnect, a rollback or  *)
(* a recovery may have its steps in any order: which are still ahead is    *)
(* all that counts.  A route in the kernel is one that its tunnel's        *)
(* manager knows of as it is (Believed), and the tunnel is connected,      *)
(* comes, or has the step ahead that takes the route away (Claimed);       *)
(* otherwise a crash has left it and no file told of it.  A link, a record *)
(* or resolv.conf has the connected tunnels' servers, or a step is ahead   *)
(* that sees to it; the files that a crash would need go at the very last. *)
(***************************************************************************)
EXTENDS MCSystemState, FiniteSetTheorems, WellFoundedInduction, TLAPS

all == <<part, userVars, vars, lvars, wvars, mvars, dvars, rvars>>

-----------------------------------------------------------------------------
(* Linux: the steps of a connect, by the one that is next. *)
LinuxNames ==
    {"link", "table", "default", "split", "rule", "endpoint", "checkpoint", "capture",
     "setdns", "up", "rroutes", "rbinds", "rrule", "close", "restore", "cleanup",
     "reapply", "forget", "reset", "recover", "clear"}
LinuxItems == LinuxNames \X LinuxTunnels

UpList(t) == <<<<"up", t>>>>
ServeList(t) == <<<<"setdns", t>>>> \o UpList(t)
CaptureList(t) == <<<<"capture", t>>>> \o ServeList(t)
CheckList(t) == <<<<"checkpoint", t>>>> \o (IF t \in LinuxDNS THEN CaptureList(t) ELSE UpList(t))
EndpointList(t) == <<<<"endpoint", t>>>> \o CheckList(t)
RuleList(t) == <<<<"rule", t>>>> \o EndpointList(t)
RouteList(t) ==
    IF t \in LinuxFull THEN <<<<"default", t>>>> \o RuleList(t)
    ELSE <<<<"split", t>>>> \o EndpointList(t)
TableList(t) ==
    <<<<"table", t>>>> \o (IF TableCfg[t] = Linux!Off THEN CheckList(t) ELSE RouteList(t))
LinkList(t) == <<<<"link", t>>>> \o TableList(t)

ConnectLists(t) ==
    {LinkList(t), TableList(t), CheckList(t), UpList(t)}
        \cup (IF t \in LinuxDNS THEN {CaptureList(t), ServeList(t)} ELSE {})
        \cup (IF TableCfg[t] = Linux!Off THEN {} ELSE {RouteList(t), EndpointList(t)})
        \cup (IF TableCfg[t] # Linux!Off /\ t \in LinuxFull THEN {RuleList(t)} ELSE {})

(* The steps of a disconnect, a rollback or a recovery, in whatever order. *)
ClearNames ==
    {"capture", "rroutes", "rbinds", "rrule", "close", "restore", "cleanup", "reapply",
     "forget", "reset", "recover", "clear"}
ClearItems == ClearNames \X LinuxTunnels

Coming(t) == ltodo \in ConnectLists(t)
FirstStep == Head(ltodo)[1]
Clearing == ltodo \in Seq(ClearItems)
StepsIn(q) == {q[i] : i \in 1..Len(q)}
Pending == IF Clearing THEN StepsIn(ltodo) ELSE {}
Ahead(n, t) == <<n, t>> \in Pending

(* Before a tunnel's route is in, and from its rule on. *)
Unplaced == {"link", "table", "default", "split"}
Ruled == {"endpoint", "checkpoint", "capture", "setdns", "up"}

LinuxRoutes ==
    [kind : {"default", "split", "throw", "bind"}, of : LinuxTunnels,
     table : {0} \cup Tables]
Managers ==
    [set : BOOLEAN, table : {Linux!Off, 0} \cup Tables, throws : BOOLEAN, binds : BOOLEAN,
     captured : BOOLEAN, orig : SUBSET LinuxTunnels]

LinuxTypes ==
    /\ mech \in {"resolved", "resolvconf", "file"} /\ lalive \in BOOLEAN
    /\ routes \subseteq LinuxRoutes
    /\ rule \in {Linux!NoTable, 0} \cup Tables
    /\ lup \subseteq LinuxTunnels
    /\ mgr \in [LinuxTunnels -> Managers]
    /\ resolv \subseteq LinuxTunnels
    /\ ljournal \subseteq LinuxTunnels \X BOOLEAN
    /\ \A j, k \in ljournal : j[1] = k[1] => j = k
    /\ IsFiniteSet(ljournal)
    /\ original = Linux!NoFile \/ original \subseteq LinuxTunnels
    /\ lost \subseteq {r \in LinuxRoutes : r.kind \in {"throw", "bind"}}
                        \cup [kind : {"rule"}, table : {0} \cup Tables]

LinuxPlaces ==
    /\ Clearing \/ (lalive /\ \E t \in LinuxTunnels : Coming(t))
    /\ ~lalive => ltodo = << >> /\ lup = {}

(* A route is as its tunnel's manager has it, unless it is lost. *)
Believed(r) ==
    LET m == mgr[r.of]
    IN  /\ r.kind = "default" => r.of \in LinuxFull
        /\ r.kind = "split" => r.of \notin LinuxFull
        /\ r.kind \in {"default", "split"} => m.set /\ r.table = m.table
        /\ r.kind = "bind" => r.table = 0
        /\ r \notin lost =>
              /\ r.kind = "throw" =>
                    /\ m.throws /\ r.of \in LinuxFull
                    /\ r.table = (IF m.set THEN m.table ELSE Linux!Base)
              /\ r.kind = "bind" => m.binds

(* Whose route it is: a connected tunnel's, or one that is coming or going. *)
Claimed(r) ==
    \/ r.of \in lup \/ Coming(r.of)
    \/ r.kind = "bind" /\ Ahead("rbinds", r.of)
    \/ r.kind # "bind" /\ (Ahead("rroutes", r.of) \/ Ahead("recover", r.of))

Placed(t) == t \in lup \/ (Coming(t) /\ FirstStep \notin Unplaced)

LinuxManagers ==
    \A t \in LinuxTunnels :
        /\ mgr[t].table = Linux!Off => TableCfg[t] = Linux!Off /\ ~mgr[t].binds
        /\ Placed(t) => mgr[t].set /\ Linux!Needed(t) \ lost \subseteq routes
        /\ Coming(t) /\ FirstStep \in Unplaced =>
              /\ ~mgr[t].throws /\ ~mgr[t].binds
              /\ mgr[t].set <=> FirstStep \notin {"link", "table"}

(* One operation at a time, and one full tunnel. *)
LinuxApart ==
    /\ \A t \in LinuxTunnels : Coming(t) => t \notin lup
    /\ \A n \in ClearNames \ {"capture", "reapply"}, t \in LinuxTunnels :
          Ahead(n, t) => t \notin lup
    /\ \A n \in {"reset", "recover", "clear"}, t \in LinuxTunnels : Ahead(n, t) => lup = {}
    /\ \A t \in LinuxTunnels : Ahead("rrule", t) => lup \cap LinuxFull = {}
    /\ \A t, u \in LinuxFull : (t \in lup \/ Coming(t)) /\ (u \in lup \/ Coming(u)) => t = u

RuleLost == \E l \in lost : l.kind = "rule"
RulesTable(t) ==
    /\ t \in LinuxFull /\ mgr[t].table # Linux!Off
    /\ t \in lup \/ (Coming(t) /\ FirstStep \in Ruled)

LinuxRule ==
    \/ RuleLost
    \/ \E t \in LinuxTunnels : Ahead("rrule", t)
    \/ \E t \in LinuxFull : TableCfg[t] # Linux!Off /\ Ahead("recover", t)
    \/ rule = Linux!NoTable /\ \A t \in LinuxTunnels : ~RulesTable(t)
    \/ \E t \in LinuxTunnels : RulesTable(t) /\ rule = mgr[t].table

LinuxAlive ==
    /\ \A r \in routes : Believed(r) /\ (r \in lost \/ Claimed(r))
    /\ LinuxManagers /\ LinuxApart /\ LinuxRule

(* Between a crash and the next launch. *)
LinuxDead ==
    /\ \A r \in routes :
          /\ r.kind \in {"throw", "bind"} /\ (r.kind = "bind" => r.table = 0)
          /\ r \in lost \/ Linux!Recoverable(r)
    /\ rule = Linux!NoTable \/ RuleLost \/ Linux!Recoverable([kind |-> "rule", table |-> rule])

LinuxInv ==
    LinuxTypes /\ LinuxPlaces /\ (IF lalive THEN LinuxAlive ELSE LinuxDead)

-----------------------------------------------------------------------------
(* The steps of a connect. *)

(* One step in front of others. *)
LEMMA LedBy ==
    ASSUME NEW a \in LinuxItems, NEW s \in Seq(LinuxItems)
    PROVE  /\ <<a>> \o s \in Seq(LinuxItems) /\ <<a>> \o s # << >>
           /\ Head(<<a>> \o s) = a /\ Tail(<<a>> \o s) = s
<1> DEFINE w == <<a>> \o s
<1>1. /\ w \in Seq(LinuxItems) /\ Len(w) = Len(s) + 1 /\ w[1] = a
      /\ \A i \in 2..Len(w) : w[i] = s[i - 1]
  OBVIOUS
<1>2. Len(s) \in Nat
  OBVIOUS
<1> HIDE DEF w
<1>3. w # << >> /\ Head(w) = a
  BY <1>1, <1>2
<1>4. Tail(w) = s
  <2> DEFINE x == Tail(w)
  <2>1. x \in Seq(LinuxItems) /\ Len(x) = Len(s)
    BY <1>1, <1>2, <1>3
  <2>2. \A i \in 1..Len(s) : x[i] = s[i]
    BY <1>1, <1>2, <1>3
  <2> HIDE DEF x
  <2>3. x = s
    BY <2>1, <2>2
  <2>4. QED BY <2>3 DEF x
<1>5. QED BY <1>1, <1>3, <1>4 DEF w

LEMMA Lists ==
    ASSUME NEW t \in LinuxTunnels
    PROVE  /\ \A q \in ConnectLists(t) \cup {RouteList(t), RuleList(t), EndpointList(t),
                                         CaptureList(t), ServeList(t)} :
                 q \in Seq(LinuxItems) /\ q # << >>
           /\ Head(UpList(t)) = <<"up", t>> /\ Tail(UpList(t)) = << >>
           /\ Head(ServeList(t)) = <<"setdns", t>> /\ Tail(ServeList(t)) = UpList(t)
           /\ Head(CaptureList(t)) = <<"capture", t>> /\ Tail(CaptureList(t)) = ServeList(t)
           /\ Head(CheckList(t)) = <<"checkpoint", t>>
           /\ Tail(CheckList(t)) = IF t \in LinuxDNS THEN CaptureList(t) ELSE UpList(t)
           /\ Head(EndpointList(t)) = <<"endpoint", t>> /\ Tail(EndpointList(t)) = CheckList(t)
           /\ Head(RuleList(t)) = <<"rule", t>> /\ Tail(RuleList(t)) = EndpointList(t)
           /\ Head(RouteList(t)) = IF t \in LinuxFull THEN <<"default", t>> ELSE <<"split", t>>
           /\ Tail(RouteList(t)) = IF t \in LinuxFull THEN RuleList(t) ELSE EndpointList(t)
           /\ Head(TableList(t)) = <<"table", t>>
           /\ Tail(TableList(t)) =
                 IF TableCfg[t] = Linux!Off THEN CheckList(t) ELSE RouteList(t)
           /\ Head(LinkList(t)) = <<"link", t>> /\ Tail(LinkList(t)) = TableList(t)
<1>1. \A n \in LinuxNames : <<n, t>> \in LinuxItems
  BY DEF LinuxItems
<1>2. /\ UpList(t) \in Seq(LinuxItems) /\ UpList(t) # << >>
      /\ Head(UpList(t)) = <<"up", t>> /\ Tail(UpList(t)) = << >>
  <2> DEFINE a == <<"up", t>>
  <2>1. a \in LinuxItems
    BY <1>1 DEF LinuxNames
  <2> HIDE DEF a
  <2>2. <<a>> \in Seq(LinuxItems) /\ <<a>> # << >> /\ Head(<<a>>) = a /\ Tail(<<a>>) = << >>
    BY <2>1
  <2>3. QED BY <2>2 DEF UpList, a
<1>3. /\ ServeList(t) \in Seq(LinuxItems) /\ ServeList(t) # << >>
      /\ Head(ServeList(t)) = <<"setdns", t>> /\ Tail(ServeList(t)) = UpList(t)
  BY <1>1, <1>2, LedBy DEF ServeList, LinuxNames
<1>4. /\ CaptureList(t) \in Seq(LinuxItems) /\ CaptureList(t) # << >>
      /\ Head(CaptureList(t)) = <<"capture", t>> /\ Tail(CaptureList(t)) = ServeList(t)
  BY <1>1, <1>3, LedBy DEF CaptureList, LinuxNames
<1>5. /\ CheckList(t) \in Seq(LinuxItems) /\ CheckList(t) # << >>
      /\ Head(CheckList(t)) = <<"checkpoint", t>>
      /\ Tail(CheckList(t)) = IF t \in LinuxDNS THEN CaptureList(t) ELSE UpList(t)
  BY <1>1, <1>2, <1>4, LedBy DEF CheckList, LinuxNames
<1>6. /\ EndpointList(t) \in Seq(LinuxItems) /\ EndpointList(t) # << >>
      /\ Head(EndpointList(t)) = <<"endpoint", t>> /\ Tail(EndpointList(t)) = CheckList(t)
  BY <1>1, <1>5, LedBy DEF EndpointList, LinuxNames
<1>7. /\ RuleList(t) \in Seq(LinuxItems) /\ RuleList(t) # << >>
      /\ Head(RuleList(t)) = <<"rule", t>> /\ Tail(RuleList(t)) = EndpointList(t)
  BY <1>1, <1>6, LedBy DEF RuleList, LinuxNames
<1>8. /\ RouteList(t) \in Seq(LinuxItems) /\ RouteList(t) # << >>
      /\ Head(RouteList(t)) = IF t \in LinuxFull THEN <<"default", t>> ELSE <<"split", t>>
      /\ Tail(RouteList(t)) = IF t \in LinuxFull THEN RuleList(t) ELSE EndpointList(t)
  BY <1>1, <1>6, <1>7, LedBy DEF RouteList, LinuxNames
<1>9. /\ TableList(t) \in Seq(LinuxItems) /\ TableList(t) # << >>
      /\ Head(TableList(t)) = <<"table", t>>
      /\ Tail(TableList(t)) = IF TableCfg[t] = Linux!Off THEN CheckList(t) ELSE RouteList(t)
  BY <1>1, <1>5, <1>8, LedBy DEF TableList, LinuxNames
<1>10. /\ LinkList(t) \in Seq(LinuxItems) /\ LinkList(t) # << >>
       /\ Head(LinkList(t)) = <<"link", t>> /\ Tail(LinkList(t)) = TableList(t)
  BY <1>1, <1>9, LedBy DEF LinkList, LinuxNames
<1>11. QED
  BY <1>2, <1>3, <1>4, <1>5, <1>6, <1>7, <1>8, <1>9, <1>10 DEF ConnectLists

(* Which step is next tells which are left. *)
LEMMA StagesAre ==
    ASSUME NEW t \in LinuxTunnels, Coming(t)
    PROVE  /\ ltodo \in Seq(LinuxItems) /\ ltodo # << >> /\ Head(ltodo) = <<FirstStep, t>>
           /\ FirstStep \in LinuxNames
           /\ FirstStep = "link" => Tail(ltodo) = TableList(t)
           /\ FirstStep = "table" =>
                 Tail(ltodo) = IF TableCfg[t] = Linux!Off THEN CheckList(t) ELSE RouteList(t)
           /\ FirstStep = "default" =>
                 t \in LinuxFull /\ TableCfg[t] # Linux!Off /\ Tail(ltodo) = RuleList(t)
           /\ FirstStep = "split" =>
                 t \notin LinuxFull /\ TableCfg[t] # Linux!Off /\ Tail(ltodo) = EndpointList(t)
           /\ FirstStep = "rule" =>
                 t \in LinuxFull /\ TableCfg[t] # Linux!Off /\ Tail(ltodo) = EndpointList(t)
           /\ FirstStep = "endpoint" => TableCfg[t] # Linux!Off /\ Tail(ltodo) = CheckList(t)
           /\ FirstStep = "checkpoint" =>
                 Tail(ltodo) = IF t \in LinuxDNS THEN CaptureList(t) ELSE UpList(t)
           /\ FirstStep = "capture" => t \in LinuxDNS /\ Tail(ltodo) = ServeList(t)
           /\ FirstStep = "setdns" => t \in LinuxDNS /\ Tail(ltodo) = UpList(t)
           /\ FirstStep = "up" => Tail(ltodo) = << >>
           /\ FirstStep \in {"link", "table", "default", "split", "rule", "endpoint",
                         "checkpoint", "capture", "setdns", "up"}
<1>1. \/ ltodo = LinkList(t) \/ ltodo = TableList(t) \/ ltodo = CheckList(t) \/ ltodo = UpList(t)
      \/ t \in LinuxDNS /\ (ltodo = CaptureList(t) \/ ltodo = ServeList(t))
      \/ TableCfg[t] # Linux!Off /\ (ltodo = RouteList(t) \/ ltodo = EndpointList(t))
      \/ TableCfg[t] # Linux!Off /\ t \in LinuxFull /\ ltodo = RuleList(t)
  BY DEF Coming, ConnectLists
<1>2. ltodo \in Seq(LinuxItems) /\ ltodo # << >>
  BY Lists DEF Coming
<1>3. CASE ltodo = LinkList(t)
  <2>1. Head(ltodo) = <<"link", t>> /\ Tail(ltodo) = TableList(t)
    BY <1>3, Lists
  <2>2. FirstStep = "link"
    BY <2>1 DEF FirstStep
  <2>3. QED BY <1>2, <1>3, <2>1, <2>2 DEF LinuxNames
<1>4. CASE ltodo = TableList(t)
  <2>1. /\ Head(ltodo) = <<"table", t>>
        /\ Tail(ltodo) = (IF TableCfg[t] = Linux!Off THEN CheckList(t) ELSE RouteList(t))
    BY <1>4, Lists
  <2>2. FirstStep = "table"
    BY <2>1 DEF FirstStep
  <2>3. QED BY <1>2, <1>4, <2>1, <2>2 DEF LinuxNames
<1>5. CASE ltodo = CheckList(t)
  <2>1. /\ Head(ltodo) = <<"checkpoint", t>>
        /\ Tail(ltodo) = (IF t \in LinuxDNS THEN CaptureList(t) ELSE UpList(t))
    BY <1>5, Lists
  <2>2. FirstStep = "checkpoint"
    BY <2>1 DEF FirstStep
  <2>3. QED BY <1>2, <1>5, <2>1, <2>2 DEF LinuxNames
<1>6. CASE ltodo = UpList(t)
  <2>1. Head(ltodo) = <<"up", t>> /\ Tail(ltodo) = << >>
    BY <1>6, Lists
  <2>2. FirstStep = "up"
    BY <2>1 DEF FirstStep
  <2>3. QED BY <1>2, <1>6, <2>1, <2>2 DEF LinuxNames
<1>7. CASE t \in LinuxDNS /\ ltodo = CaptureList(t)
  <2>1. Head(ltodo) = <<"capture", t>> /\ Tail(ltodo) = ServeList(t)
    BY <1>7, Lists
  <2>2. FirstStep = "capture"
    BY <2>1 DEF FirstStep
  <2>3. QED BY <1>2, <1>7, <2>1, <2>2 DEF LinuxNames
<1>8. CASE t \in LinuxDNS /\ ltodo = ServeList(t)
  <2>1. Head(ltodo) = <<"setdns", t>> /\ Tail(ltodo) = UpList(t)
    BY <1>8, Lists
  <2>2. FirstStep = "setdns"
    BY <2>1 DEF FirstStep
  <2>3. QED BY <1>2, <1>8, <2>1, <2>2 DEF LinuxNames
<1>9. CASE TableCfg[t] # Linux!Off /\ t \in LinuxFull /\ ltodo = RouteList(t)
  <2>1. Head(ltodo) = <<"default", t>> /\ Tail(ltodo) = RuleList(t)
    BY <1>9, Lists
  <2>2. FirstStep = "default"
    BY <2>1 DEF FirstStep
  <2>3. QED BY <1>2, <1>9, <2>1, <2>2 DEF LinuxNames
<1>10. CASE TableCfg[t] # Linux!Off /\ t \notin LinuxFull /\ ltodo = RouteList(t)
  <2>1. Head(ltodo) = <<"split", t>> /\ Tail(ltodo) = EndpointList(t)
    BY <1>10, Lists
  <2>2. FirstStep = "split"
    BY <2>1 DEF FirstStep
  <2>3. QED BY <1>2, <1>10, <2>1, <2>2 DEF LinuxNames
<1>11. CASE TableCfg[t] # Linux!Off /\ ltodo = EndpointList(t)
  <2>1. Head(ltodo) = <<"endpoint", t>> /\ Tail(ltodo) = CheckList(t)
    BY <1>11, Lists
  <2>2. FirstStep = "endpoint"
    BY <2>1 DEF FirstStep
  <2>3. QED BY <1>2, <1>11, <2>1, <2>2 DEF LinuxNames
<1>12. CASE TableCfg[t] # Linux!Off /\ t \in LinuxFull /\ ltodo = RuleList(t)
  <2>1. Head(ltodo) = <<"rule", t>> /\ Tail(ltodo) = EndpointList(t)
    BY <1>12, Lists
  <2>2. FirstStep = "rule"
    BY <2>1 DEF FirstStep
  <2>3. QED BY <1>2, <1>12, <2>1, <2>2 DEF LinuxNames
<1>13. QED BY <1>1, <1>3, <1>4, <1>5, <1>6, <1>7, <1>8, <1>9, <1>10, <1>11, <1>12

(* Lists one after another. *)
LEMMA Behind ==
    ASSUME NEW S, NEW a \in Seq(S), NEW b \in Seq(S)
    PROVE  /\ a \o b \in Seq(S) /\ Len(a \o b) = Len(a) + Len(b)
           /\ Len(a) \in Nat /\ Len(b) \in Nat
           /\ \A i \in 1..Len(a) : (a \o b)[i] = a[i]
           /\ \A i \in 1..Len(b) : (a \o b)[Len(a) + i] = b[i]
OBVIOUS

LEMMA Grouped ==
    ASSUME NEW S, NEW a \in Seq(S), NEW b \in Seq(S), NEW c \in Seq(S)
    PROVE  (a \o b) \o c = a \o (b \o c)
OBVIOUS

LEMMA Alike ==
    ASSUME NEW S, NEW a \in Seq(S), NEW b \in Seq(S), Len(a) = Len(b),
           \A i \in 1..Len(a) : a[i] = b[i]
    PROVE  a = b
OBVIOUS

(* Steps of one tunnel. *)
LEMMA ForParts ==
    ASSUME NEW t \in LinuxTunnels, NEW u \in Seq(LinuxNames), NEW v \in Seq(LinuxNames)
    PROVE  /\ Linux!For(t, u) \in Seq(LinuxItems)
           /\ Linux!For(t, u \o v) = Linux!For(t, u) \o Linux!For(t, v)
<1>1. ASSUME NEW s \in Seq(LinuxNames)
      PROVE  /\ Linux!For(t, s) \in Seq(LinuxItems) /\ Len(Linux!For(t, s)) = Len(s)
             /\ \A i \in 1..Len(s) : Linux!For(t, s)[i] = <<s[i], t>>
  <2>1. \A i \in 1..Len(s) : <<s[i], t>> \in LinuxItems
    BY DEF LinuxItems
  <2>2. QED BY <2>1 DEF Linux!For
<1> DEFINE w == u \o v
           a == Linux!For(t, u)
           b == Linux!For(t, v)
           c == Linux!For(t, w)
           d == a \o b
<1>2. /\ w \in Seq(LinuxNames) /\ Len(w) = Len(u) + Len(v) /\ Len(u) \in Nat /\ Len(v) \in Nat
      /\ \A i \in 1..Len(u) : w[i] = u[i]
      /\ \A i \in 1..Len(v) : w[Len(u) + i] = v[i]
  BY Behind
<1>3. /\ a \in Seq(LinuxItems) /\ Len(a) = Len(u) /\ \A i \in 1..Len(u) : a[i] = <<u[i], t>>
      /\ b \in Seq(LinuxItems) /\ Len(b) = Len(v) /\ \A i \in 1..Len(v) : b[i] = <<v[i], t>>
      /\ c \in Seq(LinuxItems) /\ Len(c) = Len(w) /\ \A i \in 1..Len(w) : c[i] = <<w[i], t>>
  BY <1>1, <1>2
<1>4. /\ d \in Seq(LinuxItems) /\ Len(d) = Len(u) + Len(v)
      /\ \A i \in 1..Len(u) : d[i] = a[i]
      /\ \A i \in 1..Len(v) : d[Len(u) + i] = b[i]
  <2>1. a \in Seq(LinuxItems) /\ b \in Seq(LinuxItems)
    BY <1>3
  <2> HIDE DEF a, b
  <2>2. /\ d \in Seq(LinuxItems) /\ Len(d) = Len(a) + Len(b)
        /\ \A i \in 1..Len(a) : d[i] = a[i]
        /\ \A i \in 1..Len(b) : d[Len(a) + i] = b[i]
    BY <2>1, Behind
  <2>3. Len(a) = Len(u) /\ Len(b) = Len(v)
    BY <1>3
  <2>4. QED BY <2>2, <2>3
<1> HIDE DEF w, a, b, c, d
<1>5. c = d
  <2>1. \A i \in 1..Len(c) : c[i] = d[i]
    <3>1. SUFFICES ASSUME NEW i \in 1..Len(c) PROVE c[i] = d[i]
      OBVIOUS
    <3>2. CASE i <= Len(u)
      <4>1. i \in 1..Len(u) /\ i \in 1..Len(w)
        BY <1>2, <1>3, <3>2
      <4>2. QED BY <1>2, <1>3, <1>4, <4>1
    <3>3. CASE ~(i <= Len(u))
      <4> DEFINE k == i - Len(u)
      <4>1. k \in 1..Len(v) /\ Len(u) + k = i
        BY <1>2, <1>3, <3>3
      <4> HIDE DEF k
      <4>2. d[Len(u) + k] = b[k] /\ w[Len(u) + k] = v[k]
        BY <1>2, <1>4, <4>1
      <4>3. c[i] = <<w[i], t>> /\ b[k] = <<v[k], t>>
        BY <1>2, <1>3, <4>1
      <4>4. QED BY <4>1, <4>2, <4>3
    <3>4. QED BY <3>2, <3>3
  <2>2. Len(c) = Len(d)
    BY <1>2, <1>3, <1>4
  <2>3. QED BY <1>3, <1>4, <2>1, <2>2, Alike
<1>6. QED BY <1>3, <1>5 DEF a, b, c, d, w

LEMMA ForOne ==
    ASSUME NEW t \in LinuxTunnels, NEW a \in LinuxNames
    PROVE  <<a>> \in Seq(LinuxNames) /\ Linux!For(t, <<a>>) = <<<<a, t>>>>
<1> DEFINE x == Linux!For(t, <<a>>)
           y == <<<<a, t>>>>
<1>1. <<a>> \in Seq(LinuxNames) /\ Len(<<a>>) = 1 /\ <<a>>[1] = a
  OBVIOUS
<1>2. x \in Seq(LinuxItems) /\ Len(x) = 1 /\ x[1] = <<a, t>>
  <2>1. x \in Seq(LinuxItems)
    BY <1>1, ForParts
  <2>2. QED BY <1>1, <2>1 DEF Linux!For
<1>3. y \in Seq({<<a, t>>}) /\ Len(y) = 1 /\ y[1] = <<a, t>>
  OBVIOUS
<1> HIDE DEF x, y
<1>4. x = y
  <2>1. y \in Seq(LinuxItems)
    BY <1>2, <1>3
  <2>2. QED BY <1>2, <1>3, <2>1
<1>5. QED BY <1>1, <1>4 DEF x, y

LEMMA NamesJoin ==
    ASSUME NEW a \in LinuxNames, NEW b \in LinuxNames, NEW c \in LinuxNames
    PROVE  /\ <<a>> \in Seq(LinuxNames) /\ <<a, b>> = <<a>> \o <<b>>
           /\ <<a, b>> \in Seq(LinuxNames)
           /\ <<a, b, c>> = <<a, b>> \o <<c>> /\ <<a, b, c>> \in Seq(LinuxNames)
<1> DEFINE x == <<a>>
           y == <<b>>
           z == <<c>>
           xy == <<a, b>>
           xyz == <<a, b, c>>
<1>1. /\ x \in Seq(LinuxNames) /\ Len(x) = 1 /\ x[1] = a
      /\ y \in Seq(LinuxNames) /\ Len(y) = 1 /\ y[1] = b
      /\ z \in Seq(LinuxNames) /\ Len(z) = 1 /\ z[1] = c
      /\ xy \in Seq(LinuxNames) /\ Len(xy) = 2 /\ xy[1] = a /\ xy[2] = b
      /\ xyz \in Seq(LinuxNames) /\ Len(xyz) = 3 /\ xyz[1] = a /\ xyz[2] = b /\ xyz[3] = c
  OBVIOUS
<1> HIDE DEF x, y, z, xy, xyz
<1>2. xy = x \o y
  <2> DEFINE d == x \o y
  <2>1. d \in Seq(LinuxNames) /\ Len(d) = 1 + 1 /\ d[1] = a /\ d[1 + 1] = b
    <3>1. x \in Seq(LinuxNames) /\ y \in Seq(LinuxNames) /\ 1 \in 1..Len(x) /\ 1 \in 1..Len(y)
      BY <1>1
    <3>2. /\ d \in Seq(LinuxNames) /\ Len(d) = Len(x) + Len(y)
          /\ d[1] = x[1] /\ d[Len(x) + 1] = y[1]
      BY <3>1, Behind
    <3>3. QED BY <1>1, <3>2
  <2> HIDE DEF d
  <2>2. \A i \in 1..Len(d) : d[i] = xy[i]
    BY <1>1, <2>1
  <2>3. d = xy
    BY <1>1, <2>1, <2>2, Alike
  <2>4. QED BY <2>3 DEF d
<1>3. xyz = xy \o z
  <2> DEFINE d == xy \o z
  <2>1. /\ d \in Seq(LinuxNames) /\ Len(d) = 2 + 1
        /\ d[1] = a /\ d[2] = b /\ d[2 + 1] = c
    <3>1. /\ xy \in Seq(LinuxNames) /\ z \in Seq(LinuxNames)
          /\ 1 \in 1..Len(xy) /\ 2 \in 1..Len(xy) /\ 1 \in 1..Len(z)
      BY <1>1
    <3>2. /\ d \in Seq(LinuxNames) /\ Len(d) = Len(xy) + Len(z)
          /\ d[1] = xy[1] /\ d[2] = xy[2] /\ d[Len(xy) + 1] = z[1]
      BY <3>1, Behind
    <3>3. QED BY <1>1, <3>2
  <2> HIDE DEF d
  <2>2. \A i \in 1..Len(d) : d[i] = xyz[i]
    BY <1>1, <2>1
  <2>3. d = xyz
    BY <1>1, <2>1, <2>2, Alike
  <2>4. QED BY <2>3 DEF d
<1>4. QED BY <1>1, <1>2, <1>3 DEF x, y, z, xy, xyz

(* What ConnectSteps comes to. *)
LEMMA ConnectIsLinkList ==
    ASSUME NEW t \in LinuxTunnels
    PROVE  Linux!ConnectSteps(t) = LinkList(t)
<1> DEFINE a == <<"link", "table">>
           f == IF t \in LinuxFull THEN <<"default", "rule">> ELSE <<"split">>
           e == <<"endpoint">>
           b == IF TableCfg[t] = Linux!Off THEN << >> ELSE f \o e
           c == <<"checkpoint">>
           d == IF t \in LinuxDNS THEN <<"capture", "setdns">> ELSE << >>
           u == <<"up">>
           F(s) == Linux!For(t, s)
           One(n) == <<<<n, t>>>>
<1>1. \A n \in LinuxNames : /\ <<n, t>> \in LinuxItems /\ One(n) \in Seq(LinuxItems)
                            /\ F(<<n>>) = One(n) /\ <<n>> \in Seq(LinuxNames)
  <2>1. \A n \in LinuxNames : F(<<n>>) = One(n) /\ <<n>> \in Seq(LinuxNames)
    BY ForOne
  <2>2. \A n \in LinuxNames : <<n, t>> \in LinuxItems
    BY DEF LinuxItems
  <2>3. \A n \in LinuxNames : F(<<n>>) \in Seq(LinuxItems)
    BY <2>1, ForParts
  <2>4. QED BY <2>1, <2>2, <2>3
<1>2. \A n, m \in LinuxNames : <<n, m>> \in Seq(LinuxNames) /\ F(<<n, m>>) = One(n) \o One(m)
  <2>1. \A n, m \in LinuxNames : <<n, m>> \in Seq(LinuxNames) /\ <<n, m>> = <<n>> \o <<m>>
    BY NamesJoin
  <2>2. \A n, m \in LinuxNames : F(<<n>> \o <<m>>) = F(<<n>>) \o F(<<m>>)
    BY <1>1, ForParts
  <2>3. QED BY <1>1, <2>1, <2>2
<1>3. {"link", "table", "default", "rule", "split", "endpoint", "checkpoint", "capture",
       "setdns", "up"} \subseteq LinuxNames
  BY DEF LinuxNames
<1>4. /\ a \in Seq(LinuxNames) /\ F(a) = One("link") \o One("table")
      /\ e \in Seq(LinuxNames) /\ F(e) = One("endpoint")
      /\ c \in Seq(LinuxNames) /\ F(c) = One("checkpoint")
      /\ u \in Seq(LinuxNames) /\ F(u) = One("up")
  BY <1>1, <1>2, <1>3
<1>5. /\ f \in Seq(LinuxNames)
      /\ F(f) = IF t \in LinuxFull THEN One("default") \o One("rule") ELSE One("split")
  BY <1>1, <1>2, <1>3
<1>6. F(<< >>) = << >> /\ << >> \in Seq(LinuxNames)
  BY DEF Linux!For
<1>7. /\ d \in Seq(LinuxNames)
      /\ F(d) = IF t \in LinuxDNS THEN One("capture") \o One("setdns") ELSE << >>
  BY <1>2, <1>3, <1>6
<1> HIDE DEF f, e
<1>8. /\ b \in Seq(LinuxNames)
      /\ F(b) = IF TableCfg[t] = Linux!Off THEN << >> ELSE F(f) \o One("endpoint")
  <2>1. f \o e \in Seq(LinuxNames) /\ F(f \o e) = F(f) \o F(e)
    BY <1>4, <1>5, ForParts, Behind
  <2>2. QED BY <1>4, <1>6, <2>1
<1>9. Linux!ConnectSteps(t) = F(a \o b \o c \o d \o u)
  BY DEF Linux!ConnectSteps, f, e
<1>21. \A p, q \in Seq(LinuxNames) :
          p \o q \in Seq(LinuxNames) /\ F(p \o q) = F(p) \o F(q) /\ F(p) \in Seq(LinuxItems)
  BY ForParts, Behind
<1> HIDE DEF a, b, c, d, u, F
<1>10. F(a \o b \o c \o d \o u) = F(a) \o F(b) \o F(c) \o F(d) \o F(u)
  <2>1. F(a \o b) = F(a) \o F(b) /\ a \o b \in Seq(LinuxNames)
    BY <1>4, <1>8, <1>21
  <2>2. F(a \o b \o c) = F(a \o b) \o F(c) /\ a \o b \o c \in Seq(LinuxNames)
    BY <1>4, <2>1, <1>21
  <2>3. F(a \o b \o c \o d) = F(a \o b \o c) \o F(d) /\ a \o b \o c \o d \in Seq(LinuxNames)
    BY <1>7, <2>2, <1>21
  <2>4. F(a \o b \o c \o d \o u) = F(a \o b \o c \o d) \o F(u)
    BY <1>4, <2>3, <1>21
  <2>5. QED BY <2>1, <2>2, <2>3, <2>4
<1>11. \A p, q, r \in Seq(LinuxItems) :
          (p \o q) \o r = p \o (q \o r) /\ p \o q \in Seq(LinuxItems)
  OBVIOUS
<1>12. \A p \in Seq(LinuxItems) : << >> \o p = p /\ p \o << >> = p /\ << >> \in Seq(LinuxItems)
  OBVIOUS
<1>13. /\ F(a) \in Seq(LinuxItems) /\ F(b) \in Seq(LinuxItems) /\ F(c) \in Seq(LinuxItems)
       /\ F(d) \in Seq(LinuxItems) /\ F(u) \in Seq(LinuxItems) /\ F(f) \in Seq(LinuxItems)
  BY <1>4, <1>5, <1>7, <1>8, <1>21
<1>14. /\ F(a) \o F(b) \in Seq(LinuxItems) /\ F(d) \o F(u) \in Seq(LinuxItems)
       /\ F(c) \o (F(d) \o F(u)) \in Seq(LinuxItems)
       /\ F(b) \o (F(c) \o (F(d) \o F(u))) \in Seq(LinuxItems)
       /\ F(a) \o F(b) \o F(c) \in Seq(LinuxItems)
  BY <1>11, <1>13
<1>15. F(a) \o F(b) \o F(c) \o F(d) \o F(u) = F(a) \o (F(b) \o (F(c) \o (F(d) \o F(u))))
  <2> DEFINE p == F(a)
             q == F(b)
             r == F(c)
             v == F(d)
             w == F(u)
  <2>5. p \in Seq(LinuxItems) /\ q \in Seq(LinuxItems) /\ r \in Seq(LinuxItems)
        /\ v \in Seq(LinuxItems) /\ w \in Seq(LinuxItems)
    BY <1>13
  <2> HIDE DEF p, q, r, v, w
  <2>6. p \o q \in Seq(LinuxItems) /\ (p \o q) \o r \in Seq(LinuxItems)
        /\ v \o w \in Seq(LinuxItems) /\ r \o (v \o w) \in Seq(LinuxItems)
    BY <1>11, <2>5
  <2> DEFINE pq == p \o q
             vw == v \o w
             pqr == pq \o r
             rvw == r \o vw
  <2> HIDE <1>11
  <2>1. (pqr \o v) \o w = pqr \o vw
    <3>1. pqr \in Seq(LinuxItems)
      BY <2>6
    <3> HIDE DEF pqr
    <3>2. v \in Seq(LinuxItems) /\ w \in Seq(LinuxItems)
      BY <2>5
    <3>3. (pqr \o v) \o w = pqr \o (v \o w)
      BY ONLY <3>1, <3>2, Grouped
    <3>4. QED BY <3>3
  <2>2. pqr \o vw = pq \o rvw
    <3> HIDE DEF pq, vw
    <3>1. QED BY <2>5, <2>6, Grouped DEF pqr, rvw
  <2>3. pq \o rvw = p \o (q \o rvw)
    <3> HIDE DEF rvw
    <3>1. QED BY <2>5, <2>6, Grouped DEF pq
  <2>4. QED BY <2>1, <2>2, <2>3 DEF p, q, r, v, w
<1>16. F(d) \o F(u) = IF t \in LinuxDNS THEN CaptureList(t) ELSE UpList(t)
  <2>1. One("capture") \in Seq(LinuxItems) /\ One("setdns") \in Seq(LinuxItems)
        /\ One("up") \in Seq(LinuxItems)
    BY <1>1, <1>3
  <2>2. (One("capture") \o One("setdns")) \o One("up")
           = One("capture") \o (One("setdns") \o One("up"))
    BY <1>11, <2>1
  <2>3. << >> \o One("up") = One("up")
    BY <1>12, <2>1
  <2>4. QED BY <1>4, <1>7, <2>2, <2>3 DEF CaptureList, ServeList, UpList
<1>17. F(c) \o (F(d) \o F(u)) = CheckList(t)
  BY <1>4, <1>16 DEF CheckList
<1>18. F(b) \o CheckList(t) = IF TableCfg[t] = Linux!Off THEN CheckList(t) ELSE RouteList(t)
  <2>1. /\ One("default") \in Seq(LinuxItems) /\ One("rule") \in Seq(LinuxItems)
        /\ One("split") \in Seq(LinuxItems) /\ One("endpoint") \in Seq(LinuxItems)
        /\ CheckList(t) \in Seq(LinuxItems)
    BY <1>1, <1>3, <1>14, <1>17
  <2>2. CASE TableCfg[t] = Linux!Off
    BY <1>8, <1>12, <2>1, <2>2
  <2>3. CASE TableCfg[t] # Linux!Off
    <3>1. F(b) \o CheckList(t) = F(f) \o EndpointList(t)
      BY <1>8, <1>11, <1>13, <2>1, <2>3 DEF EndpointList
    <3>2. CASE t \notin LinuxFull
      BY <1>5, <2>3, <3>1, <3>2 DEF RouteList
    <3>3. CASE t \in LinuxFull
      <4>1. EndpointList(t) \in Seq(LinuxItems)
        BY <1>11, <2>1 DEF EndpointList
      <4>2. (One("default") \o One("rule")) \o EndpointList(t)
                = One("default") \o (One("rule") \o EndpointList(t))
        BY <1>11, <2>1, <4>1
      <4>3. QED BY <1>5, <2>3, <3>1, <3>3, <4>2 DEF RouteList, RuleList
    <3>4. QED BY <3>2, <3>3
  <2>4. QED BY <2>2, <2>3
<1>19. F(a) \o (IF TableCfg[t] = Linux!Off THEN CheckList(t) ELSE RouteList(t)) = LinkList(t)
  <2> DEFINE r == IF TableCfg[t] = Linux!Off THEN CheckList(t) ELSE RouteList(t)
  <2>1. r \in Seq(LinuxItems)
    BY <1>11, <1>13, <1>14, <1>17, <1>18
  <2>2. One("link") \in Seq(LinuxItems) /\ One("table") \in Seq(LinuxItems)
    BY <1>1, <1>3
  <2>3. (One("link") \o One("table")) \o r = One("link") \o (One("table") \o r)
    BY <1>11, <2>1, <2>2
  <2>4. QED BY <1>4, <2>3 DEF TableList, LinkList
<1>20. QED BY <1>9, <1>10, <1>15, <1>17, <1>18, <1>19

-----------------------------------------------------------------------------
(* Lists of a disconnect's, a rollback's or a recovery's steps. *)
LEMMA StepsBehind ==
    ASSUME NEW a \in Seq(ClearItems), NEW b \in Seq(ClearItems)
    PROVE  a \o b \in Seq(ClearItems) /\ StepsIn(a \o b) = StepsIn(a) \cup StepsIn(b)
<1> DEFINE d == a \o b
<1>1. /\ d \in Seq(ClearItems) /\ Len(d) = Len(a) + Len(b)
      /\ Len(a) \in Nat /\ Len(b) \in Nat
      /\ \A i \in 1..Len(a) : d[i] = a[i]
      /\ \A i \in 1..Len(b) : d[Len(a) + i] = b[i]
  BY Behind
<1> HIDE DEF d
<1>2. ASSUME NEW i \in 1..Len(d) PROVE d[i] \in StepsIn(a) \cup StepsIn(b)
  <2>1. CASE i <= Len(a)
    <3>1. i \in 1..Len(a)
      BY <1>1, <2>1
    <3>2. QED BY <1>1, <3>1 DEF StepsIn
  <2>2. CASE ~(i <= Len(a))
    <3> DEFINE k == i - Len(a)
    <3>1. k \in 1..Len(b) /\ Len(a) + k = i
      BY <1>1, <2>2
    <3> HIDE DEF k
    <3>2. d[i] = b[k]
      BY <1>1, <3>1
    <3>3. QED BY <3>1, <3>2 DEF StepsIn
  <2>3. QED BY <2>1, <2>2
<1>3. ASSUME NEW i \in 1..Len(a) PROVE a[i] \in StepsIn(d)
  <2>1. i \in 1..Len(d) /\ d[i] = a[i]
    BY <1>1
  <2>2. QED BY <2>1 DEF StepsIn
<1>4. ASSUME NEW i \in 1..Len(b) PROVE b[i] \in StepsIn(d)
  <2>1. Len(a) + i \in 1..Len(d) /\ d[Len(a) + i] = b[i]
    BY <1>1
  <2>2. QED BY <2>1 DEF StepsIn
<1>5. StepsIn(d) = StepsIn(a) \cup StepsIn(b)
  BY <1>2, <1>3, <1>4 DEF StepsIn
<1>6. QED BY <1>1, <1>5 DEF d

LEMMA StepsFrom ==
    ASSUME NEW q \in Seq(ClearItems)
    PROVE  /\ q = << >> => StepsIn(q) = {}
           /\ q # << >> =>
                 /\ Head(q) \in ClearItems /\ Tail(q) \in Seq(ClearItems)
                 /\ Head(q) \in StepsIn(q)
                 /\ StepsIn(q) = {Head(q)} \cup StepsIn(Tail(q))
<1>1. q = << >> => StepsIn(q) = {}
  BY DEF StepsIn
<1>2. ASSUME q # << >>
      PROVE  /\ Head(q) \in ClearItems /\ Tail(q) \in Seq(ClearItems)
             /\ Head(q) \in StepsIn(q)
             /\ StepsIn(q) = {Head(q)} \cup StepsIn(Tail(q))
  <2> DEFINE s == Tail(q)
  <2>1. Len(q) \in Nat \ {0} /\ Head(q) = q[1] /\ 1 \in 1..Len(q) /\ q[1] \in ClearItems
    BY <1>2
  <2>2. /\ s \in Seq(ClearItems) /\ Len(s) = Len(q) - 1
        /\ \A i \in 1..Len(s) : s[i] = q[i + 1]
    BY <1>2, <2>1
  <2> HIDE DEF s
  <2>3. ASSUME NEW i \in 1..Len(q), i # 1 PROVE q[i] \in StepsIn(s)
    <3>1. i - 1 \in 1..Len(s) /\ s[i - 1] = q[i]
      BY <2>1, <2>2, <2>3
    <3>2. QED BY <3>1 DEF StepsIn
  <2>4. ASSUME NEW i \in 1..Len(s) PROVE s[i] \in StepsIn(q)
    <3>1. i + 1 \in 1..Len(q) /\ s[i] = q[i + 1]
      BY <2>1, <2>2
    <3>2. QED BY <3>1 DEF StepsIn
  <2>5. Head(q) \in StepsIn(q)
    BY <2>1 DEF StepsIn
  <2>6. StepsIn(q) = {Head(q)} \cup StepsIn(s)
    <3>1. \A x \in StepsIn(q) : x = Head(q) \/ x \in StepsIn(s)
      BY <2>1, <2>3 DEF StepsIn
    <3>2. \A x \in StepsIn(s) : x \in StepsIn(q)
      BY <2>4 DEF StepsIn
    <3>3. QED BY <2>5, <3>1, <3>2
  <2>7. QED BY <2>1, <2>2, <2>5, <2>6 DEF s
<1>3. QED BY <1>1, <1>2

(* The steps a tunnel is rid of by. *)
LEMMA StepsOf ==
    ASSUME NEW t \in LinuxTunnels, NEW s \in Seq(ClearNames)
    PROVE  /\ Linux!For(t, s) \in Seq(ClearItems)
           /\ StepsIn(Linux!For(t, s)) = {<<s[i], t>> : i \in 1..Len(s)}
<1> DEFINE q == Linux!For(t, s)
<1>1. \A i \in 1..Len(s) : s[i] \in ClearNames
  OBVIOUS
<1>2. Len(s) \in Nat
  OBVIOUS
<1>3. q \in Seq(ClearItems) /\ Len(q) = Len(s) /\ \A i \in 1..Len(s) : q[i] = <<s[i], t>>
  <2>1. \A i \in 1..Len(s) : <<s[i], t>> \in ClearItems
    BY <1>1 DEF ClearItems
  <2>2. QED BY <2>1, <1>2 DEF Linux!For
<1> HIDE DEF q
<1>4. StepsIn(q) = {<<s[i], t>> : i \in 1..Len(s)}
  BY <1>3 DEF StepsIn
<1>5. QED BY <1>3, <1>4 DEF q

LEMMA ClearPair ==
    ASSUME NEW t \in LinuxTunnels, NEW a \in ClearNames, NEW b \in ClearNames
    PROVE  /\ Linux!For(t, <<a>>) \in Seq(ClearItems)
           /\ StepsIn(Linux!For(t, <<a>>)) = {<<a, t>>}
           /\ Linux!For(t, <<a, b>>) \in Seq(ClearItems)
           /\ StepsIn(Linux!For(t, <<a, b>>)) = {<<a, t>>, <<b, t>>}
<1> DEFINE r == <<a>>
           s == <<a, b>>
<1>1. /\ r \in Seq(ClearNames) /\ Len(r) = 1 /\ r[1] = a
      /\ s \in Seq(ClearNames) /\ Len(s) = 2 /\ s[1] = a /\ s[2] = b
  OBVIOUS
<1>2. 1..1 = {1} /\ 1..2 = {1, 2}
  OBVIOUS
<1> HIDE DEF r, s
<1>3. /\ Linux!For(t, r) \in Seq(ClearItems)
      /\ StepsIn(Linux!For(t, r)) = {<<r[i], t>> : i \in 1..Len(r)}
      /\ Linux!For(t, s) \in Seq(ClearItems)
      /\ StepsIn(Linux!For(t, s)) = {<<s[i], t>> : i \in 1..Len(s)}
  BY <1>1, StepsOf
<1>4. /\ {<<r[i], t>> : i \in 1..Len(r)} = {<<a, t>>}
      /\ {<<s[i], t>> : i \in 1..Len(s)} = {<<a, t>>, <<b, t>>}
  BY <1>1, <1>2
<1>5. QED BY <1>3, <1>4 DEF r, s

LEMMA ClearTriple ==
    ASSUME NEW t \in LinuxTunnels, NEW a \in ClearNames, NEW b \in ClearNames,
           NEW c \in ClearNames
    PROVE  /\ Linux!For(t, <<a, b, c>>) \in Seq(ClearItems)
           /\ StepsIn(Linux!For(t, <<a, b, c>>)) = {<<a, t>>, <<b, t>>, <<c, t>>}
<1> DEFINE s == <<a, b, c>>
<1>1. s \in Seq(ClearNames) /\ Len(s) = 3 /\ s[1] = a /\ s[2] = b /\ s[3] = c
  OBVIOUS
<1>2. 1..3 = {1, 2, 3}
  OBVIOUS
<1> HIDE DEF s
<1>3. /\ Linux!For(t, s) \in Seq(ClearItems)
      /\ StepsIn(Linux!For(t, s)) = {<<s[i], t>> : i \in 1..Len(s)}
  BY <1>1, StepsOf
<1>4. {<<s[i], t>> : i \in 1..Len(s)} = {<<a, t>>, <<b, t>>, <<c, t>>}
  BY <1>1, <1>2
<1>5. QED BY <1>3, <1>4 DEF s

(* Routing that a manager thinks it has not is not removed. *)
Unrouted(t) == mgr[t].set /\ mgr[t].table = Linux!Off
RemovesIn(t) ==
    IF Unrouted(t) THEN {}
    ELSE {<<"rroutes", t>>, <<"rbinds", t>>}
            \cup (IF t \in LinuxFull THEN {<<"rrule", t>>} ELSE {})

LEMMA Removals ==
    ASSUME NEW t \in LinuxTunnels
    PROVE  /\ Linux!RemoveSteps(t) \in Seq(ClearItems)
           /\ StepsIn(Linux!RemoveSteps(t)) = RemovesIn(t)
           /\ Linux!Rollback(t) \in Seq(ClearItems)
           /\ StepsIn(Linux!Rollback(t)) =
                 RemovesIn(t) \cup {<<"restore", t>>, <<"close", t>>}
           /\ Linux!DisconnectSteps(t) \in Seq(ClearItems)
           /\ StepsIn(Linux!DisconnectSteps(t)) =
                 RemovesIn(t) \cup {<<"close", t>>, <<"cleanup", t>>, <<"forget", t>>}
<1>1. {"rroutes", "rbinds", "rrule", "restore", "close", "cleanup", "forget"} \subseteq ClearNames
  BY DEF ClearNames
<1>2. << >> \in Seq(ClearItems) /\ StepsIn(<< >>) = {}
  <2>1. << >> \in Seq(ClearItems)
    OBVIOUS
  <2>2. QED BY <2>1, StepsFrom
<1>3. /\ Linux!RemoveSteps(t) \in Seq(ClearItems)
      /\ StepsIn(Linux!RemoveSteps(t)) = RemovesIn(t)
  <2>1. CASE Unrouted(t)
    BY <1>2, <2>1 DEF Linux!RemoveSteps, RemovesIn, Unrouted
  <2>2. CASE ~Unrouted(t) /\ t \in LinuxFull
    <3>1. Linux!RemoveSteps(t) = Linux!For(t, <<"rroutes", "rbinds", "rrule">>)
      BY <2>2 DEF Linux!RemoveSteps, Unrouted
    <3>2. /\ Linux!For(t, <<"rroutes", "rbinds", "rrule">>) \in Seq(ClearItems)
          /\ StepsIn(Linux!For(t, <<"rroutes", "rbinds", "rrule">>)) =
                {<<"rroutes", t>>, <<"rbinds", t>>, <<"rrule", t>>}
      <4> PICK a \in ClearNames, b \in ClearNames, c \in ClearNames :
              a = "rroutes" /\ b = "rbinds" /\ c = "rrule"
        BY <1>1
      <4>1. QED BY ClearTriple
    <3>3. QED BY <2>2, <3>1, <3>2 DEF RemovesIn
  <2>3. CASE ~Unrouted(t) /\ t \notin LinuxFull
    <3>1. Linux!RemoveSteps(t) = Linux!For(t, <<"rroutes", "rbinds">>)
      BY <2>3 DEF Linux!RemoveSteps, Unrouted
    <3>2. /\ Linux!For(t, <<"rroutes", "rbinds">>) \in Seq(ClearItems)
          /\ StepsIn(Linux!For(t, <<"rroutes", "rbinds">>)) = {<<"rroutes", t>>, <<"rbinds", t>>}
      BY <1>1, ClearPair
    <3>3. QED BY <2>3, <3>1, <3>2 DEF RemovesIn
  <2>4. QED BY <2>1, <2>2, <2>3
<1>4. /\ Linux!For(t, <<"restore", "close">>) \in Seq(ClearItems)
      /\ StepsIn(Linux!For(t, <<"restore", "close">>)) = {<<"restore", t>>, <<"close", t>>}
      /\ Linux!For(t, <<"close", "cleanup", "forget">>) \in Seq(ClearItems)
      /\ StepsIn(Linux!For(t, <<"close", "cleanup", "forget">>)) =
            {<<"close", t>>, <<"cleanup", t>>, <<"forget", t>>}
  <2> PICK a \in ClearNames, b \in ClearNames, c \in ClearNames :
          a = "close" /\ b = "cleanup" /\ c = "forget"
    BY <1>1
  <2>1. /\ Linux!For(t, <<a, b, c>>) \in Seq(ClearItems)
        /\ StepsIn(Linux!For(t, <<a, b, c>>)) = {<<a, t>>, <<b, t>>, <<c, t>>}
    BY ClearTriple
  <2>2. /\ Linux!For(t, <<"restore", "close">>) \in Seq(ClearItems)
        /\ StepsIn(Linux!For(t, <<"restore", "close">>)) = {<<"restore", t>>, <<"close", t>>}
    BY <1>1, ClearPair
  <2>3. QED BY <2>1, <2>2
<1>5. QED BY <1>3, <1>4, StepsBehind DEF Linux!Rollback, Linux!DisconnectSteps

-----------------------------------------------------------------------------
(* No list is both. *)
LEMMA OneOrOther ==
    ASSUME NEW t \in LinuxTunnels, Coming(t)
    PROVE  ~Clearing /\ Pending = {} /\ \A u \in LinuxTunnels : Coming(u) => u = t
<1>1. \A u \in LinuxTunnels : Coming(u) => u = t
  <2>1. SUFFICES ASSUME NEW u \in LinuxTunnels, Coming(u) PROVE u = t
    OBVIOUS
  <2>2. Head(ltodo) = <<FirstStep, t>>
    BY StagesAre
  <2>3. Head(ltodo) = <<FirstStep, u>>
    BY <2>1, StagesAre
  <2>4. QED BY <2>2, <2>3
<1>2. ASSUME Clearing PROVE FALSE
  <2>1. ltodo \in Seq(ClearItems) /\ ltodo # << >>
    BY <1>2, StagesAre DEF Clearing
  <2>2. Head(ltodo) \in ClearItems /\ Tail(ltodo) \in Seq(ClearItems)
    BY <2>1, StepsFrom
  <2>3. FirstStep \in ClearNames
    BY <2>2 DEF FirstStep, ClearItems
  <2>4. FirstStep \in {"link", "table", "default", "split", "rule", "endpoint",
                   "checkpoint", "capture", "setdns", "up"}
        /\ (FirstStep = "capture" => Tail(ltodo) = ServeList(t))
    BY StagesAre
  <2>5. Tail(ltodo) = ServeList(t)
    BY <2>3, <2>4 DEF ClearNames
  <2>6. ServeList(t) # << >> /\ Head(ServeList(t)) = <<"setdns", t>>
    BY Lists
  <2>7. Head(ServeList(t)) \in ClearItems
    BY <2>2, <2>5, <2>6, StepsFrom
  <2>8. QED BY <2>6, <2>7 DEF ClearItems, ClearNames
<1>3. QED BY <1>1, <1>2 DEF Pending

LEMMA ThenOneOrOther ==
    ASSUME NEW t \in LinuxTunnels, Coming(t)'
    PROVE  (~Clearing)' /\ Pending' = {} /\ \A u \in LinuxTunnels : Coming(u)' => u = t
<1>1. (~Clearing /\ Pending = {} /\ \A u \in LinuxTunnels : Coming(u) => u = t)'
  BY OneOrOther, PTL
<1>2. QED BY <1>1

(* What a connect does next. *)
LEMMA ConnectMoves ==
    ASSUME NEW t \in LinuxTunnels, Coming(t), ltodo' = Tail(ltodo)
    PROVE  /\ FirstStep = "up" => ltodo' = << >>
           /\ FirstStep # "up" => Coming(t)' /\ FirstStep' \notin {"link"}
           /\ FirstStep = "link" => FirstStep' = "table"
           /\ FirstStep = "table" =>
                 FirstStep' = IF TableCfg[t] = Linux!Off THEN "checkpoint"
                          ELSE IF t \in LinuxFull THEN "default" ELSE "split"
           /\ FirstStep = "default" => FirstStep' = "rule"
           /\ FirstStep \in {"split", "rule"} => FirstStep' = "endpoint"
           /\ FirstStep = "endpoint" => FirstStep' = "checkpoint"
           /\ FirstStep = "checkpoint" => FirstStep' = IF t \in LinuxDNS THEN "capture" ELSE "up"
           /\ FirstStep = "capture" => FirstStep' = "setdns"
           /\ FirstStep = "setdns" => FirstStep' = "up"
<1> DEFINE h == FirstStep
           x == Tail(ltodo)
<1>1. /\ h = "link" => x = TableList(t)
      /\ h = "table" => x = IF TableCfg[t] = Linux!Off THEN CheckList(t) ELSE RouteList(t)
      /\ h = "default" => t \in LinuxFull /\ TableCfg[t] # Linux!Off /\ x = RuleList(t)
      /\ h = "split" => t \notin LinuxFull /\ TableCfg[t] # Linux!Off /\ x = EndpointList(t)
      /\ h = "rule" => t \in LinuxFull /\ TableCfg[t] # Linux!Off /\ x = EndpointList(t)
      /\ h = "endpoint" => TableCfg[t] # Linux!Off /\ x = CheckList(t)
      /\ h = "checkpoint" => x = IF t \in LinuxDNS THEN CaptureList(t) ELSE UpList(t)
      /\ h = "capture" => t \in LinuxDNS /\ x = ServeList(t)
      /\ h = "setdns" => t \in LinuxDNS /\ x = UpList(t)
      /\ h = "up" => x = << >>
      /\ h \in {"link", "table", "default", "split", "rule", "endpoint",
                "checkpoint", "capture", "setdns", "up"}
  BY StagesAre
<1>2. FirstStep' = Head(x)[1] /\ (Coming(t)' <=> x \in ConnectLists(t))
  BY DEF FirstStep, Coming
<1> HIDE DEF h, x
<1>3. CASE h = "up"
  BY <1>1, <1>3 DEF h, x
<1>4. CASE h = "link"
  <2>1. x \in ConnectLists(t) /\ Head(x) = <<"table", t>>
    BY <1>1, <1>4, Lists DEF ConnectLists
  <2>2. QED BY <1>2, <1>4, <2>1 DEF h
<1>5. CASE h = "table"
  <2>1. CASE TableCfg[t] = Linux!Off
    <3>1. x \in ConnectLists(t) /\ Head(x) = <<"checkpoint", t>>
      BY <1>1, <1>5, <2>1, Lists DEF ConnectLists
    <3>2. QED BY <1>2, <1>5, <2>1, <3>1 DEF h
  <2>2. CASE TableCfg[t] # Linux!Off
    <3>1. /\ x \in ConnectLists(t)
          /\ Head(x) = IF t \in LinuxFull THEN <<"default", t>> ELSE <<"split", t>>
      BY <1>1, <1>5, <2>2, Lists DEF ConnectLists
    <3>2. QED BY <1>2, <1>5, <2>2, <3>1 DEF h
  <2>3. QED BY <2>1, <2>2
<1>6. CASE h = "default"
  <2>1. x \in ConnectLists(t) /\ Head(x) = <<"rule", t>>
    BY <1>1, <1>6, Lists DEF ConnectLists
  <2>2. QED BY <1>2, <1>6, <2>1 DEF h
<1>7. CASE h = "split" \/ h = "rule"
  <2>1. x \in ConnectLists(t) /\ Head(x) = <<"endpoint", t>>
    BY <1>1, <1>7, Lists DEF ConnectLists
  <2>2. QED BY <1>2, <1>7, <2>1 DEF h
<1>8. CASE h = "endpoint"
  <2>1. x \in ConnectLists(t) /\ Head(x) = <<"checkpoint", t>>
    BY <1>1, <1>8, Lists DEF ConnectLists
  <2>2. QED BY <1>2, <1>8, <2>1 DEF h
<1>9. CASE h = "checkpoint"
  <2>1. /\ x \in ConnectLists(t)
        /\ Head(x) = IF t \in LinuxDNS THEN <<"capture", t>> ELSE <<"up", t>>
    BY <1>1, <1>9, Lists DEF ConnectLists
  <2>2. QED BY <1>2, <1>9, <2>1 DEF h
<1>10. CASE h = "capture"
  <2>1. x \in ConnectLists(t) /\ Head(x) = <<"setdns", t>>
    BY <1>1, <1>10, Lists DEF ConnectLists
  <2>2. QED BY <1>2, <1>10, <2>1 DEF h
<1>11. CASE h = "setdns"
  <2>1. x \in ConnectLists(t) /\ Head(x) = <<"up", t>>
    BY <1>1, <1>11, Lists DEF ConnectLists
  <2>2. QED BY <1>2, <1>11, <2>1 DEF h
<1>12. QED
  BY <1>1, <1>3, <1>4, <1>5, <1>6, <1>7, <1>8, <1>9, <1>10, <1>11

(* A new list of steps, and what is left of one. *)
LEMMA Begins ==
    ASSUME NEW q \in Seq(ClearItems), ltodo' = q
    PROVE  Clearing' /\ Pending' = StepsIn(q) /\ \A t \in LinuxTunnels : ~Coming(t)'
<1>1. Clearing' /\ Pending' = StepsIn(q)
  BY DEF Clearing, Pending
<1>2. ASSUME NEW t \in LinuxTunnels, Coming(t)' PROVE FALSE
  <2>1. (~Clearing)'
    BY <1>2, OneOrOther, PTL
  <2>2. QED BY <1>1, <2>1
<1>3. QED BY <1>1, <1>2

LEMMA Starts ==
    ASSUME NEW t \in LinuxTunnels, ltodo' = LinkList(t)
    PROVE  Coming(t)' /\ FirstStep' = "link"
BY Lists DEF Coming, FirstStep, ConnectLists

LEMMA Ends ==
    ASSUME ltodo' = << >>
    PROVE  Clearing' /\ Pending' = {} /\ \A t \in LinuxTunnels : ~Coming(t)'
<1>1. << >> \in Seq(ClearItems)
  OBVIOUS
<1>2. QED BY <1>1, Begins, StepsFrom

LEMMA ClearMoves ==
    ASSUME Clearing, ltodo # << >>, ltodo' = Tail(ltodo)
    PROVE  /\ Clearing' /\ Head(ltodo) \in ClearItems
           /\ Pending = {Head(ltodo)} \cup Pending'
           /\ \A t \in LinuxTunnels : ~Coming(t)'
<1>1. ltodo \in Seq(ClearItems) /\ Tail(ltodo) \in Seq(ClearItems)
      /\ Head(ltodo) \in ClearItems
      /\ StepsIn(ltodo) = {Head(ltodo)} \cup StepsIn(Tail(ltodo))
  BY StepsFrom DEF Clearing
<1>2. Clearing' /\ Pending' = StepsIn(Tail(ltodo)) /\ \A t \in LinuxTunnels : ~Coming(t)'
  BY <1>1, Begins
<1>3. QED BY <1>1, <1>2 DEF Pending

LEMMA Swaps ==
    ASSUME NEW q \in Seq(ClearItems), Clearing, ltodo # << >>, ltodo' = q \o Tail(ltodo)
    PROVE  /\ Clearing' /\ \A t \in LinuxTunnels : ~Coming(t)'
           /\ Pending \subseteq {Head(ltodo)} \cup Pending'
           /\ Pending' \subseteq Pending \cup StepsIn(q) /\ StepsIn(q) \subseteq Pending'
<1>1. ltodo \in Seq(ClearItems) /\ Tail(ltodo) \in Seq(ClearItems)
      /\ StepsIn(ltodo) = {Head(ltodo)} \cup StepsIn(Tail(ltodo))
  BY StepsFrom DEF Clearing
<1>2. /\ q \o Tail(ltodo) \in Seq(ClearItems)
      /\ StepsIn(q \o Tail(ltodo)) = StepsIn(q) \cup StepsIn(Tail(ltodo))
  BY <1>1, StepsBehind
<1>3. Clearing' /\ Pending' = StepsIn(q \o Tail(ltodo)) /\ \A t \in LinuxTunnels : ~Coming(t)'
  BY <1>2, Begins
<1>4. QED BY <1>1, <1>2, <1>3 DEF Pending

(* Whose step it is that is next. *)
LEMMA ConnectStep ==
    ASSUME LinuxPlaces, NEW n, Linux!Step(n), n \notin ClearNames
    PROVE  /\ lalive /\ Linux!Arg \in LinuxTunnels /\ Coming(Linux!Arg) /\ FirstStep = n
           /\ ~Clearing /\ Pending = {} /\ \A u \in LinuxTunnels : Coming(u) => u = Linux!Arg
<1>1. ltodo # << >> /\ FirstStep = n
  BY DEF Linux!Step, FirstStep
<1>2. ~Clearing
  <2>1. SUFFICES ASSUME Clearing PROVE FALSE
    OBVIOUS
  <2>2. Head(ltodo) \in ClearItems
    BY <1>1, <2>1, StepsFrom DEF Clearing
  <2>3. QED BY <1>1, <2>2 DEF ClearItems, FirstStep
<1>3. PICK t \in LinuxTunnels : Coming(t)
  BY <1>2 DEF LinuxPlaces
<1>4. Head(ltodo) = <<FirstStep, t>>
  BY <1>3, StagesAre
<1>5. Linux!Arg = t
  BY <1>4 DEF Linux!Arg
<1>6. QED BY <1>1, <1>2, <1>3, <1>5, OneOrOther DEF LinuxPlaces

LEMMA ClearStep ==
    ASSUME LinuxPlaces, NEW n, Linux!Step(n), n \in ClearNames \ {"capture"}
    PROVE  /\ lalive /\ Clearing /\ ltodo # << >> /\ Head(ltodo) = <<n, Linux!Arg>>
           /\ Linux!Arg \in LinuxTunnels /\ Ahead(n, Linux!Arg)
           /\ \A u \in LinuxTunnels : ~Coming(u)
<1>1. ltodo # << >> /\ FirstStep = n
  BY DEF Linux!Step, FirstStep
<1>2. \A u \in LinuxTunnels : ~Coming(u)
  <2>1. SUFFICES ASSUME NEW u \in LinuxTunnels, Coming(u) PROVE FALSE
    OBVIOUS
  <2>2. FirstStep \in {"link", "table", "default", "split", "rule", "endpoint",
                   "checkpoint", "capture", "setdns", "up"}
    BY <2>1, StagesAre
  <2>3. QED BY <1>1, <2>2 DEF ClearNames
<1>3. Clearing /\ lalive
  BY <1>1, <1>2 DEF LinuxPlaces
<1>4. Head(ltodo) \in ClearItems /\ Head(ltodo) \in StepsIn(ltodo)
  BY <1>1, <1>3, StepsFrom DEF Clearing
<1>5. Head(ltodo) = <<n, Linux!Arg>> /\ Linux!Arg \in LinuxTunnels
  BY <1>1, <1>4 DEF ClearItems, Linux!Arg, FirstStep
<1>6. QED BY <1>1, <1>2, <1>3, <1>4, <1>5 DEF Ahead, Pending

-----------------------------------------------------------------------------
(* A step that leaves the routing as it is, and what managers know of it. *)
Steady ==
    /\ routes' = routes /\ rule' = rule /\ lup' = lup /\ lost' = lost /\ lalive' = lalive
    /\ \A t \in LinuxTunnels :
          /\ mgr'[t].set = mgr[t].set /\ mgr'[t].table = mgr[t].table
          /\ mgr'[t].throws = mgr[t].throws /\ mgr'[t].binds = mgr[t].binds

LEMMA RoutingFrame ==
    ASSUME LinuxTypes, LinuxAlive, Steady,
           \A t \in LinuxTunnels :
              /\ Coming(t)' <=> Coming(t)
              /\ Coming(t) => /\ FirstStep' \in Unplaced <=> FirstStep \in Unplaced
                              /\ FirstStep' \in {"link", "table"}
                                    <=> FirstStep \in {"link", "table"}
                              /\ FirstStep' \in Ruled <=> FirstStep \in Ruled
              /\ \A n \in {"rroutes", "rbinds", "rrule", "recover"} : Ahead(n, t)' <=> Ahead(n, t)
              /\ \A n \in ClearNames \ {"capture", "reapply"} : Ahead(n, t)' => t \notin lup
              /\ \A n \in {"reset", "recover", "clear"} : Ahead(n, t)' => lup = {}
    PROVE  LinuxAlive'
<1>1. \A t \in LinuxTunnels : Linux!Needed(t)' = Linux!Needed(t)
  BY DEF Linux!Needed, Steady
<1>2. \A r \in routes' : Believed(r)' /\ (r \in lost' \/ Claimed(r)')
  <2>1. SUFFICES ASSUME NEW r \in routes PROVE Believed(r)' /\ (r \in lost \/ Claimed(r)')
    BY DEF Steady
  <2>2. r.of \in LinuxTunnels
    BY DEF LinuxTypes, LinuxRoutes
  <2>3. Believed(r) /\ (r \in lost \/ Claimed(r))
    BY DEF LinuxAlive
  <2>4. Believed(r)'
    BY <2>2, <2>3 DEF Believed, Steady
  <2>5. Claimed(r) => Claimed(r)'
    BY <2>2 DEF Claimed, Steady
  <2>6. QED BY <2>3, <2>4, <2>5
<1>3. LinuxManagers'
  <2>1. SUFFICES ASSUME NEW t \in LinuxTunnels
        PROVE  /\ mgr'[t].table = Linux!Off => TableCfg[t] = Linux!Off /\ ~mgr'[t].binds
               /\ Placed(t)' => mgr'[t].set /\ Linux!Needed(t)' \ lost' \subseteq routes'
               /\ Coming(t)' /\ FirstStep' \in Unplaced =>
                     /\ ~mgr'[t].throws /\ ~mgr'[t].binds
                     /\ mgr'[t].set <=> FirstStep' \notin {"link", "table"}
    BY DEF LinuxManagers
  <2>2. Placed(t)' <=> Placed(t)
    BY DEF Placed, Steady
  <2>3. QED BY <1>1, <2>2 DEF LinuxAlive, LinuxManagers, Steady
<1>4. LinuxApart'
  <2>1. \A t \in LinuxTunnels : Coming(t)' => t \notin lup'
    BY DEF LinuxAlive, LinuxApart, Steady
  <2>2. \A n \in ClearNames \ {"capture", "reapply"}, t \in LinuxTunnels :
           Ahead(n, t)' => t \notin lup'
    BY DEF Steady
  <2>3. \A n \in {"reset", "recover", "clear"}, t \in LinuxTunnels : Ahead(n, t)' => lup' = {}
    BY DEF Steady
  <2>4. \A t \in LinuxTunnels : Ahead("rrule", t)' => lup' \cap LinuxFull = {}
    BY DEF LinuxAlive, LinuxApart, Steady
  <2>5. \A t, u \in LinuxFull :
           (t \in lup' \/ Coming(t)') /\ (u \in lup' \/ Coming(u)') => t = u
    BY LinuxAssumption DEF LinuxAlive, LinuxApart, Steady
  <2>6. QED BY <2>1, <2>2, <2>3, <2>4, <2>5 DEF LinuxApart
<1>5. LinuxRule'
  <2>1. \A t \in LinuxTunnels : RulesTable(t)' <=> RulesTable(t)
    BY DEF RulesTable, Steady
  <2>2. RuleLost' <=> RuleLost
    BY DEF RuleLost, Steady
  <2>3. QED BY <2>1, <2>2, LinuxAssumption DEF LinuxAlive, LinuxRule, Steady
<1>6. QED BY <1>2, <1>3, <1>4, <1>5 DEF LinuxAlive

(* A connect's step that leaves the routing as it is. *)
LEMMA QuietConnects ==
    ASSUME LinuxInv, lalive, Steady, NEW t \in LinuxTunnels, Coming(t), ltodo' = Tail(ltodo),
           FirstStep \in {"link", "endpoint", "checkpoint", "capture", "setdns"}
    PROVE  LinuxPlaces' /\ LinuxAlive'
<1>1. /\ Coming(t)'
      /\ FirstStep = "link" => FirstStep' = "table"
      /\ FirstStep = "endpoint" => FirstStep' = "checkpoint"
      /\ FirstStep = "checkpoint" => FirstStep' \in {"capture", "up"}
      /\ FirstStep = "capture" => FirstStep' = "setdns"
      /\ FirstStep = "setdns" => FirstStep' = "up"
  BY ConnectMoves
<1>2. Pending = {} /\ \A u \in LinuxTunnels : Coming(u) => u = t
  BY OneOrOther
<1>3. Pending' = {} /\ \A u \in LinuxTunnels : Coming(u)' => u = t
  BY <1>1, ThenOneOrOther
<1>4. /\ FirstStep' \in Unplaced <=> FirstStep \in Unplaced
      /\ FirstStep' \in {"link", "table"} <=> FirstStep \in {"link", "table"}
      /\ FirstStep' \in Ruled <=> FirstStep \in Ruled
  BY <1>1 DEF Unplaced, Ruled
<1>5. \A n, u : ~Ahead(n, u) /\ ~Ahead(n, u)'
  BY <1>2, <1>3 DEF Ahead
<1>6. LinuxTypes /\ LinuxAlive
  BY DEF LinuxInv
<1>7. LinuxAlive'
  <2>1. \A u \in LinuxTunnels : Coming(u)' <=> Coming(u)
    BY <1>1, <1>2, <1>3
  <2>2. QED BY <1>4, <1>5, <1>6, <2>1, RoutingFrame
<1>8. LinuxPlaces'
  BY <1>1 DEF LinuxPlaces, Steady
<1>9. QED BY <1>7, <1>8

(* The same for the other lists. *)
LEMMA QuietClears ==
    ASSUME LinuxInv, lalive, Steady, Clearing, Clearing',
           \A t \in LinuxTunnels : ~Coming(t)',
           \A t \in LinuxTunnels : \A n \in {"rroutes", "rbinds", "rrule", "recover"} :
              Ahead(n, t)' <=> Ahead(n, t),
           \A t \in LinuxTunnels : \A n \in ClearNames \ {"capture", "reapply"} :
              Ahead(n, t)' => Ahead(n, t) \/ (t \notin lup /\ n = "restore")
    PROVE  LinuxPlaces' /\ LinuxAlive'
<1>1. \A t \in LinuxTunnels : ~Coming(t)
  BY OneOrOther
<1>2. LinuxTypes /\ LinuxAlive
  BY DEF LinuxInv
<1>3. \A t \in LinuxTunnels :
         /\ \A n \in ClearNames \ {"capture", "reapply"} : Ahead(n, t)' => t \notin lup
         /\ \A n \in {"reset", "recover", "clear"} : Ahead(n, t)' => lup = {}
  <2>1. LinuxApart
    BY <1>2 DEF LinuxAlive
  <2>2. {"reset", "recover", "clear"} \subseteq ClearNames \ {"capture", "reapply", "restore"}
    BY DEF ClearNames
  <2>3. QED BY <2>1, <2>2 DEF LinuxApart
<1>4. LinuxAlive'
  BY <1>1, <1>2, <1>3, RoutingFrame
<1>5. LinuxPlaces'
  BY DEF LinuxPlaces, Steady
<1>6. QED BY <1>4, <1>5

-----------------------------------------------------------------------------
(* At first, and the operations. *)

LEMMA LinuxInitially == ASSUME Linux!Init PROVE LinuxInv
<1>1. ltodo = << >> /\ lup = {} /\ lalive /\ routes = {} /\ lost = {} /\ rule = Linux!NoTable
  BY DEF Linux!Init
<1>2. \A t \in LinuxTunnels : ~Coming(t)
  BY <1>1, Lists DEF Coming
<1>3. Clearing /\ Pending = {}
  <2>1. << >> \in Seq(ClearItems)
    OBVIOUS
  <2>2. QED BY <1>1, <2>1, StepsFrom DEF Clearing, Pending
<1>4. LinuxTypes
  <2>1. IsFiniteSet({})
    BY FS_EmptySet
  <2>2. Linux!Fresh \in Managers
    BY DEF Linux!Fresh, Managers
  <2>3. QED BY <2>1, <2>2 DEF Linux!Init, LinuxTypes
<1>5. LinuxAlive
  <2>1. \A t \in LinuxTunnels : mgr[t] = Linux!Fresh
    BY DEF Linux!Init
  <2>2. LinuxManagers
    BY <1>1, <1>2, <2>1, LinuxAssumption
       DEF LinuxManagers, Placed, Linux!Fresh, Linux!Off
  <2>3. LinuxApart
    BY <1>1, <1>2, <1>3, LinuxAssumption DEF LinuxApart, Ahead
  <2>4. LinuxRule
    BY <1>1, <1>2 DEF LinuxRule, RulesTable
  <2>5. QED BY <1>1, <2>2, <2>3, <2>4 DEF LinuxAlive
<1>6. QED BY <1>1, <1>3, <1>4, <1>5 DEF LinuxInv, LinuxPlaces

(* No tunnel comes or goes, so no route that is not lost is another's. *)
LEMMA AtRest ==
    ASSUME LinuxInv, Linux!Settled
    PROVE  /\ lalive /\ Clearing /\ Pending = {} /\ \A t \in LinuxTunnels : ~Coming(t)
           /\ \A r \in routes : r \in lost \/ r.of \in lup
<1>1. lalive /\ ltodo = << >>
  BY DEF Linux!Settled
<1>2. \A t \in LinuxTunnels : ~Coming(t)
  BY <1>1, Lists DEF Coming
<1>3. Clearing /\ Pending = {}
  <2>1. << >> \in Seq(ClearItems)
    OBVIOUS
  <2>2. QED BY <1>1, <2>1, StepsFrom DEF Clearing, Pending
<1>4. ASSUME NEW r \in routes PROVE r \in lost \/ r.of \in lup
  <2>1. r.of \in LinuxTunnels
    BY DEF LinuxInv, LinuxTypes, LinuxRoutes
  <2>2. r \in lost \/ Claimed(r)
    BY <1>1 DEF LinuxInv, LinuxAlive
  <2>3. QED BY <1>2, <1>3, <2>1, <2>2 DEF Claimed, Ahead
<1>5. QED BY <1>1, <1>2, <1>3, <1>4

(* A lost route is no device's. *)
LEMMA LostKinds ==
    ASSUME LinuxTypes, NEW r \in routes, r \in lost
    PROVE  r.kind \in {"throw", "bind"}
BY DEF LinuxTypes, LinuxRoutes

LEMMA LinuxConnects ==
    ASSUME LinuxInv, NEW t \in LinuxTunnels, Linux!Connect(t)
    PROVE  LinuxInv'
<1>1. /\ lalive /\ Clearing /\ Pending = {} /\ \A u \in LinuxTunnels : ~Coming(u)
      /\ \A r \in routes : r \in lost \/ r.of \in lup
  BY AtRest DEF Linux!Connect
<1>2. /\ t \notin lup /\ (t \in LinuxFull => lup \cap LinuxFull = {})
      /\ ltodo' = LinkList(t) /\ mgr' = [mgr EXCEPT ![t] = Linux!Fresh]
      /\ mech' = mech /\ routes' = routes /\ rule' = rule /\ lup' = lup /\ lost' = lost
      /\ lalive' = lalive /\ ljournal' = ljournal /\ original' = original /\ resolv' = resolv
  BY ConnectIsLinkList DEF Linux!Connect, Linux!kernel, Linux!names, Linux!files
<1>3. LinuxTypes /\ LinuxAlive
  BY <1>1 DEF LinuxInv
<1>4. Linux!Fresh \in Managers
  BY DEF Linux!Fresh, Managers
<1>5. LinuxTypes'
  BY <1>2, <1>3, <1>4 DEF LinuxTypes
<1>6. Coming(t)' /\ FirstStep' = "link"
  BY <1>2, Starts
<1>7. Pending' = {} /\ \A u \in LinuxTunnels : Coming(u)' => u = t
  BY <1>6, ThenOneOrOther
<1>8. LinuxPlaces'
  BY <1>1, <1>2, <1>6 DEF LinuxPlaces
<1>9. mgr'[t] = Linux!Fresh /\ \A u \in LinuxTunnels \ {t} : mgr'[u] = mgr[u]
  BY <1>2, <1>3 DEF LinuxTypes
<1>10. \A r \in routes' : Believed(r)' /\ (r \in lost' \/ Claimed(r)')
  <2>1. SUFFICES ASSUME NEW r \in routes PROVE Believed(r)' /\ (r \in lost \/ Claimed(r)')
    BY <1>2
  <2>2. r.of \in LinuxTunnels /\ Believed(r) /\ (r \in lost \/ r.of \in lup)
    BY <1>1, <1>3 DEF LinuxTypes, LinuxRoutes, LinuxAlive
  <2>3. Claimed(r)' \/ r \in lost
    BY <1>2, <2>2 DEF Claimed
  <2>4. CASE r.of # t
    BY <1>2, <1>9, <2>2, <2>3, <2>4 DEF Believed
  <2>5. CASE r.of = t
    <3>1. r \in lost
      BY <1>2, <2>2, <2>5
    <3>2. r.kind \in {"throw", "bind"}
      BY <1>3, <3>1, LostKinds
    <3>3. QED BY <1>2, <2>2, <2>3, <3>1, <3>2 DEF Believed
  <2>6. QED BY <2>3, <2>4, <2>5
<1>11. LinuxManagers'
  <2>1. SUFFICES ASSUME NEW u \in LinuxTunnels
        PROVE  /\ mgr'[u].table = Linux!Off => TableCfg[u] = Linux!Off /\ ~mgr'[u].binds
               /\ Placed(u)' => mgr'[u].set /\ Linux!Needed(u)' \ lost' \subseteq routes'
               /\ Coming(u)' /\ FirstStep' \in Unplaced =>
                     /\ ~mgr'[u].throws /\ ~mgr'[u].binds
                     /\ mgr'[u].set <=> FirstStep' \notin {"link", "table"}
    BY DEF LinuxManagers
  <2>2. CASE u = t
    BY <1>2, <1>6, <1>9, <2>2, LinuxAssumption DEF Placed, Unplaced, Linux!Fresh, Linux!Off
  <2>3. CASE u # t
    <3>1. Placed(u)' <=> Placed(u)
      BY <1>1, <1>2, <1>7, <2>3 DEF Placed
    <3>2. Linux!Needed(u)' = Linux!Needed(u)
      BY <1>9, <2>3 DEF Linux!Needed
    <3>3. QED BY <1>2, <1>3, <1>7, <1>9, <2>3, <3>1, <3>2 DEF LinuxAlive, LinuxManagers
  <2>4. QED BY <2>2, <2>3
<1>12. LinuxApart'
  <2>1. \A u, v \in LinuxFull :
           (u \in lup' \/ Coming(u)') /\ (v \in lup' \/ Coming(v)') => u = v
    BY <1>2, <1>3, <1>7, LinuxAssumption DEF LinuxAlive, LinuxApart
  <2>2. QED BY <1>2, <1>7, <2>1 DEF LinuxApart, Ahead
<1>13. LinuxRule'
  <2>1. \A u \in LinuxTunnels : RulesTable(u)' <=> RulesTable(u)
    <3>1. SUFFICES ASSUME NEW u \in LinuxTunnels PROVE RulesTable(u)' <=> RulesTable(u)
      OBVIOUS
    <3>2. CASE u = t
      BY <1>1, <1>2, <1>6, <3>2 DEF RulesTable, Ruled
    <3>3. CASE u # t
      BY <1>1, <1>2, <1>7, <1>9, <3>3 DEF RulesTable
    <3>4. QED BY <3>2, <3>3
  <2>2. \A u \in LinuxTunnels : RulesTable(u) => u # t
    BY <1>1, <1>2 DEF RulesTable
  <2>3. RuleLost' <=> RuleLost
    BY <1>2 DEF RuleLost
  <2>4. \A n, u : ~Ahead(n, u)
    BY <1>1 DEF Ahead
  <2>5. QED BY <1>2, <1>3, <1>9, <2>1, <2>2, <2>3, <2>4 DEF LinuxAlive, LinuxRule
<1>14. QED
  BY <1>1, <1>2, <1>5, <1>8, <1>10, <1>11, <1>12, <1>13 DEF LinuxInv, LinuxAlive

LEMMA LinuxDisconnects ==
    ASSUME LinuxInv, NEW t \in LinuxTunnels, Linux!Disconnect(t)
    PROVE  LinuxInv'
<1>1. /\ lalive /\ Clearing /\ Pending = {} /\ \A u \in LinuxTunnels : ~Coming(u)
      /\ \A r \in routes : r \in lost \/ r.of \in lup
  BY AtRest DEF Linux!Disconnect
<1>2. /\ t \in lup /\ lup' = lup \ {t} /\ ltodo' = Linux!DisconnectSteps(t)
      /\ mech' = mech /\ routes' = routes /\ rule' = rule /\ lost' = lost /\ mgr' = mgr
      /\ lalive' = lalive /\ ljournal' = ljournal /\ original' = original /\ resolv' = resolv
  BY DEF Linux!Disconnect, Linux!kernel, Linux!names, Linux!files
<1>3. LinuxTypes /\ LinuxAlive
  BY <1>1 DEF LinuxInv
<1>4. LinuxTypes'
  BY <1>2, <1>3 DEF LinuxTypes
<1>5. /\ Clearing' /\ \A u \in LinuxTunnels : ~Coming(u)'
      /\ Pending' = RemovesIn(t) \cup {<<"close", t>>, <<"cleanup", t>>, <<"forget", t>>}
  BY <1>2, Removals, Begins
<1>6. LinuxPlaces'
  BY <1>1, <1>2, <1>5 DEF LinuxPlaces
<1>7. \A n, u : Ahead(n, u)' => u = t /\ (n = "rrule" => t \in LinuxFull)
                                /\ n \notin {"reset", "recover", "clear"}
  BY <1>5 DEF Ahead, RemovesIn
<1>8. Placed(t) /\ mgr[t].set /\ Linux!Needed(t) \ lost \subseteq routes
      /\ (mgr[t].table = Linux!Off => ~mgr[t].binds)
  BY <1>2, <1>3 DEF Placed, LinuxAlive, LinuxManagers
<1>9. \A r \in routes' : Believed(r)' /\ (r \in lost' \/ Claimed(r)')
  <2>1. SUFFICES ASSUME NEW r \in routes PROVE Believed(r)' /\ (r \in lost \/ Claimed(r)')
    BY <1>2
  <2>2. /\ r.of \in LinuxTunnels /\ r.table \in {0} \cup Tables
        /\ r.kind \in {"default", "split", "throw", "bind"}
        /\ Believed(r) /\ (r \in lost \/ r.of \in lup)
    BY <1>1, <1>3 DEF LinuxTypes, LinuxRoutes, LinuxAlive
  <2>3. Believed(r)'
    BY <1>2, <2>2 DEF Believed
  <2>4. CASE r.of # t
    BY <1>2, <2>2, <2>3, <2>4 DEF Claimed
  <2>5. CASE r.of = t /\ r \notin lost
    <3>1. ~Unrouted(t)
      BY <1>8, <2>2, <2>5, LinuxAssumption DEF Believed, Unrouted, Linux!Off
    <3>2. Ahead("rroutes", t)' /\ Ahead("rbinds", t)'
      BY <1>5, <3>1 DEF RemovesIn, Ahead
    <3>3. QED BY <2>2, <2>3, <2>5, <3>2 DEF Claimed
  <2>6. QED BY <2>3, <2>4, <2>5
<1>10. LinuxManagers'
  <2>1. \A u \in LinuxTunnels : Placed(u)' => Placed(u)
    BY <1>2, <1>5 DEF Placed
  <2>2. \A u \in LinuxTunnels : Linux!Needed(u)' = Linux!Needed(u)
    BY <1>2 DEF Linux!Needed
  <2>3. QED BY <1>2, <1>3, <1>5, <2>1, <2>2 DEF LinuxAlive, LinuxManagers
<1>11. t \in LinuxFull => lup' \cap LinuxFull = {}
  BY <1>2, <1>3 DEF LinuxAlive, LinuxApart
<1>12. LinuxApart'
  <2>1. \A u, v \in LinuxFull :
           (u \in lup' \/ Coming(u)') /\ (v \in lup' \/ Coming(v)') => u = v
    BY <1>2, <1>3, <1>5, LinuxAssumption DEF LinuxAlive, LinuxApart
  <2>2. QED BY <1>2, <1>5, <1>7, <1>11, <2>1 DEF LinuxApart
<1>13. LinuxRule'
  <2>1. \A u \in LinuxTunnels : RulesTable(u)' <=> (RulesTable(u) /\ u # t)
    BY <1>1, <1>2, <1>5 DEF RulesTable
  <2>2. RuleLost' <=> RuleLost
    BY <1>2 DEF RuleLost
  <2>3. \A n, u : ~Ahead(n, u)
    BY <1>1 DEF Ahead
  <2>4. \/ RuleLost
        \/ rule = Linux!NoTable /\ \A u \in LinuxTunnels : ~RulesTable(u)
        \/ \E u \in LinuxTunnels : RulesTable(u) /\ rule = mgr[u].table
    BY <1>3, <2>3 DEF LinuxAlive, LinuxRule
  <2>5. CASE RulesTable(t)
    <3>1. <<"rrule", t>> \in RemovesIn(t)
      BY <2>5 DEF RulesTable, RemovesIn, Unrouted
    <3>2. Ahead("rrule", t)'
      BY <1>5, <3>1 DEF Ahead
    <3>3. QED BY <3>2 DEF LinuxRule
  <2>6. CASE ~RulesTable(t)
    BY <1>2, <2>1, <2>2, <2>4, <2>6 DEF LinuxRule
  <2>7. QED BY <2>5, <2>6
<1>14. QED
  BY <1>1, <1>2, <1>4, <1>6, <1>9, <1>10, <1>12, <1>13 DEF LinuxInv, LinuxAlive

-----------------------------------------------------------------------------
(* A connect, step by step. *)

(* A connect that fails is rolled back. *)
LEMMA LinuxFails ==
    ASSUME LinuxInv, lalive, NEW t \in LinuxTunnels, Coming(t), ltodo' = Linux!Rollback(t),
           mech' = mech, routes' = routes, rule' = rule, lup' = lup, lost' = lost, mgr' = mgr,
           lalive' = lalive, ljournal' = ljournal, original' = original, resolv' = resolv
    PROVE  LinuxInv'
<1>1. LinuxTypes /\ LinuxAlive
  BY DEF LinuxInv
<1>2. LinuxTypes'
  BY <1>1 DEF LinuxTypes
<1>3. Pending = {} /\ \A u \in LinuxTunnels : Coming(u) => u = t
  BY OneOrOther
<1>4. /\ Clearing' /\ \A u \in LinuxTunnels : ~Coming(u)'
      /\ Pending' = RemovesIn(t) \cup {<<"restore", t>>, <<"close", t>>}
  BY Removals, Begins
<1>5. LinuxPlaces'
  BY <1>4 DEF LinuxPlaces
<1>6. \A n, u : Ahead(n, u)' => u = t /\ (n = "rrule" => t \in LinuxFull)
                                /\ n \notin {"reset", "recover", "clear"}
  BY <1>4 DEF Ahead, RemovesIn
<1>7. t \notin lup /\ (t \in LinuxFull => lup \cap LinuxFull = {})
  BY <1>1, LinuxAssumption DEF LinuxAlive, LinuxApart
<1>8. mgr[t].table = Linux!Off => ~mgr[t].binds
  BY <1>1 DEF LinuxAlive, LinuxManagers
<1>9. \A r \in routes' : Believed(r)' /\ (r \in lost' \/ Claimed(r)')
  <2>1. SUFFICES ASSUME NEW r \in routes PROVE Believed(r)' /\ (r \in lost \/ Claimed(r)')
    OBVIOUS
  <2>2. /\ r.of \in LinuxTunnels /\ r.table \in {0} \cup Tables
        /\ r.kind \in {"default", "split", "throw", "bind"}
        /\ Believed(r) /\ (r \in lost \/ Claimed(r))
    BY <1>1 DEF LinuxTypes, LinuxRoutes, LinuxAlive
  <2>3. Believed(r)'
    BY <2>2 DEF Believed
  <2>4. CASE r.of # t
    <3>1. r \in lost \/ r.of \in lup
      BY <1>3, <2>2, <2>4 DEF Claimed, Ahead
    <3>2. QED BY <2>3, <3>1 DEF Claimed
  <2>5. CASE r.of = t /\ r \notin lost
    <3>1. ~Unrouted(t)
      BY <1>8, <2>2, <2>5, LinuxAssumption DEF Believed, Unrouted, Linux!Off
    <3>2. Ahead("rroutes", t)' /\ Ahead("rbinds", t)'
      BY <1>4, <3>1 DEF RemovesIn, Ahead
    <3>3. QED BY <2>2, <2>3, <2>5, <3>2 DEF Claimed
  <2>6. QED BY <2>3, <2>4, <2>5
<1>10. LinuxManagers'
  <2>1. \A u \in LinuxTunnels : Placed(u)' => Placed(u)
    BY <1>4 DEF Placed
  <2>2. \A u \in LinuxTunnels : Linux!Needed(u)' = Linux!Needed(u)
    BY DEF Linux!Needed
  <2>3. QED BY <1>1, <1>4, <2>1, <2>2 DEF LinuxAlive, LinuxManagers
<1>11. LinuxApart'
  <2>1. \A u, v \in LinuxFull :
           (u \in lup' \/ Coming(u)') /\ (v \in lup' \/ Coming(v)') => u = v
    BY <1>1, <1>4, LinuxAssumption DEF LinuxAlive, LinuxApart
  <2>2. QED BY <1>4, <1>6, <1>7, <2>1 DEF LinuxApart
<1>12. LinuxRule'
  <2>1. \A u \in LinuxTunnels : RulesTable(u)' <=> (RulesTable(u) /\ u # t)
    BY <1>3, <1>4, <1>7 DEF RulesTable
  <2>2. RuleLost' <=> RuleLost
    BY DEF RuleLost
  <2>3. \A n, u : ~Ahead(n, u)
    BY <1>3 DEF Ahead
  <2>4. \/ RuleLost
        \/ rule = Linux!NoTable /\ \A u \in LinuxTunnels : ~RulesTable(u)
        \/ \E u \in LinuxTunnels : RulesTable(u) /\ rule = mgr[u].table
    BY <1>1, <2>3 DEF LinuxAlive, LinuxRule
  <2>5. CASE RulesTable(t)
    <3>1. <<"rrule", t>> \in RemovesIn(t)
      BY <2>5 DEF RulesTable, RemovesIn, Unrouted
    <3>2. Ahead("rrule", t)'
      BY <1>4, <3>1 DEF Ahead
    <3>3. QED BY <3>2 DEF LinuxRule
  <2>6. CASE ~RulesTable(t)
    BY <2>1, <2>2, <2>4, <2>6 DEF LinuxRule
  <2>7. QED BY <2>5, <2>6
<1>13. QED BY <1>2, <1>5, <1>9, <1>10, <1>11, <1>12 DEF LinuxInv, LinuxAlive

LEMMA LinuxLinks ==
    ASSUME LinuxInv, Linux!Link, mech' = mech
    PROVE  LinuxInv'
<1>0. lalive /\ Linux!Arg \in LinuxTunnels /\ Coming(Linux!Arg) /\ FirstStep = "link"
  BY ConnectStep DEF LinuxInv, Linux!Link, ClearNames
<1> PICK t \in LinuxTunnels : t = Linux!Arg
  BY <1>0
<1>1. lalive /\ t \in LinuxTunnels /\ Coming(t) /\ FirstStep = "link"
  BY <1>0
<1>2. /\ routes' = routes /\ rule' = rule /\ lup' = lup /\ lost' = lost /\ mgr' = mgr
      /\ lalive' = lalive /\ ljournal' = ljournal /\ original' = original /\ resolv' = resolv
  BY DEF Linux!Link, Linux!names, Linux!files, Linux!memory
<1>3. ltodo' = Tail(ltodo) \/ ltodo' = Linux!Rollback(t)
  BY DEF Linux!Link, Linux!Finish, Linux!Fails
<1>4. CASE ltodo' = Tail(ltodo)
  <2>1. LinuxTypes'
    BY <1>2 DEF LinuxInv, LinuxTypes
  <2>2. Steady
    BY <1>2 DEF Steady
  <2>3. LinuxPlaces' /\ LinuxAlive'
    BY <1>1, <1>4, <2>2, QuietConnects
  <2>4. QED BY <1>1, <1>2, <2>1, <2>3 DEF LinuxInv
<1>5. CASE ltodo' = Linux!Rollback(t)
  BY <1>1, <1>2, <1>5, LinuxFails
<1>6. QED BY <1>3, <1>4, <1>5

(* A table is found for every tunnel that has not Table = off. *)
LEMMA LeastTable ==
    ASSUME NEW T \in SUBSET Nat, T # {}
    PROVE  \E x \in T : \A y \in T : x <= y
<1> DEFINE R == OpToRel(<, Nat)
<1>1. IsWellFoundedOn(R, Nat)
  BY NatLessThanWellFounded
<1>2. \A x, y \in Nat : y < x => <<y, x>> \in R
  BY DEF OpToRel
<1> HIDE DEF R
<1>3. PICK x \in T : \A y \in T : <<y, x>> \notin R
  BY <1>1, WFMin
<1>4. ASSUME NEW y \in T PROVE x <= y
  <2>1. x \in Nat /\ y \in Nat
    OBVIOUS
  <2>2. ~(y < x)
    BY <1>2, <1>3, <2>1
  <2>3. QED BY <2>1, <2>2
<1>5. QED BY <1>3, <1>4

LEMMA TablesFound ==
    ASSUME NEW t \in LinuxTunnels
    PROVE  /\ Linux!Base \in Tables
           /\ Linux!Resolve(t) \in {Linux!Off, 0} \cup Tables
           /\ Linux!Resolve(t) = Linux!Off <=> TableCfg[t] = Linux!Off
           /\ TableCfg[t] # Linux!Off /\ t \in LinuxFull => Linux!Resolve(t) \in Tables
<1>1. Linux!Base \in Tables
  <2>1. PICK n \in Tables : \A k \in Tables : n <= k
    BY LeastTable, LinuxAssumption
  <2>2. QED BY <2>1 DEF Linux!Base
<1>2. Linux!FindFreeTable \in Tables
  <2> DEFINE free == Tables \ Linux!Taken
  <2>1. CASE free = {}
    BY <1>1, <2>1 DEF Linux!FindFreeTable
  <2>2. CASE free # {}
    <3>1. free \in SUBSET Nat
      BY LinuxAssumption
    <3> HIDE DEF free
    <3>2. PICK m \in free : \A k \in free : m <= k
      BY <2>2, <3>1, LeastTable
    <3>3. (CHOOSE n \in free : \A k \in free : n <= k) \in free
      BY <3>2
    <3>4. QED BY <2>2, <3>3 DEF Linux!FindFreeTable, free
  <2>3. QED BY <2>1, <2>2
<1>3. TableCfg[t] \in Tables \cup {AutoTable, Linux!Off}
  BY LinuxAssumption
<1>4. QED
  BY <1>1, <1>2, <1>3, LinuxAssumption DEF Linux!Resolve, Linux!Off

(* A connect's step that changes one tunnel's routing: what stays as it was. *)
LEMMA OtherTunnels ==
    ASSUME LinuxInv, lalive, NEW t \in LinuxTunnels, Coming(t), ltodo' = Tail(ltodo),
           FirstStep # "up", lup' = lup, lost' = lost, lalive' = lalive, rule' = rule,
           routes \subseteq routes', \A r \in routes' \ routes : r.of = t,
           \A u \in LinuxTunnels \ {t} : mgr'[u] = mgr[u],
           \A r \in routes' : r.of = t => Believed(r)',
           /\ mgr'[t].table = Linux!Off => TableCfg[t] = Linux!Off /\ ~mgr'[t].binds
           /\ Placed(t)' => mgr'[t].set /\ Linux!Needed(t)' \ lost' \subseteq routes'
           /\ FirstStep' \in Unplaced =>
                 /\ ~mgr'[t].throws /\ ~mgr'[t].binds
                 /\ mgr'[t].set <=> FirstStep' \notin {"link", "table"},
           RulesTable(t)' <=> RulesTable(t), RulesTable(t) => mgr'[t].table = mgr[t].table
    PROVE  LinuxPlaces' /\ LinuxAlive'
<1>1. LinuxTypes /\ LinuxAlive
  BY DEF LinuxInv
<1>2. Pending = {} /\ \A u \in LinuxTunnels : Coming(u) => u = t
  BY OneOrOther
<1>3. Coming(t)'
  BY ConnectMoves
<1>4. Pending' = {} /\ \A u \in LinuxTunnels : Coming(u)' => u = t
  BY <1>3, ThenOneOrOther
<1>5. \A r \in routes' : Believed(r)' /\ (r \in lost' \/ Claimed(r)')
  <2>1. SUFFICES ASSUME NEW r \in routes', r.of # t
                 PROVE  Believed(r)' /\ (r \in lost' \/ Claimed(r)')
    BY <1>3 DEF Claimed
  <2>2. r \in routes
    BY <2>1
  <2>3. r.of \in LinuxTunnels /\ Believed(r) /\ (r \in lost \/ Claimed(r))
    BY <1>1, <2>2 DEF LinuxTypes, LinuxRoutes, LinuxAlive
  <2>4. Believed(r)'
    BY <2>1, <2>3 DEF Believed
  <2>5. r \in lost \/ r.of \in lup
    BY <1>2, <2>1, <2>3 DEF Claimed, Ahead
  <2>6. QED BY <2>4, <2>5 DEF Claimed
<1>6. LinuxManagers'
  <2>1. SUFFICES ASSUME NEW u \in LinuxTunnels, u # t
        PROVE  /\ mgr'[u].table = Linux!Off => TableCfg[u] = Linux!Off /\ ~mgr'[u].binds
               /\ Placed(u)' => mgr'[u].set /\ Linux!Needed(u)' \ lost' \subseteq routes'
               /\ Coming(u)' /\ FirstStep' \in Unplaced =>
                     /\ ~mgr'[u].throws /\ ~mgr'[u].binds
                     /\ mgr'[u].set <=> FirstStep' \notin {"link", "table"}
    BY DEF LinuxManagers
  <2>2. ~Coming(u)' /\ mgr'[u] = mgr[u]
    BY <1>4, <2>1
  <2>3. Linux!Needed(u)' = Linux!Needed(u)
    BY <2>2 DEF Linux!Needed
  <2>4. Placed(u)' => Placed(u)
    BY <2>2 DEF Placed
  <2>5. QED BY <1>1, <2>2, <2>3, <2>4 DEF LinuxAlive, LinuxManagers
<1>7. LinuxApart'
  <2>1. \A u, v \in LinuxFull :
           (u \in lup' \/ Coming(u)') /\ (v \in lup' \/ Coming(v)') => u = v
    BY <1>1, <1>4, LinuxAssumption DEF LinuxAlive, LinuxApart
  <2>2. t \notin lup
    BY <1>1 DEF LinuxAlive, LinuxApart
  <2>3. QED BY <1>4, <2>1, <2>2 DEF LinuxApart, Ahead
<1>8. LinuxRule'
  <2>1. \A u \in LinuxTunnels : RulesTable(u)' <=> RulesTable(u)
    <3>1. SUFFICES ASSUME NEW u \in LinuxTunnels, u # t PROVE RulesTable(u)' <=> RulesTable(u)
      OBVIOUS
    <3>2. QED BY <1>2, <1>4, <3>1 DEF RulesTable
  <2>2. \A u \in LinuxTunnels : RulesTable(u) => mgr'[u].table = mgr[u].table
    OBVIOUS
  <2>3. RuleLost' <=> RuleLost
    BY DEF RuleLost
  <2>4. \A n, u : ~Ahead(n, u)
    BY <1>2 DEF Ahead
  <2>5. QED BY <1>1, <2>1, <2>2, <2>3, <2>4 DEF LinuxAlive, LinuxRule
<1>9. LinuxPlaces'
  BY <1>3 DEF LinuxPlaces
<1>10. QED BY <1>5, <1>6, <1>7, <1>8, <1>9 DEF LinuxAlive

LEMMA LinuxTables ==
    ASSUME LinuxInv, Linux!Table, mech' = mech
    PROVE  LinuxInv'
<1>0. lalive /\ Linux!Arg \in LinuxTunnels /\ Coming(Linux!Arg) /\ FirstStep = "table"
  BY ConnectStep DEF LinuxInv, Linux!Table, ClearNames
<1> PICK t \in LinuxTunnels : t = Linux!Arg
  BY <1>0
<1> PICK n : n = Linux!Resolve(t)
  OBVIOUS
<1>1. lalive /\ t \in LinuxTunnels /\ Coming(t) /\ FirstStep = "table"
  BY <1>0
<1>2. /\ routes' = routes /\ rule' = rule /\ lup' = lup /\ lost' = lost
      /\ mgr' = [mgr EXCEPT ![t].set = TRUE, ![t].table = n]
      /\ ltodo' = Tail(ltodo)
      /\ lalive' = lalive /\ ljournal' = ljournal /\ original' = original /\ resolv' = resolv
  BY DEF Linux!Table, Linux!names, Linux!files, Linux!kernel, Linux!Finish
<1>3. LinuxTypes /\ LinuxAlive
  BY <1>1 DEF LinuxInv
<1>4. n \in {Linux!Off, 0} \cup Tables /\ (n = Linux!Off <=> TableCfg[t] = Linux!Off)
  BY <1>1, TablesFound
<1>5. mgr[t] \in Managers
  BY <1>1, <1>3 DEF LinuxTypes
<1>6. /\ mgr'[t].set = TRUE /\ mgr'[t].table = n /\ mgr'[t].throws = mgr[t].throws
      /\ mgr'[t].binds = mgr[t].binds /\ mgr'[t] \in Managers
      /\ \A u \in LinuxTunnels \ {t} : mgr'[u] = mgr[u]
  BY <1>1, <1>2, <1>3, <1>4, <1>5 DEF LinuxTypes, Managers
<1>7. LinuxTypes'
  <2>1. mgr' \in [LinuxTunnels -> Managers]
    BY <1>1, <1>2, <1>3, <1>6 DEF LinuxTypes
  <2>2. QED BY <1>2, <1>3, <2>1 DEF LinuxTypes
<1>8. ~mgr[t].throws /\ ~mgr[t].binds /\ ~mgr[t].set
  BY <1>1, <1>3 DEF LinuxAlive, LinuxManagers, Unplaced
<1>9. /\ FirstStep' = IF TableCfg[t] = Linux!Off THEN "checkpoint"
                  ELSE IF t \in LinuxFull THEN "default" ELSE "split"
  BY <1>1, <1>2, ConnectMoves
<1>10. \A r \in routes : r.of = t => r \in lost /\ Believed(r)'
  <2>1. SUFFICES ASSUME NEW r \in routes, r.of = t PROVE r \in lost /\ Believed(r)'
    OBVIOUS
  <2>2. Believed(r) /\ r.kind \in {"default", "split", "throw", "bind"}
    BY <1>3 DEF LinuxAlive, LinuxTypes, LinuxRoutes
  <2>3. r.kind \in {"throw", "bind"}
    BY <1>8, <2>1, <2>2 DEF Believed
  <2>4. r \in lost
    BY <1>8, <2>1, <2>2, <2>3 DEF Believed
  <2>5. QED BY <1>2, <2>2, <2>3, <2>4 DEF Believed
<1>11. t \notin lup
  BY <1>1, <1>3 DEF LinuxAlive, LinuxApart
<1>12. Placed(t)' => Linux!Needed(t)' \ lost' \subseteq routes'
  BY <1>2, <1>4, <1>6, <1>9, <1>11 DEF Placed, Unplaced, Linux!Needed
<1>13. ~RulesTable(t) /\ ~RulesTable(t)'
  BY <1>1, <1>2, <1>4, <1>6, <1>9, <1>11 DEF RulesTable, Ruled
<1>14. LinuxPlaces' /\ LinuxAlive'
  BY <1>1, <1>2, <1>4, <1>6, <1>8, <1>9, <1>10, <1>12, <1>13, OtherTunnels
<1>15. QED BY <1>1, <1>2, <1>7, <1>14 DEF LinuxInv

LEMMA LinuxAdds ==
    ASSUME LinuxInv, NEW kind \in {"default", "split"}, Linux!Step(kind), Linux!Add(kind),
           mech' = mech
    PROVE  LinuxInv'
<1>0. lalive /\ Linux!Arg \in LinuxTunnels /\ Coming(Linux!Arg) /\ FirstStep = kind
  BY ConnectStep DEF LinuxInv, ClearNames
<1> PICK t \in LinuxTunnels : t = Linux!Arg
  BY <1>0
<1> PICK r1 : r1 = Linux!Route(kind, t, mgr[t].table)
  OBVIOUS
<1>1. lalive /\ t \in LinuxTunnels /\ Coming(t) /\ FirstStep = kind
  BY <1>0
<1>2. /\ rule' = rule /\ lup' = lup /\ lost' = lost /\ mgr' = mgr
      /\ lalive' = lalive /\ ljournal' = ljournal /\ original' = original /\ resolv' = resolv
  BY DEF Linux!Add, Linux!names, Linux!files, Linux!memory
<1>3. \/ ltodo' = Tail(ltodo) /\ routes' = routes \cup {r1}
      \/ ltodo' = Linux!Rollback(t) /\ routes' = routes
  BY DEF Linux!Add, Linux!Finish, Linux!Fails
<1>4. LinuxTypes /\ LinuxAlive
  BY <1>1 DEF LinuxInv
<1>5. CASE ltodo' = Tail(ltodo) /\ routes' = routes \cup {r1}
  <2>1. /\ mgr[t].set /\ ~mgr[t].throws /\ ~mgr[t].binds
        /\ mgr[t].table = Linux!Off => TableCfg[t] = Linux!Off
    BY <1>1, <1>4 DEF LinuxAlive, LinuxManagers, Unplaced
  <2>2. /\ TableCfg[t] # Linux!Off
        /\ kind = "default" => t \in LinuxFull
        /\ kind = "split" => t \notin LinuxFull
    BY <1>1, StagesAre
  <2>3. mgr[t] \in Managers /\ mgr[t].table # Linux!Off
    BY <1>1, <1>4, <2>1, <2>2 DEF LinuxTypes
  <2>4. /\ r1 \in LinuxRoutes /\ r1.of = t /\ r1.kind = kind /\ r1.table = mgr[t].table
    BY <1>1, <2>3 DEF Linux!Route, LinuxRoutes, Managers
  <2>5. LinuxTypes'
    BY <1>2, <1>4, <1>5, <2>4 DEF LinuxTypes
  <2>6. FirstStep' \in {"rule", "endpoint"}
    BY <1>1, <1>5, ConnectMoves
  <2>7. \A r \in routes' : r.of = t => Believed(r)'
    <3>1. SUFFICES ASSUME NEW r \in routes', r.of = t PROVE Believed(r)'
      OBVIOUS
    <3>2. CASE r \in routes
      <4>1. Believed(r)
        BY <1>4, <3>2 DEF LinuxAlive
      <4>2. QED BY <1>2, <4>1 DEF Believed
    <3>3. CASE r = r1
      BY <1>2, <2>1, <2>2, <2>4, <3>3 DEF Believed
    <3>4. QED BY <1>5, <3>1, <3>2, <3>3
  <2>8. Linux!Needed(t)' = {r1}
    <3>1. kind = IF t \in LinuxFull THEN "default" ELSE "split"
      BY <2>2
    <3>2. QED BY <1>2, <2>1, <2>3, <3>1 DEF Linux!Needed
  <2>9. t \notin lup
    BY <1>1, <1>4 DEF LinuxAlive, LinuxApart
  <2>10. RulesTable(t)' <=> RulesTable(t)
    <3>1. ~RulesTable(t)
      BY <1>1, <2>9 DEF RulesTable, Ruled
    <3>2. t \in LinuxFull => FirstStep' = "rule"
      BY <1>1, <1>5, <2>2, ConnectMoves
    <3>3. ~RulesTable(t)'
      BY <1>2, <2>9, <3>2 DEF RulesTable, Ruled
    <3>4. QED BY <3>1, <3>3
  <2>11. FirstStep' \notin Unplaced
    BY <2>6 DEF Unplaced
  <2>12. LinuxPlaces' /\ LinuxAlive'
    <3>1. \A r \in routes' \ routes : r.of = t
      BY <1>5, <2>4
    <3>2. Linux!Needed(t)' \ lost' \subseteq routes'
      BY <1>5, <2>8
    <3>3. FirstStep # "up"
      BY <1>1
    <3>4. /\ mgr'[t].set
          /\ (mgr'[t].table = Linux!Off => TableCfg[t] = Linux!Off /\ ~mgr'[t].binds)
          /\ mgr'[t].table = mgr[t].table
      BY <1>2, <2>1
    <3>5. QED
      BY <1>1, <1>2, <1>5, <2>7, <2>10, <2>11, <3>1, <3>2, <3>3, <3>4, OtherTunnels
  <2>13. QED BY <1>1, <1>2, <2>5, <2>12 DEF LinuxInv
<1>6. CASE ltodo' = Linux!Rollback(t) /\ routes' = routes
  BY <1>1, <1>2, <1>6, LinuxFails
<1>7. QED BY <1>3, <1>5, <1>6

LEMMA LinuxRules ==
    ASSUME LinuxInv, Linux!Rule, mech' = mech
    PROVE  LinuxInv'
<1>0. lalive /\ Linux!Arg \in LinuxTunnels /\ Coming(Linux!Arg) /\ FirstStep = "rule"
  BY ConnectStep DEF LinuxInv, Linux!Rule, ClearNames
<1> PICK t \in LinuxTunnels : t = Linux!Arg
  BY <1>0
<1>1. lalive /\ Coming(t) /\ FirstStep = "rule"
  BY <1>0
<1>2. /\ routes' = routes /\ lup' = lup /\ lost' = lost /\ mgr' = mgr
      /\ lalive' = lalive /\ ljournal' = ljournal /\ original' = original /\ resolv' = resolv
  BY DEF Linux!Rule, Linux!names, Linux!files, Linux!memory
<1>3. \/ ltodo' = Tail(ltodo) /\ rule' = (IF rule = Linux!NoTable THEN mgr[t].table ELSE rule)
      \/ ltodo' = Linux!Rollback(t) /\ rule' = rule
  BY DEF Linux!Rule, Linux!Finish, Linux!Fails
<1>4. LinuxTypes /\ LinuxAlive
  BY <1>1 DEF LinuxInv
<1>5. CASE ltodo' = Tail(ltodo) /\ rule' = (IF rule = Linux!NoTable THEN mgr[t].table ELSE rule)
  <2>1. t \in LinuxFull /\ TableCfg[t] # Linux!Off
    BY <1>1, StagesAre
  <2>2. mgr[t].table # Linux!Off /\ mgr[t] \in Managers
    BY <1>4, <2>1 DEF LinuxAlive, LinuxManagers, LinuxTypes
  <2>3. LinuxTypes'
    BY <1>2, <1>4, <1>5, <2>2 DEF LinuxTypes, Managers
  <2>4. Coming(t)' /\ FirstStep' = "endpoint"
    BY <1>1, <1>5, ConnectMoves
  <2>5. Pending = {} /\ \A u \in LinuxTunnels : Coming(u) => u = t
    BY <1>1, OneOrOther
  <2>6. Pending' = {} /\ \A u \in LinuxTunnels : Coming(u)' => u = t
    BY <2>4, ThenOneOrOther
  <2>7. \A u \in LinuxTunnels : Coming(u)' <=> Coming(u)
    BY <1>1, <2>4, <2>5, <2>6
  <2>8. \A r \in routes' : Believed(r)' /\ (r \in lost' \/ Claimed(r)')
    <3>1. SUFFICES ASSUME NEW r \in routes PROVE Believed(r)' /\ (r \in lost \/ Claimed(r)')
      BY <1>2
    <3>2. r.of \in LinuxTunnels /\ Believed(r) /\ (r \in lost \/ Claimed(r))
      BY <1>4 DEF LinuxAlive, LinuxTypes, LinuxRoutes
    <3>3. Believed(r)'
      BY <1>2, <3>2 DEF Believed
    <3>4. Claimed(r) => Claimed(r)'
      BY <1>2, <2>5, <2>7, <3>2 DEF Claimed, Ahead
    <3>5. QED BY <3>2, <3>3, <3>4
  <2>9. LinuxManagers'
    <3>1. \A u \in LinuxTunnels : Placed(u)' <=> Placed(u)
      BY <1>1, <1>2, <2>4, <2>7 DEF Placed, Unplaced
    <3>2. \A u \in LinuxTunnels : Linux!Needed(u)' = Linux!Needed(u)
      BY <1>2 DEF Linux!Needed
    <3>3. FirstStep' \notin Unplaced
      BY <2>4 DEF Unplaced
    <3>4. QED BY <1>2, <1>4, <3>1, <3>2, <3>3 DEF LinuxAlive, LinuxManagers
  <2>10. t \notin lup /\ lup \cap LinuxFull = {}
    BY <1>1, <1>4, <2>1, LinuxAssumption DEF LinuxAlive, LinuxApart
  <2>11. LinuxApart'
    <3>1. \A u, v \in LinuxFull :
             (u \in lup' \/ Coming(u)') /\ (v \in lup' \/ Coming(v)') => u = v
      BY <1>2, <1>4, <2>7, LinuxAssumption DEF LinuxAlive, LinuxApart
    <3>2. QED BY <1>2, <2>6, <2>10, <3>1 DEF LinuxApart, Ahead
  <2>12. LinuxRule'
    <3>1. \A u \in LinuxTunnels : ~RulesTable(u)
      BY <1>1, <2>5, <2>10 DEF RulesTable, Ruled
    <3>2. \A n, u : ~Ahead(n, u)
      BY <2>5 DEF Ahead
    <3>3. RuleLost \/ rule = Linux!NoTable
      BY <1>4, <3>1, <3>2 DEF LinuxAlive, LinuxRule
    <3>4. RuleLost' <=> RuleLost
      BY <1>2 DEF RuleLost
    <3>5. RulesTable(t)'
      BY <1>2, <2>1, <2>2, <2>4 DEF RulesTable, Ruled
    <3>6. QED BY <1>2, <1>5, <3>3, <3>4, <3>5 DEF LinuxRule
  <2>13. LinuxPlaces'
    BY <1>1, <1>2, <2>4 DEF LinuxPlaces
  <2>14. QED BY <1>1, <1>2, <2>3, <2>8, <2>9, <2>11, <2>12, <2>13 DEF LinuxInv, LinuxAlive
<1>6. CASE ltodo' = Linux!Rollback(t) /\ rule' = rule
  BY <1>1, <1>2, <1>6, LinuxFails
<1>7. QED BY <1>3, <1>5, <1>6

LEMMA LinuxEndpoints ==
    ASSUME LinuxInv, Linux!Endpoint, mech' = mech
    PROVE  LinuxInv'
<1>0. lalive /\ Linux!Arg \in LinuxTunnels /\ Coming(Linux!Arg) /\ FirstStep = "endpoint"
  BY ConnectStep DEF LinuxInv, Linux!Endpoint, ClearNames
<1> PICK t \in LinuxTunnels : t = Linux!Arg
  BY <1>0
<1>1. lalive /\ Coming(t) /\ FirstStep = "endpoint"
  BY <1>0
<1>2. /\ rule' = rule /\ lup' = lup /\ lost' = lost
      /\ lalive' = lalive /\ ljournal' = ljournal /\ original' = original /\ resolv' = resolv
  BY DEF Linux!Endpoint, Linux!names, Linux!files
<1>3. \/ ltodo' = Tail(ltodo) /\ routes' = routes /\ mgr' = mgr
      \/ /\ t \in LinuxBound /\ ltodo' = Tail(ltodo)
         /\ routes' = routes \cup {Linux!Route("bind", t, 0)}
         /\ mgr' = [mgr EXCEPT ![t].binds = TRUE]
      \/ /\ t \in LinuxFull \ LinuxBound /\ ltodo' = Tail(ltodo)
         /\ routes' = routes \cup {Linux!Route("throw", t, mgr[t].table)}
         /\ mgr' = [mgr EXCEPT ![t].throws = TRUE]
      \/ ltodo' = Linux!Rollback(t) /\ routes' = routes /\ mgr' = mgr
  BY DEF Linux!Endpoint, Linux!Finish, Linux!Fails
<1>4. LinuxTypes /\ LinuxAlive
  BY <1>1 DEF LinuxInv
<1>5. CASE ltodo' = Tail(ltodo) /\ routes' = routes /\ mgr' = mgr
  <2>1. LinuxTypes'
    BY <1>2, <1>4, <1>5 DEF LinuxTypes
  <2>2. Steady
    BY <1>2, <1>5 DEF Steady
  <2>3. LinuxPlaces' /\ LinuxAlive'
    BY <1>1, <1>5, <2>2, QuietConnects
  <2>4. QED BY <1>1, <1>2, <2>1, <2>3 DEF LinuxInv
<1>6. ASSUME NEW throws \in BOOLEAN, NEW binds \in BOOLEAN, NEW r1 \in LinuxRoutes,
             ltodo' = Tail(ltodo), routes' = routes \cup {r1}, r1.of = t,
             mgr' \in [LinuxTunnels -> Managers],
             \A u \in LinuxTunnels \ {t} : mgr'[u] = mgr[u],
             mgr'[t].set = mgr[t].set, mgr'[t].table = mgr[t].table,
             mgr[t].throws => mgr'[t].throws, mgr[t].binds => mgr'[t].binds,
             r1.kind \in {"throw", "bind"},
             r1.kind = "throw" =>
                mgr'[t].throws /\ t \in LinuxFull /\ r1.table = mgr[t].table,
             r1.kind = "bind" => mgr'[t].binds /\ r1.table = 0,
             Linux!Needed(t)' \subseteq Linux!Needed(t) \cup {r1}
      PROVE  LinuxInv'
  <2>1. LinuxTypes'
    BY <1>2, <1>4, <1>6 DEF LinuxTypes
  <2>2. TableCfg[t] # Linux!Off
    BY <1>1, StagesAre
  <2>3. /\ mgr[t].table # Linux!Off /\ mgr[t].set
        /\ Linux!Needed(t) \ lost \subseteq routes
    BY <1>1, <1>4, <2>2 DEF LinuxAlive, LinuxManagers, Placed, Unplaced
  <2>4. Coming(t)' /\ FirstStep' = "checkpoint"
    BY <1>1, <1>6, ConnectMoves
  <2>5. \A r \in routes' : r.of = t => Believed(r)'
    <3>1. SUFFICES ASSUME NEW r \in routes', r.of = t PROVE Believed(r)'
      OBVIOUS
    <3>2. CASE r \in routes
      <4>1. Believed(r)
        BY <1>4, <3>2 DEF LinuxAlive
      <4>2. QED BY <1>2, <1>6, <3>1, <4>1 DEF Believed
    <3>3. CASE r = r1
      BY <1>2, <1>6, <2>3, <3>3 DEF Believed
    <3>4. QED BY <1>6, <3>2, <3>3
  <2>6. Linux!Needed(t)' \ lost' \subseteq routes'
    BY <1>2, <1>6, <2>3
  <2>7. FirstStep' \notin Unplaced
    BY <2>4 DEF Unplaced
  <2>8. RulesTable(t)' <=> RulesTable(t)
    BY <1>1, <1>2, <1>6, <2>4 DEF RulesTable, Ruled
  <2>9. LinuxPlaces' /\ LinuxAlive'
    <3>1. \A r \in routes' \ routes : r.of = t
      BY <1>6
    <3>2. routes \subseteq routes' /\ FirstStep # "up"
      BY <1>1, <1>6
    <3>3. /\ mgr'[t].set
          /\ (mgr'[t].table = Linux!Off => TableCfg[t] = Linux!Off /\ ~mgr'[t].binds)
      BY <1>6, <2>3
    <3>4. QED
      BY <1>1, <1>2, <1>6, <2>5, <2>6, <2>7, <2>8, <3>1, <3>2, <3>3, OtherTunnels
  <2>10. QED BY <1>1, <1>2, <2>1, <2>9 DEF LinuxInv
<1>7. mgr[t] \in Managers /\ mgr \in [LinuxTunnels -> Managers]
  BY <1>4 DEF LinuxTypes
<1>8. mgr[t].table \in {0} \cup Tables
  <2>1. TableCfg[t] # Linux!Off
    BY <1>1, StagesAre
  <2>2. mgr[t].table # Linux!Off
    BY <1>4, <2>1 DEF LinuxAlive, LinuxManagers
  <2>3. QED BY <1>7, <2>2 DEF Managers
<1>9. CASE /\ t \in LinuxBound /\ ltodo' = Tail(ltodo)
           /\ routes' = routes \cup {Linux!Route("bind", t, 0)}
           /\ mgr' = [mgr EXCEPT ![t].binds = TRUE]
  <2> PICK r1 : r1 = Linux!Route("bind", t, 0)
    OBVIOUS
  <2>1. r1 \in LinuxRoutes /\ r1.of = t /\ r1.kind = "bind" /\ r1.table = 0
    BY DEF Linux!Route, LinuxRoutes
  <2>2. /\ mgr' \in [LinuxTunnels -> Managers] /\ \A u \in LinuxTunnels \ {t} : mgr'[u] = mgr[u]
        /\ mgr'[t].set = mgr[t].set /\ mgr'[t].table = mgr[t].table
        /\ mgr'[t].throws = mgr[t].throws /\ mgr'[t].binds
    BY <1>7, <1>9 DEF Managers
  <2>3. Linux!Needed(t)' \subseteq Linux!Needed(t) \cup {r1}
    BY <2>2 DEF Linux!Needed
  <2>4. QED BY <1>6, <1>9, <2>1, <2>2, <2>3
<1>10. CASE /\ t \in LinuxFull \ LinuxBound /\ ltodo' = Tail(ltodo)
            /\ routes' = routes \cup {Linux!Route("throw", t, mgr[t].table)}
            /\ mgr' = [mgr EXCEPT ![t].throws = TRUE]
  <2> PICK r1 : r1 = Linux!Route("throw", t, mgr[t].table)
    OBVIOUS
  <2>1. r1 \in LinuxRoutes /\ r1.of = t /\ r1.kind = "throw" /\ r1.table = mgr[t].table
    BY <1>8 DEF Linux!Route, LinuxRoutes
  <2>2. /\ mgr' \in [LinuxTunnels -> Managers] /\ \A u \in LinuxTunnels \ {t} : mgr'[u] = mgr[u]
        /\ mgr'[t].set = mgr[t].set /\ mgr'[t].table = mgr[t].table
        /\ mgr'[t].throws /\ mgr'[t].binds = mgr[t].binds
    BY <1>7, <1>10 DEF Managers
  <2>3. Linux!Needed(t)' \subseteq Linux!Needed(t) \cup {r1}
    BY <2>2 DEF Linux!Needed
  <2>4. QED BY <1>6, <1>10, <2>1, <2>2, <2>3
<1>11. CASE ltodo' = Linux!Rollback(t) /\ routes' = routes /\ mgr' = mgr
  BY <1>1, <1>2, <1>11, LinuxFails
<1>12. QED BY <1>3, <1>5, <1>9, <1>10, <1>11

(* A checkpoint keeps one file for each tunnel. *)
LEMMA RecordKeeps ==
    ASSUME LinuxTypes, NEW t \in LinuxTunnels, Linux!Record(t)
    PROVE  /\ ljournal' \subseteq LinuxTunnels \X BOOLEAN
           /\ \A j, k \in ljournal' : j[1] = k[1] => j = k
           /\ IsFiniteSet(ljournal')
<1> DEFINE kept1 == {j \in ljournal : j[1] # t}
           j1 == <<t, mgr[t].throws>>
<1>1. ljournal' = kept1 \cup {j1}
  BY DEF Linux!Record
<1>2. j1 \in LinuxTunnels \X BOOLEAN
  BY DEF LinuxTypes, Managers
<1>3. kept1 \subseteq ljournal
  OBVIOUS
<1>4. IsFiniteSet(kept1)
  BY <1>3, FS_Subset DEF LinuxTypes
<1>5. IsFiniteSet(kept1 \cup {j1})
  BY <1>4, FS_AddElement
<1>6. \A j, k \in ljournal' : j[1] = k[1] => j = k
  BY <1>1 DEF LinuxTypes
<1>7. QED BY <1>1, <1>2, <1>3, <1>5, <1>6 DEF LinuxTypes

LEMMA LinuxCheckpoints ==
    ASSUME LinuxInv, Linux!Checkpoint, mech' = mech
    PROVE  LinuxInv'
<1>0. lalive /\ Linux!Arg \in LinuxTunnels /\ Coming(Linux!Arg) /\ FirstStep = "checkpoint"
  BY ConnectStep DEF LinuxInv, Linux!Checkpoint, ClearNames
<1> PICK t \in LinuxTunnels : t = Linux!Arg
  BY <1>0
<1>1. lalive /\ Coming(t) /\ FirstStep = "checkpoint"
  BY <1>0
<1>2. /\ routes' = routes /\ rule' = rule /\ lup' = lup /\ lost' = lost /\ mgr' = mgr
      /\ lalive' = lalive /\ original' = original /\ resolv' = resolv
      /\ ltodo' = Tail(ltodo) /\ Linux!Record(t)
  BY DEF Linux!Checkpoint, Linux!kernel, Linux!names, Linux!memory, Linux!Finish
<1>3. LinuxTypes /\ Steady
  BY <1>2 DEF LinuxInv, Steady
<1>4. LinuxTypes'
  BY <1>2, <1>3, RecordKeeps DEF LinuxTypes
<1>5. LinuxPlaces' /\ LinuxAlive'
  BY <1>1, <1>2, <1>3, QuietConnects
<1>6. QED BY <1>1, <1>2, <1>4, <1>5 DEF LinuxInv

(* SetDNS' first part, of a connect or on a neighbour's behalf. *)
LEMMA LinuxCaptures ==
    ASSUME LinuxInv, Linux!Capture, mech' = mech
    PROVE  LinuxInv'
<1>1. ltodo # << >> /\ FirstStep = "capture" /\ ltodo' = Tail(ltodo)
  BY DEF Linux!Capture, Linux!Step, FirstStep, Linux!Finish
<1>2. lalive
  BY <1>1 DEF LinuxInv, LinuxPlaces
<1>3. LinuxTypes /\ LinuxAlive /\ LinuxPlaces
  BY <1>2 DEF LinuxInv
<1>4. Linux!Arg \in LinuxTunnels
  <2>1. CASE Clearing
    <3>1. Head(ltodo) \in ClearItems
      BY <1>1, <2>1, StepsFrom DEF Clearing
    <3>2. QED BY <3>1 DEF ClearItems, Linux!Arg
  <2>2. ASSUME NEW u \in LinuxTunnels, Coming(u) PROVE Linux!Arg \in LinuxTunnels
    <3>1. Head(ltodo) = <<FirstStep, u>>
      BY <2>2, StagesAre
    <3>2. QED BY <3>1 DEF Linux!Arg
  <2>3. QED BY <1>3, <2>1, <2>2 DEF LinuxPlaces
<1> PICK t \in LinuxTunnels : t = Linux!Arg
  BY <1>4
<1>5. /\ routes' = routes /\ rule' = rule /\ lup' = lup /\ lost' = lost
      /\ lalive' = lalive /\ ljournal' = ljournal /\ resolv' = resolv
      /\ \/ mgr' = mgr /\ original' = original
         \/ /\ mgr' = [mgr EXCEPT ![t].captured = TRUE, ![t].orig = resolv]
            /\ original' = resolv
  BY DEF Linux!Capture, Linux!kernel, Linux!names
<1>6. LinuxTypes' /\ Steady
  <2>1. CASE mgr' = mgr /\ original' = original
    BY <1>3, <1>5, <2>1 DEF LinuxTypes, Steady
  <2>2. CASE /\ mgr' = [mgr EXCEPT ![t].captured = TRUE, ![t].orig = resolv]
             /\ original' = resolv
    <3>1. mgr[t] \in Managers /\ resolv \subseteq LinuxTunnels
      BY <1>3 DEF LinuxTypes
    <3>2. mgr' \in [LinuxTunnels -> Managers]
      BY <1>3, <2>2, <3>1 DEF LinuxTypes, Managers
    <3>3. \A u \in LinuxTunnels :
             /\ mgr'[u].set = mgr[u].set /\ mgr'[u].table = mgr[u].table
             /\ mgr'[u].throws = mgr[u].throws /\ mgr'[u].binds = mgr[u].binds
      BY <1>3, <2>2, <3>1 DEF LinuxTypes, Managers
    <3>4. QED BY <1>3, <1>5, <2>2, <3>2, <3>3 DEF LinuxTypes, Steady
  <2>3. QED BY <1>5, <2>1, <2>2
<1>7. CASE Clearing
  <2>1. /\ Clearing' /\ Pending = {Head(ltodo)} \cup Pending'
        /\ \A u \in LinuxTunnels : ~Coming(u)'
    BY <1>1, <1>7, ClearMoves
  <2>2. \A n, u : n # "capture" => (Ahead(n, u)' <=> Ahead(n, u))
    BY <1>1, <2>1 DEF Ahead, FirstStep
  <2>3. LinuxPlaces' /\ LinuxAlive'
    BY <1>2, <1>6, <1>7, <2>1, <2>2, QuietClears
  <2>4. QED BY <1>2, <1>5, <1>6, <2>3 DEF LinuxInv
<1>8. ASSUME NEW u \in LinuxTunnels, Coming(u) PROVE LinuxInv'
  <2>1. LinuxPlaces' /\ LinuxAlive'
    BY <1>1, <1>2, <1>6, <1>8, QuietConnects
  <2>2. QED BY <1>2, <1>5, <1>6, <2>1 DEF LinuxInv
<1>9. QED BY <1>3, <1>7, <1>8 DEF LinuxPlaces

LEMMA LinuxServes ==
    ASSUME LinuxInv, Linux!SetDNS, mech' = mech
    PROVE  LinuxInv'
<1>0. lalive /\ Linux!Arg \in LinuxTunnels /\ Coming(Linux!Arg) /\ FirstStep = "setdns"
  BY ConnectStep DEF LinuxInv, Linux!SetDNS, ClearNames
<1> PICK t \in LinuxTunnels : t = Linux!Arg
  BY <1>0
<1>1. lalive /\ Coming(t) /\ FirstStep = "setdns"
  BY <1>0
<1>2. /\ routes' = routes /\ rule' = rule /\ lup' = lup /\ lost' = lost /\ mgr' = mgr
      /\ lalive' = lalive /\ ljournal' = ljournal /\ original' = original
  BY DEF Linux!SetDNS, Linux!kernel, Linux!files, Linux!memory
<1>3. LinuxTypes
  BY DEF LinuxInv
<1>4. \/ ltodo' = Tail(ltodo) /\ resolv' \subseteq LinuxTunnels
      \/ ltodo' = Linux!Rollback(t) /\ resolv' = resolv
  BY <1>3
     DEF Linux!SetDNS, Linux!Finish, Linux!Fails, Linux!names, Linux!Write, Linux!Union,
         LinuxTypes
<1>5. CASE ltodo' = Tail(ltodo) /\ resolv' \subseteq LinuxTunnels
  <2>1. LinuxTypes' /\ Steady
    BY <1>2, <1>3, <1>5 DEF LinuxTypes, Steady
  <2>2. LinuxPlaces' /\ LinuxAlive'
    BY <1>1, <1>5, <2>1, QuietConnects
  <2>3. QED BY <1>1, <1>2, <2>1, <2>2 DEF LinuxInv
<1>6. CASE ltodo' = Linux!Rollback(t) /\ resolv' = resolv
  BY <1>1, <1>2, <1>6, LinuxFails
<1>7. QED BY <1>4, <1>5, <1>6

LEMMA LinuxRises ==
    ASSUME LinuxInv, Linux!Up, mech' = mech
    PROVE  LinuxInv'
<1>0. lalive /\ Linux!Arg \in LinuxTunnels /\ Coming(Linux!Arg) /\ FirstStep = "up"
  BY ConnectStep DEF LinuxInv, Linux!Up, ClearNames
<1> PICK t \in LinuxTunnels : t = Linux!Arg
  BY <1>0
<1>1. lalive /\ Coming(t) /\ FirstStep = "up"
  BY <1>0
<1>2. /\ routes' = routes /\ rule' = rule /\ lup' = lup \cup {t} /\ lost' = lost /\ mgr' = mgr
      /\ lalive' = lalive /\ original' = original /\ resolv' = resolv
      /\ ltodo' = Tail(ltodo) /\ Linux!Record(t)
  BY DEF Linux!Up, Linux!kernel, Linux!names, Linux!Finish
<1>3. LinuxTypes /\ LinuxAlive
  BY <1>1 DEF LinuxInv
<1>4. LinuxTypes'
  BY <1>2, <1>3, RecordKeeps DEF LinuxTypes
<1>5. ltodo' = << >>
  BY <1>1, <1>2, ConnectMoves
<1>6. Clearing' /\ Pending' = {} /\ \A u \in LinuxTunnels : ~Coming(u)'
  BY <1>5, Ends
<1>7. Pending = {} /\ \A u \in LinuxTunnels : Coming(u) => u = t
  BY <1>1, OneOrOther
<1>8. \A r \in routes' : Believed(r)' /\ (r \in lost' \/ Claimed(r)')
  <2>1. SUFFICES ASSUME NEW r \in routes PROVE Believed(r)' /\ (r \in lost \/ Claimed(r)')
    BY <1>2
  <2>2. r.of \in LinuxTunnels /\ Believed(r) /\ (r \in lost \/ Claimed(r))
    BY <1>3 DEF LinuxAlive, LinuxTypes, LinuxRoutes
  <2>3. Believed(r)'
    BY <1>2, <2>2 DEF Believed
  <2>4. Claimed(r) => Claimed(r)'
    BY <1>2, <1>7, <2>2 DEF Claimed, Ahead
  <2>5. QED BY <2>2, <2>3, <2>4
<1>9. LinuxManagers'
  <2>1. Placed(t)
    BY <1>1 DEF Placed, Unplaced
  <2>2. \A u \in LinuxTunnels : Placed(u)' => Placed(u)
    BY <1>2, <1>6, <2>1 DEF Placed
  <2>3. \A u \in LinuxTunnels : Linux!Needed(u)' = Linux!Needed(u)
    BY <1>2 DEF Linux!Needed
  <2>4. QED BY <1>2, <1>3, <1>6, <2>2, <2>3 DEF LinuxAlive, LinuxManagers
<1>10. LinuxApart'
  <2>1. \A u, v \in LinuxFull :
           (u \in lup' \/ Coming(u)') /\ (v \in lup' \/ Coming(v)') => u = v
    BY <1>1, <1>2, <1>3, <1>6, LinuxAssumption DEF LinuxAlive, LinuxApart
  <2>2. QED BY <1>6, <2>1 DEF LinuxApart, Ahead
<1>11. LinuxRule'
  <2>1. \A u \in LinuxTunnels : RulesTable(u)' <=> RulesTable(u)
    BY <1>1, <1>2, <1>6, <1>7 DEF RulesTable, Ruled
  <2>2. RuleLost' <=> RuleLost
    BY <1>2 DEF RuleLost
  <2>3. \A n, u : ~Ahead(n, u)
    BY <1>7 DEF Ahead
  <2>4. QED BY <1>2, <1>3, <2>1, <2>2, <2>3 DEF LinuxAlive, LinuxRule
<1>12. LinuxPlaces'
  BY <1>1, <1>2, <1>6 DEF LinuxPlaces
<1>13. QED BY <1>1, <1>2, <1>4, <1>8, <1>9, <1>10, <1>11, <1>12 DEF LinuxInv, LinuxAlive

-----------------------------------------------------------------------------
(* A disconnect, a rollback, a recovery. *)

(* A step that takes away a tunnel's routes, all of those that it is for. *)
LEMMA Removes ==
    ASSUME LinuxInv, lalive, Clearing, NEW t \in LinuxTunnels,
           NEW n \in {"rroutes", "rbinds", "close", "restore"},
           ltodo # << >>, Head(ltodo) = <<n, t>>, ltodo' = Tail(ltodo),
           rule' = rule, lup' = lup, lalive' = lalive,
           routes' \subseteq routes, \A r \in routes : r.of # t => r \in routes',
           lost' \subseteq lost, \A l \in lost \ lost' : l.kind # "rule" /\ l.of = t,
           \A r \in routes' : r \in lost => r \in lost',
           \A u \in LinuxTunnels \ {t} : mgr'[u] = mgr[u],
           mgr'[t].set = mgr[t].set, mgr'[t].table = mgr[t].table,
           mgr'[t].binds => mgr[t].binds,
           \A r \in routes' \ lost' : r.of = t =>
              /\ r.kind = "throw" => mgr'[t].throws
              /\ r.kind = "bind" => mgr'[t].binds
              /\ n = "rroutes" => r.kind = "bind"
              /\ n = "rbinds" => r.kind # "bind"
    PROVE  LinuxPlaces' /\ LinuxAlive'
<1>1. LinuxTypes /\ LinuxAlive
  BY DEF LinuxInv
<1>2. /\ Clearing' /\ Pending = {<<n, t>>} \cup Pending' /\ \A u \in LinuxTunnels : ~Coming(u)'
  BY ClearMoves
<1>3. \A u \in LinuxTunnels : ~Coming(u)
  BY OneOrOther
<1>4. \A m, u : Ahead(m, u) <=> (m = n /\ u = t) \/ Ahead(m, u)'
  BY <1>2 DEF Ahead
<1>5. t \notin lup
  BY <1>1, <1>4 DEF LinuxAlive, LinuxApart, ClearNames
<1>6. \A r \in routes' : Believed(r)' /\ (r \in lost' \/ Claimed(r)')
  <2>1. SUFFICES ASSUME NEW r \in routes' PROVE Believed(r)' /\ (r \in lost' \/ Claimed(r)')
    OBVIOUS
  <2>2. r \in routes /\ r.of \in LinuxTunnels /\ (r \in lost' <=> r \in lost)
    BY <1>1 DEF LinuxTypes, LinuxRoutes
  <2>3. Believed(r) /\ (r \in lost \/ Claimed(r))
    BY <1>1, <2>2 DEF LinuxAlive
  <2>4. Believed(r)'
    BY <2>2, <2>3 DEF Believed
  <2>5. ASSUME r \notin lost' PROVE Claimed(r)'
    <3>1. Claimed(r) /\ ~Coming(r.of)
      BY <1>3, <2>2, <2>3, <2>5
    <3>2. CASE r.of \in lup
      BY <3>2 DEF Claimed
    <3>3. CASE r.kind = "bind" /\ Ahead("rbinds", r.of)
      <4>1. ~(n = "rbinds" /\ r.of = t)
        BY <2>5, <3>3
      <4>2. QED BY <1>4, <3>3, <4>1 DEF Claimed
    <3>4. CASE r.kind # "bind" /\ (Ahead("rroutes", r.of) \/ Ahead("recover", r.of))
      <4>1. ~(n = "rroutes" /\ r.of = t)
        BY <2>5, <3>4
      <4>2. QED BY <1>4, <3>4, <4>1 DEF Claimed
    <3>5. QED BY <3>1, <3>2, <3>3, <3>4 DEF Claimed
  <2>6. QED BY <2>4, <2>5
<1>7. LinuxManagers'
  <2>1. SUFFICES ASSUME NEW u \in LinuxTunnels
        PROVE  /\ mgr'[u].table = Linux!Off => TableCfg[u] = Linux!Off /\ ~mgr'[u].binds
               /\ Placed(u)' => mgr'[u].set /\ Linux!Needed(u)' \ lost' \subseteq routes'
    BY <1>2 DEF LinuxManagers
  <2>2. mgr'[u].table = Linux!Off => TableCfg[u] = Linux!Off /\ ~mgr'[u].binds
    BY <1>1 DEF LinuxAlive, LinuxManagers
  <2>3. ASSUME Placed(u)' PROVE mgr'[u].set /\ Linux!Needed(u)' \ lost' \subseteq routes'
    <3>1. u \in lup /\ u # t
      BY <1>2, <1>5, <2>3 DEF Placed
    <3>2. mgr[u].set /\ Linux!Needed(u) \ lost \subseteq routes
      BY <1>1, <3>1 DEF LinuxAlive, LinuxManagers, Placed
    <3>3. mgr'[u].set /\ Linux!Needed(u)' = Linux!Needed(u)
      BY <3>1, <3>2 DEF Linux!Needed
    <3>4. \A x \in Linux!Needed(u) : x.of = u
      BY DEF Linux!Needed, Linux!Route
    <3>5. \A x \in Linux!Needed(u) : x \notin lost' => x \in routes'
      BY <3>1, <3>2, <3>4
    <3>6. QED BY <3>3, <3>5
  <2>4. QED BY <2>2, <2>3
<1>8. LinuxApart'
  <2>1. \A u, v \in LinuxFull :
           (u \in lup' \/ Coming(u)') /\ (v \in lup' \/ Coming(v)') => u = v
    BY <1>1, <1>2, LinuxAssumption DEF LinuxAlive, LinuxApart
  <2>2. QED BY <1>1, <1>2, <1>4, <2>1 DEF LinuxAlive, LinuxApart
<1>9. LinuxRule'
  <2>1. \A u \in LinuxTunnels : RulesTable(u) => u # t
    BY <1>3, <1>5 DEF RulesTable
  <2>2. \A u \in LinuxTunnels : RulesTable(u)' <=> RulesTable(u)
    BY <1>2, <1>3, <1>5 DEF RulesTable
  <2>3. RuleLost' <=> RuleLost
    BY DEF RuleLost
  <2>4. QED BY <1>1, <1>4, <2>1, <2>2, <2>3, LinuxAssumption DEF LinuxAlive, LinuxRule
<1>10. LinuxPlaces'
  BY <1>2 DEF LinuxPlaces
<1>11. QED BY <1>6, <1>7, <1>8, <1>9, <1>10 DEF LinuxAlive

LEMMA LinuxUnroutes ==
    ASSUME LinuxInv, Linux!RemoveRoutes, mech' = mech
    PROVE  LinuxInv'
<1>0. /\ lalive /\ Clearing /\ ltodo # << >> /\ Head(ltodo) = <<"rroutes", Linux!Arg>>
      /\ Linux!Arg \in LinuxTunnels
  BY ClearStep DEF LinuxInv, Linux!RemoveRoutes, ClearNames
<1> PICK t \in LinuxTunnels : t = Linux!Arg
  BY <1>0
<1> PICK rs : rs = {r \in Linux!OnDevice(t) : r.table = Linux!TableOf(t)}
                      \cup (IF mgr[t].throws THEN {Linux!Route("throw", t, Linux!TableOf(t))}
                            ELSE {})
  OBVIOUS
<1>1. /\ routes' = routes \ rs /\ lost' = lost \ rs /\ ltodo' = Tail(ltodo)
      /\ mgr' = [mgr EXCEPT ![t].throws = FALSE] /\ rule' = rule /\ lup' = lup
      /\ lalive' = lalive /\ ljournal' = ljournal /\ original' = original /\ resolv' = resolv
  BY DEF Linux!RemoveRoutes, Linux!names, Linux!files, Linux!Finish, Linux!Gone
<1>2. LinuxTypes /\ LinuxAlive
  BY <1>0 DEF LinuxInv
<1>3. mgr[t] \in Managers
  BY <1>2 DEF LinuxTypes
<1>4. /\ mgr' \in [LinuxTunnels -> Managers] /\ \A u \in LinuxTunnels \ {t} : mgr'[u] = mgr[u]
      /\ mgr'[t].set = mgr[t].set /\ mgr'[t].table = mgr[t].table
      /\ mgr'[t].binds = mgr[t].binds
  BY <1>1, <1>2, <1>3 DEF LinuxTypes, Managers
<1>5. LinuxTypes'
  BY <1>1, <1>2, <1>4 DEF LinuxTypes
<1>6. \A r \in rs : r.of = t /\ r.kind # "rule"
  BY DEF Linux!OnDevice, Linux!Route
<1>7. Linux!TableOf(t) = IF mgr[t].set THEN mgr[t].table
                         ELSE IF t \in LinuxFull THEN Linux!Base ELSE 0
  <2>1. CASE mgr[t].set \/ t \notin LinuxFull
    BY <2>1 DEF Linux!TableOf
  <2>2. CASE ~mgr[t].set /\ t \in LinuxFull
    <3>1. \A r \in routes : ~(r.kind = "default" /\ r.of = t)
      BY <1>2, <2>2 DEF LinuxAlive, Believed
    <3>2. {r.table : r \in {d \in routes : d.kind = "default" /\ d.of = t}} = {}
      BY <3>1
    <3>3. QED BY <2>2, <3>2 DEF Linux!TableOf, Linux!FindOwnedTable
  <2>3. QED BY <2>1, <2>2
<1>8. ASSUME NEW r \in routes' \ lost', r.of = t PROVE r.kind = "bind" /\ mgr[t].binds
  <2>1. r \in routes /\ r \notin lost /\ r \notin rs
    BY <1>1
  <2>2. Believed(r) /\ r \in LinuxRoutes
    BY <1>2, <2>1 DEF LinuxAlive, LinuxTypes
  <2>3. r.kind \notin {"default", "split"}
    <3>1. SUFFICES ASSUME r.kind \in {"default", "split"} PROVE FALSE
      OBVIOUS
    <3>2. r.table = Linux!TableOf(t)
      BY <1>7, <1>8, <2>2, <3>1 DEF Believed
    <3>3. r \in rs
      BY <1>8, <2>1, <3>1, <3>2 DEF Linux!OnDevice
    <3>4. QED BY <2>1, <3>3
  <2>4. r.kind # "throw"
    <3>1. SUFFICES ASSUME r.kind = "throw" PROVE FALSE
      OBVIOUS
    <3>2. mgr[t].throws /\ t \in LinuxFull /\ r.table = Linux!TableOf(t)
      BY <1>7, <1>8, <2>1, <2>2, <3>1 DEF Believed
    <3>3. r = Linux!Route("throw", t, Linux!TableOf(t))
      BY <1>8, <2>2, <3>1, <3>2 DEF LinuxRoutes, Linux!Route
    <3>4. QED BY <2>1, <3>2, <3>3
  <2>5. QED BY <1>8, <2>1, <2>2, <2>3, <2>4 DEF Believed, LinuxRoutes
<1>9. LinuxPlaces' /\ LinuxAlive'
  <2>1. \A r \in routes : r.of # t => r \in routes'
    BY <1>1, <1>6
  <2>2. \A l \in lost \ lost' : l.kind # "rule" /\ l.of = t
    BY <1>1, <1>6
  <2>3. \A r \in routes' : r \in lost => r \in lost'
    BY <1>1
  <2>4. \A r \in routes' \ lost' : r.of = t => r.kind = "bind" /\ mgr'[t].binds
    BY <1>4, <1>8
  <2> PICK n \in {"rroutes", "rbinds", "close", "restore"} : n = "rroutes"
    OBVIOUS
  <2>5. routes' \subseteq routes /\ lost' \subseteq lost
    BY <1>1
  <2>6. QED
    BY <1>0, <1>1, <1>4, <2>1, <2>2, <2>3, <2>4, <2>5, Removes
<1>10. QED BY <1>0, <1>1, <1>5, <1>9 DEF LinuxInv

LEMMA LinuxUnbinds ==
    ASSUME LinuxInv, Linux!RemoveBinds, mech' = mech
    PROVE  LinuxInv'
<1>0. /\ lalive /\ Clearing /\ ltodo # << >> /\ Head(ltodo) = <<"rbinds", Linux!Arg>>
      /\ Linux!Arg \in LinuxTunnels
  BY ClearStep DEF LinuxInv, Linux!RemoveBinds, ClearNames
<1> PICK t \in LinuxTunnels : t = Linux!Arg
  BY <1>0
<1> PICK rs : rs = IF mgr[t].binds THEN {Linux!Route("bind", t, 0)} ELSE {}
  OBVIOUS
<1>1. /\ routes' = routes \ rs /\ lost' = lost \ rs /\ ltodo' = Tail(ltodo)
      /\ mgr' = [mgr EXCEPT ![t].binds = FALSE] /\ rule' = rule /\ lup' = lup
      /\ lalive' = lalive /\ ljournal' = ljournal /\ original' = original /\ resolv' = resolv
  BY DEF Linux!RemoveBinds, Linux!names, Linux!files, Linux!Finish, Linux!Gone
<1>2. LinuxTypes /\ LinuxAlive
  BY <1>0 DEF LinuxInv
<1>3. mgr[t] \in Managers
  BY <1>2 DEF LinuxTypes
<1>4. /\ mgr' \in [LinuxTunnels -> Managers] /\ \A u \in LinuxTunnels \ {t} : mgr'[u] = mgr[u]
      /\ mgr'[t].set = mgr[t].set /\ mgr'[t].table = mgr[t].table
      /\ mgr'[t].throws = mgr[t].throws /\ ~mgr'[t].binds
  BY <1>1, <1>2, <1>3 DEF LinuxTypes, Managers
<1>5. LinuxTypes'
  BY <1>1, <1>2, <1>4 DEF LinuxTypes
<1>6. \A r \in rs : r.of = t /\ r.kind # "rule"
  BY DEF Linux!Route
<1>7. ASSUME NEW r \in routes' \ lost', r.of = t
      PROVE  r.kind # "bind" /\ (r.kind = "throw" => mgr[t].throws)
  <2>1. r \in routes /\ r \notin lost /\ r \notin rs
    BY <1>1
  <2>2. Believed(r) /\ r \in LinuxRoutes
    BY <1>2, <2>1 DEF LinuxAlive, LinuxTypes
  <2>3. ASSUME r.kind = "bind" PROVE FALSE
    <3>1. mgr[t].binds /\ r.table = 0
      BY <1>7, <2>1, <2>2, <2>3 DEF Believed
    <3>2. r = Linux!Route("bind", t, 0)
      BY <1>7, <2>2, <2>3, <3>1 DEF LinuxRoutes, Linux!Route
    <3>3. QED BY <2>1, <3>1, <3>2
  <2>4. QED BY <1>7, <2>1, <2>2, <2>3 DEF Believed
<1>8. LinuxPlaces' /\ LinuxAlive'
  <2>1. \A r \in routes : r.of # t => r \in routes'
    BY <1>1, <1>6
  <2>2. \A l \in lost \ lost' : l.kind # "rule" /\ l.of = t
    BY <1>1, <1>6
  <2>3. \A r \in routes' : r \in lost => r \in lost'
    BY <1>1
  <2>4. \A r \in routes' \ lost' : r.of = t =>
           r.kind # "bind" /\ (r.kind = "throw" => mgr'[t].throws)
    BY <1>4, <1>7
  <2> PICK n \in {"rroutes", "rbinds", "close", "restore"} : n = "rbinds"
    OBVIOUS
  <2>5. routes' \subseteq routes /\ lost' \subseteq lost
    BY <1>1
  <2>6. QED
    BY <1>0, <1>1, <1>4, <2>1, <2>2, <2>3, <2>4, <2>5, Removes
<1>9. QED BY <1>0, <1>1, <1>5, <1>8 DEF LinuxInv

(* The device goes, and its routes with it. *)
LEMMA DeviceGoes ==
    ASSUME LinuxInv, lalive, Clearing, NEW t \in LinuxTunnels, NEW n \in {"close", "restore"},
           ltodo # << >>, Head(ltodo) = <<n, t>>, ltodo' = Tail(ltodo),
           rule' = rule, lup' = lup, lalive' = lalive, lost' = lost,
           routes' = routes \ Linux!OnDevice(t),
           \A u \in LinuxTunnels :
              /\ mgr'[u].set = mgr[u].set /\ mgr'[u].table = mgr[u].table
              /\ mgr'[u].throws = mgr[u].throws /\ mgr'[u].binds = mgr[u].binds,
           \A u \in LinuxTunnels \ {t} : mgr'[u] = mgr[u]
    PROVE  LinuxPlaces' /\ LinuxAlive'
<1>1. LinuxAlive
  BY DEF LinuxInv
<1>2. \A r \in Linux!OnDevice(t) : r.of = t
  BY DEF Linux!OnDevice
<1>3. ASSUME NEW r \in routes' \ lost', r.of = t
      PROVE  (r.kind = "throw" => mgr'[t].throws) /\ (r.kind = "bind" => mgr'[t].binds)
  <2>1. Believed(r) /\ r \notin lost
    BY <1>1 DEF LinuxAlive
  <2>2. QED BY <1>3, <2>1 DEF Believed
<1>4. \A r \in routes : r.of # t => r \in routes'
  BY <1>2
<1>5. /\ mgr'[t].set = mgr[t].set /\ mgr'[t].table = mgr[t].table
      /\ mgr'[t].binds = mgr[t].binds /\ routes' \subseteq routes
  OBVIOUS
<1> PICK m \in {"rroutes", "rbinds", "close", "restore"} : m = n
  OBVIOUS
<1>6. m # "rroutes" /\ m # "rbinds" /\ Head(ltodo) = <<m, t>>
  OBVIOUS
<1>7. QED BY <1>3, <1>4, <1>5, <1>6, Removes

LEMMA LinuxCloses ==
    ASSUME LinuxInv, Linux!Close, mech' = mech
    PROVE  LinuxInv'
<1>0. /\ lalive /\ Clearing /\ ltodo # << >> /\ Head(ltodo) = <<"close", Linux!Arg>>
      /\ Linux!Arg \in LinuxTunnels
  BY ClearStep DEF LinuxInv, Linux!Close, ClearNames
<1> PICK t \in LinuxTunnels : t = Linux!Arg
  BY <1>0
<1>1. /\ routes' = routes \ Linux!OnDevice(t) /\ lost' = lost /\ ltodo' = Tail(ltodo)
      /\ mgr' = mgr /\ rule' = rule /\ lup' = lup
      /\ lalive' = lalive /\ ljournal' = ljournal /\ original' = original /\ resolv' = resolv
  BY DEF Linux!Close, Linux!memory, Linux!files, Linux!Finish
<1>2. LinuxTypes'
  BY <1>1 DEF LinuxInv, LinuxTypes
<1> PICK n \in {"close", "restore"} : n = "close"
  OBVIOUS
<1>3. LinuxPlaces' /\ LinuxAlive'
  BY <1>0, <1>1, DeviceGoes
<1>4. QED BY <1>0, <1>1, <1>2, <1>3 DEF LinuxInv

LEMMA LinuxRestores ==
    ASSUME LinuxInv, Linux!Restore, mech' = mech
    PROVE  LinuxInv'
<1>0. /\ lalive /\ Clearing /\ ltodo # << >> /\ Head(ltodo) = <<"restore", Linux!Arg>>
      /\ Linux!Arg \in LinuxTunnels
  BY ClearStep DEF LinuxInv, Linux!Restore, ClearNames
<1> PICK t \in LinuxTunnels : t = Linux!Arg
  BY <1>0
<1>1. /\ routes' = routes \ Linux!OnDevice(t) /\ lost' = lost /\ ltodo' = Tail(ltodo)
      /\ rule' = rule /\ lup' = lup /\ lalive' = lalive /\ ljournal' = ljournal
      /\ Linux!RestoreDNS(t)
  BY DEF Linux!Restore, Linux!Finish
<1>2. LinuxTypes
  BY DEF LinuxInv
<1>3. mgr[t] \in Managers /\ resolv \subseteq LinuxTunnels
  BY <1>2 DEF LinuxTypes
<1>4. /\ mgr' = mgr \/ mgr' = [mgr EXCEPT ![t].captured = FALSE]
      /\ original' = original \/ original' = Linux!NoFile
      /\ resolv' = resolv \/ resolv' = mgr[t].orig
            \/ (original # Linux!NoFile /\ resolv' = original)
  BY <1>1 DEF Linux!RestoreDNS
<1>5. /\ mgr' \in [LinuxTunnels -> Managers]
      /\ \A u \in LinuxTunnels :
            /\ mgr'[u].set = mgr[u].set /\ mgr'[u].table = mgr[u].table
            /\ mgr'[u].throws = mgr[u].throws /\ mgr'[u].binds = mgr[u].binds
      /\ \A u \in LinuxTunnels \ {t} : mgr'[u] = mgr[u]
  <2>1. CASE mgr' = mgr
    BY <1>2, <2>1 DEF LinuxTypes
  <2>2. CASE mgr' = [mgr EXCEPT ![t].captured = FALSE]
    <3>1. /\ mgr' \in [LinuxTunnels -> Managers]
          /\ \A u \in LinuxTunnels \ {t} : mgr'[u] = mgr[u]
          /\ mgr'[t].set = mgr[t].set /\ mgr'[t].table = mgr[t].table
          /\ mgr'[t].throws = mgr[t].throws /\ mgr'[t].binds = mgr[t].binds
      BY <1>2, <1>3, <2>2 DEF LinuxTypes, Managers
    <3>2. QED BY <3>1
  <2>3. QED BY <1>4, <2>1, <2>2
<1>6. resolv' \subseteq LinuxTunnels
  BY <1>2, <1>3, <1>4 DEF LinuxTypes, Managers
<1>7. LinuxTypes'
  BY <1>1, <1>2, <1>4, <1>5, <1>6 DEF LinuxTypes
<1> PICK n \in {"close", "restore"} : n = "restore"
  OBVIOUS
<1>8. LinuxPlaces' /\ LinuxAlive'
  BY <1>0, <1>1, <1>5, DeviceGoes
<1>9. QED BY <1>0, <1>1, <1>7, <1>8 DEF LinuxInv

LEMMA LinuxUnrules ==
    ASSUME LinuxInv, Linux!RemoveRule, mech' = mech
    PROVE  LinuxInv'
<1>0. /\ lalive /\ Clearing /\ ltodo # << >> /\ Head(ltodo) = <<"rrule", Linux!Arg>>
      /\ Linux!Arg \in LinuxTunnels /\ Ahead("rrule", Linux!Arg)
      /\ \A u \in LinuxTunnels : ~Coming(u)
  BY ClearStep DEF LinuxInv, Linux!RemoveRule, ClearNames
<1> PICK t \in LinuxTunnels : t = Linux!Arg
  BY <1>0
<1>1. /\ routes' = routes /\ lost' = {l \in lost : l.kind # "rule"} /\ ltodo' = Tail(ltodo)
      /\ mgr' = mgr /\ rule' = Linux!NoTable /\ lup' = lup
      /\ lalive' = lalive /\ ljournal' = ljournal /\ original' = original /\ resolv' = resolv
  BY DEF Linux!RemoveRule, Linux!names, Linux!memory, Linux!files, Linux!Finish
<1>2. LinuxTypes /\ LinuxAlive
  BY <1>0 DEF LinuxInv
<1>3. LinuxTypes'
  BY <1>1, <1>2 DEF LinuxTypes
<1>4. /\ Clearing' /\ Pending = {<<"rrule", t>>} \cup Pending'
      /\ \A u \in LinuxTunnels : ~Coming(u)'
  BY <1>0, <1>1, ClearMoves
<1>5. \A m, u : Ahead(m, u) <=> (m = "rrule" /\ u = t) \/ Ahead(m, u)'
  BY <1>4 DEF Ahead
<1>6. lup \cap LinuxFull = {}
  BY <1>0, <1>2 DEF LinuxAlive, LinuxApart
<1>7. \A r \in LinuxRoutes : r \in lost' <=> r \in lost
  BY <1>1 DEF LinuxRoutes
<1>8. \A r \in routes' : Believed(r)' /\ (r \in lost' \/ Claimed(r)')
  <2>1. SUFFICES ASSUME NEW r \in routes PROVE Believed(r)' /\ (r \in lost' \/ Claimed(r)')
    BY <1>1
  <2>2. r \in LinuxRoutes /\ r.of \in LinuxTunnels /\ (r \in lost' <=> r \in lost)
    BY <1>2, <1>7 DEF LinuxTypes, LinuxRoutes
  <2>3. Believed(r) /\ (r \in lost \/ Claimed(r))
    BY <1>2 DEF LinuxAlive
  <2>4. Believed(r)'
    BY <1>1, <2>2, <2>3 DEF Believed
  <2>5. Claimed(r) => Claimed(r)'
    BY <1>0, <1>1, <1>5, <2>2 DEF Claimed
  <2>6. QED BY <2>2, <2>3, <2>4, <2>5
<1>9. LinuxManagers'
  <2>1. SUFFICES ASSUME NEW u \in LinuxTunnels
        PROVE  /\ mgr'[u].table = Linux!Off => TableCfg[u] = Linux!Off /\ ~mgr'[u].binds
               /\ Placed(u)' => mgr'[u].set /\ Linux!Needed(u)' \ lost' \subseteq routes'
    BY <1>4 DEF LinuxManagers
  <2>2. Placed(u)' => Placed(u)
    BY <1>1, <1>4 DEF Placed
  <2>3. Linux!Needed(u)' = Linux!Needed(u)
    BY <1>1 DEF Linux!Needed
  <2>4. \A x \in Linux!Needed(u) : x \in lost => x \in lost'
    BY <1>1 DEF Linux!Needed, Linux!Route
  <2>5. QED BY <1>1, <1>2, <2>2, <2>3, <2>4 DEF LinuxAlive, LinuxManagers
<1>10. LinuxApart'
  <2>1. \A u, v \in LinuxFull :
           (u \in lup' \/ Coming(u)') /\ (v \in lup' \/ Coming(v)') => u = v
    BY <1>1, <1>2, <1>4, LinuxAssumption DEF LinuxAlive, LinuxApart
  <2>2. QED BY <1>1, <1>2, <1>4, <1>5, <2>1 DEF LinuxAlive, LinuxApart
<1>11. LinuxRule'
  <2>1. \A u \in LinuxTunnels : ~RulesTable(u)'
    BY <1>1, <1>4, <1>6 DEF RulesTable
  <2>2. QED BY <1>1, <2>1 DEF LinuxRule
<1>12. LinuxPlaces'
  BY <1>0, <1>1, <1>4 DEF LinuxPlaces
<1>13. QED BY <1>0, <1>1, <1>3, <1>8, <1>9, <1>10, <1>11, <1>12 DEF LinuxInv, LinuxAlive

LEMMA LinuxRecovers ==
    ASSUME LinuxInv, Linux!Recover, mech' = mech
    PROVE  LinuxInv'
<1>0. /\ lalive /\ Clearing /\ ltodo # << >> /\ Head(ltodo) = <<"recover", Linux!Arg>>
      /\ Linux!Arg \in LinuxTunnels /\ Ahead("recover", Linux!Arg)
      /\ \A u \in LinuxTunnels : ~Coming(u)
  BY ClearStep DEF LinuxInv, Linux!Recover, ClearNames
<1> PICK t \in LinuxTunnels : t = Linux!Arg
  BY <1>0
<1>1. /\ routes' = routes /\ lost' = lost /\ ltodo' = Linux!RemoveSteps(t) \o Tail(ltodo)
      /\ mgr' = mgr /\ rule' = rule /\ lup' = lup
      /\ lalive' = lalive /\ ljournal' = ljournal /\ original' = original /\ resolv' = resolv
  BY DEF Linux!Recover, Linux!names, Linux!memory, Linux!files, Linux!kernel
<1>2. LinuxTypes /\ LinuxAlive
  BY <1>0 DEF LinuxInv
<1>3. LinuxTypes'
  BY <1>1, <1>2 DEF LinuxTypes
<1>4. Linux!RemoveSteps(t) \in Seq(ClearItems) /\ StepsIn(Linux!RemoveSteps(t)) = RemovesIn(t)
  BY Removals
<1>5. /\ Clearing' /\ \A u \in LinuxTunnels : ~Coming(u)'
      /\ Pending \subseteq {<<"recover", t>>} \cup Pending'
      /\ Pending' \subseteq Pending \cup RemovesIn(t) /\ RemovesIn(t) \subseteq Pending'
  BY <1>0, <1>1, <1>4, Swaps
<1>6. lup = {}
  BY <1>0, <1>2 DEF LinuxAlive, LinuxApart
<1>7. \A m, u : Ahead(m, u) => (m = "recover" /\ u = t) \/ Ahead(m, u)'
  BY <1>5 DEF Ahead
<1>8. \A r \in routes' : Believed(r)' /\ (r \in lost' \/ Claimed(r)')
  <2>1. SUFFICES ASSUME NEW r \in routes PROVE Believed(r)' /\ (r \in lost \/ Claimed(r)')
    BY <1>1
  <2>2. /\ r.of \in LinuxTunnels /\ r.table \in {0} \cup Tables
        /\ r.kind \in {"default", "split", "throw", "bind"}
        /\ Believed(r) /\ (r \in lost \/ Claimed(r))
    BY <1>2 DEF LinuxAlive, LinuxTypes, LinuxRoutes
  <2>3. Believed(r)'
    BY <1>1, <2>2 DEF Believed
  <2>4. ASSUME r \notin lost PROVE Claimed(r)'
    <3>1. CASE r.of # t \/ r.kind = "bind"
      BY <1>0, <1>1, <1>7, <2>2, <2>4, <3>1 DEF Claimed
    <3>2. CASE r.of = t /\ r.kind # "bind"
      <4>1. ~Unrouted(t)
        BY <2>2, <2>4, <3>2, LinuxAssumption DEF Believed, Unrouted, Linux!Off
      <4>2. Ahead("rroutes", t)'
        BY <1>5, <4>1 DEF RemovesIn, Ahead
      <4>3. QED BY <3>2, <4>2 DEF Claimed
    <3>3. QED BY <3>1, <3>2
  <2>5. QED BY <2>3, <2>4
<1>9. LinuxManagers'
  <2>1. \A u \in LinuxTunnels : ~Placed(u)'
    BY <1>1, <1>5, <1>6 DEF Placed
  <2>2. QED BY <1>1, <1>2, <1>5, <2>1 DEF LinuxAlive, LinuxManagers
<1>10. LinuxApart'
  BY <1>1, <1>5, <1>6, LinuxAssumption DEF LinuxApart
<1>11. LinuxRule'
  <2>1. \A u \in LinuxTunnels : ~RulesTable(u) /\ ~RulesTable(u)'
    BY <1>0, <1>1, <1>5, <1>6 DEF RulesTable
  <2>2. RuleLost' <=> RuleLost
    BY <1>1 DEF RuleLost
  <2>3. CASE t \in LinuxFull /\ TableCfg[t] # Linux!Off
    <3>1. ~Unrouted(t)
      BY <1>2, <2>3 DEF Unrouted, LinuxAlive, LinuxManagers
    <3>2. Ahead("rrule", t)'
      BY <1>5, <2>3, <3>1 DEF RemovesIn, Ahead
    <3>3. QED BY <3>2 DEF LinuxRule
  <2>4. CASE ~(t \in LinuxFull /\ TableCfg[t] # Linux!Off)
    BY <1>1, <1>2, <1>7, <2>1, <2>2, <2>4 DEF LinuxAlive, LinuxRule
  <2>5. QED BY <2>3, <2>4
<1>12. LinuxPlaces'
  BY <1>0, <1>1, <1>5 DEF LinuxPlaces
<1>13. QED BY <1>0, <1>1, <1>3, <1>8, <1>9, <1>10, <1>11, <1>12 DEF LinuxInv, LinuxAlive

(* Steps that are DNS's or the files' alone. *)
LEMMA LinuxCleansUp ==
    ASSUME LinuxInv, Linux!Cleanup, mech' = mech
    PROVE  LinuxInv'
<1>0. /\ lalive /\ Clearing /\ ltodo # << >> /\ Head(ltodo) = <<"cleanup", Linux!Arg>>
      /\ Linux!Arg \in LinuxTunnels /\ Ahead("cleanup", Linux!Arg)
  BY ClearStep DEF LinuxInv, Linux!Cleanup, ClearNames
<1> PICK t \in LinuxTunnels : t = Linux!Arg
  BY <1>0
<1>1. /\ routes' = routes /\ lost' = lost /\ mgr' = mgr /\ rule' = rule /\ lup' = lup
      /\ lalive' = lalive /\ ljournal' = ljournal /\ original' = original /\ resolv' = resolv
  BY DEF Linux!Cleanup, Linux!names, Linux!memory, Linux!files, Linux!kernel
<1>2. \/ ltodo' = Linux!For(t, <<"restore">>) \o Tail(ltodo)
      \/ \E u \in lup : ltodo' = Linux!For(u, <<"capture", "reapply">>) \o Tail(ltodo)
  BY DEF Linux!Cleanup
<1>3. LinuxTypes /\ LinuxAlive /\ LinuxTypes' /\ Steady
  BY <1>0, <1>1 DEF LinuxInv, LinuxTypes, Steady
<1>4. {"restore", "capture", "reapply"} \subseteq ClearNames
  BY DEF ClearNames
<1>5. t \notin lup
  BY <1>0, <1>3 DEF LinuxAlive, LinuxApart, ClearNames
<1>6. PICK q \in Seq(ClearItems) :
          /\ ltodo' = q \o Tail(ltodo)
          /\ \A x \in StepsIn(q) : x = <<"restore", t>> \/ x[1] \in {"capture", "reapply"}
  <2>1. CASE ltodo' = Linux!For(t, <<"restore">>) \o Tail(ltodo)
    <3>1. /\ Linux!For(t, <<"restore">>) \in Seq(ClearItems)
          /\ StepsIn(Linux!For(t, <<"restore">>)) = {<<"restore", t>>}
      BY <1>4, ClearPair
    <3> DEFINE q == Linux!For(t, <<"restore">>)
    <3> HIDE DEF q
    <3>2. /\ q \in Seq(ClearItems) /\ ltodo' = q \o Tail(ltodo)
          /\ \A x \in StepsIn(q) : x = <<"restore", t>>
      BY <2>1, <3>1 DEF q
    <3>3. QED BY <3>2
  <2>2. ASSUME NEW u \in lup, ltodo' = Linux!For(u, <<"capture", "reapply">>) \o Tail(ltodo)
        PROVE  \E q \in Seq(ClearItems) :
                  /\ ltodo' = q \o Tail(ltodo)
                  /\ \A x \in StepsIn(q) : x = <<"restore", t>> \/ x[1] \in {"capture", "reapply"}
    <3>1. u \in LinuxTunnels
      BY <1>3 DEF LinuxTypes
    <3>2. /\ Linux!For(u, <<"capture", "reapply">>) \in Seq(ClearItems)
          /\ StepsIn(Linux!For(u, <<"capture", "reapply">>))
                = {<<"capture", u>>, <<"reapply", u>>}
      BY <1>4, <3>1, ClearPair
    <3> DEFINE q == Linux!For(u, <<"capture", "reapply">>)
    <3> HIDE DEF q
    <3>3. /\ q \in Seq(ClearItems) /\ ltodo' = q \o Tail(ltodo)
          /\ \A x \in StepsIn(q) : x[1] \in {"capture", "reapply"}
      BY <2>2, <3>2 DEF q
    <3>4. QED BY <3>3
  <2>3. QED BY <1>2, <2>1, <2>2
<1>7. /\ Clearing' /\ \A u \in LinuxTunnels : ~Coming(u)'
      /\ Pending \subseteq {<<"cleanup", t>>} \cup Pending'
      /\ Pending' \subseteq Pending \cup StepsIn(q)
  BY <1>0, <1>6, Swaps
<1>8. \A u \in LinuxTunnels : \A n \in {"rroutes", "rbinds", "rrule", "recover"} :
         Ahead(n, u)' <=> Ahead(n, u)
  BY <1>6, <1>7 DEF Ahead
<1>9. \A u \in LinuxTunnels : \A n \in ClearNames \ {"capture", "reapply"} :
         Ahead(n, u)' => Ahead(n, u) \/ (u \notin lup /\ n = "restore")
  BY <1>5, <1>6, <1>7 DEF Ahead
<1>10. LinuxPlaces' /\ LinuxAlive'
  BY <1>0, <1>3, <1>7, <1>8, <1>9, QuietClears
<1>11. QED BY <1>0, <1>1, <1>3, <1>10 DEF LinuxInv

LEMMA QuietStep ==
    ASSUME LinuxInv, NEW n \in {"reapply", "forget", "reset", "clear"}, Linux!Step(n),
           ltodo' = Tail(ltodo), LinuxTypes', Steady
    PROVE  LinuxInv'
<1>1. n \in ClearNames \ {"capture"} /\ LinuxPlaces
  BY DEF ClearNames, LinuxInv
<1>2. lalive /\ Clearing /\ ltodo # << >> /\ Head(ltodo) = <<n, Linux!Arg>>
  BY <1>1, ClearStep
<1>3. /\ Clearing' /\ Pending = {<<n, Linux!Arg>>} \cup Pending'
      /\ \A u \in LinuxTunnels : ~Coming(u)'
  BY <1>2, ClearMoves
<1>4. \A u \in LinuxTunnels : \A m \in {"rroutes", "rbinds", "rrule", "recover"} :
         Ahead(m, u)' <=> Ahead(m, u)
  BY <1>3 DEF Ahead
<1>5. \A u \in LinuxTunnels : \A m : Ahead(m, u)' => Ahead(m, u)
  BY <1>3 DEF Ahead
<1>6. LinuxPlaces' /\ LinuxAlive'
  BY <1>2, <1>3, <1>4, <1>5, QuietClears
<1>7. QED BY <1>2, <1>6 DEF LinuxInv, Steady

LEMMA LinuxReapplies ==
    ASSUME LinuxInv, Linux!Reapply, mech' = mech
    PROVE  LinuxInv'
<1>1. /\ routes' = routes /\ lost' = lost /\ mgr' = mgr /\ rule' = rule /\ lup' = lup
      /\ lalive' = lalive /\ ljournal' = ljournal /\ original' = original
      /\ resolv' = resolv \/ resolv' = lup \cap LinuxDNS
      /\ ltodo' = Tail(ltodo) /\ Linux!Step("reapply")
  BY DEF Linux!Reapply, Linux!memory, Linux!files, Linux!kernel, Linux!Write, Linux!Finish
<1>2. LinuxTypes' /\ Steady
  BY <1>1 DEF LinuxInv, LinuxTypes, Steady
<1>3. QED BY <1>1, <1>2, QuietStep

LEMMA LinuxForgets ==
    ASSUME LinuxInv, Linux!Forget \/ Linux!Clear, mech' = mech
    PROVE  LinuxInv'
<1>1. /\ routes' = routes /\ lost' = lost /\ mgr' = mgr /\ rule' = rule /\ lup' = lup
      /\ lalive' = lalive /\ original' = original /\ resolv' = resolv
      /\ ljournal' \subseteq ljournal
      /\ ltodo' = Tail(ltodo) /\ (Linux!Step("forget") \/ Linux!Step("clear"))
  BY DEF Linux!Forget, Linux!Clear, Linux!memory, Linux!names, Linux!kernel, Linux!Finish
<1>2. IsFiniteSet(ljournal')
  BY <1>1, FS_Subset DEF LinuxInv, LinuxTypes
<1>3. LinuxTypes' /\ Steady
  BY <1>1, <1>2 DEF LinuxInv, LinuxTypes, Steady
<1>4. QED BY <1>1, <1>3, QuietStep

LEMMA LinuxResets ==
    ASSUME LinuxInv, Linux!Reset, mech' = mech
    PROVE  LinuxInv'
<1>1. /\ routes' = routes /\ lost' = lost /\ mgr' = mgr /\ rule' = rule /\ lup' = lup
      /\ lalive' = lalive /\ ljournal' = ljournal /\ original' = Linux!NoFile
      /\ resolv' = IF original = Linux!NoFile THEN resolv ELSE original
      /\ ltodo' = Tail(ltodo) /\ Linux!Step("reset")
  BY DEF Linux!Reset, Linux!memory, Linux!kernel, Linux!Finish
<1>2. LinuxTypes' /\ Steady
  BY <1>1 DEF LinuxInv, LinuxTypes, Steady
<1>3. QED BY <1>1, <1>2, QuietStep

(* What is left over is either in the files or lost. *)
LEMMA LinuxCrashes ==
    ASSUME LinuxInv, Linux!Crash
    PROVE  LinuxInv'
<1> DEFINE r1 == [kind |-> "rule", table |-> rule]
<1>1. /\ lalive /\ ~lalive' /\ ltodo' = << >> /\ lup' = {} /\ rule' = rule /\ mech' = mech
      /\ mgr' = [t \in LinuxTunnels |-> Linux!Fresh]
      /\ routes' = {r \in routes : r.kind \in {"throw", "bind"}}
      /\ lost' = lost \cup {r \in Linux!Durable : ~Linux!Recoverable(r)}
      /\ ljournal' = ljournal /\ original' = original /\ resolv' = resolv
  BY DEF Linux!Crash, Linux!files
<1>2. LinuxTypes /\ LinuxAlive
  BY <1>1 DEF LinuxInv
<1>3. Linux!Durable = routes' \cup (IF rule = Linux!NoTable THEN {} ELSE {r1})
  BY <1>1 DEF Linux!Durable
<1>4. /\ r1.kind = "rule"
      /\ (rule # Linux!NoTable => r1 \in [kind : {"rule"}, table : {0} \cup Tables])
  BY <1>2 DEF LinuxTypes
<1> HIDE DEF r1
<1>5. LinuxTypes'
  <2>1. Linux!Fresh \in Managers
    BY DEF Linux!Fresh, Managers
  <2>2. /\ routes' \subseteq {r \in LinuxRoutes : r.kind \in {"throw", "bind"}}
        /\ lost' \subseteq {r \in LinuxRoutes : r.kind \in {"throw", "bind"}}
                              \cup [kind : {"rule"}, table : {0} \cup Tables]
    BY <1>1, <1>2, <1>3, <1>4 DEF LinuxTypes
  <2>3. mgr' \in [LinuxTunnels -> Managers] /\ lup' \subseteq LinuxTunnels /\ lalive' \in BOOLEAN
    <3>1. lalive' = FALSE
      BY DEF Linux!Crash
    <3>2. QED BY <1>1, <2>1, <3>1
  <2>4. /\ ljournal' = ljournal /\ original' = original /\ resolv' = resolv
        /\ rule' = rule /\ mech' = mech
    BY <1>1
  <2>5. QED BY <1>2, <2>2, <2>3, <2>4 DEF LinuxTypes
<1>6. \A r : Linux!Recoverable(r)' <=> Linux!Recoverable(r)
  BY <1>1 DEF Linux!Recoverable
<1>7. LinuxDead'
  <2>1. ASSUME NEW r \in routes'
        PROVE  /\ r.kind \in {"throw", "bind"} /\ (r.kind = "bind" => r.table = 0)
               /\ r \in lost' \/ Linux!Recoverable(r)
    <3>1. r \in routes /\ r.kind \in {"throw", "bind"}
      BY <1>1
    <3>2. Believed(r)
      BY <1>2, <3>1 DEF LinuxAlive
    <3>3. r \in Linux!Durable
      BY <1>3
    <3>4. QED BY <1>1, <3>1, <3>2, <3>3 DEF Believed
  <2>2. rule' = Linux!NoTable \/ RuleLost' \/ Linux!Recoverable(r1)
    <3>1. SUFFICES ASSUME rule # Linux!NoTable, ~Linux!Recoverable(r1) PROVE RuleLost'
      BY <1>1
    <3>2. r1 \in lost'
      BY <1>1, <1>3, <3>1
    <3>3. QED BY <1>4, <3>2 DEF RuleLost
  <2>3. (Linux!Recoverable([kind |-> "rule", table |-> rule]))' <=> Linux!Recoverable(r1)
    BY <1>1 DEF Linux!Recoverable, r1
  <2>4. QED BY <1>6, <2>1, <2>2, <2>3 DEF LinuxDead
<1>8. LinuxPlaces'
  BY <1>1, Ends DEF LinuxPlaces
<1>9. QED BY <1>1, <1>5, <1>7, <1>8 DEF LinuxInv

(* The steps of a recovery. *)
LEMMA RecoveryIs ==
    ASSUME NEW n \in Nat, NEW order \in [1..n -> LinuxTunnels]
    PROVE  /\ Linux!RecoverSteps(order) \in Seq(ClearItems)
           /\ \A a \in ClearNames, t \in LinuxTunnels :
                 <<a, t>> \in StepsIn(Linux!RecoverSteps(order)) =>
                    a \in {"reset", "recover", "restore"}
           /\ \A k \in 1..n, a \in {"reset", "recover", "restore"} :
                 <<a, order[k]>> \in StepsIn(Linux!RecoverSteps(order))
<1> DEFINE names3 == <<"reset", "recover", "restore">>
           item(i) == <<names3[((i - 1) % 3) + 1], order[((i - 1) \div 3) + 1]>>
           q == Linux!RecoverSteps(order)
<1>1. Len(order) = n
  OBVIOUS
<1>2. q = [i \in 1..3 * n |-> item(i)]
  BY <1>1 DEF Linux!RecoverSteps
<1>3. ASSUME NEW i \in 1..3 * n
      PROVE  /\ item(i)[1] \in {"reset", "recover", "restore"}
             /\ item(i)[2] \in LinuxTunnels /\ item(i) = <<item(i)[1], item(i)[2]>>
  <2> DEFINE k == ((i - 1) % 3) + 1
             d == ((i - 1) \div 3) + 1
  <2>1. k \in {1, 2, 3} /\ d \in 1..n
    OBVIOUS
  <2>2. names3[k] \in {"reset", "recover", "restore"}
    <3>1. k = 1 \/ k = 2 \/ k = 3
      BY <2>1
    <3> HIDE DEF k
    <3>2. QED BY <3>1
  <2>3. order[d] \in LinuxTunnels
    <3> HIDE DEF d
    <3>1. QED BY <2>1
  <2>4. QED BY <2>2, <2>3
<1>4. ASSUME NEW k \in 1..n, NEW d \in {0, 1, 2}
      PROVE  /\ 3 * (k - 1) + d + 1 \in 1..3 * n
             /\ item(3 * (k - 1) + d + 1) = <<names3[d + 1], order[k]>>
  <2>1. 3 * (k - 1) + d + 1 \in 1..3 * n
    OBVIOUS
  <2>2. /\ ((3 * (k - 1) + d + 1 - 1) % 3) + 1 = d + 1
        /\ ((3 * (k - 1) + d + 1 - 1) \div 3) + 1 = k
    OBVIOUS
  <2> HIDE DEF names3
  <2>3. QED BY <2>1, <2>2
<1> HIDE DEF q, item
<1>5. \A i \in 1..3 * n : item(i) \in ClearItems
  BY <1>3 DEF ClearItems, ClearNames
<1>6. q \in Seq(ClearItems) /\ Len(q) = 3 * n /\ \A i \in 1..3 * n : q[i] = item(i)
  <2>1. 3 * n \in Nat
    OBVIOUS
  <2>2. QED BY <1>2, <1>5, <2>1
<1>7. ASSUME NEW a \in ClearNames, NEW t \in LinuxTunnels, <<a, t>> \in StepsIn(q)
      PROVE  a \in {"reset", "recover", "restore"}
  <2>1. PICK i \in 1..3 * n : <<a, t>> = item(i)
    BY <1>6, <1>7 DEF StepsIn
  <2>2. QED BY <1>3, <2>1
<1>8. ASSUME NEW k \in 1..n, NEW a \in {"reset", "recover", "restore"}
      PROVE  <<a, order[k]>> \in StepsIn(q)
  <2>1. PICK d \in {0, 1, 2} : names3[d + 1] = a
    <3>1. names3[0 + 1] = "reset" /\ names3[1 + 1] = "recover" /\ names3[2 + 1] = "restore"
      OBVIOUS
    <3> HIDE DEF names3
    <3>2. QED BY <3>1
  <2> HIDE DEF names3
  <2> PICK i \in 1..3 * n : i = 3 * (k - 1) + d + 1
    BY <1>4
  <2>2. item(i) = <<a, order[k]>>
    BY <1>4, <2>1
  <2>3. q[i] = <<a, order[k]>>
    BY <1>6, <2>2
  <2>4. QED BY <1>6, <2>3 DEF StepsIn
<1>9. QED BY <1>6, <1>7, <1>8 DEF q

(* The tunnels on record are as many as they are. *)
LEMMA RecordedFinite ==
    ASSUME LinuxTypes
    PROVE  Linux!Cardinality({j[1] : j \in ljournal}) \in Nat
<1> DEFINE T == {j[1] : j \in ljournal}
           f == [j \in ljournal |-> j[1]]
<1>1. IsFiniteSet(ljournal)
  BY DEF LinuxTypes
<1>2. f \in Surjection(ljournal, T)
  BY DEF Surjection
<1>3. IsFiniteSet(T)
  BY <1>1, <1>2, FS_Surjection
<1>4. Cardinality(T) \in Nat
  BY <1>3, FS_CardinalityType
<1>5. QED BY <1>4 DEF Linux!Cardinality, Cardinality

(* The next process: managers by the files, and what they tell of is ahead. *)
LEMMA LinuxLaunches ==
    ASSUME LinuxInv, Linux!Launch, mech' = mech
    PROVE  LinuxInv'
<1> DEFINE recorded == {j[1] : j \in ljournal}
           n == Linux!Cardinality(recorded)
<1>1. /\ ~lalive /\ lalive' = TRUE /\ routes' = routes /\ rule' = rule /\ lup' = lup
      /\ lost' = lost /\ ljournal' = ljournal /\ original' = original /\ resolv' = resolv
      /\ mgr' = [t \in LinuxTunnels |->
                   IF \E j \in ljournal : j[1] = t
                   THEN Linux!Recovered(CHOOSE j \in ljournal : j[1] = t) ELSE Linux!Fresh]
  BY DEF Linux!Launch, Linux!kernel, Linux!names, Linux!files
<1>2. LinuxTypes /\ LinuxDead /\ lup = {}
  BY <1>1 DEF LinuxInv, LinuxPlaces
<1>3. PICK order \in [1..n -> recorded] :
         /\ recorded = {order[i] : i \in 1..n}
         /\ ltodo' = Linux!RecoverSteps(order)
                        \o (IF n = 0 THEN <<>> ELSE <<<<"clear", order[1]>>>>)
  BY DEF Linux!Launch
<1>4. n \in Nat /\ recorded \subseteq LinuxTunnels
  BY <1>2, RecordedFinite DEF LinuxTypes
<1> PICK m \in Nat : m = n
  BY <1>4
<1>5. order \in [1..m -> LinuxTunnels]
  BY <1>3, <1>4
<1> DEFINE q == Linux!RecoverSteps(order)
           c == IF m = 0 THEN <<>> ELSE <<<<"clear", order[1]>>>>
<1>6. /\ q \in Seq(ClearItems)
      /\ \A a \in ClearNames, t \in LinuxTunnels :
            <<a, t>> \in StepsIn(q) => a \in {"reset", "recover", "restore"}
      /\ \A k \in 1..m : <<"recover", order[k]>> \in StepsIn(q)
  BY <1>5, RecoveryIs
<1>7. c \in Seq(ClearItems) /\ \A a, t : <<a, t>> \in StepsIn(c) => a = "clear"
  <2>1. CASE m = 0
    <3>1. << >> \in Seq(ClearItems) /\ StepsIn(<< >>) = {}
      <4>1. << >> \in Seq(ClearItems)
        OBVIOUS
      <4>2. QED BY <4>1, StepsFrom
    <3>2. QED BY <2>1, <3>1
  <2>2. CASE m # 0
    <3> DEFINE x == <<"clear", order[1]>>
               w == <<x>>
    <3>1. x \in ClearItems
      BY <1>5, <2>2 DEF ClearItems, ClearNames
    <3> HIDE DEF x
    <3>2. w \in Seq(ClearItems) /\ Len(w) = 1 /\ w[1] = x
      BY <3>1
    <3>3. StepsIn(w) = {x}
      <4>1. 1..1 = {1}
        OBVIOUS
      <4> HIDE DEF w
      <4>2. QED BY <3>2, <4>1 DEF StepsIn
    <3>4. QED BY <2>2, <3>2, <3>3 DEF x
  <2>3. QED BY <2>1, <2>2
<1>8. ltodo' = q \o c
  BY <1>3
<1> HIDE DEF q, c, n
<1>9. /\ Clearing' /\ \A t \in LinuxTunnels : ~Coming(t)'
      /\ Pending' = StepsIn(q) \cup StepsIn(c)
  <2>1. q \o c \in Seq(ClearItems) /\ StepsIn(q \o c) = StepsIn(q) \cup StepsIn(c)
    BY <1>6, <1>7, StepsBehind
  <2>2. QED BY <1>8, <2>1, Begins
<1>10. \A t \in recorded : Ahead("recover", t)'
  <2>1. SUFFICES ASSUME NEW t \in recorded PROVE Ahead("recover", t)'
    OBVIOUS
  <2>2. PICK k \in 1..m : t = order[k]
    BY <1>3
  <2>3. <<"recover", t>> \in StepsIn(q)
    BY <1>6, <2>2
  <2>4. QED BY <1>9, <2>3 DEF Ahead
<1>11. ASSUME NEW j \in ljournal
       PROVE  /\ j[1] \in LinuxTunnels /\ j[2] \in BOOLEAN
              /\ mgr'[j[1]] = Linux!Recovered(j)
  <2>1. j[1] \in LinuxTunnels /\ j[2] \in BOOLEAN
    BY <1>2 DEF LinuxTypes
  <2>2. \A k \in ljournal : k[1] = j[1] => k = j
    BY <1>2 DEF LinuxTypes
  <2>3. (CHOOSE k \in ljournal : k[1] = j[1]) = j
    BY <2>2
  <2>4. QED BY <1>1, <2>1, <2>3
<1>12. ASSUME NEW t \in LinuxTunnels
       PROVE  \/ mgr'[t] = Linux!Fresh
              \/ \E j \in ljournal : j[1] = t /\ mgr'[t] = Linux!Recovered(j)
  <2>1. CASE \E j \in ljournal : j[1] = t
    BY <1>11, <2>1
  <2>2. CASE ~\E j \in ljournal : j[1] = t
    BY <1>1, <2>2
  <2>3. QED BY <2>1, <2>2
<1>13. ASSUME NEW j \in ljournal
       PROVE  /\ Linux!Recovered(j) \in Managers
              /\ Linux!Recovered(j).set = (TableCfg[j[1]] # AutoTable)
              /\ Linux!Recovered(j).table =
                    (IF TableCfg[j[1]] = AutoTable THEN 0 ELSE TableCfg[j[1]])
              /\ Linux!Recovered(j).throws = j[2] /\ Linux!Recovered(j).binds = FALSE
  <2>1. j[1] \in LinuxTunnels /\ j[2] \in BOOLEAN
    BY <1>11
  <2>2. TableCfg[j[1]] \in Tables \cup {AutoTable, Linux!Off}
    BY <2>1, LinuxAssumption
  <2>3. Linux!Fresh \in Managers /\ Linux!Fresh.binds = FALSE
    BY DEF Linux!Fresh, Managers
  <2> PICK f \in Managers : f = Linux!Fresh /\ f.binds = FALSE
    BY <2>3
  <2> PICK a \in BOOLEAN : a = (TableCfg[j[1]] # AutoTable)
    OBVIOUS
  <2> PICK b \in {Linux!Off, 0} \cup Tables :
              b = IF TableCfg[j[1]] = AutoTable THEN 0 ELSE TableCfg[j[1]]
    BY <2>2
  <2> PICK d \in BOOLEAN : d = j[2]
    BY <2>1
  <2> DEFINE x == Linux!Recovered(j)
  <2>4. x = [f EXCEPT !.set = a, !.table = b, !.throws = d]
    BY DEF Linux!Recovered
  <2> HIDE DEF x
  <2>5. x \in Managers /\ x.set = a /\ x.table = b /\ x.throws = d /\ x.binds = f.binds
    <3> DEFINE T == {Linux!Off, 0} \cup Tables
    <3>1. b \in T
      OBVIOUS
    <3>2. Managers = [set : BOOLEAN, table : T, throws : BOOLEAN, binds : BOOLEAN,
                      captured : BOOLEAN, orig : SUBSET LinuxTunnels]
      BY DEF Managers
    <3> HIDE DEF T
    <3>3. QED BY ONLY <2>4, <3>1, <3>2, f \in Managers, a \in BOOLEAN, d \in BOOLEAN
  <2>6. QED BY <2>5 DEF x
<1>14. Linux!Fresh \in Managers
  BY DEF Linux!Fresh, Managers
<1>15. LinuxTypes'
  <2>1. mgr' \in [LinuxTunnels -> Managers]
    <3>1. \A t \in LinuxTunnels : mgr'[t] \in Managers
      BY <1>12, <1>13, <1>14
    <3>2. QED BY <1>1, <3>1
  <2>2. lalive' \in BOOLEAN
    BY <1>1
  <2>3. QED BY <1>1, <1>2, <2>1, <2>2 DEF LinuxTypes
<1>16. LinuxPlaces'
  BY <1>1, <1>9 DEF LinuxPlaces
<1>17. \A r \in routes' : Believed(r)' /\ (r \in lost' \/ Claimed(r)')
  <2>1. SUFFICES ASSUME NEW r \in routes PROVE Believed(r)' /\ (r \in lost \/ Claimed(r)')
    BY <1>1
  <2>2. /\ r.of \in LinuxTunnels /\ r.kind \in {"throw", "bind"}
        /\ r.kind = "bind" => r.table = 0
        /\ r \in lost \/ Linux!Recoverable(r)
    BY <1>2 DEF LinuxDead, LinuxTypes, LinuxRoutes
  <2>3. CASE r \in lost
    BY <1>1, <2>2, <2>3 DEF Believed
  <2>4. CASE r \notin lost
    <3>1. PICK j \in ljournal :
             /\ j[1] = r.of /\ r.kind = "throw" /\ j[2] /\ j[1] \in LinuxFull
             /\ r.table = (IF TableCfg[j[1]] = AutoTable THEN Linux!Base ELSE TableCfg[j[1]])
      BY <2>2, <2>4 DEF Linux!Recoverable
    <3>2. Believed(r)'
      <4>1. mgr'[r.of] = Linux!Recovered(j)
        BY <1>11, <3>1
      <4>2. /\ mgr'[r.of].set <=> TableCfg[j[1]] # AutoTable
            /\ mgr'[r.of].table = (IF TableCfg[j[1]] = AutoTable THEN 0 ELSE TableCfg[j[1]])
            /\ mgr'[r.of].throws
        BY <1>13, <3>1, <4>1
      <4>3. r.table = IF mgr'[r.of].set THEN mgr'[r.of].table ELSE Linux!Base
        BY <3>1, <4>2
      <4>4. QED BY <3>1, <4>2, <4>3 DEF Believed
    <3>3. Claimed(r)'
      BY <1>10, <3>1 DEF Claimed
    <3>4. QED BY <3>2, <3>3
  <2>5. QED BY <2>3, <2>4
<1>18. LinuxManagers'
  <2>1. SUFFICES ASSUME NEW t \in LinuxTunnels
        PROVE  /\ mgr'[t].table = Linux!Off => TableCfg[t] = Linux!Off /\ ~mgr'[t].binds
               /\ ~Placed(t)' /\ ~Coming(t)'
    BY DEF LinuxManagers
  <2>2. ~Placed(t)' /\ ~Coming(t)'
    BY <1>1, <1>2, <1>9 DEF Placed
  <2>3. CASE mgr'[t] = Linux!Fresh
    BY <2>2, <2>3 DEF Linux!Fresh, Linux!Off
  <2>4. CASE \E j \in ljournal : j[1] = t /\ mgr'[t] = Linux!Recovered(j)
    <3>1. PICK j \in ljournal : j[1] = t /\ mgr'[t] = Linux!Recovered(j)
      BY <2>4
    <3>2. /\ mgr'[t].table = (IF TableCfg[t] = AutoTable THEN 0 ELSE TableCfg[t])
          /\ mgr'[t].binds = FALSE
      BY <1>13, <3>1
    <3>3. QED BY <2>2, <3>2 DEF Linux!Off
  <2>5. QED BY <1>12, <2>3, <2>4
<1>19. LinuxApart'
  BY <1>1, <1>2, <1>9, LinuxAssumption DEF LinuxApart
<1>20. LinuxRule'
  <2>1. \A t \in LinuxTunnels : ~RulesTable(t)'
    BY <1>1, <1>2, <1>9 DEF RulesTable
  <2>2. RuleLost' <=> RuleLost
    BY <1>1 DEF RuleLost
  <2>3. CASE rule = Linux!NoTable \/ RuleLost
    BY <1>1, <2>1, <2>2, <2>3 DEF LinuxRule
  <2>4. CASE Linux!Recoverable([kind |-> "rule", table |-> rule])
    <3>1. PICK j \in ljournal : j[1] \in LinuxFull /\ TableCfg[j[1]] # Linux!Off
      BY <2>4 DEF Linux!Recoverable
    <3>2. Ahead("recover", j[1])'
      BY <1>10, <3>1
    <3>3. QED BY <3>1, <3>2 DEF LinuxRule
  <2>5. QED BY <1>2, <2>3, <2>4 DEF LinuxDead
<1>21. QED BY <1>1, <1>15, <1>16, <1>17, <1>18, <1>19, <1>20 DEF LinuxInv, LinuxAlive

-----------------------------------------------------------------------------
(* The invariant of the Linux part, step by step. *)
LEMMA LinuxKept ==
    ASSUME LinuxInv, [Linux!Next]_lvars
    PROVE  LinuxInv'
<1>1. CASE \E t \in LinuxTunnels : Linux!Connect(t) \/ Linux!Disconnect(t)
  BY <1>1, LinuxConnects, LinuxDisconnects
<1>2. CASE Linux!Crash
  BY <1>2, LinuxCrashes
<1>3. CASE Linux!Launch
  <2>1. mech' = mech
    BY <1>3 DEF Linux!Launch
  <2>2. QED BY <1>3, <2>1, LinuxLaunches
<1>4. CASE Linux!Steps /\ mech' = mech
  <2>1. CASE Linux!Link \/ Linux!Table \/ Linux!Rule \/ Linux!Endpoint \/ Linux!Checkpoint
    BY <1>4, <2>1, LinuxLinks, LinuxTables, LinuxRules, LinuxEndpoints, LinuxCheckpoints
  <2>2. CASE Linux!Default \/ Linux!Split
    <3> PICK a \in {"default", "split"}, b \in {"default", "split"} : a = "default" /\ b = "split"
      OBVIOUS
    <3>1. (Linux!Step(a) /\ Linux!Add(a)) \/ (Linux!Step(b) /\ Linux!Add(b))
      BY <2>2 DEF Linux!Default, Linux!Split
    <3>2. QED BY <1>4, <3>1, LinuxAdds
  <2>3. CASE Linux!Capture \/ Linux!SetDNS \/ Linux!Up
    BY <1>4, <2>3, LinuxCaptures, LinuxServes, LinuxRises
  <2>4. CASE Linux!RemoveRoutes \/ Linux!RemoveBinds \/ Linux!RemoveRule
    BY <1>4, <2>4, LinuxUnroutes, LinuxUnbinds, LinuxUnrules
  <2>5. CASE Linux!Close \/ Linux!Restore \/ Linux!Cleanup \/ Linux!Reapply
    BY <1>4, <2>5, LinuxCloses, LinuxRestores, LinuxCleansUp, LinuxReapplies
  <2>6. CASE Linux!Forget \/ Linux!Reset \/ Linux!Recover \/ Linux!Clear
    BY <1>4, <2>6, LinuxForgets, LinuxResets, LinuxRecovers
  <2>7. QED BY <1>4, <2>1, <2>2, <2>3, <2>4, <2>5, <2>6 DEF Linux!Steps
<1>5. CASE UNCHANGED lvars
  <2>1. /\ UNCHANGED <<mech, routes, rule, lup, mgr, resolv, ljournal, original, lost>>
        /\ UNCHANGED <<lalive, ltodo>>
    BY <1>5 DEF lvars
  <2>2. LinuxTypes' /\ Steady
    BY <2>1 DEF LinuxInv, LinuxTypes, Steady
  <2>3. \A t : Coming(t)' <=> Coming(t)
    BY <2>1 DEF Coming
  <2>4. /\ (Clearing' <=> Clearing) /\ FirstStep' = FirstStep
        /\ \A n, t : Ahead(n, t)' <=> Ahead(n, t)
    BY <2>1 DEF Clearing, FirstStep, Ahead, Pending, StepsIn
  <2>5. LinuxPlaces'
    BY <2>1, <2>3, <2>4 DEF LinuxInv, LinuxPlaces
  <2>6. lalive => LinuxAlive'
    <3>1. SUFFICES ASSUME lalive PROVE LinuxAlive'
      OBVIOUS
    <3>2. LinuxTypes /\ LinuxAlive
      BY <3>1 DEF LinuxInv
    <3>3. \A t \in LinuxTunnels :
             /\ \A n \in ClearNames \ {"capture", "reapply"} : Ahead(n, t)' => t \notin lup
             /\ \A n \in {"reset", "recover", "clear"} : Ahead(n, t)' => lup = {}
      BY <2>4, <3>2 DEF LinuxAlive, LinuxApart
    <3>4. QED BY <2>2, <2>3, <2>4, <3>2, <3>3, RoutingFrame
  <2>7. ~lalive => LinuxDead'
    <3>1. \A r : Linux!Recoverable(r)' <=> Linux!Recoverable(r)
      BY <2>1 DEF Linux!Recoverable
    <3>2. (Linux!Recoverable([kind |-> "rule", table |-> rule]))'
             <=> Linux!Recoverable([kind |-> "rule", table |-> rule])
      BY <2>1 DEF Linux!Recoverable
    <3>3. RuleLost' <=> RuleLost
      BY <2>1 DEF RuleLost
    <3>4. QED BY <2>1, <3>1, <3>2, <3>3 DEF LinuxInv, LinuxDead
  <2>8. QED BY <2>1, <2>2, <2>5, <2>6, <2>7 DEF LinuxInv
<1>6. QED BY <1>1, <1>2, <1>3, <1>4, <1>5 DEF Linux!Next

(* Between two operations. *)
LEMMA LinuxAtRest ==
    ASSUME LinuxInv, Linux!Settled
    PROVE  Linux!RoutesExact
<1>1. lalive /\ ltodo = << >>
  BY DEF Linux!Settled
<1>2. LinuxTypes /\ LinuxAlive
  BY <1>1 DEF LinuxInv
<1>3. Pending = {} /\ \A t \in LinuxTunnels : ~Coming(t)
  BY <1>1, AtRest
<1>4. \A n, t : ~Ahead(n, t)
  BY <1>3 DEF Ahead
<1>5. \A t \in lup : t \in LinuxTunnels /\ mgr[t].set /\ Linux!Needed(t) \ lost \subseteq routes
  BY <1>2 DEF LinuxTypes, LinuxAlive, LinuxManagers, Placed
<1>6. ASSUME NEW r \in routes, r \notin lost PROVE \E t \in lup : r \in Linux!Needed(t)
  <2> DEFINE t == r.of
  <2>1. /\ r \in LinuxRoutes /\ t \in LinuxTunnels /\ r.table \in {0} \cup Tables
        /\ r.kind \in {"default", "split", "throw", "bind"}
        /\ r = [kind |-> r.kind, of |-> r.of, table |-> r.table]
    BY <1>2 DEF LinuxTypes, LinuxRoutes
  <2>2. Believed(r) /\ Claimed(r)
    BY <1>2, <1>6 DEF LinuxAlive
  <2>3. t \in lup /\ mgr[t].set
    BY <1>3, <1>4, <1>5, <2>1, <2>2 DEF Claimed
  <2>4. r.kind # "bind" => r.table = mgr[t].table
    BY <1>6, <2>1, <2>2, <2>3 DEF Believed
  <2>5. mgr[t].table # Linux!Off
    <3>1. mgr[t].table = Linux!Off => ~mgr[t].binds
      BY <1>2, <2>1 DEF LinuxAlive, LinuxManagers
    <3>2. Linux!Off \notin {0} \cup Tables
      BY LinuxAssumption DEF Linux!Off
    <3>3. QED BY <1>6, <2>1, <2>2, <2>4, <3>1, <3>2 DEF Believed
  <2>6. r = Linux!Route(r.kind, t, IF r.kind = "bind" THEN 0 ELSE mgr[t].table)
    BY <2>1, <2>2, <2>4 DEF Linux!Route, Believed
  <2>7. r \in Linux!Needed(t)
    BY <1>6, <2>1, <2>2, <2>5, <2>6 DEF Linux!Needed, Believed
  <2>8. QED BY <2>3, <2>7
<1>7. routes \ lost = (UNION {Linux!Needed(t) : t \in lup}) \ lost
  BY <1>5, <1>6
<1>8. \A t : RulesTable(t) <=> t \in lup \cap LinuxFull /\ mgr[t].table # Linux!Off
  <2>1. LinuxFull \subseteq LinuxTunnels
    BY LinuxAssumption
  <2>2. QED BY <1>3, <2>1 DEF RulesTable
<1> DEFINE routed == {t \in lup \cap LinuxFull : mgr[t].table # Linux!Off}
<1>9. \/ \E l \in lost : l.kind = "rule"
      \/ routed = {} /\ rule = Linux!NoTable
      \/ \E t \in routed : rule = mgr[t].table
  <2>1. \/ RuleLost
        \/ rule = Linux!NoTable /\ \A t \in LinuxTunnels : ~RulesTable(t)
        \/ \E t \in LinuxTunnels : RulesTable(t) /\ rule = mgr[t].table
    BY <1>2, <1>4 DEF LinuxAlive, LinuxRule
  <2>2. lup \subseteq LinuxTunnels
    BY <1>2 DEF LinuxTypes
  <2>3. QED BY <1>8, <2>1, <2>2 DEF RuleLost
<1>10. QED BY <1>7, <1>9 DEF Linux!RoutesExact

(* A step of the whole is one of the Linux part, or leaves it as it is. *)
LEMMA LinuxStays ==
    ASSUME LinuxInv, [MCNext]_all
    PROVE  LinuxInv'
<1>1. [Linux!Next]_lvars
  BY DEF MCNext, SystemNext, all
<1>2. QED BY <1>1, LinuxKept

(* Between two operations on Linux the kernel has the routes of the connected  *)
(* tunnels, all of them and in the table their rule leads to, and nothing else *)
(* but what a crash left that no file told of: no failed connect, disconnect   *)
(* of a neighbour, crash or recovery takes a route that is needed, or leaves   *)
(* one that is not.  It is so for any tunnels and tables, full ones, pinned    *)
(* ones and ones that route nothing among them.                                *)
(* (network/linux.go AddRoutes, RemoveRoutes, Cleanup, findFreeTable,          *)
(* tunnel/recovery.go RecoverFromCrash)                                        *)
THEOREM RoutesAreExact == MCSpec => []RoutesExact
<1>1. MCInit => LinuxInv
  BY LinuxInitially DEF MCInit
<1>2. LinuxInv /\ [MCNext]_all => LinuxInv'
  BY LinuxStays
<1>3. LinuxInv => RoutesExact
  <2>1. LinuxInv /\ Linux!Settled => Linux!RoutesExact
    BY LinuxAtRest
  <2>2. ~Linux!Settled => Linux!RoutesExact
    BY DEF Linux!RoutesExact
  <2>3. QED BY <2>1, <2>2 DEF RoutesExact
<1>4. QED BY <1>1, <1>2, <1>3, PTL DEF MCSpec, all

-----------------------------------------------------------------------------
(* Names: which tunnels' servers are where. *)

(* The step that takes an operation's files away is its last one. *)
EndsLast(q) == \A i \in 1..Len(q) : q[i][1] \in {"forget", "clear"} => i = Len(q)

Recorded(t) == \E j \in ljournal : j[1] = t
Served(t) == t \in lup \/ (Coming(t) /\ FirstStep = "up")

LinksKept ==
    /\ linkDNS \in [LinuxTunnels -> SUBSET LinuxTunnels]
    /\ links \subseteq LinuxTunnels /\ lup \subseteq links
    /\ ~lalive => links = {}
    /\ \A t \in LinuxTunnels : Coming(t) /\ FirstStep # "link" => t \in links
    /\ mech = "resolved" => \A t \in LinuxTunnels \ links : linkDNS[t] = {}

StepsFit ==
    /\ Clearing => EndsLast(ltodo)
    /\ \A n \in {"capture", "reapply"}, t \in LinuxTunnels : Ahead(n, t) => t \in lup
    /\ \A t \in LinuxTunnels :
          /\ Coming(t) /\ FirstStep \in {"capture", "setdns", "up"} => Recorded(t)
          /\ Coming(t) /\ FirstStep \notin {"setdns", "up"} => ~mgr[t].captured

(* Without a link for each, the tunnels come one after another. *)
Single == mech # "resolved" => (\A t, u \in lup : t = u) /\ (ltodo # << >> => lup = {})

(* A link, or a record, has no servers but those of connected tunnels, or a    *)
(* step is ahead that sees to it.                                              *)
Sound(t) ==
    \/ Served(t) /\ linkDNS[t] \subseteq (lup \cup {t}) \cap LinuxDNS
    \/ ~Served(t) /\ linkDNS[t] = {}
    \/ t \in lup /\ (Ahead("reapply", t) \/ \E u \in LinuxTunnels : Ahead("cleanup", u))
    \/ Ahead("restore", t)
    \/ mech = "resolved" /\ Ahead("close", t)
    \/ mech = "resolvconf" /\ Ahead("cleanup", t)

LinkNames ==
    /\ mech = "resolvconf" => \A t \in LinuxTunnels : linkDNS[t] # {} => Recorded(t)
    /\ lalive => \A t \in LinuxTunnels : Sound(t)
    /\ \A t \in LinuxTunnels \cap LinuxDNS : Served(t) => t \in linkDNS[t]

(* The same of resolv.conf, whose original is the user's own. *)
OneFile ==
    /\ original \in {Linux!NoFile, {}} /\ \A t \in LinuxTunnels : mgr[t].orig = {}
    /\ resolv # {} => original = {} /\ ljournal # {}
    /\ \A t \in LinuxTunnels : Coming(t) =>
          /\ resolv = IF FirstStep = "up" THEN {t} \cap LinuxDNS ELSE {}
          /\ FirstStep = "setdns" => original = {}
    /\ lalive /\ Clearing =>
          \/ resolv = lup \cap LinuxDNS
          \/ \E n \in {"restore", "cleanup", "reset"}, t \in LinuxTunnels : Ahead(n, t)

NamesApart == Single /\ (mech # "file" => LinkNames) /\ (mech = "file" => OneFile)
NamesInv == LinksKept /\ StepsFit /\ (~overlapped => NamesApart)

-----------------------------------------------------------------------------
(* The last step, in what is left of a list and in a longer one. *)
Lasting == {"forget", "clear"}

LEMMA LastOfRest ==
    ASSUME NEW q \in Seq(ClearItems), q # << >>, EndsLast(q)
    PROVE  EndsLast(Tail(q)) /\ (Head(q)[1] \in Lasting => Tail(q) = << >>)
<1> DEFINE r == Tail(q)
<1>1. Len(q) \in Nat /\ Len(q) >= 1 /\ r \in Seq(ClearItems) /\ Len(r) = Len(q) - 1
      /\ \A i \in 1..Len(r) : i + 1 \in 1..Len(q) /\ r[i] = q[i + 1]
  OBVIOUS
<1>2. Head(q) = q[1] /\ (Len(r) = 0 => r = << >>)
  BY <1>1
<1> HIDE DEF r
<1>3. EndsLast(r)
  BY <1>1 DEF EndsLast
<1>4. q[1][1] \in Lasting => 1 = Len(q)
  BY <1>1 DEF EndsLast, Lasting
<1>5. QED BY <1>1, <1>2, <1>3, <1>4 DEF r

LEMMA LastBehind ==
    ASSUME NEW a \in Seq(ClearItems), NEW b \in Seq(ClearItems), EndsLast(b),
           \A x \in StepsIn(a) : x[1] \notin Lasting
    PROVE  EndsLast(a \o b)
<1> DEFINE w == a \o b
<1>1. /\ Len(w) = Len(a) + Len(b) /\ Len(a) \in Nat /\ Len(b) \in Nat
      /\ \A i \in 1..Len(a) : w[i] = a[i]
      /\ \A i \in 1..Len(b) : w[Len(a) + i] = b[i]
  BY Behind
<1> HIDE DEF w
<1>2. SUFFICES ASSUME NEW i \in 1..Len(w), w[i][1] \in Lasting PROVE i = Len(w)
  BY DEF EndsLast, Lasting, w
<1>3. i \notin 1..Len(a)
  BY <1>1, <1>2 DEF StepsIn
<1> DEFINE k == i - Len(a)
<1>4. k \in 1..Len(b) /\ Len(a) + k = i
  BY <1>1, <1>3
<1> HIDE DEF k
<1>5. b[k][1] \in Lasting
  BY <1>1, <1>2, <1>4
<1>6. k = Len(b)
  BY <1>4, <1>5 DEF EndsLast, Lasting
<1>7. QED BY <1>1, <1>4, <1>6

LEMMA NoneLast ==
    ASSUME NEW q \in Seq(ClearItems), \A x \in StepsIn(q) : x[1] \notin Lasting
    PROVE  EndsLast(q)
BY DEF EndsLast, StepsIn, Lasting

(* Removals and rollbacks take no file away; disconnects do at last. *)
LEMMA RemovalsLast ==
    ASSUME NEW t \in LinuxTunnels
    PROVE  /\ \A x \in StepsIn(Linux!RemoveSteps(t)) : x[1] \notin Lasting
           /\ EndsLast(Linux!Rollback(t)) /\ EndsLast(Linux!DisconnectSteps(t))
<1>1. /\ Linux!RemoveSteps(t) \in Seq(ClearItems)
      /\ StepsIn(Linux!RemoveSteps(t)) = RemovesIn(t)
      /\ Linux!Rollback(t) \in Seq(ClearItems)
      /\ StepsIn(Linux!Rollback(t)) = RemovesIn(t) \cup {<<"restore", t>>, <<"close", t>>}
  BY Removals
<1>2. \A x \in RemovesIn(t) : x[1] \notin Lasting
  BY DEF RemovesIn, Lasting
<1>3. EndsLast(Linux!Rollback(t))
  BY <1>1, <1>2, NoneLast DEF Lasting
<1>4. /\ Linux!For(t, <<"close", "cleanup", "forget">>) \in Seq(ClearItems)
      /\ EndsLast(Linux!For(t, <<"close", "cleanup", "forget">>))
  <2> PICK a \in ClearNames, b \in ClearNames, c \in ClearNames :
          a = "close" /\ b = "cleanup" /\ c = "forget"
    BY DEF ClearNames
  <2>1. Linux!For(t, <<a, b, c>>) \in Seq(ClearItems)
    BY ClearTriple
  <2> DEFINE s == <<a, b, c>>
             w == Linux!For(t, s)
  <2>2. /\ s \in Seq(ClearNames) /\ Len(s) = 3 /\ s[1] = a /\ s[2] = b /\ s[3] = c
    OBVIOUS
  <2> HIDE DEF s
  <2>3. Len(w) = 3 /\ \A i \in 1..3 : w[i] = <<s[i], t>>
    BY <2>2 DEF Linux!For
  <2> HIDE DEF w
  <2>4. \A i \in 1..3 : i = 1 \/ i = 2 \/ i = 3
    OBVIOUS
  <2>5. EndsLast(w)
    BY <2>2, <2>3, <2>4 DEF EndsLast
  <2>6. QED BY <2>1, <2>5 DEF w, s
<1>5. EndsLast(Linux!DisconnectSteps(t))
  BY <1>1, <1>2, <1>4, LastBehind DEF Linux!DisconnectSteps
<1>6. QED BY <1>1, <1>2, <1>3, <1>5

-----------------------------------------------------------------------------
(* A step that changes no names, and goes on with what is to be done about     *)
(* them.                                                                       *)
Quiet ==
    /\ mech' = mech /\ lalive' = lalive /\ lup' = lup
    /\ linkDNS' = linkDNS /\ resolv' = resolv /\ original' = original
    /\ overlapped' = overlapped
    /\ \A t \in LinuxTunnels :
          mgr'[t].captured = mgr[t].captured /\ mgr'[t].orig = mgr[t].orig
    /\ \A t \in LinuxTunnels : Recorded(t) => Recorded(t)'

LEMMA NamesFrame ==
    ASSUME LinuxTypes, Quiet, NamesApart, LinksKept, ltodo # << >>,
           \A t \in LinuxTunnels :
              /\ Served(t) => Served(t)'
              /\ Served(t)' => Served(t) \/ t \notin LinuxDNS
              /\ Coming(t)' =>
                    /\ Coming(t) /\ (FirstStep = "up" => FirstStep' = "up")
                    /\ FirstStep' = "up" => FirstStep = "up" \/ t \notin LinuxDNS
                    /\ FirstStep' = "setdns" => FirstStep = "setdns" \/ mech # "file"
              /\ \A n \in {"restore", "close", "cleanup", "reset", "reapply"} :
                    Ahead(n, t) => Ahead(n, t)',
           Clearing' => Clearing
    PROVE  NamesApart'
<1>1. Single'
  BY DEF Single, NamesApart, Quiet
<1>2. ljournal # {} => ljournal' # {}
  <2>1. SUFFICES ASSUME NEW j \in ljournal PROVE ljournal' # {}
    OBVIOUS
  <2>2. j[1] \in LinuxTunnels /\ Recorded(j[1])
    BY DEF LinuxTypes, Recorded
  <2>3. Recorded(j[1])'
    BY <2>2 DEF Quiet
  <2>4. QED BY <2>3 DEF Recorded
<1>3. ASSUME mech # "file", LinkNames PROVE LinkNames'
  <2>1. ASSUME NEW t \in LinuxTunnels, Sound(t) PROVE Sound(t)'
    <3>1. /\ mech' = mech /\ lup' = lup /\ linkDNS'[t] = linkDNS[t]
          /\ (Served(t) => Served(t)') /\ (Served(t)' => Served(t) \/ t \notin LinuxDNS)
          /\ (Ahead("restore", t) => Ahead("restore", t)')
          /\ (Ahead("close", t) => Ahead("close", t)')
          /\ (Ahead("reapply", t) => Ahead("reapply", t)')
          /\ \A u \in LinuxTunnels : Ahead("cleanup", u) => Ahead("cleanup", u)'
      BY DEF Quiet
    <3>2. linkDNS[t] = {} => linkDNS[t] \subseteq (lup \cup {t}) \cap LinuxDNS
      OBVIOUS
    <3>3. QED BY <2>1, <3>1, <3>2 DEF Sound
  <2>2. \A t \in LinuxTunnels \cap LinuxDNS : Served(t)' => t \in linkDNS'[t]
    BY <1>3 DEF LinkNames, Quiet
  <2>3. mech' = "resolvconf" => \A t \in LinuxTunnels : linkDNS'[t] # {} => Recorded(t)'
    BY <1>3 DEF LinkNames, Quiet
  <2>4. lalive' => \A t \in LinuxTunnels : Sound(t)'
    BY <1>3, <2>1 DEF LinkNames, Quiet
  <2>5. QED BY <2>2, <2>3, <2>4 DEF LinkNames
<1>4. ASSUME mech = "file", OneFile PROVE OneFile'
  <2>1. /\ original' \in {Linux!NoFile, {}} /\ \A t \in LinuxTunnels : mgr'[t].orig = {}
        /\ resolv' # {} => original' = {} /\ ljournal' # {}
    BY <1>2, <1>4 DEF OneFile, Quiet, Linux!NoFile
  <2>2. ASSUME NEW t \in LinuxTunnels, Coming(t)'
        PROVE  /\ resolv' = IF FirstStep' = "up" THEN {t} \cap LinuxDNS ELSE {}
               /\ FirstStep' = "setdns" => original' = {}
    <3>1. /\ Coming(t) /\ (FirstStep = "up" => FirstStep' = "up")
          /\ FirstStep' = "up" => FirstStep = "up" \/ t \notin LinuxDNS
          /\ FirstStep' = "setdns" => FirstStep = "setdns"
      BY <1>4, <2>2
    <3>2. /\ resolv = IF FirstStep = "up" THEN {t} \cap LinuxDNS ELSE {}
          /\ FirstStep = "setdns" => original = {}
      BY <1>4, <3>1 DEF OneFile
    <3>3. resolv' = resolv /\ original' = original
      BY DEF Quiet
    <3>4. t \notin LinuxDNS => {t} \cap LinuxDNS = {}
      OBVIOUS
    <3>5. QED BY <3>1, <3>2, <3>3, <3>4
  <2>3. ASSUME lalive', Clearing'
        PROVE  \/ resolv' = lup' \cap LinuxDNS
               \/ \E n \in {"restore", "cleanup", "reset"}, t \in LinuxTunnels : Ahead(n, t)'
    <3>1. \/ resolv = lup \cap LinuxDNS
          \/ \E n \in {"restore", "cleanup", "reset"}, t \in LinuxTunnels : Ahead(n, t)
      BY <1>4, <2>3 DEF OneFile, Quiet
    <3>2. QED BY <3>1 DEF Quiet
  <2>4. QED BY <2>1, <2>2, <2>3 DEF OneFile
<1>5. mech' = mech
  BY DEF Quiet
<1>6. QED BY <1>1, <1>3, <1>4, <1>5 DEF NamesApart

(* A step of a connect, until its servers are set. *)
LEMMA ConnectsOn ==
    ASSUME LinuxInv, NamesInv, NEW t \in LinuxTunnels, Coming(t), ltodo' = Tail(ltodo), Quiet,
           \/ FirstStep = "link" /\ links' = links \cup {t}
           \/ FirstStep \in {"table", "default", "split", "rule", "endpoint", "checkpoint"}
                 /\ links' = links,
           FirstStep = "checkpoint" => Recorded(t)', lalive
    PROVE  NamesInv'
<1>1. /\ LinuxTypes /\ LinksKept /\ StepsFit /\ ltodo # << >> /\ Pending = {}
      /\ \A u \in LinuxTunnels : Coming(u) => u = t
  BY StagesAre, OneOrOther DEF LinuxInv, NamesInv
<1>2. /\ Coming(t)' /\ FirstStep # "up" /\ FirstStep # "setdns" /\ FirstStep # "capture"
      /\ FirstStep' \notin {"link", "setdns"}
      /\ FirstStep' \in {"capture", "up"} => FirstStep = "checkpoint"
      /\ FirstStep' = "up" => t \notin LinuxDNS
  <2>1. FirstStep \in {"link", "table", "default", "split", "rule", "endpoint", "checkpoint"}
    OBVIOUS
  <2>2. QED BY <2>1, ConnectMoves
<1>3. (~Clearing)' /\ Pending' = {} /\ \A u \in LinuxTunnels : Coming(u)' => u = t
  BY <1>2, ThenOneOrOther
<1>4. LinksKept'
  <2>1. t \in links' /\ links \subseteq links' /\ links' \subseteq LinuxTunnels
    BY <1>1 DEF LinksKept
  <2>2. QED BY <1>1, <1>3, <2>1 DEF LinksKept, Quiet
<1>5. StepsFit'
  <2>1. \A n, u : ~Ahead(n, u)'
    BY <1>3 DEF Ahead
  <2>2. FirstStep' \in {"capture", "setdns", "up"} => Recorded(t)'
    BY <1>2
  <2>3. ~mgr'[t].captured
    BY <1>1, <1>2 DEF StepsFit, Quiet
  <2>4. QED BY <1>3, <2>1, <2>2, <2>3 DEF StepsFit
<1>6. \A n, u : ~Ahead(n, u)
  BY <1>1 DEF Ahead
<1>7. ASSUME NEW u \in LinuxTunnels
      PROVE  /\ Served(u) => Served(u)'
             /\ Served(u)' => Served(u) \/ u \notin LinuxDNS
             /\ Coming(u)' =>
                   /\ Coming(u) /\ (FirstStep = "up" => FirstStep' = "up")
                   /\ FirstStep' = "up" => FirstStep = "up" \/ u \notin LinuxDNS
                   /\ FirstStep' = "setdns" => FirstStep = "setdns" \/ mech # "file"
  BY <1>1, <1>2, <1>3 DEF Served, Quiet
<1>8. NamesApart => NamesApart'
  BY <1>1, <1>3, <1>6, <1>7, NamesFrame
<1>9. QED BY <1>4, <1>5, <1>8 DEF NamesInv, Quiet

(* A step of a disconnect, a rollback or a recovery that is no name's. *)
LEMMA ClearsOn ==
    ASSUME LinuxInv, NamesInv, lalive, Clearing, ltodo # << >>, Clearing', Quiet,
           \A t \in LinuxTunnels : ~Coming(t)', EndsLast(ltodo'), links' = links,
           \A n \in {"restore", "close", "cleanup", "reset", "reapply", "capture"},
              t \in LinuxTunnels : Ahead(n, t)' <=> Ahead(n, t)
    PROVE  NamesInv'
<1>1. LinuxTypes /\ LinksKept /\ StepsFit /\ \A t \in LinuxTunnels : ~Coming(t)
  BY OneOrOther DEF LinuxInv, NamesInv
<1>2. LinksKept'
  BY <1>1 DEF LinksKept, Quiet
<1>3. StepsFit'
  BY <1>1 DEF StepsFit, Quiet
<1>4. \A t \in LinuxTunnels : Served(t)' <=> Served(t)
  BY <1>1 DEF Served, Quiet
<1>5. NamesApart => NamesApart'
  BY <1>1, <1>4, NamesFrame
<1>6. QED BY <1>2, <1>3, <1>5 DEF NamesInv, Quiet

(* A connect that fails: no servers are set yet. *)
LEMMA NamesFail ==
    ASSUME LinuxInv, NamesInv, lalive, NEW t \in LinuxTunnels, Coming(t), FirstStep # "up",
           ltodo' = Linux!Rollback(t), Quiet,
           links' = links \/ links' = links \cup {t}
    PROVE  NamesInv'
<1>1. /\ LinuxTypes /\ LinksKept /\ StepsFit /\ ltodo # << >> /\ Pending = {}
      /\ \A u \in LinuxTunnels : Coming(u) => u = t
  BY StagesAre, OneOrOther DEF LinuxInv, NamesInv
<1>2. /\ Linux!Rollback(t) \in Seq(ClearItems) /\ EndsLast(Linux!Rollback(t))
      /\ StepsIn(Linux!Rollback(t)) = RemovesIn(t) \cup {<<"restore", t>>, <<"close", t>>}
  BY Removals, RemovalsLast
<1>3. /\ Clearing' /\ \A u \in LinuxTunnels : ~Coming(u)'
      /\ Pending' = RemovesIn(t) \cup {<<"restore", t>>, <<"close", t>>}
  BY <1>2, Begins
<1>4. LinksKept'
  BY <1>1, <1>3 DEF LinksKept, Quiet
<1>5. StepsFit'
  <2>1. \A n \in {"capture", "reapply"}, u \in LinuxTunnels : ~Ahead(n, u)'
    BY <1>3 DEF Ahead, RemovesIn
  <2>2. QED BY <1>2, <1>3, <2>1 DEF StepsFit
<1>6. \A u \in LinuxTunnels : Served(u)' <=> Served(u)
  BY <1>1, <1>3 DEF Served, Quiet
<1>7. \A n, u : ~Ahead(n, u)
  BY <1>1 DEF Ahead
<1>8. ASSUME NamesApart PROVE NamesApart'
  <2>1. Single'
    BY <1>1, <1>8 DEF NamesApart, Single, Quiet
  <2>2. ASSUME mech # "file", LinkNames PROVE LinkNames'
    <3>1. ASSUME NEW u \in LinuxTunnels PROVE Sound(u)'
      <4>1. Sound(u)
        BY <2>2 DEF LinkNames
      <4>2. QED BY <1>6, <1>7, <4>1 DEF Sound, Quiet
    <3>2. QED BY <1>6, <2>2, <3>1 DEF LinkNames, Quiet
  <2>3. ASSUME mech = "file", OneFile PROVE OneFile'
    <3>1. lup = {} /\ resolv = {}
      BY <1>1, <1>8, <2>3 DEF NamesApart, Single, OneFile
    <3>2. QED BY <1>3, <2>3, <3>1 DEF OneFile, Quiet
  <2>4. QED BY <1>8, <2>1, <2>2, <2>3 DEF NamesApart, Quiet
<1>9. QED BY <1>4, <1>5, <1>8 DEF NamesInv, Quiet

-----------------------------------------------------------------------------
(* Names at first, and as operations begin. *)
LEMMA NamesInitially == ASSUME Linux!Init PROVE NamesInv
<1>1. /\ ltodo = << >> /\ lup = {} /\ links = {} /\ lalive /\ resolv = {} /\ ljournal = {}
      /\ original = Linux!NoFile /\ linkDNS = [t \in LinuxTunnels |-> {}]
      /\ \A t \in LinuxTunnels : mgr[t] = Linux!Fresh
  BY DEF Linux!Init
<1>2. Linux!Settled /\ LinuxInv
  BY <1>1, LinuxInitially DEF Linux!Settled
<1>3. Clearing /\ Pending = {} /\ \A t \in LinuxTunnels : ~Coming(t)
  BY <1>2, AtRest
<1>4. LinksKept
  BY <1>1, <1>3 DEF LinksKept
<1>5. StepsFit
  <2>1. \A x \in StepsIn(<< >>) : x[1] \notin Lasting
    BY DEF StepsIn
  <2>2. << >> \in Seq(ClearItems)
    OBVIOUS
  <2>3. EndsLast(ltodo)
    BY <1>1, <2>1, <2>2, NoneLast
  <2>4. QED BY <1>3, <2>3 DEF StepsFit, Ahead
<1>6. \A t \in LinuxTunnels : ~Served(t)
  BY <1>1, <1>3 DEF Served
<1>7. LinkNames
  BY <1>1, <1>6 DEF LinkNames, Sound
<1>8. OneFile
  <2>1. \A t \in LinuxTunnels : mgr[t].orig = {}
    BY <1>1 DEF Linux!Fresh
  <2>2. QED BY <1>1, <1>3, <2>1 DEF OneFile
<1>9. Single
  BY <1>1 DEF Single
<1>10. QED BY <1>4, <1>5, <1>7, <1>8, <1>9 DEF NamesInv, NamesApart

(* Between two operations: whose servers names are asked of. *)
LEMMA NamesAtRest ==
    ASSUME LinuxInv, NamesInv, ~overlapped, Linux!Settled
    PROVE  /\ mech # "file" => \A t \in LinuxTunnels :
                 /\ t \in lup => linkDNS[t] \subseteq lup \cap LinuxDNS
                 /\ t \notin lup => linkDNS[t] = {}
                 /\ t \in lup \cap LinuxDNS => t \in linkDNS[t]
           /\ mech = "file" => resolv = lup \cap LinuxDNS
<1>1. lalive /\ Clearing /\ Pending = {} /\ \A t \in LinuxTunnels : ~Coming(t)
  BY AtRest
<1>2. \A n, t : ~Ahead(n, t)
  BY <1>1 DEF Ahead
<1>3. \A t \in LinuxTunnels : Served(t) <=> t \in lup
  BY <1>1 DEF Served
<1>4. ASSUME mech # "file", NEW t \in LinuxTunnels
      PROVE  /\ t \in lup => linkDNS[t] \subseteq lup \cap LinuxDNS
             /\ t \notin lup => linkDNS[t] = {}
             /\ t \in lup \cap LinuxDNS => t \in linkDNS[t]
  <2>1. LinkNames
    BY <1>4 DEF NamesInv, NamesApart
  <2>2. Sound(t)
    BY <1>1, <2>1 DEF LinkNames
  <2>3. Served(t) => lup \cup {t} = lup
    BY <1>3
  <2>4. QED BY <1>2, <1>3, <2>1, <2>2, <2>3 DEF LinkNames, Sound
<1>5. mech = "file" => resolv = lup \cap LinuxDNS
  BY <1>1, <1>2 DEF NamesInv, NamesApart, OneFile
<1>6. QED BY <1>4, <1>5

LEMMA NamesConnect ==
    ASSUME LinuxInv, NamesInv, NEW t \in LinuxTunnels, Linux!Connect(t)
    PROVE  NamesInv'
<1>1. /\ lalive /\ Clearing /\ Pending = {} /\ \A u \in LinuxTunnels : ~Coming(u)
  BY AtRest DEF Linux!Connect
<1>2. /\ t \notin lup /\ ltodo' = LinkList(t) /\ mgr' = [mgr EXCEPT ![t] = Linux!Fresh]
      /\ mech' = mech /\ lup' = lup /\ lalive' = lalive /\ links' = links
      /\ linkDNS' = linkDNS /\ resolv' = resolv /\ ljournal' = ljournal /\ original' = original
      /\ overlapped' = (overlapped \/ (mech # "resolved" /\ lup # {}))
  BY ConnectIsLinkList DEF Linux!Connect, Linux!kernel, Linux!names, Linux!files
<1>3. LinuxTypes /\ LinksKept /\ StepsFit
  BY DEF LinuxInv, NamesInv
<1>4. Coming(t)' /\ FirstStep' = "link"
  BY <1>2, Starts
<1>5. (~Clearing)' /\ Pending' = {} /\ \A u \in LinuxTunnels : Coming(u)' => u = t
  BY <1>4, ThenOneOrOther
<1>6. mgr'[t] = Linux!Fresh /\ \A u \in LinuxTunnels \ {t} : mgr'[u] = mgr[u]
  BY <1>2, <1>3 DEF LinuxTypes
<1>7. LinksKept'
  BY <1>2, <1>3, <1>4, <1>5 DEF LinksKept
<1>8. StepsFit'
  <2>1. \A n, u : ~Ahead(n, u)'
    BY <1>5 DEF Ahead
  <2>2. ~mgr'[t].captured
    BY <1>6 DEF Linux!Fresh
  <2>3. QED BY <1>4, <1>5, <2>1, <2>2 DEF StepsFit
<1>9. \A u \in LinuxTunnels : (Served(u)' <=> u \in lup) /\ (Served(u) <=> u \in lup)
  BY <1>1, <1>2, <1>4, <1>5 DEF Served
<1>10. ASSUME ~overlapped' PROVE NamesApart'
  <2>1. ~overlapped /\ (mech # "resolved" => lup = {})
    BY <1>2, <1>10
  <2>2. NamesApart
    BY <2>1 DEF NamesInv
  <2>3. Single'
    BY <1>2, <2>1 DEF Single
  <2>4. /\ mech # "file" => \A u \in LinuxTunnels :
              /\ u \in lup => linkDNS[u] \subseteq lup \cap LinuxDNS
              /\ u \notin lup => linkDNS[u] = {}
        /\ mech = "file" => resolv = lup \cap LinuxDNS
    BY <2>1, NamesAtRest DEF Linux!Connect
  <2>5. ASSUME mech # "file", LinkNames PROVE LinkNames'
    <3>1. ASSUME NEW u \in LinuxTunnels PROVE Sound(u)'
      <4>1. CASE u \in lup
        BY <1>2, <1>9, <2>4, <2>5, <4>1 DEF Sound
      <4>2. CASE u \notin lup
        BY <1>2, <1>9, <2>4, <2>5, <4>2 DEF Sound
      <4>3. QED BY <4>1, <4>2
    <3>2. \A u \in LinuxTunnels : Recorded(u)' <=> Recorded(u)
      BY <1>2 DEF Recorded
    <3>3. QED BY <1>2, <1>9, <2>5, <3>1, <3>2 DEF LinkNames
  <2>6. ASSUME mech = "file", OneFile PROVE OneFile'
    <3>1. resolv = {}
      BY <2>1, <2>4, <2>6
    <3>2. \A u \in LinuxTunnels : mgr'[u].orig = {}
      <4>1. mgr'[t].orig = {}
        BY <1>6 DEF Linux!Fresh
      <4>2. QED BY <1>6, <2>6, <4>1 DEF OneFile
    <3>3. QED BY <1>2, <1>4, <1>5, <2>6, <3>1, <3>2 DEF OneFile
  <2>7. QED BY <1>2, <2>2, <2>3, <2>5, <2>6 DEF NamesApart
<1>11. QED BY <1>7, <1>8, <1>10 DEF NamesInv

LEMMA NamesDisconnect ==
    ASSUME LinuxInv, NamesInv, NEW t \in LinuxTunnels, Linux!Disconnect(t)
    PROVE  NamesInv'
<1>1. /\ lalive /\ Clearing /\ Pending = {} /\ \A u \in LinuxTunnels : ~Coming(u)
  BY AtRest DEF Linux!Disconnect
<1>2. /\ t \in lup /\ lup' = lup \ {t} /\ ltodo' = Linux!DisconnectSteps(t) /\ mgr' = mgr
      /\ mech' = mech /\ lalive' = lalive /\ links' = links
      /\ linkDNS' = linkDNS /\ resolv' = resolv /\ ljournal' = ljournal /\ original' = original
      /\ overlapped' = overlapped
  BY DEF Linux!Disconnect, Linux!kernel, Linux!names, Linux!files
<1>3. LinuxTypes /\ LinksKept /\ StepsFit
  BY DEF LinuxInv, NamesInv
<1>4. /\ Linux!DisconnectSteps(t) \in Seq(ClearItems) /\ EndsLast(Linux!DisconnectSteps(t))
      /\ StepsIn(Linux!DisconnectSteps(t)) =
            RemovesIn(t) \cup {<<"close", t>>, <<"cleanup", t>>, <<"forget", t>>}
  BY Removals, RemovalsLast
<1>5. /\ Clearing' /\ \A u \in LinuxTunnels : ~Coming(u)'
      /\ Pending' = RemovesIn(t) \cup {<<"close", t>>, <<"cleanup", t>>, <<"forget", t>>}
  BY <1>2, <1>4, Begins
<1>6. Ahead("close", t)' /\ Ahead("cleanup", t)'
  BY <1>5 DEF Ahead
<1>7. LinksKept'
  BY <1>2, <1>3, <1>5 DEF LinksKept
<1>8. StepsFit'
  <2>1. \A n \in {"capture", "reapply"}, u \in LinuxTunnels : ~Ahead(n, u)'
    BY <1>5 DEF Ahead, RemovesIn
  <2>2. QED BY <1>2, <1>4, <1>5, <2>1 DEF StepsFit
<1>9. \A u \in LinuxTunnels :
         (Served(u)' <=> u \in lup /\ u # t) /\ (Served(u) <=> u \in lup)
  BY <1>1, <1>2, <1>5 DEF Served
<1>10. ASSUME ~overlapped' PROVE NamesApart'
  <2>1. ~overlapped /\ NamesApart
    BY <1>2, <1>10 DEF NamesInv
  <2>2. /\ mech # "resolved" => lup' = {}
        /\ Single'
    BY <1>2, <1>3, <2>1 DEF NamesApart, Single, LinuxTypes
  <2>3. mech # "file" => \A u \in LinuxTunnels : u \notin lup => linkDNS[u] = {}
    BY <2>1, NamesAtRest DEF Linux!Disconnect
  <2>4. ASSUME mech # "file", LinkNames PROVE LinkNames'
    <3>1. ASSUME NEW u \in LinuxTunnels PROVE Sound(u)'
      <4>1. CASE u = t
        <5>1. mech = "resolved" \/ mech = "resolvconf"
          BY <1>3, <2>4 DEF LinuxTypes
        <5>2. QED BY <1>2, <1>6, <4>1, <5>1 DEF Sound
      <4>2. CASE u # t /\ u \in lup
        BY <1>2, <1>6, <4>2 DEF Sound
      <4>3. CASE u \notin lup
        BY <1>2, <1>9, <2>3, <2>4, <4>3 DEF Sound
      <4>4. QED BY <4>1, <4>2, <4>3
    <3>2. \A u \in LinuxTunnels : Recorded(u)' <=> Recorded(u)
      BY <1>2 DEF Recorded
    <3>3. QED BY <1>2, <1>9, <2>4, <3>1, <3>2 DEF LinkNames
  <2>5. ASSUME mech = "file", OneFile PROVE OneFile'
    BY <1>2, <1>5, <1>6, <2>5 DEF OneFile
  <2>6. QED BY <1>2, <2>1, <2>2, <2>4, <2>5 DEF NamesApart
<1>11. QED BY <1>7, <1>8, <1>10 DEF NamesInv

-----------------------------------------------------------------------------
(* Names over a connect. *)
LEMMA RecordsOn ==
    ASSUME NEW t \in LinuxTunnels, Linux!Record(t)
    PROVE  Recorded(t)' /\ \A u \in LinuxTunnels : Recorded(u) => Recorded(u)'
<1>1. ljournal' = {j \in ljournal : j[1] # t} \cup {<<t, mgr[t].throws>>}
  BY DEF Linux!Record
<1>2. Recorded(t)'
  <2>1. <<t, mgr[t].throws>> \in ljournal' /\ <<t, mgr[t].throws>>[1] = t
    BY <1>1
  <2>2. QED BY <2>1 DEF Recorded
<1>3. ASSUME NEW u \in LinuxTunnels, Recorded(u) PROVE Recorded(u)'
  <2>1. CASE u = t
    BY <1>2, <2>1
  <2>2. CASE u # t
    <3>1. PICK j \in ljournal : j[1] = u
      BY <1>3 DEF Recorded
    <3>2. j \in ljournal'
      BY <1>1, <2>2, <3>1
    <3>3. QED BY <3>1, <3>2 DEF Recorded
  <2>3. QED BY <2>1, <2>2
<1>4. QED BY <1>2, <1>3

LEMMA NamesLink ==
    ASSUME LinuxInv, NamesInv, Linux!Link, mech' = mech
    PROVE  NamesInv'
<1>0. lalive /\ Linux!Arg \in LinuxTunnels /\ Coming(Linux!Arg) /\ FirstStep = "link"
  BY ConnectStep DEF LinuxInv, Linux!Link, ClearNames
<1> PICK t \in LinuxTunnels : t = Linux!Arg
  BY <1>0
<1>1. Coming(t) /\ FirstStep = "link"
  BY <1>0
<1>2. Quiet
  BY DEF Linux!Link, Linux!names, Linux!files, Linux!memory, Quiet, Recorded
<1>3. \/ ltodo' = Tail(ltodo) /\ links' = links \cup {t}
      \/ ltodo' = Linux!Rollback(t) /\ (links' = links \/ links' = links \cup {t})
  BY DEF Linux!Link, Linux!Finish, Linux!Fails
<1>4. CASE ltodo' = Tail(ltodo) /\ links' = links \cup {t}
  BY <1>0, <1>1, <1>2, <1>4, ConnectsOn
<1>5. CASE ltodo' = Linux!Rollback(t) /\ (links' = links \/ links' = links \cup {t})
  BY <1>0, <1>1, <1>2, <1>5, NamesFail
<1>6. QED BY <1>3, <1>4, <1>5

LEMMA NamesRoute ==
    ASSUME LinuxInv, NamesInv, mech' = mech,
           Linux!Table \/ Linux!Default \/ Linux!Split \/ Linux!Rule \/ Linux!Endpoint
    PROVE  NamesInv'
<1>1. PICK n \in {"table", "default", "split", "rule", "endpoint"} : Linux!Step(n)
  BY DEF Linux!Table, Linux!Default, Linux!Split, Linux!Rule, Linux!Endpoint
<1>2. lalive /\ Linux!Arg \in LinuxTunnels /\ Coming(Linux!Arg) /\ FirstStep = n
  BY <1>1, ConnectStep DEF LinuxInv, ClearNames
<1> PICK t \in LinuxTunnels : t = Linux!Arg
  BY <1>2
<1>3. /\ lalive' = lalive /\ lup' = lup /\ linkDNS' = linkDNS /\ resolv' = resolv
      /\ original' = original /\ overlapped' = overlapped /\ links' = links
      /\ ljournal' = ljournal
      /\ \/ mgr' = mgr \/ mgr' = [mgr EXCEPT ![t].binds = TRUE]
         \/ mgr' = [mgr EXCEPT ![t].throws = TRUE]
         \/ mgr' = [mgr EXCEPT ![t].set = TRUE, ![t].table = Linux!Resolve(t)]
      /\ ltodo' = Tail(ltodo) \/ ltodo' = Linux!Rollback(t)
  <2>1. CASE Linux!Table
    BY <2>1 DEF Linux!Table, Linux!kernel, Linux!names, Linux!files, Linux!Finish
  <2>2. CASE Linux!Default \/ Linux!Split
    BY <2>2
       DEF Linux!Default, Linux!Split, Linux!Add, Linux!names, Linux!files, Linux!memory,
           Linux!Finish, Linux!Fails
  <2>3. CASE Linux!Rule
    BY <2>3 DEF Linux!Rule, Linux!names, Linux!files, Linux!memory, Linux!Finish, Linux!Fails
  <2>4. CASE Linux!Endpoint
    BY <2>4 DEF Linux!Endpoint, Linux!names, Linux!files, Linux!Finish, Linux!Fails
  <2>5. QED BY <2>1, <2>2, <2>3, <2>4
<1>4. \A u \in LinuxTunnels : mgr'[u].captured = mgr[u].captured /\ mgr'[u].orig = mgr[u].orig
  BY <1>3 DEF LinuxInv, LinuxTypes, Managers
<1>5. Quiet
  BY <1>3, <1>4 DEF Quiet, Recorded
<1>6. CASE ltodo' = Tail(ltodo)
  BY <1>2, <1>3, <1>5, <1>6, ConnectsOn
<1>7. CASE ltodo' = Linux!Rollback(t)
  BY <1>2, <1>3, <1>5, <1>7, NamesFail
<1>8. QED BY <1>3, <1>6, <1>7

LEMMA NamesCheckpoint ==
    ASSUME LinuxInv, NamesInv, Linux!Checkpoint, mech' = mech
    PROVE  NamesInv'
<1>0. lalive /\ Linux!Arg \in LinuxTunnels /\ Coming(Linux!Arg) /\ FirstStep = "checkpoint"
  BY ConnectStep DEF LinuxInv, Linux!Checkpoint, ClearNames
<1> PICK t \in LinuxTunnels : t = Linux!Arg
  BY <1>0
<1>1. Coming(t) /\ FirstStep = "checkpoint"
  BY <1>0
<1>2. /\ ltodo' = Tail(ltodo) /\ links' = links /\ Linux!Record(t) /\ mgr' = mgr
      /\ lalive' = lalive /\ lup' = lup /\ linkDNS' = linkDNS /\ resolv' = resolv
      /\ original' = original /\ overlapped' = overlapped
  BY DEF Linux!Checkpoint, Linux!kernel, Linux!names, Linux!memory, Linux!Finish
<1>3. Recorded(t)' /\ \A u \in LinuxTunnels : Recorded(u) => Recorded(u)'
  BY <1>2, RecordsOn
<1>4. Quiet
  BY <1>2, <1>3 DEF Quiet
<1>5. QED BY <1>0, <1>1, <1>2, <1>3, <1>4, ConnectsOn

(* SetDNS' first part keeps what resolv.conf was, once. *)
LEMMA NamesCapture ==
    ASSUME LinuxInv, NamesInv, Linux!Capture, mech' = mech
    PROVE  NamesInv'
<1>1. ltodo # << >> /\ FirstStep = "capture" /\ ltodo' = Tail(ltodo)
  BY DEF Linux!Capture, Linux!Step, FirstStep, Linux!Finish
<1>2. lalive
  BY <1>1 DEF LinuxInv, LinuxPlaces
<1>3. LinuxTypes /\ LinuxPlaces /\ LinksKept /\ StepsFit
  BY DEF LinuxInv, NamesInv
<1>4. /\ lup' = lup /\ lalive' = lalive /\ ljournal' = ljournal /\ resolv' = resolv
      /\ linkDNS' = linkDNS /\ links' = links /\ overlapped' = overlapped
      /\ IF mech = "file" /\ ~mgr[Linux!Arg].captured
         THEN /\ mgr' = [mgr EXCEPT ![Linux!Arg].captured = TRUE, ![Linux!Arg].orig = resolv]
              /\ original' = resolv
         ELSE mgr' = mgr /\ original' = original
  BY DEF Linux!Capture, Linux!kernel, Linux!names
<1>5. CASE Clearing
  <2>1. /\ Clearing' /\ Pending = {Head(ltodo)} \cup Pending' /\ Head(ltodo) \in ClearItems
        /\ \A u \in LinuxTunnels : ~Coming(u)' /\ ~Coming(u)
    BY <1>1, <1>5, ClearMoves, OneOrOther
  <2>2. \A n, u : n # "capture" => (Ahead(n, u)' <=> Ahead(n, u))
    BY <1>1, <2>1 DEF Ahead, FirstStep
  <2>3. \A n, u : Ahead(n, u)' => Ahead(n, u)
    BY <2>1 DEF Ahead
  <2>4. EndsLast(ltodo')
    BY <1>1, <1>3, <1>5, LastOfRest DEF StepsFit, Clearing
  <2>5. LinksKept'
    BY <1>3, <1>4, <2>1 DEF LinksKept
  <2>6. StepsFit'
    BY <1>3, <1>4, <2>1, <2>3, <2>4 DEF StepsFit
  <2>7. ASSUME ~overlapped' PROVE NamesApart'
    <3>1. NamesApart
      BY <1>4, <2>7 DEF NamesInv
    <3>2. mech # "file"
      <4>1. Head(ltodo) = <<"capture", Linux!Arg>> /\ Linux!Arg \in LinuxTunnels
        BY <1>1, <2>1 DEF ClearItems, FirstStep, Linux!Arg
      <4>2. Ahead("capture", Linux!Arg)
        BY <2>1, <4>1 DEF Ahead
      <4>3. Linux!Arg \in lup
        BY <1>3, <4>1, <4>2 DEF StepsFit
      <4>4. QED BY <1>1, <3>1, <4>3 DEF NamesApart, Single
    <3>3. Quiet
      BY <1>4, <3>2 DEF Quiet, Recorded
    <3>4. \A u \in LinuxTunnels : Served(u)' <=> Served(u)
      BY <1>4, <2>1 DEF Served
    <3>5. QED BY <1>1, <1>3, <1>5, <2>1, <2>2, <3>1, <3>3, <3>4, NamesFrame
  <2>8. QED BY <2>5, <2>6, <2>7 DEF NamesInv
<1>6. ASSUME NEW t \in LinuxTunnels, Coming(t) PROVE NamesInv'
  <2>1. Head(ltodo) = <<"capture", t>> /\ Linux!Arg = t
    BY <1>1, <1>6, StagesAre DEF Linux!Arg
  <2>2. Coming(t)' /\ FirstStep' = "setdns"
    BY <1>1, <1>6, ConnectMoves
  <2>3. (~Clearing)' /\ Pending' = {} /\ \A u \in LinuxTunnels : Coming(u)' => u = t
    BY <2>2, ThenOneOrOther
  <2>4. ~Clearing /\ Pending = {} /\ \A u \in LinuxTunnels : Coming(u) => u = t
    BY <1>6, OneOrOther
  <2>5. \A n, u : ~Ahead(n, u) /\ ~Ahead(n, u)'
    BY <2>3, <2>4 DEF Ahead
  <2>6. LinksKept'
    BY <1>1, <1>3, <1>4, <1>6, <2>2, <2>3 DEF LinksKept
  <2>7. StepsFit'
    <3>1. Recorded(t)
      BY <1>1, <1>3, <1>6 DEF StepsFit
    <3>2. Recorded(t)'
      BY <1>4, <3>1 DEF Recorded
    <3>3. QED BY <2>2, <2>3, <2>5, <3>2 DEF StepsFit
  <2>8. \A u \in LinuxTunnels : Served(u)' <=> Served(u)
    BY <1>1, <1>4, <2>2, <2>3, <2>4 DEF Served
  <2>9. ASSUME ~overlapped' PROVE NamesApart'
    <3>1. NamesApart
      BY <1>4, <2>9 DEF NamesInv
    <3>2. CASE mech # "file"
      <4>1. Quiet
        BY <1>4, <3>2 DEF Quiet, Recorded
      <4>2. QED BY <1>1, <1>3, <1>6, <2>2, <2>3, <2>5, <2>8, <3>1, <3>2, <4>1, NamesFrame
    <3>3. CASE mech = "file"
      <4>1. OneFile
        BY <3>1, <3>3 DEF NamesApart
      <4>2. ~mgr[t].captured /\ resolv = {}
        BY <1>1, <1>3, <1>6, <4>1 DEF StepsFit, OneFile
      <4>3. mgr' = [mgr EXCEPT ![t].captured = TRUE, ![t].orig = resolv] /\ original' = resolv
        BY <1>4, <2>1, <3>3, <4>2
      <4>4. \A u \in LinuxTunnels : mgr'[u].orig = {}
        BY <1>3, <4>1, <4>2, <4>3 DEF OneFile, LinuxTypes, Managers
      <4>5. OneFile'
        BY <1>4, <2>2, <2>3, <4>2, <4>3, <4>4 DEF OneFile
      <4>6. Single'
        <5>1. Single
          BY <3>1 DEF NamesApart
        <5>2. QED BY <1>1, <1>4, <5>1 DEF Single
      <4>7. QED BY <3>3, <4>5, <4>6 DEF NamesApart
    <3>4. QED BY <3>2, <3>3
  <2>10. QED BY <2>6, <2>7, <2>9 DEF NamesInv
<1>7. QED BY <1>2, <1>3, <1>5, <1>6 DEF LinuxPlaces

LEMMA NamesSet ==
    ASSUME LinuxInv, NamesInv, Linux!SetDNS, mech' = mech
    PROVE  NamesInv'
<1>0. lalive /\ Linux!Arg \in LinuxTunnels /\ Coming(Linux!Arg) /\ FirstStep = "setdns"
  BY ConnectStep DEF LinuxInv, Linux!SetDNS, ClearNames
<1> PICK t \in LinuxTunnels : t = Linux!Arg
  BY <1>0
<1>1. lalive /\ Coming(t) /\ FirstStep = "setdns"
  BY <1>0
<1>2. /\ lup' = lup /\ mgr' = mgr /\ lalive' = lalive /\ ljournal' = ljournal
      /\ original' = original /\ links' = links /\ overlapped' = overlapped
      /\ \/ ltodo' = Tail(ltodo) /\ Linux!Write(t, Linux!Union(t))
         \/ ltodo' = Linux!Rollback(t) /\ linkDNS' = linkDNS /\ resolv' = resolv
  BY DEF Linux!SetDNS, Linux!kernel, Linux!files, Linux!memory, Linux!names, Linux!Finish,
         Linux!Fails
<1>3. CASE ltodo' = Linux!Rollback(t) /\ linkDNS' = linkDNS /\ resolv' = resolv
  <2>1. Quiet
    BY <1>2, <1>3 DEF Quiet, Recorded
  <2>2. QED BY <1>1, <1>2, <1>3, <2>1, NamesFail
<1>4. CASE ltodo' = Tail(ltodo) /\ Linux!Write(t, Linux!Union(t))
  <2>1. /\ LinuxTypes /\ LinksKept /\ StepsFit /\ t \in LinuxDNS /\ ltodo # << >>
        /\ Coming(t)' /\ FirstStep' = "up" /\ Pending = {}
        /\ \A u \in LinuxTunnels : Coming(u) => u = t
    BY <1>1, <1>4, StagesAre, ConnectMoves, OneOrOther DEF LinuxInv, NamesInv
  <2>2. (~Clearing)' /\ Pending' = {} /\ \A u \in LinuxTunnels : Coming(u)' => u = t
    BY <2>1, ThenOneOrOther
  <2>3. \A n, u : ~Ahead(n, u) /\ ~Ahead(n, u)'
    BY <2>1, <2>2 DEF Ahead
  <2> DEFINE s == (lup \cup {t}) \cap LinuxDNS
  <2>4. /\ mech = "file" => resolv' = s /\ linkDNS' = linkDNS
        /\ mech # "file" => linkDNS' = [linkDNS EXCEPT ![t] = s] /\ resolv' = resolv
    BY <1>4 DEF Linux!Write, Linux!Union
  <2>5. s \subseteq LinuxTunnels
    BY <2>1 DEF LinuxTypes
  <2>6. LinksKept'
    <3>1. linkDNS' \in [LinuxTunnels -> SUBSET LinuxTunnels]
      BY <2>1, <2>4, <2>5 DEF LinksKept
    <3>2. t \in links
      BY <1>1, <2>1 DEF LinksKept
    <3>3. \A u \in LinuxTunnels \ {t} : linkDNS'[u] = linkDNS[u]
      BY <2>1, <2>4 DEF LinksKept
    <3>4. QED BY <1>2, <2>1, <2>2, <3>1, <3>2, <3>3 DEF LinksKept
  <2>7. StepsFit'
    <3>1. Recorded(t)' <=> Recorded(t)
      BY <1>2 DEF Recorded
    <3>2. QED BY <1>1, <2>1, <2>2, <2>3, <3>1 DEF StepsFit
  <2>8. /\ Served(t)' /\ (~Served(t) \/ t \in lup)
        /\ \A u \in LinuxTunnels \ {t} : Served(u)' <=> Served(u)
    BY <1>1, <1>2, <2>1, <2>2 DEF Served
  <2>9. ASSUME ~overlapped' PROVE NamesApart'
    <3>1. NamesApart
      BY <1>2, <2>9 DEF NamesInv
    <3>2. Single'
      BY <1>2, <2>1, <3>1 DEF NamesApart, Single
    <3>3. ASSUME mech # "file", LinkNames PROVE LinkNames'
      <4>1. linkDNS'[t] = s /\ \A u \in LinuxTunnels \ {t} : linkDNS'[u] = linkDNS[u]
        BY <2>1, <2>4, <3>3 DEF LinksKept
      <4>2. ASSUME NEW u \in LinuxTunnels PROVE Sound(u)'
        <5>1. CASE u = t
          BY <1>2, <2>1, <4>1, <5>1 DEF Sound, Served
        <5>2. CASE u # t
          <6>1. Sound(u)
            BY <1>1, <3>3 DEF LinkNames
          <6>2. QED BY <1>2, <2>3, <2>8, <4>1, <5>2, <6>1 DEF Sound
        <5>3. QED BY <5>1, <5>2
      <4>3. \A u \in LinuxTunnels : Recorded(u)' <=> Recorded(u)
        BY <1>2 DEF Recorded
      <4>4. Recorded(t) /\ t \in s
        BY <1>1, <2>1 DEF StepsFit
      <4>5. \A u \in LinuxTunnels : linkDNS'[u] # {} => u = t \/ linkDNS[u] # {}
        BY <4>1
      <4>6. mech' = "resolvconf" => \A u \in LinuxTunnels : linkDNS'[u] # {} => Recorded(u)'
        BY <3>3, <4>3, <4>4, <4>5 DEF LinkNames
      <4>7. \A u \in LinuxTunnels \cap LinuxDNS : Served(u)' => u \in linkDNS'[u]
        BY <2>8, <3>3, <4>1, <4>4 DEF LinkNames
      <4>8. QED BY <4>2, <4>6, <4>7 DEF LinkNames
    <3>4. ASSUME mech = "file", OneFile PROVE OneFile'
      <4>1. lup = {} /\ original = {} /\ ljournal # {}
        <5>1. Recorded(t)
          BY <1>1, <2>1 DEF StepsFit
        <5>2. QED BY <1>1, <2>1, <3>1, <3>4, <5>1 DEF NamesApart, Single, OneFile, Recorded
      <4>2. resolv' = {t} \cap LinuxDNS
        BY <2>4, <3>4, <4>1
      <4>3. QED BY <1>2, <2>1, <2>2, <3>4, <4>1, <4>2 DEF OneFile
    <3>5. QED BY <3>1, <3>2, <3>3, <3>4 DEF NamesApart
  <2>10. QED BY <2>6, <2>7, <2>9 DEF NamesInv
<1>5. QED BY <1>2, <1>3, <1>4

LEMMA NamesUp ==
    ASSUME LinuxInv, NamesInv, Linux!Up, mech' = mech
    PROVE  NamesInv'
<1>0. lalive /\ Linux!Arg \in LinuxTunnels /\ Coming(Linux!Arg) /\ FirstStep = "up"
  BY ConnectStep DEF LinuxInv, Linux!Up, ClearNames
<1> PICK t \in LinuxTunnels : t = Linux!Arg
  BY <1>0
<1>1. lalive /\ Coming(t) /\ FirstStep = "up"
  BY <1>0
<1>2. /\ lup' = lup \cup {t} /\ mgr' = mgr /\ lalive' = lalive /\ original' = original
      /\ resolv' = resolv /\ linkDNS' = linkDNS /\ links' = links /\ overlapped' = overlapped
      /\ ltodo' = Tail(ltodo) /\ Linux!Record(t)
  BY DEF Linux!Up, Linux!kernel, Linux!names, Linux!Finish
<1>3. /\ LinuxTypes /\ LinksKept /\ StepsFit /\ ltodo # << >> /\ ltodo' = << >>
      /\ Pending = {} /\ \A u \in LinuxTunnels : Coming(u) => u = t
  BY <1>1, <1>2, StagesAre, ConnectMoves, OneOrOther DEF LinuxInv, NamesInv
<1>4. Clearing' /\ Pending' = {} /\ \A u \in LinuxTunnels : ~Coming(u)'
  BY <1>3, Ends
<1>5. \A n, u : ~Ahead(n, u) /\ ~Ahead(n, u)'
  BY <1>3, <1>4 DEF Ahead
<1>6. Recorded(t)' /\ \A u \in LinuxTunnels : Recorded(u) => Recorded(u)'
  BY <1>2, RecordsOn
<1>7. LinksKept'
  <2>1. t \in links
    BY <1>1, <1>3 DEF LinksKept
  <2>2. QED BY <1>2, <1>3, <1>4, <2>1 DEF LinksKept
<1>8. StepsFit'
  <2>1. << >> \in Seq(ClearItems) /\ \A x \in StepsIn(<< >>) : x[1] \notin Lasting
    BY DEF StepsIn
  <2>2. EndsLast(ltodo')
    BY <1>3, <2>1, NoneLast
  <2>3. QED BY <1>4, <1>5, <2>2 DEF StepsFit
<1>9. \A u \in LinuxTunnels : Served(u)' <=> Served(u)
  BY <1>1, <1>2, <1>3, <1>4 DEF Served
<1>10. ASSUME ~overlapped' PROVE NamesApart'
  <2>1. NamesApart
    BY <1>2, <1>10 DEF NamesInv
  <2>2. mech # "resolved" => lup = {}
    BY <1>3, <2>1 DEF NamesApart, Single
  <2>3. Single'
    BY <1>2, <1>3, <2>2 DEF Single
  <2>4. ASSUME mech # "file", LinkNames PROVE LinkNames'
    <3>1. ASSUME NEW u \in LinuxTunnels PROVE Sound(u)'
      <4>1. Sound(u)
        BY <1>1, <2>4 DEF LinkNames
      <4>2. (lup \cup {u}) \cap LinuxDNS \subseteq (lup' \cup {u}) \cap LinuxDNS
        BY <1>2
      <4>3. QED BY <1>2, <1>5, <1>9, <4>1, <4>2 DEF Sound
    <3>2. QED BY <1>2, <1>6, <1>9, <2>4, <3>1 DEF LinkNames
  <2>5. ASSUME mech = "file", OneFile PROVE OneFile'
    <3>1. lup' = {t} /\ resolv = {t} \cap LinuxDNS
      BY <1>1, <1>2, <2>2, <2>5 DEF OneFile
    <3>2. ljournal' # {}
      BY <1>6 DEF Recorded
    <3>3. QED BY <1>2, <1>4, <2>5, <3>1, <3>2 DEF OneFile
  <2>6. QED BY <2>1, <2>3, <2>4, <2>5 DEF NamesApart
<1>11. QED BY <1>7, <1>8, <1>10 DEF NamesInv

-----------------------------------------------------------------------------
(* Names over a disconnect, a rollback, a recovery. *)
LEMMA NamesRemove ==
    ASSUME LinuxInv, NamesInv, mech' = mech,
           Linux!RemoveRoutes \/ Linux!RemoveBinds \/ Linux!RemoveRule
    PROVE  NamesInv'
<1>1. PICK n \in {"rroutes", "rbinds", "rrule"} : Linux!Step(n)
  BY DEF Linux!RemoveRoutes, Linux!RemoveBinds, Linux!RemoveRule
<1>2. /\ lalive /\ Clearing /\ ltodo # << >> /\ Head(ltodo) = <<n, Linux!Arg>>
      /\ Linux!Arg \in LinuxTunnels
  BY <1>1, ClearStep DEF LinuxInv, ClearNames
<1> PICK t \in LinuxTunnels : t = Linux!Arg
  BY <1>2
<1>3. /\ lalive' = lalive /\ lup' = lup /\ linkDNS' = linkDNS /\ resolv' = resolv
      /\ original' = original /\ overlapped' = overlapped /\ links' = links
      /\ ljournal' = ljournal /\ ltodo' = Tail(ltodo)
      /\ \/ mgr' = mgr \/ mgr' = [mgr EXCEPT ![t].binds = FALSE]
         \/ mgr' = [mgr EXCEPT ![t].throws = FALSE]
  BY DEF Linux!RemoveRoutes, Linux!RemoveBinds, Linux!RemoveRule, Linux!names, Linux!files,
         Linux!memory, Linux!Finish
<1>4. \A u \in LinuxTunnels : mgr'[u].captured = mgr[u].captured /\ mgr'[u].orig = mgr[u].orig
  BY <1>3 DEF LinuxInv, LinuxTypes, Managers
<1>5. Quiet
  BY <1>3, <1>4 DEF Quiet, Recorded
<1>6. /\ Clearing' /\ Pending = {Head(ltodo)} \cup Pending'
      /\ \A u \in LinuxTunnels : ~Coming(u)'
  BY <1>2, <1>3, ClearMoves
<1>7. EndsLast(ltodo')
  BY <1>2, <1>3, LastOfRest DEF NamesInv, StepsFit, Clearing
<1>8. \A k \in {"restore", "close", "cleanup", "reset", "reapply", "capture"},
         u \in LinuxTunnels : Ahead(k, u)' <=> Ahead(k, u)
  BY <1>2, <1>6 DEF Ahead
<1>9. QED BY <1>2, <1>3, <1>5, <1>6, <1>7, <1>8, ClearsOn

LEMMA NamesRecover ==
    ASSUME LinuxInv, NamesInv, Linux!Recover, mech' = mech
    PROVE  NamesInv'
<1>1. /\ lalive /\ Clearing /\ ltodo # << >> /\ Head(ltodo) = <<"recover", Linux!Arg>>
      /\ Linux!Arg \in LinuxTunnels
  BY ClearStep DEF LinuxInv, Linux!Recover, ClearNames
<1> PICK t \in LinuxTunnels : t = Linux!Arg
  BY <1>1
<1>2. /\ ltodo' = Linux!RemoveSteps(t) \o Tail(ltodo) /\ links' = links /\ Quiet
  BY DEF Linux!Recover, Linux!kernel, Linux!names, Linux!files, Linux!memory, Quiet, Recorded
<1>3. /\ Linux!RemoveSteps(t) \in Seq(ClearItems)
      /\ StepsIn(Linux!RemoveSteps(t)) = RemovesIn(t)
      /\ \A x \in StepsIn(Linux!RemoveSteps(t)) : x[1] \notin Lasting
  BY Removals, RemovalsLast
<1>4. /\ Clearing' /\ \A u \in LinuxTunnels : ~Coming(u)'
      /\ Pending \subseteq {Head(ltodo)} \cup Pending'
      /\ Pending' \subseteq Pending \cup RemovesIn(t)
  BY <1>1, <1>2, <1>3, Swaps
<1>5. EndsLast(Tail(ltodo)) /\ Tail(ltodo) \in Seq(ClearItems)
  BY <1>1, LastOfRest, StepsFrom DEF NamesInv, StepsFit, Clearing
<1>6. EndsLast(ltodo')
  BY <1>2, <1>3, <1>5, LastBehind
<1>7. \A k \in {"restore", "close", "cleanup", "reset", "reapply", "capture"},
         u \in LinuxTunnels : Ahead(k, u)' <=> Ahead(k, u)
  BY <1>1, <1>4 DEF Ahead, RemovesIn
<1>8. QED BY <1>1, <1>2, <1>4, <1>6, <1>7, ClearsOn

LEMMA NamesClose ==
    ASSUME LinuxInv, NamesInv, Linux!Close, mech' = mech
    PROVE  NamesInv'
<1>0. /\ lalive /\ Clearing /\ ltodo # << >> /\ Head(ltodo) = <<"close", Linux!Arg>>
      /\ Linux!Arg \in LinuxTunnels /\ Ahead("close", Linux!Arg)
      /\ \A u \in LinuxTunnels : ~Coming(u)
  BY ClearStep DEF LinuxInv, Linux!Close, ClearNames
<1> PICK t \in LinuxTunnels : t = Linux!Arg
  BY <1>0
<1>1. /\ ltodo' = Tail(ltodo) /\ links' = links \ {t}
      /\ linkDNS' = (IF mech = "resolved" THEN [linkDNS EXCEPT ![t] = {}] ELSE linkDNS)
      /\ lalive' = lalive /\ lup' = lup /\ mgr' = mgr /\ resolv' = resolv
      /\ ljournal' = ljournal /\ original' = original /\ overlapped' = overlapped
  BY DEF Linux!Close, Linux!files, Linux!memory, Linux!Finish
<1>2. LinuxTypes /\ LinksKept /\ StepsFit /\ t \notin lup
  BY <1>0 DEF LinuxInv, NamesInv, LinuxAlive, LinuxApart, ClearNames
<1>3. /\ Clearing' /\ Pending = {<<"close", t>>} \cup Pending'
      /\ \A u \in LinuxTunnels : ~Coming(u)'
  BY <1>0, <1>1, ClearMoves
<1>4. EndsLast(ltodo')
  BY <1>0, <1>1, <1>2, LastOfRest DEF StepsFit, Clearing
<1>5. \A n, u : Ahead(n, u) <=> Ahead(n, u)' \/ (n = "close" /\ u = t)
  BY <1>3 DEF Ahead
<1>6. /\ \A u \in LinuxTunnels \ {t} : linkDNS'[u] = linkDNS[u]
      /\ linkDNS'[t] = (IF mech = "resolved" THEN {} ELSE linkDNS[t])
      /\ linkDNS' \in [LinuxTunnels -> SUBSET LinuxTunnels]
  BY <1>1, <1>2 DEF LinksKept
<1>7. LinksKept'
  BY <1>1, <1>2, <1>3, <1>6 DEF LinksKept
<1>8. StepsFit'
  BY <1>1, <1>2, <1>3, <1>4, <1>5 DEF StepsFit
<1>9. \A u \in LinuxTunnels : (Served(u)' <=> u \in lup) /\ (Served(u) <=> u \in lup)
  BY <1>0, <1>1, <1>3 DEF Served
<1>10. ASSUME ~overlapped' PROVE NamesApart'
  <2>1. NamesApart
    BY <1>1, <1>10 DEF NamesInv
  <2>2. Single'
    BY <1>0, <1>1, <2>1 DEF NamesApart, Single
  <2>3. ASSUME mech # "file", LinkNames PROVE LinkNames'
    <3>1. ASSUME NEW u \in LinuxTunnels PROVE Sound(u)'
      <4>1. Sound(u)
        BY <1>0, <2>3 DEF LinkNames
      <4>2. CASE u = t
        BY <1>1, <1>2, <1>5, <1>6, <1>9, <4>1, <4>2 DEF Sound
      <4>3. CASE u # t
        BY <1>1, <1>5, <1>6, <1>9, <4>1, <4>3 DEF Sound
      <4>4. QED BY <4>2, <4>3
    <3>2. \A u \in LinuxTunnels : Recorded(u)' <=> Recorded(u)
      BY <1>1 DEF Recorded
    <3>3. \A u \in LinuxTunnels : linkDNS'[u] # {} => linkDNS[u] # {}
      BY <1>6
    <3>4. \A u \in LinuxTunnels \cap LinuxDNS : Served(u)' => u \in linkDNS'[u]
      BY <1>2, <1>6, <1>9, <2>3 DEF LinkNames
    <3>5. QED BY <1>1, <2>3, <3>1, <3>2, <3>3, <3>4 DEF LinkNames
  <2>4. ASSUME mech = "file", OneFile PROVE OneFile'
    <3>1. \/ resolv = lup \cap LinuxDNS
          \/ \E n \in {"restore", "cleanup", "reset"}, u \in LinuxTunnels : Ahead(n, u)'
      BY <1>0, <1>5, <2>4 DEF OneFile
    <3>2. QED BY <1>1, <1>3, <2>4, <3>1 DEF OneFile
  <2>5. QED BY <1>1, <2>1, <2>2, <2>3, <2>4 DEF NamesApart
<1>11. QED BY <1>7, <1>8, <1>10 DEF NamesInv

(* What is restored is the user's own. *)
LEMMA NamesRestore ==
    ASSUME LinuxInv, NamesInv, Linux!Restore, mech' = mech
    PROVE  NamesInv'
<1>0. /\ lalive /\ Clearing /\ ltodo # << >> /\ Head(ltodo) = <<"restore", Linux!Arg>>
      /\ Linux!Arg \in LinuxTunnels /\ Ahead("restore", Linux!Arg)
      /\ \A u \in LinuxTunnels : ~Coming(u)
  BY ClearStep DEF LinuxInv, Linux!Restore, ClearNames
<1> PICK t \in LinuxTunnels : t = Linux!Arg
  BY <1>0
<1>1. /\ ltodo' = Tail(ltodo) /\ links' = links \ {t} /\ linkDNS' = [linkDNS EXCEPT ![t] = {}]
      /\ lalive' = lalive /\ lup' = lup /\ ljournal' = ljournal /\ overlapped' = overlapped
      /\ IF mgr[t].captured \/ original # Linux!NoFile
         THEN /\ resolv' = (IF mgr[t].captured THEN mgr[t].orig ELSE original)
              /\ original' = Linux!NoFile
              /\ mgr' = [mgr EXCEPT ![t].captured = FALSE]
         ELSE resolv' = resolv /\ original' = original /\ mgr' = mgr
  BY DEF Linux!Restore, Linux!RestoreDNS, Linux!Finish
<1>2. LinuxTypes /\ LinksKept /\ StepsFit /\ t \notin lup
  BY <1>0 DEF LinuxInv, NamesInv, LinuxAlive, LinuxApart, ClearNames
<1>3. /\ Clearing' /\ Pending = {<<"restore", t>>} \cup Pending'
      /\ \A u \in LinuxTunnels : ~Coming(u)'
  BY <1>0, <1>1, ClearMoves
<1>4. EndsLast(ltodo')
  BY <1>0, <1>1, <1>2, LastOfRest DEF StepsFit, Clearing
<1>5. \A n, u : Ahead(n, u) <=> Ahead(n, u)' \/ (n = "restore" /\ u = t)
  BY <1>3 DEF Ahead
<1>6. /\ \A u \in LinuxTunnels \ {t} : linkDNS'[u] = linkDNS[u]
      /\ linkDNS'[t] = {} /\ linkDNS' \in [LinuxTunnels -> SUBSET LinuxTunnels]
  BY <1>1, <1>2 DEF LinksKept
<1>7. LinksKept'
  BY <1>1, <1>2, <1>3, <1>6 DEF LinksKept
<1>8. StepsFit'
  BY <1>1, <1>2, <1>3, <1>4, <1>5 DEF StepsFit
<1>9. \A u \in LinuxTunnels : (Served(u)' <=> u \in lup) /\ (Served(u) <=> u \in lup)
  BY <1>0, <1>1, <1>3 DEF Served
<1>10. ASSUME ~overlapped' PROVE NamesApart'
  <2>1. NamesApart
    BY <1>1, <1>10 DEF NamesInv
  <2>2. Single'
    BY <1>0, <1>1, <2>1 DEF NamesApart, Single
  <2>3. ASSUME mech # "file", LinkNames PROVE LinkNames'
    <3>1. ASSUME NEW u \in LinuxTunnels PROVE Sound(u)'
      <4>1. Sound(u)
        BY <1>0, <2>3 DEF LinkNames
      <4>2. CASE u = t
        BY <1>2, <1>6, <1>9, <4>2 DEF Sound
      <4>3. CASE u # t
        BY <1>1, <1>5, <1>6, <1>9, <4>1, <4>3 DEF Sound
      <4>4. QED BY <4>2, <4>3
    <3>2. \A u \in LinuxTunnels : Recorded(u)' <=> Recorded(u)
      BY <1>1 DEF Recorded
    <3>3. \A u \in LinuxTunnels : linkDNS'[u] # {} => linkDNS[u] # {}
      BY <1>6
    <3>4. \A u \in LinuxTunnels \cap LinuxDNS : Served(u)' => u \in linkDNS'[u]
      BY <1>2, <1>6, <1>9, <2>3 DEF LinkNames
    <3>5. QED BY <2>3, <3>1, <3>2, <3>3, <3>4 DEF LinkNames
  <2>4. ASSUME mech = "file", OneFile PROVE OneFile'
    <3>1. lup = {}
      BY <1>0, <2>1, <2>4 DEF NamesApart, Single
    <3>2. mgr[t].orig = {} /\ original \in {Linux!NoFile, {}} /\ (resolv # {} => original = {})
      BY <2>4 DEF OneFile
    <3>3. Linux!NoFile # {}
      BY DEF Linux!NoFile
    <3>4. resolv' = {} /\ original' \in {Linux!NoFile, {}}
      BY <1>1, <3>2, <3>3
    <3>5. \A u \in LinuxTunnels : mgr'[u].orig = mgr[u].orig
      BY <1>1, <1>2 DEF LinuxTypes, Managers
    <3>6. QED BY <1>1, <1>3, <2>4, <3>1, <3>4, <3>5 DEF OneFile
  <2>5. QED BY <2>1, <2>2, <2>3, <2>4 DEF NamesApart
<1>11. QED BY <1>7, <1>8, <1>10 DEF NamesInv

(* Other tunnels' links have no more than connected tunnels' servers, or the   *)
(* step is one that DNSFollows leaves out.                                     *)
LEMMA NamesCleanup ==
    ASSUME LinuxInv, NamesInv, Linux!Cleanup, mech' = mech
    PROVE  NamesInv'
<1>0. /\ lalive /\ Clearing /\ ltodo # << >> /\ Head(ltodo) = <<"cleanup", Linux!Arg>>
      /\ Linux!Arg \in LinuxTunnels /\ Ahead("cleanup", Linux!Arg)
      /\ \A u \in LinuxTunnels : ~Coming(u)
  BY ClearStep DEF LinuxInv, Linux!Cleanup, ClearNames
<1> PICK t \in LinuxTunnels : t = Linux!Arg
  BY <1>0
<1>1. /\ lalive' = lalive /\ lup' = lup /\ mgr' = mgr /\ links' = links
      /\ linkDNS' = linkDNS /\ resolv' = resolv /\ ljournal' = ljournal /\ original' = original
  BY DEF Linux!Cleanup, Linux!names, Linux!memory, Linux!files, Linux!kernel
<1>2. LinuxTypes /\ LinksKept /\ StepsFit /\ t \notin lup
  BY <1>0 DEF LinuxInv, NamesInv, LinuxAlive, LinuxApart, ClearNames
<1>3. PICK u \in LinuxTunnels, q \in Seq(ClearItems) :
         /\ ltodo' = q \o Tail(ltodo) /\ overlapped' = (overlapped \/ Linux!Kept(u))
         /\ \/ lup \cap LinuxDNS = {} /\ u = t /\ StepsIn(q) = {<<"restore", t>>}
            \/ u \in lup /\ StepsIn(q) = {<<"capture", u>>, <<"reapply", u>>}
  <2>1. CASE lup \cap LinuxDNS = {}
    <3> DEFINE q == Linux!For(t, <<"restore">>)
    <3>1. q \in Seq(ClearItems) /\ StepsIn(q) = {<<"restore", t>>}
      BY ClearPair DEF ClearNames
    <3>2. ltodo' = q \o Tail(ltodo) /\ overlapped' = (overlapped \/ Linux!Kept(t))
      BY <2>1 DEF Linux!Cleanup
    <3> HIDE DEF q
    <3>3. QED BY <2>1, <3>1, <3>2
  <2>2. CASE lup \cap LinuxDNS # {}
    <3>1. PICK u \in lup : /\ ltodo' = Linux!For(u, <<"capture", "reapply">>) \o Tail(ltodo)
                           /\ overlapped' = (overlapped \/ Linux!Kept(u))
      BY <2>2 DEF Linux!Cleanup
    <3>2. u \in LinuxTunnels
      BY <1>2 DEF LinuxTypes
    <3> DEFINE q == Linux!For(u, <<"capture", "reapply">>)
    <3>3. q \in Seq(ClearItems) /\ StepsIn(q) = {<<"capture", u>>, <<"reapply", u>>}
      BY <3>2, ClearPair DEF ClearNames
    <3>4. ltodo' = q \o Tail(ltodo)
      BY <3>1
    <3> HIDE DEF q
    <3>5. QED BY <3>1, <3>2, <3>3, <3>4
  <2>3. QED BY <2>1, <2>2
<1>4. /\ Clearing' /\ \A v \in LinuxTunnels : ~Coming(v)'
      /\ Pending \subseteq {<<"cleanup", t>>} \cup Pending'
      /\ Pending' \subseteq Pending \cup StepsIn(q) /\ StepsIn(q) \subseteq Pending'
  BY <1>0, <1>3, Swaps
<1>5. EndsLast(Tail(ltodo)) /\ Tail(ltodo) \in Seq(ClearItems)
  BY <1>0, <1>2, LastOfRest, StepsFrom DEF StepsFit, Clearing
<1>6. EndsLast(ltodo')
  <2>1. \A x \in StepsIn(q) : x[1] \notin Lasting
    BY <1>3 DEF Lasting
  <2>2. EndsLast(q \o Tail(ltodo))
    BY <1>5, <2>1, LastBehind
  <2>3. QED BY <1>3, <2>2
<1>7. \A n, v : Ahead(n, v) => Ahead(n, v)' \/ (n = "cleanup" /\ v = t)
  BY <1>4 DEF Ahead
<1>8. LinksKept'
  BY <1>1, <1>2, <1>4 DEF LinksKept
<1>9. StepsFit'
  <2>1. \A n \in {"capture", "reapply"}, v \in LinuxTunnels :
           Ahead(n, v)' => Ahead(n, v) \/ v \in lup
    BY <1>3, <1>4 DEF Ahead
  <2>2. QED BY <1>1, <1>2, <1>4, <1>6, <2>1 DEF StepsFit
<1>10. \A v \in LinuxTunnels : (Served(v)' <=> v \in lup) /\ (Served(v) <=> v \in lup)
  BY <1>0, <1>1, <1>4 DEF Served
<1>11. ASSUME ~overlapped' PROVE NamesApart'
  <2>1. ~overlapped /\ ~Linux!Kept(u)
    BY <1>3, <1>11
  <2>2. NamesApart
    BY <2>1 DEF NamesInv
  <2>3. mech # "resolved" => lup = {} /\ Ahead("restore", t)'
    <3>1. mech # "resolved" => lup = {}
      BY <1>0, <2>2 DEF NamesApart, Single
    <3>2. lup = {} => <<"restore", t>> \in Pending'
      BY <1>3, <1>4
    <3>3. QED BY <3>1, <3>2 DEF Ahead
  <2>4. Single'
    BY <1>1, <2>3 DEF Single
  <2>5. ASSUME mech # "file", LinkNames PROVE LinkNames'
    <3>1. ASSUME NEW v \in LinuxTunnels PROVE Sound(v)'
      <4>1. Sound(v)
        BY <1>0, <2>5 DEF LinkNames
      <4>2. CASE v \in lup /\ v = u
        <5>1. Ahead("reapply", v)'
          BY <1>2, <1>3, <1>4, <4>2 DEF Ahead
        <5>2. QED BY <1>1, <4>2, <5>1 DEF Sound
      <4>3. CASE v \in lup /\ v # u
        <5>1. linkDNS[v] \subseteq lup \cap LinuxDNS
          BY <2>1, <2>3, <4>3 DEF Linux!Kept
        <5>2. QED BY <1>1, <1>10, <4>3, <5>1 DEF Sound
      <4>4. CASE v \notin lup
        BY <1>1, <1>7, <1>10, <2>3, <4>1, <4>4 DEF Sound
      <4>5. QED BY <4>2, <4>3, <4>4
    <3>2. \A v \in LinuxTunnels : Recorded(v)' <=> Recorded(v)
      BY <1>1 DEF Recorded
    <3>3. QED BY <1>1, <1>10, <2>5, <3>1, <3>2 DEF LinkNames
  <2>6. ASSUME mech = "file", OneFile PROVE OneFile'
    BY <1>1, <1>4, <2>3, <2>6 DEF OneFile
  <2>7. QED BY <2>2, <2>4, <2>5, <2>6 DEF NamesApart
<1>12. QED BY <1>8, <1>9, <1>11 DEF NamesInv

LEMMA NamesReapply ==
    ASSUME LinuxInv, NamesInv, Linux!Reapply, mech' = mech
    PROVE  NamesInv'
<1>0. /\ lalive /\ Clearing /\ ltodo # << >> /\ Head(ltodo) = <<"reapply", Linux!Arg>>
      /\ Linux!Arg \in LinuxTunnels /\ Ahead("reapply", Linux!Arg)
      /\ \A u \in LinuxTunnels : ~Coming(u)
  BY ClearStep DEF LinuxInv, Linux!Reapply, ClearNames
<1> PICK t \in LinuxTunnels : t = Linux!Arg
  BY <1>0
<1> DEFINE s == lup \cap LinuxDNS
<1>1. /\ lalive' = lalive /\ lup' = lup /\ mgr' = mgr /\ links' = links
      /\ ljournal' = ljournal /\ original' = original /\ overlapped' = overlapped
      /\ ltodo' = Tail(ltodo)
      /\ linkDNS' = (IF mech = "file" THEN linkDNS ELSE [linkDNS EXCEPT ![t] = s])
      /\ mech # "file" => resolv' = resolv
  BY DEF Linux!Reapply, Linux!memory, Linux!files, Linux!kernel, Linux!Finish, Linux!Write
<1>2. LinuxTypes /\ LinksKept /\ StepsFit /\ t \in lup
  BY <1>0 DEF LinuxInv, NamesInv, StepsFit
<1>3. /\ Clearing' /\ Pending = {<<"reapply", t>>} \cup Pending'
      /\ \A u \in LinuxTunnels : ~Coming(u)'
  BY <1>0, <1>1, ClearMoves
<1>4. EndsLast(ltodo')
  BY <1>0, <1>1, <1>2, LastOfRest DEF StepsFit, Clearing
<1>5. \A n, u : Ahead(n, u) <=> Ahead(n, u)' \/ (n = "reapply" /\ u = t)
  BY <1>3 DEF Ahead
<1>6. s \subseteq LinuxTunnels
  BY <1>2 DEF LinuxTypes
<1>7. LinksKept'
  <2>1. /\ linkDNS' \in [LinuxTunnels -> SUBSET LinuxTunnels]
        /\ \A u \in LinuxTunnels \ {t} : linkDNS'[u] = linkDNS[u]
    BY <1>1, <1>2, <1>6 DEF LinksKept
  <2>2. t \in links
    BY <1>2 DEF LinksKept
  <2>3. QED BY <1>1, <1>2, <1>3, <2>1, <2>2 DEF LinksKept
<1>8. StepsFit'
  BY <1>1, <1>2, <1>3, <1>4, <1>5 DEF StepsFit
<1>9. \A u \in LinuxTunnels : (Served(u)' <=> u \in lup) /\ (Served(u) <=> u \in lup)
  BY <1>0, <1>1, <1>3 DEF Served
<1>10. ASSUME ~overlapped' PROVE NamesApart'
  <2>1. NamesApart
    BY <1>1, <1>10 DEF NamesInv
  <2>2. mech = "resolved"
    BY <1>0, <1>2, <2>1 DEF NamesApart, Single
  <2>3. LinkNames
    BY <2>1, <2>2 DEF NamesApart
  <2>4. linkDNS'[t] = s /\ \A u \in LinuxTunnels \ {t} : linkDNS'[u] = linkDNS[u]
    BY <1>1, <1>2, <2>2 DEF LinksKept
  <2>5. ASSUME NEW u \in LinuxTunnels PROVE Sound(u)'
    <3>1. CASE u = t
      BY <1>1, <1>2, <1>9, <2>4, <3>1 DEF Sound
    <3>2. CASE u # t
      <4>1. Sound(u)
        BY <1>0, <2>3 DEF LinkNames
      <4>2. QED BY <1>1, <1>5, <1>9, <2>4, <3>2, <4>1 DEF Sound
    <3>3. QED BY <3>1, <3>2
  <2>6. \A u \in LinuxTunnels \cap LinuxDNS : Served(u)' => u \in linkDNS'[u]
    BY <1>2, <1>9, <2>3, <2>4 DEF LinkNames
  <2>7. LinkNames' /\ Single'
    BY <2>2, <2>5, <2>6 DEF LinkNames, Single
  <2>8. QED BY <2>2, <2>7 DEF NamesApart
<1>11. QED BY <1>7, <1>8, <1>10 DEF NamesInv

(* The files go when nothing is to be taken back by them any more. *)
LEMMA NamesForget ==
    ASSUME LinuxInv, NamesInv, Linux!Forget \/ Linux!Clear, mech' = mech
    PROVE  NamesInv'
<1>1. PICK n \in Lasting : Linux!Step(n)
  BY DEF Linux!Forget, Linux!Clear, Lasting
<1>2. /\ lalive /\ Clearing /\ ltodo # << >> /\ Head(ltodo) = <<n, Linux!Arg>>
      /\ \A u \in LinuxTunnels : ~Coming(u)
  BY <1>1, ClearStep DEF LinuxInv, ClearNames, Lasting
<1>3. /\ lalive' = lalive /\ lup' = lup /\ mgr' = mgr /\ links' = links /\ linkDNS' = linkDNS
      /\ resolv' = resolv /\ original' = original /\ overlapped' = overlapped
      /\ ltodo' = Tail(ltodo)
  BY DEF Linux!Forget, Linux!Clear, Linux!kernel, Linux!names, Linux!memory, Linux!Finish
<1>4. LinuxTypes /\ LinksKept /\ StepsFit
  BY DEF LinuxInv, NamesInv
<1>5. EndsLast(ltodo') /\ ltodo' = << >>
  BY <1>2, <1>3, <1>4, LastOfRest DEF StepsFit, Clearing
<1>6. /\ Clearing' /\ Pending' = {} /\ \A u \in LinuxTunnels : ~Coming(u)'
      /\ Pending = {Head(ltodo)} \cup Pending'
  BY <1>2, <1>3, <1>5, ClearMoves, Ends
<1>7. \A k, u : ~Ahead(k, u)' /\ (Ahead(k, u) => k \in Lasting)
  BY <1>2, <1>6 DEF Ahead
<1>8. LinksKept'
  BY <1>3, <1>4, <1>6 DEF LinksKept
<1>9. StepsFit'
  BY <1>5, <1>6, <1>7 DEF StepsFit
<1>10. \A u \in LinuxTunnels : (Served(u)' <=> u \in lup) /\ (Served(u) <=> u \in lup)
  BY <1>2, <1>3, <1>6 DEF Served
<1>11. ASSUME ~overlapped' PROVE NamesApart'
  <2>1. NamesApart
    BY <1>3, <1>11 DEF NamesInv
  <2>2. mech # "resolved" => lup = {}
    BY <1>2, <2>1 DEF NamesApart, Single
  <2>3. Single'
    BY <1>3, <2>2 DEF Single
  <2>4. ASSUME mech # "file", LinkNames PROVE LinkNames'
    <3>1. ASSUME NEW u \in LinuxTunnels PROVE Sound(u)' /\ (u \notin lup => linkDNS[u] = {})
      <4>1. Sound(u)
        BY <1>2, <2>4 DEF LinkNames
      <4>2. \A k \in {"restore", "close", "cleanup", "reapply"}, v \in LinuxTunnels : ~Ahead(k, v)
        BY <1>7 DEF Lasting
      <4>3. QED BY <1>3, <1>10, <4>1, <4>2 DEF Sound
    <3>2. mech' = "resolvconf" => \A u \in LinuxTunnels : linkDNS'[u] = {}
      BY <1>3, <2>2, <3>1
    <3>3. QED BY <1>3, <1>10, <2>4, <3>1, <3>2 DEF LinkNames
  <2>5. ASSUME mech = "file", OneFile PROVE OneFile'
    <3>1. resolv = {}
      <4>1. \A k \in {"restore", "cleanup", "reset"}, v \in LinuxTunnels : ~Ahead(k, v)
        BY <1>7 DEF Lasting
      <4>2. QED BY <1>2, <2>2, <2>5, <4>1 DEF OneFile
    <3>2. QED BY <1>3, <1>6, <2>2, <2>5, <3>1 DEF OneFile
  <2>6. QED BY <2>1, <2>3, <2>4, <2>5 DEF NamesApart
<1>12. QED BY <1>8, <1>9, <1>11 DEF NamesInv

LEMMA NamesReset ==
    ASSUME LinuxInv, NamesInv, Linux!Reset, mech' = mech
    PROVE  NamesInv'
<1>1. /\ lalive /\ Clearing /\ ltodo # << >> /\ Head(ltodo) = <<"reset", Linux!Arg>>
      /\ \A u \in LinuxTunnels : ~Coming(u)
  BY ClearStep DEF LinuxInv, Linux!Reset, ClearNames
<1>2. /\ lalive' = lalive /\ lup' = lup /\ mgr' = mgr /\ links' = links /\ linkDNS' = linkDNS
      /\ ljournal' = ljournal /\ overlapped' = overlapped /\ ltodo' = Tail(ltodo)
      /\ resolv' = (IF original = Linux!NoFile THEN resolv ELSE original)
      /\ original' = Linux!NoFile
  BY DEF Linux!Reset, Linux!kernel, Linux!memory, Linux!Finish
<1>3. LinuxTypes /\ LinksKept /\ StepsFit
  BY DEF LinuxInv, NamesInv
<1>4. /\ Clearing' /\ Pending = {Head(ltodo)} \cup Pending'
      /\ \A u \in LinuxTunnels : ~Coming(u)'
  BY <1>1, <1>2, ClearMoves
<1>5. EndsLast(ltodo')
  BY <1>1, <1>2, <1>3, LastOfRest DEF StepsFit, Clearing
<1>6. \A n, u : (Ahead(n, u)' => Ahead(n, u)) /\ (n # "reset" /\ Ahead(n, u) => Ahead(n, u)')
  BY <1>1, <1>4 DEF Ahead
<1>7. LinksKept'
  BY <1>2, <1>3, <1>4 DEF LinksKept
<1>8. StepsFit'
  BY <1>2, <1>3, <1>4, <1>5, <1>6 DEF StepsFit
<1>9. \A u \in LinuxTunnels : (Served(u)' <=> u \in lup) /\ (Served(u) <=> u \in lup)
  BY <1>1, <1>2, <1>4 DEF Served
<1>10. ASSUME ~overlapped' PROVE NamesApart'
  <2>1. NamesApart
    BY <1>2, <1>10 DEF NamesInv
  <2>2. mech # "resolved" => lup = {}
    BY <1>1, <2>1 DEF NamesApart, Single
  <2>3. Single'
    BY <1>2, <2>2 DEF Single
  <2>4. ASSUME mech # "file", LinkNames PROVE LinkNames'
    <3>1. ASSUME NEW u \in LinuxTunnels PROVE Sound(u)'
      <4>1. Sound(u)
        BY <1>1, <2>4 DEF LinkNames
      <4>2. QED BY <1>2, <1>6, <1>9, <4>1 DEF Sound
    <3>2. \A u \in LinuxTunnels : Recorded(u)' <=> Recorded(u)
      BY <1>2 DEF Recorded
    <3>3. QED BY <1>2, <1>9, <2>4, <3>1, <3>2 DEF LinkNames
  <2>5. ASSUME mech = "file", OneFile PROVE OneFile'
    <3>1. original \in {Linux!NoFile, {}} /\ (resolv # {} => original = {})
      BY <2>5 DEF OneFile
    <3>2. Linux!NoFile # {}
      BY DEF Linux!NoFile
    <3>3. resolv' = {}
      BY <1>2, <3>1, <3>2
    <3>4. QED BY <1>2, <1>4, <2>2, <2>5, <3>3 DEF OneFile
  <2>6. QED BY <2>1, <2>3, <2>4, <2>5 DEF NamesApart
<1>11. QED BY <1>7, <1>8, <1>10 DEF NamesInv

(* A crash leaves what the files tell of, and the next process sees to that. *)
LEMMA NamesCrash ==
    ASSUME LinuxInv, NamesInv, Linux!Crash
    PROVE  NamesInv'
<1>1. /\ lalive /\ ~lalive' /\ ltodo' = << >> /\ lup' = {} /\ links' = {} /\ mech' = mech
      /\ mgr' = [t \in LinuxTunnels |-> Linux!Fresh]
      /\ linkDNS' = (IF mech = "resolved" THEN [t \in LinuxTunnels |-> {}] ELSE linkDNS)
      /\ ljournal' = ljournal /\ original' = original /\ resolv' = resolv
      /\ overlapped' = overlapped
  BY DEF Linux!Crash, Linux!files
<1>2. LinksKept
  BY DEF NamesInv
<1>3. Clearing' /\ Pending' = {} /\ \A u \in LinuxTunnels : ~Coming(u)'
  BY <1>1, Ends
<1>4. LinksKept'
  BY <1>1, <1>2, <1>3 DEF LinksKept
<1>5. StepsFit'
  <2>1. << >> \in Seq(ClearItems) /\ \A x \in StepsIn(<< >>) : x[1] \notin Lasting
    BY DEF StepsIn
  <2>2. EndsLast(ltodo')
    BY <1>1, <2>1, NoneLast
  <2>3. QED BY <1>3, <2>2 DEF StepsFit, Ahead
<1>6. \A u \in LinuxTunnels : ~Served(u)'
  BY <1>1, <1>3 DEF Served
<1>7. ASSUME ~overlapped' PROVE NamesApart'
  <2>1. NamesApart
    BY <1>1, <1>7 DEF NamesInv
  <2>2. Single'
    BY <1>1 DEF Single
  <2>3. ASSUME mech # "file", LinkNames PROVE LinkNames'
    <3>1. \A u \in LinuxTunnels : Recorded(u)' <=> Recorded(u)
      BY <1>1 DEF Recorded
    <3>2. QED BY <1>1, <1>6, <2>3, <3>1 DEF LinkNames
  <2>4. ASSUME mech = "file", OneFile PROVE OneFile'
    <3>1. \A u \in LinuxTunnels : mgr'[u].orig = {}
      BY <1>1 DEF Linux!Fresh
    <3>2. QED BY <1>1, <1>3, <2>4, <3>1 DEF OneFile
  <2>5. QED BY <1>1, <2>1, <2>2, <2>3, <2>4 DEF NamesApart
<1>8. QED BY <1>4, <1>5, <1>7 DEF NamesInv

LEMMA NamesLaunch ==
    ASSUME LinuxInv, NamesInv, Linux!Launch
    PROVE  NamesInv'
<1> DEFINE recorded == {j[1] : j \in ljournal}
           n == Linux!Cardinality(recorded)
<1>1. /\ ~lalive /\ lalive' /\ lup' = lup /\ links' = links /\ linkDNS' = linkDNS
      /\ ljournal' = ljournal /\ original' = original /\ resolv' = resolv /\ mech' = mech
      /\ overlapped' = overlapped
      /\ mgr' = [t \in LinuxTunnels |->
                   IF \E j \in ljournal : j[1] = t
                   THEN Linux!Recovered(CHOOSE j \in ljournal : j[1] = t) ELSE Linux!Fresh]
  BY DEF Linux!Launch, Linux!kernel, Linux!names, Linux!files
<1>2. LinuxTypes /\ lup = {} /\ LinksKept
  BY <1>1 DEF LinuxInv, LinuxPlaces, NamesInv
<1>3. PICK order \in [1..n -> recorded] :
         /\ recorded = {order[i] : i \in 1..n}
         /\ ltodo' = Linux!RecoverSteps(order)
                        \o (IF n = 0 THEN <<>> ELSE <<<<"clear", order[1]>>>>)
  BY DEF Linux!Launch
<1>4. n \in Nat /\ recorded \subseteq LinuxTunnels
  BY <1>2, RecordedFinite DEF LinuxTypes
<1> PICK m \in Nat : m = n
  BY <1>4
<1>5. order \in [1..m -> LinuxTunnels]
  BY <1>3, <1>4
<1> DEFINE q == Linux!RecoverSteps(order)
           c == IF m = 0 THEN <<>> ELSE <<<<"clear", order[1]>>>>
<1>6. /\ q \in Seq(ClearItems)
      /\ \A a \in ClearNames, t \in LinuxTunnels :
            <<a, t>> \in StepsIn(q) => a \in {"reset", "recover", "restore"}
      /\ \A k \in 1..m, a \in {"reset", "recover", "restore"} : <<a, order[k]>> \in StepsIn(q)
  BY <1>5, RecoveryIs
<1>7. c \in Seq(ClearItems) /\ EndsLast(c) /\ \A a, t : <<a, t>> \in StepsIn(c) => a = "clear"
  <2>1. CASE m = 0
    <3>1. << >> \in Seq(ClearItems) /\ StepsIn(<< >>) = {}
      <4>1. << >> \in Seq(ClearItems)
        OBVIOUS
      <4>2. QED BY <4>1, StepsFrom
    <3>2. QED BY <2>1, <3>1, NoneLast
  <2>2. CASE m # 0
    <3> DEFINE x == <<"clear", order[1]>>
               w == <<x>>
    <3>1. x \in ClearItems
      BY <1>5, <2>2 DEF ClearItems, ClearNames
    <3> HIDE DEF x
    <3>2. w \in Seq(ClearItems) /\ Len(w) = 1 /\ w[1] = x
      BY <3>1
    <3> HIDE DEF w
    <3>3. 1..1 = {1}
      OBVIOUS
    <3>4. StepsIn(w) = {x} /\ EndsLast(w)
      BY <3>2, <3>3 DEF StepsIn, EndsLast
    <3>5. c = w
      BY <2>2 DEF w, x
    <3>6. QED BY <3>2, <3>4, <3>5 DEF x
  <2>3. QED BY <2>1, <2>2
<1>8. ltodo' = q \o c
  BY <1>3
<1> HIDE DEF q, c, n
<1>9. \A y \in StepsIn(q) : y[1] \notin Lasting
  <2>1. SUFFICES ASSUME NEW y \in StepsIn(q) PROVE y[1] \notin Lasting
    OBVIOUS
  <2>2. y \in ClearItems
    <3>1. PICK i \in 1..Len(q) : y = q[i]
      BY DEF StepsIn
    <3>2. QED BY <1>6, <3>1
  <2>3. QED BY <1>6, <2>2 DEF ClearItems, Lasting
<1>10. /\ Clearing' /\ \A t \in LinuxTunnels : ~Coming(t)'
       /\ Pending' = StepsIn(q) \cup StepsIn(c) /\ EndsLast(ltodo')
  <2>1. /\ q \o c \in Seq(ClearItems) /\ StepsIn(q \o c) = StepsIn(q) \cup StepsIn(c)
        /\ EndsLast(q \o c)
    BY <1>6, <1>7, <1>9, StepsBehind, LastBehind
  <2>2. QED BY <1>8, <2>1, Begins
<1>11. ASSUME NEW t \in LinuxTunnels, Recorded(t)
       PROVE  Ahead("restore", t)' /\ Ahead("reset", t)'
  <2>1. t \in recorded
    BY <1>11 DEF Recorded
  <2>2. PICK k \in 1..m : t = order[k]
    BY <1>3, <2>1
  <2>3. <<"restore", t>> \in StepsIn(q) /\ <<"reset", t>> \in StepsIn(q)
    BY <1>6, <2>2
  <2>4. QED BY <1>10, <2>3 DEF Ahead
<1>12. LinksKept'
  BY <1>1, <1>2, <1>10 DEF LinksKept
<1>13. StepsFit'
  <2>1. \A a \in {"capture", "reapply"}, t \in LinuxTunnels : ~Ahead(a, t)'
    BY <1>6, <1>7, <1>10 DEF Ahead, ClearNames
  <2>2. QED BY <1>10, <2>1 DEF StepsFit
<1>14. \A t \in LinuxTunnels : ~Served(t)'
  BY <1>1, <1>2, <1>10 DEF Served
<1>15. ASSUME ~overlapped' PROVE NamesApart'
  <2>1. NamesApart
    BY <1>1, <1>15 DEF NamesInv
  <2>2. Single'
    BY <1>1, <1>2 DEF Single
  <2>3. ASSUME mech # "file", LinkNames PROVE LinkNames'
    <3>1. ASSUME NEW t \in LinuxTunnels PROVE Sound(t)'
      <4>1. mech = "resolved" \/ mech = "resolvconf"
        BY <1>2, <2>3 DEF LinuxTypes
      <4>2. CASE mech = "resolved"
        <5>1. linkDNS[t] = {}
          BY <1>1, <1>2, <4>2 DEF LinksKept
        <5>2. QED BY <1>1, <1>14, <5>1 DEF Sound
      <4>3. CASE mech = "resolvconf"
        <5>1. linkDNS[t] = {} \/ Recorded(t)
          BY <2>3, <4>3 DEF LinkNames
        <5>2. QED BY <1>1, <1>11, <1>14, <5>1 DEF Sound
      <4>4. QED BY <4>1, <4>2, <4>3
    <3>2. \A t \in LinuxTunnels : Recorded(t)' <=> Recorded(t)
      BY <1>1 DEF Recorded
    <3>3. QED BY <1>1, <1>14, <2>3, <3>1, <3>2 DEF LinkNames
  <2>4. ASSUME mech = "file", OneFile PROVE OneFile'
    <3>1. ASSUME NEW t \in LinuxTunnels PROVE mgr'[t].orig = {}
      <4>1. Linux!Fresh.orig = {}
        BY DEF Linux!Fresh
      <4>2. \A j : Linux!Recovered(j).orig = Linux!Fresh.orig
        BY DEF Linux!Recovered, Linux!Fresh
      <4>3. QED BY <1>1, <4>1, <4>2
    <3>2. \/ resolv = {}
          \/ \E t \in LinuxTunnels : Ahead("reset", t)'
      <4>1. SUFFICES ASSUME resolv # {} PROVE \E t \in LinuxTunnels : Ahead("reset", t)'
        OBVIOUS
      <4>2. PICK j \in ljournal : TRUE
        BY <2>4, <4>1 DEF OneFile
      <4>3. j[1] \in LinuxTunnels /\ Recorded(j[1])
        BY <1>2 DEF LinuxTypes, Recorded
      <4>4. QED BY <1>11, <4>3
    <3>3. QED BY <1>1, <1>2, <1>10, <2>4, <3>1, <3>2 DEF OneFile
  <2>5. QED BY <1>1, <2>1, <2>2, <2>3, <2>4 DEF NamesApart
<1>16. QED BY <1>12, <1>13, <1>15 DEF NamesInv

-----------------------------------------------------------------------------
(* The invariant of the names, step by step. *)
LEMMA NamesKeep ==
    ASSUME LinuxInv, NamesInv, [Linux!Next]_lvars
    PROVE  NamesInv'
<1>1. CASE \E t \in LinuxTunnels : Linux!Connect(t) \/ Linux!Disconnect(t)
  BY <1>1, NamesConnect, NamesDisconnect
<1>2. CASE Linux!Crash \/ Linux!Launch
  BY <1>2, NamesCrash, NamesLaunch
<1>3. CASE Linux!Steps /\ mech' = mech
  <2>1. CASE Linux!Link \/ Linux!Checkpoint \/ Linux!Capture \/ Linux!SetDNS \/ Linux!Up
    BY <1>3, <2>1, NamesLink, NamesCheckpoint, NamesCapture, NamesSet, NamesUp
  <2>2. CASE Linux!Table \/ Linux!Default \/ Linux!Split \/ Linux!Rule \/ Linux!Endpoint
    BY <1>3, <2>2, NamesRoute
  <2>3. CASE Linux!RemoveRoutes \/ Linux!RemoveBinds \/ Linux!RemoveRule \/ Linux!Recover
    BY <1>3, <2>3, NamesRemove, NamesRecover
  <2>4. CASE Linux!Close \/ Linux!Restore \/ Linux!Cleanup \/ Linux!Reapply
    BY <1>3, <2>4, NamesClose, NamesRestore, NamesCleanup, NamesReapply
  <2>5. CASE Linux!Forget \/ Linux!Reset \/ Linux!Clear
    BY <1>3, <2>5, NamesForget, NamesReset
  <2>6. QED BY <1>3, <2>1, <2>2, <2>3, <2>4, <2>5 DEF Linux!Steps
<1>4. CASE UNCHANGED lvars
  <2>1. /\ UNCHANGED <<mech, links, lup, mgr, linkDNS, resolv, ljournal, original, overlapped>>
        /\ UNCHANGED <<lalive, ltodo>>
    BY <1>4 DEF lvars
  <2>2. (\A t : Coming(t)' <=> Coming(t)) /\ FirstStep' = FirstStep
    BY <2>1 DEF Coming, FirstStep
  <2>3. (Clearing' <=> Clearing) /\ \A n, t : Ahead(n, t)' <=> Ahead(n, t)
    BY <2>1 DEF Clearing, Ahead, Pending, StepsIn
  <2>4. LinksKept'
    BY <2>1, <2>2 DEF LinksKept, NamesInv
  <2>5. StepsFit'
    <3>1. EndsLast(ltodo)' <=> EndsLast(ltodo)
      BY <2>1 DEF EndsLast
    <3>2. \A t : Recorded(t)' <=> Recorded(t)
      BY <2>1 DEF Recorded
    <3>3. QED BY <2>1, <2>2, <2>3, <3>1, <3>2 DEF StepsFit, NamesInv
  <2>6. \A t : (Served(t)' <=> Served(t)) /\ (Recorded(t)' <=> Recorded(t))
    BY <2>1, <2>2 DEF Served, Recorded
  <2>7. LinkNames => LinkNames'
    <3>1. \A t : Sound(t)' <=> Sound(t)
      BY <2>1, <2>3, <2>6 DEF Sound
    <3>2. QED BY <2>1, <2>6, <3>1 DEF LinkNames
  <2>8. OneFile => OneFile'
    BY <2>1, <2>2, <2>3 DEF OneFile
  <2>9. Single => Single'
    BY <2>1 DEF Single
  <2>10. QED BY <2>1, <2>4, <2>5, <2>7, <2>8, <2>9 DEF NamesInv, NamesApart
<1>5. QED BY <1>1, <1>2, <1>3, <1>4 DEF Linux!Next

LEMMA NamesAre ==
    ASSUME LinuxInv, NamesInv
    PROVE  Linux!DNSFollows
<1>1. SUFFICES ASSUME ~overlapped, Linux!Settled PROVE Linux!Effective = lup \cap LinuxDNS
  BY DEF Linux!DNSFollows, Linux!DNSExact
<1>2. lup \subseteq links /\ links \subseteq LinuxTunnels
  BY DEF NamesInv, LinksKept
<1>3. CASE mech = "file"
  BY <1>1, <1>3, NamesAtRest DEF Linux!Effective
<1>4. CASE mech # "file"
  <2> DEFINE T == IF mech = "resolved" THEN links ELSE LinuxTunnels
  <2>1. Linux!Effective = UNION {linkDNS[t] : t \in T}
    BY <1>4 DEF Linux!Effective
  <2>2. T \subseteq LinuxTunnels /\ lup \subseteq T
    BY <1>2
  <2>3. \A t \in LinuxTunnels :
           /\ t \in lup => linkDNS[t] \subseteq lup \cap LinuxDNS
           /\ t \notin lup => linkDNS[t] = {}
           /\ t \in lup \cap LinuxDNS => t \in linkDNS[t]
    BY <1>1, <1>4, NamesAtRest
  <2> HIDE DEF T
  <2>4. \A t \in T : linkDNS[t] \subseteq lup \cap LinuxDNS
    BY <2>2, <2>3
  <2>5. \A t \in lup \cap LinuxDNS : t \in T /\ t \in linkDNS[t]
    BY <1>2, <2>2, <2>3
  <2>6. QED BY <2>1, <2>4, <2>5
<1>5. QED BY <1>3, <1>4

(* A step of the whole is one of the Linux part, or leaves it as it is. *)
LEMMA NamesStay ==
    ASSUME LinuxInv, NamesInv, [MCNext]_all
    PROVE  NamesInv'
<1>1. [Linux!Next]_lvars
  BY DEF MCNext, SystemNext, all
<1>2. QED BY <1>1, NamesKeep

(* Between two operations on Linux names are resolved by the connected         *)
(* tunnels' servers, all of them, and by the user's own when there are none,   *)
(* after failed connects, disconnects of neighbours, crashes and recoveries    *)
(* too.  It is so for any tunnels, in each of the three ways that SetDNS       *)
(* knows: where each tunnel has its link's own servers, until a disconnect     *)
(* leaves a neighbour's link those of the tunnel that went; with resolvconf    *)
(* and with resolv.conf, until two tunnels have been connected at a time.      *)
(* (network/linux.go SetDNS, RestoreDNS, Cleanup, ResetDNSToSystemDefault,     *)
(* tunnel/connect_phases.go disconnectPhases, tunnel/recovery.go               *)
(* RecoverFromCrash)                                                           *)
THEOREM NamesFollow == MCSpec => []DNSFollows
<1>1. MCInit => LinuxInv /\ NamesInv
  BY LinuxInitially, NamesInitially DEF MCInit
<1>2. LinuxInv /\ NamesInv /\ [MCNext]_all => LinuxInv' /\ NamesInv'
  BY LinuxStays, NamesStay
<1>3. LinuxInv /\ NamesInv => DNSFollows
  BY NamesAre DEF DNSFollows
<1>4. QED BY <1>1, <1>2, <1>3, PTL DEF MCSpec, all

=============================================================================
