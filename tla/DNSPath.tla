------------------------------- MODULE DNSPath --------------------------------
(***************************************************************************)
(* The DNS resolve path: at most one connected tunnel carries the system's *)
(* DNS.  A connect that wants the path while another tunnel has it is      *)
(* parked, without connectMu, until the user answers a dialog, the owner   *)
(* goes down, or a deadline passes; a connect that gets through installs   *)
(* the firewall rules, the owner's teardown removes them.  With it, how    *)
(* the requests get there: the IPC server serves the requests of one       *)
(* connection one after the other, the GUI has one connection, and each    *)
(* `ctl` command has its own.                                              *)
(*                                                                         *)
(* Every tunnel has DNS servers, and the firewall's calls succeed.         *)
(***************************************************************************)
EXTENDS Integers, Sequences

CONSTANTS
    Tunnels,
    GUIConns,    \* the GUI's connections, of which it holds one
    Ctl,         \* the connection of a `ctl` command
    Engine,      \* the automation engine, which calls without a connection
    None,
    MaxEvents    \* bound: what the users, the engine and the switches do

Conns == GUIConns \cup {Ctl}
Callers == Conns \cup {Engine}

ASSUME DNSPathAssumption ==
    /\ None \notin Tunnels \cup Callers \cup {"disable", "cancel"}
    /\ Engine \notin Conns

VARIABLES
    events,
    \* Settings and meta files.
    master,      \* Settings.DNSResolvePath
    switch,      \* the tunnels whose TunnelMeta.DNSResolvePath is on
    \* IPC.
    queue,       \* by connection, the requests not yet read
    client,      \* the GUI's connection
    dialog,      \* the tunnel its dialog asks about: there is one dialog
    \* The helper.
    pc, name,    \* the handler of a caller, and its tunnel
    answer,      \* what is in the caller's channel
    waits,       \* dnsPathWaits: whose channel it is
    waived,      \* dnsPathWaived
    connectMu,
    activeCfgs,
    up,          \* the tunnels that are connected
    rules,       \* the tunnel the firewall lets DNS through
    owner        \* dnsPathOwner

ipc == <<queue, client, dialog>>
handlers == <<pc, name, answer, waits>>
vars == <<events, master, switch, ipc, handlers, waived, connectMu,
          activeCfgs, up, rules, owner>>

Event == events < MaxEvents /\ events' = events + 1

Request(op, t) == [op |-> op, tunnel |-> t]

(* tunnelClaimsDNSPath *)
Claims(t) == master /\ t \in switch /\ t \notin waived

(* dnsPathBlockers *)
Blockers(t) == IF master THEN (activeCfgs \cap switch) \ {t} ELSE {}

Init ==
    /\ events = 0
    /\ master = TRUE
    /\ switch \in SUBSET Tunnels
    /\ queue = [c \in Conns |-> <<>>]
    /\ client \in GUIConns
    /\ dialog = None
    /\ pc = [k \in Callers |-> "idle"]
    /\ name = [k \in Callers |-> None]
    /\ answer = [k \in Callers |-> None]
    /\ waits = [t \in Tunnels |-> None]
    /\ waived = {}
    /\ connectMu = None
    /\ activeCfgs = {}
    /\ up = {}
    /\ rules = None
    /\ owner = None

-----------------------------------------------------------------------------
(* Requests *)

GUISend ==
    /\ Event
    /\ \E op \in {"connect", "disconnect"}, t \in Tunnels :
          queue' = [queue EXCEPT ![client] = Append(@, Request(op, t))]
    /\ UNCHANGED <<master, switch, client, dialog, handlers, waived, connectMu,
                   activeCfgs, up, rules, owner>>

CtlSend ==
    /\ Event
    /\ queue[Ctl] = <<>> /\ pc[Ctl] = "idle"
    /\ \E op \in {"connect", "disconnect"}, t \in Tunnels :
          queue' = [queue EXCEPT ![Ctl] = <<Request(op, t)>>]
    /\ UNCHANGED <<master, switch, client, dialog, handlers, waived, connectMu,
                   activeCfgs, up, rules, owner>>

(* The dialog: "turn it off and connect" saves the switch, then answers. *)
Answer ==
    /\ dialog # None
    /\ dialog' = None
    /\ \E op \in {"disable", "cancel"} :
          /\ queue' = [queue EXCEPT ![client] =
                          Append(@, Request(op, dialog))]
          /\ switch' = IF op = "disable" THEN switch \ {dialog} ELSE switch
    /\ UNCHANGED <<events, master, client, handlers, waived, connectMu,
                   activeCfgs, up, rules, owner>>

(* The connect call has timed out and pings are not answered: the GUI takes
   another connection and closes the one that hangs. *)
Swap ==
    /\ pc[client] = "parked" /\ Event
    /\ \E c \in GUIConns \ {client} : pc[c] = "idle" /\ client' = c
    /\ UNCHANGED <<master, switch, queue, dialog, handlers, waived, connectMu,
                   activeCfgs, up, rules, owner>>

-----------------------------------------------------------------------------
(* handleConn: the next request is read when the handler has returned; what a
   closed connection still holds is not read. *)

Take(c) ==
    /\ pc[c] = "idle" /\ queue[c] # <<>>
    /\ queue' = [queue EXCEPT ![c] =
                    IF c \in {client, Ctl} THEN Tail(@) ELSE <<>>]

ReadConnect(c) ==
    /\ Take(c)
    /\ LET r == Head(queue[c])
       IN /\ r.op = "connect" /\ c \in {client, Ctl}
          /\ pc' = [pc EXCEPT ![c] = "look"]
          /\ name' = [name EXCEPT ![c] = r.tunnel]
          /\ waived' = waived \ {r.tunnel}
    /\ UNCHANGED <<events, master, switch, client, dialog, answer, waits,
                   connectMu, activeCfgs, up, rules, owner>>

ReadDisconnect(c) ==
    /\ Take(c)
    /\ LET r == Head(queue[c])
       IN /\ r.op = "disconnect" /\ c \in {client, Ctl}
          /\ pc' = [pc EXCEPT ![c] = "disconnect"]
          /\ name' = [name EXCEPT ![c] = r.tunnel]
    /\ UNCHANGED <<events, master, switch, client, dialog, answer, waits, waived,
                   connectMu, activeCfgs, up, rules, owner>>

(* handleResolveDNSPathConflict: the decision goes to the channel that is
   registered for the tunnel, unless one is in there already. *)
ReadAnswer(c) ==
    /\ Take(c)
    /\ LET r == Head(queue[c])
           k == waits[r.tunnel]
       IN /\ r.op \in {"disable", "cancel"} /\ c \in {client, Ctl}
          /\ waived' = IF r.op = "disable" THEN waived \cup {r.tunnel}
                       ELSE waived
          /\ answer' = IF k = None THEN answer
                       ELSE IF answer[k] # None THEN answer
                       ELSE [answer EXCEPT ![k] = r.op]
    /\ UNCHANGED <<events, master, switch, client, dialog, pc, name, waits,
                   connectMu, activeCfgs, up, rules, owner>>

Drop(c) ==
    /\ Take(c) /\ c \notin {client, Ctl}
    /\ UNCHANGED <<events, master, switch, client, dialog, handlers, waived,
                   connectMu, activeCfgs, up, rules, owner>>

-----------------------------------------------------------------------------
(* handleConnect and automationConnect *)

Goto(k, label) == pc' = [pc EXCEPT ![k] = label]

(* awaitDNSResolvePathClear, and automationConnect's own check: without a GUI
   to ask the connect is refused, the engine's always. *)
Look(k) ==
    /\ pc[k] = "look"
    /\ LET t == name[k]
           clear == ~Claims(t) \/ Blockers(t) = {}
       IN \/ /\ clear
             /\ Goto(k, "go")
             /\ UNCHANGED <<waits, answer, dialog>>
          \/ /\ ~clear
             /\ Goto(k, "idle")
             /\ UNCHANGED <<waits, answer, dialog>>
          \/ /\ ~clear /\ k # Engine
             /\ Goto(k, "parked")
             /\ waits' = [waits EXCEPT ![t] = k]
             /\ answer' = [answer EXCEPT ![k] = None]
             /\ dialog' = t
    /\ UNCHANGED <<events, master, switch, queue, client, name, waived,
                   connectMu, activeCfgs, up, rules, owner>>

(* The wait ends, and endDNSPathWait drops the channel registered last. *)
Unpark(k, label) ==
    /\ pc[k] = "parked"
    /\ Goto(k, label)
    /\ waits' = [waits EXCEPT ![name[k]] = None]
    /\ UNCHANGED <<events, master, switch, ipc, name, answer, waived,
                   connectMu, activeCfgs, up, rules, owner>>

Answered(k) ==
    \/ answer[k] = "disable" /\ Unpark(k, "go")
    \/ answer[k] = "cancel" /\ Unpark(k, "idle")

PathFreed(k) == Blockers(name[k]) = {} /\ Unpark(k, "go")

(* Mutant: no deadline. *)
Deadline_Mut(k) == FALSE /\ Unpark(k, "idle")

Deadline(k) == Unpark(k, "idle")

(* connectMu is taken, and the config is cached. *)
Lock(k) ==
    /\ pc[k] = "go" /\ connectMu = None
    /\ connectMu' = k
    /\ activeCfgs' = activeCfgs \cup {name[k]}
    /\ Goto(k, "connect")
    /\ UNCHANGED <<events, master, switch, ipc, name, answer, waits, waived,
                   up, rules, owner>>

(* manager.Connect; a tunnel that is up is an error that leaves it up. *)
DoConnect(k) ==
    /\ pc[k] = "connect"
    /\ \/ /\ name[k] \notin up
          /\ up' = up \cup {name[k]}
          /\ Goto(k, "firewall")
          /\ UNCHANGED <<connectMu, activeCfgs>>
       \/ /\ activeCfgs' = IF name[k] \in up THEN activeCfgs
                           ELSE activeCfgs \ {name[k]}
          /\ connectMu' = None
          /\ Goto(k, "idle")
          /\ UNCHANGED up
    /\ UNCHANGED <<events, master, switch, ipc, name, answer, waits, waived,
                   rules, owner>>

(* applyPostConnectFirewall: does the tunnel claim the path, and has it an
   interface? *)
Firewall(k) ==
    /\ pc[k] = "firewall"
    /\ IF Claims(name[k]) /\ name[k] \in up
       THEN Goto(k, "enable") /\ UNCHANGED connectMu
       ELSE Goto(k, "idle") /\ connectMu' = None
    /\ UNCHANGED <<events, master, switch, ipc, name, answer, waits, waived,
                   activeCfgs, up, rules, owner>>

Enable(k) ==
    /\ pc[k] = "enable"
    /\ rules' = name[k]
    /\ owner' = name[k]
    /\ connectMu' = None
    /\ Goto(k, "idle")
    /\ UNCHANGED <<events, master, switch, ipc, name, answer, waits, waived,
                   activeCfgs, up>>

-----------------------------------------------------------------------------
(* Teardowns *)

(* Mutant: whoever goes down takes the rules along. *)
ClearIfOwner_Mut(t) ==
    /\ waived' = waived \ {t}
    /\ owner' = None
    /\ rules' = None

(* clearDNSPathIfOwner, in one step. *)
ClearIfOwner(t) ==
    /\ waived' = waived \ {t}
    /\ owner' = IF owner = t THEN None ELSE owner
    /\ rules' = IF owner = t THEN None ELSE rules

(* handleDisconnect, under connectMu from end to end.  A tunnel that is not up is
   an error, and nothing is cleared; one that the engine was tearing down when
   DisconnectTunnel looked has been waited for. *)
HandleDisconnect(k) ==
    /\ pc[k] = "disconnect" /\ connectMu = None
    /\ \/ /\ \/ name[k] \in up
             \/ pc[Engine] \in {"clear", "disable", "forget"} /\ name[Engine] = name[k]
          /\ up' = up \ {name[k]}
          /\ activeCfgs' = activeCfgs \ {name[k]}
          /\ ClearIfOwner(name[k])
       \/ name[k] \notin up /\ UNCHANGED <<activeCfgs, up, waived, rules, owner>>
    /\ Goto(k, "idle")
    /\ UNCHANGED <<events, master, switch, ipc, name, answer, waits, connectMu>>

(* The engine's round, which connects as above. *)
EngineConnect ==
    /\ pc[Engine] = "idle" /\ Event
    /\ \E t \in Tunnels \ up : name' = [name EXCEPT ![Engine] = t]
    /\ Goto(Engine, "look")
    /\ UNCHANGED <<master, switch, ipc, answer, waits, waived, connectMu,
                   activeCfgs, up, rules, owner>>

(* disconnectAutoManaged, without connectMu: the device, the owner, the rules,
   the cached config. *)
EngineDisconnect ==
    /\ pc[Engine] = "idle" /\ Event
    /\ \E t \in up :
          /\ name' = [name EXCEPT ![Engine] = t]
          /\ up' = up \ {t}
    /\ Goto(Engine, "clear")
    /\ UNCHANGED <<master, switch, ipc, answer, waits, waived, connectMu,
                   activeCfgs, rules, owner>>

EngineClear ==
    /\ pc[Engine] = "clear"
    /\ waived' = waived \ {name[Engine]}
    /\ owner' = IF owner = name[Engine] THEN None ELSE owner
    /\ Goto(Engine, IF owner = name[Engine] THEN "disable" ELSE "forget")
    /\ UNCHANGED <<events, master, switch, ipc, name, answer, waits, connectMu,
                   activeCfgs, up, rules>>

EngineDisable ==
    /\ pc[Engine] = "disable"
    /\ rules' = None
    /\ Goto(Engine, "forget")
    /\ UNCHANGED <<events, master, switch, ipc, name, answer, waits, waived,
                   connectMu, activeCfgs, up, owner>>

EngineForget ==
    /\ pc[Engine] = "forget"
    /\ activeCfgs' = activeCfgs \ {name[Engine]}
    /\ Goto(Engine, "idle")
    /\ UNCHANGED <<events, master, switch, ipc, name, answer, waits, waived,
                   connectMu, up, rules, owner>>

(* The master switch goes off, and handleClearDNSPathEnforcement follows; it
   goes on again, and a tunnel's own switch moves, while nothing is up. *)
MasterOff ==
    /\ master /\ Event
    /\ master' = FALSE
    /\ owner' = None
    /\ rules' = IF owner # None THEN None ELSE rules
    /\ UNCHANGED <<switch, ipc, handlers, waived, connectMu, activeCfgs, up>>

(* A restriction of the model: switches move for tunnels that are in no call. *)
Unused(t) == t \notin up /\ \A k \in Callers : pc[k] # "idle" => name[k] # t

SwitchTunnel ==
    /\ Event
    /\ \E t \in Tunnels :
          /\ Unused(t)
          /\ switch' = (switch \ {t}) \cup ({t} \ switch)
    /\ UNCHANGED <<master, ipc, handlers, waived, connectMu, activeCfgs, up,
                   rules, owner>>

MasterOn ==
    /\ ~master /\ Event
    /\ \A t \in Tunnels : Unused(t)
    /\ master' = TRUE
    /\ UNCHANGED <<switch, ipc, handlers, waived, connectMu, activeCfgs, up,
                   rules, owner>>

-----------------------------------------------------------------------------
Read(c) == ReadConnect(c) \/ ReadDisconnect(c) \/ ReadAnswer(c) \/ Drop(c)

Parked(k) == Answered(k) \/ PathFreed(k) \/ Deadline(k)

Step(k) ==
    \/ Look(k) \/ Parked(k)
    \/ Lock(k) \/ DoConnect(k) \/ Firewall(k) \/ Enable(k)
    \/ HandleDisconnect(k)

EngineTeardown == EngineClear \/ EngineDisable \/ EngineForget

Helper ==
    \/ \E c \in Conns : Read(c)
    \/ \E k \in Callers : Step(k)
    \/ EngineTeardown

Outside ==
    \/ GUISend \/ CtlSend \/ Answer \/ Swap
    \/ EngineConnect \/ EngineDisconnect
    \/ MasterOff \/ MasterOn \/ SwitchTunnel

Next == Helper \/ Outside

Spec == Init /\ [][Next]_vars

(* No connect passes another between its look at the path and its end, and
   nothing passes the engine's teardown. *)
Passing == {k \in Callers : pc[k] \in {"go", "connect", "firewall", "enable"}}
Tearing == pc[Engine] \in {"clear", "disable", "forget"}

SerialHelper ==
    /\ Tearing => EngineTeardown
    /\ Helper
    /\ \A j, k \in Passing' : j = k

(* A tunnel's switch is not turned on again before an answer that turned it
   off is read, nor while the waiver it left is there: automationConnect does
   not clear one, so a waiver would outlive the attempt it was given for. *)
WaiverPending(t) ==
    \/ t \in waived
    \/ \E c \in Conns : \E i \in DOMAIN queue[c] :
          queue[c][i] = Request("disable", t)

SerialOutside ==
    /\ ~Tearing /\ Passing = {}
    /\ Outside
    /\ \A t \in switch' \ switch : ~WaiverPending(t)

SerialNext == SerialHelper \/ SerialOutside

SerialSpec == Init /\ [][SerialNext]_vars /\ WF_vars(SerialHelper)

-----------------------------------------------------------------------------
(* Properties *)

(* Each variable has its type, and a registered channel is that of a connect
   of its tunnel that is parked. *)
TypeOK ==
    /\ master \in BOOLEAN /\ switch \in SUBSET Tunnels
    /\ queue \in [Conns -> Seq([op : {"connect", "disconnect", "disable",
                                      "cancel"}, tunnel : Tunnels])]
    /\ client \in GUIConns
    /\ dialog \in Tunnels \cup {None}
    /\ pc \in [Callers -> {"idle", "look", "parked", "go", "connect", "firewall",
                           "enable", "disconnect", "clear", "disable",
                           "forget"}]
    /\ name \in [Callers -> Tunnels \cup {None}]
    /\ answer \in [Callers -> {None, "disable", "cancel"}]
    /\ waits \in [Tunnels -> Conns \cup {None}]
    /\ \A t \in Tunnels : waits[t] # None => /\ pc[waits[t]] = "parked"
                                           /\ name[waits[t]] = t
    /\ waived \in SUBSET Tunnels
    /\ connectMu \in Callers \cup {None}
    /\ activeCfgs \in SUBSET Tunnels /\ up \in SUBSET Tunnels
    /\ rules \in Tunnels \cup {None} /\ owner \in Tunnels \cup {None}

Quiet == Passing = {} /\ ~Tearing

(* "At most one CONNECTED tunnel can carry the system's DNS": a tunnel that
   claims the path is the one the firewall lets DNS through, and what the
   firewall enforces is enforced for a tunnel that is up and on record. *)
OneCarrier ==
    Quiet => /\ \A t \in up : Claims(t) => rules = t
             /\ rules = owner /\ rules \in up \cup {None}

(* A parked connect comes back, whatever becomes of the answer. *)
ParkedReturns ==
    \A k \in Conns : pc[k] = "parked" ~> pc[k] # "parked"

=============================================================================
