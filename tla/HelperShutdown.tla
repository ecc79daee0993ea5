--------------------------- MODULE HelperShutdown ----------------------------
(***************************************************************************)
(* How long a helper lives.  The GUI's control connections, with the       *)
(* callbacks the IPC server runs when one attaches and when the last one   *)
(* goes; the grace timer these arm and cancel, and that a teardown without *)
(* a GUI arms; its callback, which Stop cannot call back once it runs;     *)
(* Shutdown and Run's cleanup; and the GUI's health monitor, which         *)
(* connects to a helper that is there and asks the user for leave to start *)
(* one that is not.                                                        *)
(*                                                                         *)
(* One tunnel stands for all of them: ActiveTunnel counts one that is      *)
(* still connecting or going down.                                         *)
(***************************************************************************)
EXTENDS Integers, Sequences

CONSTANTS
    Conns,       \* control connections
    NoConn,
    MayFail,     \* connects fail, disconnects time out
    MaxEvents    \* bound: what users, the GUI's fate and crashes do

VARIABLES
    events,
    \* The helper's process.
    server,      \* serving, closed (Serve has returned), cleaned, exited
    conn,        \* off, new (registered, onConnect to run), on, gone
                 \* (deleted as the last one, onDisconnect to run)
    pc,          \* by goroutine that may arm: idle, check, read, and what
                 \* armShutdownTimer has read: active, inactive
    tunnel,      \* down, connecting, up, disconnecting
    timers,      \* every timer ever armed: armed, stopped, and its callback:
                 \* started, current, shut, done
    current,     \* shutdownTimer, by number
    \* The GUI.
    gui,         \* gone, up, quitting
    client,      \* the connection it holds
    failures,    \* recoverFailures
    prompt       \* the user is asked to let a helper start

process == <<server, conn, pc, tunnel, timers, current>>
guiVars == <<gui, client, failures, prompt>>
vars == <<events, process, guiVars>>

Teardown == "teardown"
Goroutines == Conns \cup {Teardown}
MaxAutoRecover == 3

Event == events < MaxEvents /\ events' = events + 1

(* HasControlConn *)
Registered == {c \in Conns : conn[c] \in {"new", "on"}}
Active == tunnel # "down"

(* A process that has just armed startupGrace. *)
Fresh(c) ==
    /\ server' = "serving"
    /\ conn' = [x \in Conns |-> IF x = c THEN "new" ELSE "off"]
    /\ pc' = [g \in Goroutines |-> "idle"]
    /\ tunnel' = "down"
    /\ timers' = <<"armed">>
    /\ current' = 1

Exited ==
    /\ server' = "exited"
    /\ conn' = [x \in Conns |-> "off"]
    /\ pc' = [g \in Goroutines |-> "idle"]
    /\ timers' = <<>>
    /\ current' = 0

Init ==
    /\ events = 0
    /\ server = "serving"
    /\ conn = [c \in Conns |-> "off"]
    /\ pc = [g \in Goroutines |-> "idle"]
    /\ tunnel = "down"
    /\ timers = <<"armed">>
    /\ current = 1
    /\ gui = "gone"
    /\ client = NoConn
    /\ failures = 0
    /\ prompt = FALSE

-----------------------------------------------------------------------------
(* The timer *)

(* Timer.Stop, on the timer in force if there is one. *)
Stopped ==
    [i \in DOMAIN timers |->
        IF i = current /\ timers[i] = "armed" THEN "stopped" ELSE timers[i]]

(* cancelShutdownTimer, as a connection's onConnect. *)
Attached(c) ==
    /\ conn[c] = "new"
    /\ conn' = [conn EXCEPT ![c] = "on"]
    /\ timers' = Stopped
    /\ current' = 0
    /\ UNCHANGED <<events, server, pc, tunnel, guiVars>>

(* maybeArmShutdownAfterTeardown asks for a control connection. *)
CheckControlConn ==
    /\ pc[Teardown] = "check"
    /\ pc' = [pc EXCEPT ![Teardown] = IF Registered = {} THEN "read" ELSE "idle"]
    /\ UNCHANGED <<events, server, conn, tunnel, timers, current, guiVars>>

(* armShutdownTimer reads ActiveTunnel, then takes h.mu. *)
ReadActive(g) ==
    /\ pc[g] = "read"
    /\ pc' = [pc EXCEPT ![g] = IF Active THEN "active" ELSE "inactive"]
    /\ UNCHANGED <<events, server, conn, tunnel, timers, current, guiVars>>

Armed(g) ==
    /\ pc' = [pc EXCEPT ![g] = "idle"]
    /\ conn' = [c \in Conns |-> IF c = g THEN "off" ELSE conn[c]]
    /\ UNCHANGED <<events, server, tunnel, guiVars>>

(* Mutant: a timer that has fired counts as one in force. *)
Arm_Kept_Mut(g) ==
    /\ pc[g] \in {"active", "inactive"}
    /\ IF pc[g] = "active"
       THEN timers' = Stopped /\ current' = 0
       ELSE IF current # 0 THEN UNCHANGED <<timers, current>>
       ELSE /\ timers' = Append(timers, "armed")
            /\ current' = Len(timers) + 1
    /\ Armed(g)

Arm(g) ==
    /\ pc[g] \in {"active", "inactive"}
    /\ IF pc[g] = "active"
       THEN timers' = Stopped /\ current' = 0
       ELSE /\ timers' = Append(Stopped, "armed")
            /\ current' = Len(timers) + 1
    /\ Armed(g)

(* The callback, from its start to h.shutdown. *)
Fire(i) ==
    /\ timers[i] = "armed"
    /\ timers' = [timers EXCEPT ![i] = "started"]
    /\ UNCHANGED <<events, server, conn, pc, tunnel, current, guiVars>>

(* Mutant: it does not ask whether it is still the current timer. *)
CheckCurrent_Mut(i) ==
    /\ timers[i] = "started"
    /\ timers' = [timers EXCEPT ![i] = "current"]
    /\ UNCHANGED <<events, server, conn, pc, tunnel, current, guiVars>>

CheckCurrent(i) ==
    /\ timers[i] = "started"
    /\ timers' = [timers EXCEPT ![i] = IF current = i THEN "current" ELSE "done"]
    /\ UNCHANGED <<events, server, conn, pc, tunnel, current, guiVars>>

(* An abort leaves shutdownTimer as it is. *)
CheckTunnel(i) ==
    /\ timers[i] = "current"
    /\ timers' = [timers EXCEPT ![i] = IF Active THEN "done" ELSE "shut"]
    /\ UNCHANGED <<events, server, conn, pc, tunnel, current, guiVars>>

(* Shutdown closes the listener; it may have been closed before. *)
Close == server' = IF server = "serving" THEN "closed" ELSE server

TimerShutdown(i) ==
    /\ timers[i] = "shut"
    /\ timers' = [timers EXCEPT ![i] = "done"]
    /\ Close
    /\ UNCHANGED <<events, conn, pc, tunnel, current, guiVars>>

-----------------------------------------------------------------------------
(* Run's end, the RPCs that end the helper, and a crash *)

(* Serve has returned: cleanup stops the timer and tears a tunnel down if it
   is connected; nobody waits for a handler. *)
Cleanup ==
    /\ server = "closed"
    /\ server' = "cleaned"
    /\ timers' = Stopped
    /\ current' = 0
    /\ tunnel' = IF tunnel = "up" THEN "down" ELSE tunnel
    /\ UNCHANGED <<events, conn, pc, guiVars>>

(* The process ends, and with it the tunnel's device. *)
Exit ==
    /\ server = "cleaned"
    /\ Exited
    /\ tunnel' = "down"
    /\ UNCHANGED <<events, guiVars>>

(* handleRequestQuit: the GUI is asked to quit, or the helper ends. *)
CtlStop ==
    /\ server = "serving" /\ Event
    /\ IF Registered # {}
       THEN /\ gui' = IF gui = "up" THEN "quitting" ELSE gui
            /\ UNCHANGED server
       ELSE Close /\ UNCHANGED gui
    /\ UNCHANGED <<conn, pc, tunnel, timers, current, client, failures, prompt>>

(* handleForceShutdown, and a crash: no teardown.  launchd restarts a helper
   that crashed. *)
Die ==
    /\ server # "exited" /\ Event
    /\ \/ Exited /\ tunnel' = "down"
       \/ Fresh(NoConn)
    /\ UNCHANGED guiVars

-----------------------------------------------------------------------------
(* The tunnel, as the CLI, the engine and the GUI drive it *)

Connect ==
    /\ server = "serving" /\ tunnel = "down" /\ Event
    /\ tunnel' = "connecting"
    /\ UNCHANGED <<server, conn, pc, timers, current, guiVars>>

(* A connect that fails arms nothing. *)
ConnectReturns ==
    /\ tunnel = "connecting"
    /\ tunnel' \in IF MayFail THEN {"up", "down"} ELSE {"up"}
    /\ UNCHANGED <<events, server, conn, pc, timers, current, guiVars>>

Disconnect ==
    /\ server = "serving" /\ tunnel = "up" /\ pc[Teardown] = "idle" /\ Event
    /\ tunnel' = "disconnecting"
    /\ UNCHANGED <<server, conn, pc, timers, current, guiVars>>

(* A handler that has timed out does not look at the timer. *)
Disconnected ==
    /\ tunnel = "disconnecting"
    /\ tunnel' = "down"
    /\ \/ pc' = [pc EXCEPT ![Teardown] = "check"]
       \/ MayFail /\ UNCHANGED pc
    /\ UNCHANGED <<events, server, conn, timers, current, guiVars>>

-----------------------------------------------------------------------------
(* The GUI *)

(* Its connection is dropped; the last one to go runs onDisconnect. *)
Dropped(c, conns) ==
    IF conns[c] # "on" THEN conns
    ELSE [conns EXCEPT ![c] =
             IF \E x \in Conns \ {c} : conns[x] \in {"new", "on"}
             THEN "off" ELSE "gone"]

(* A connection ends: the GUI is no more, holds another one, or the server
   closes it. *)
Detach(c) ==
    /\ conn[c] = "on"
    /\ gui = "gone" \/ client # c \/ server # "serving"
    /\ conn' = Dropped(c, conn)
    /\ pc' = IF conn'[c] = "gone" THEN [pc EXCEPT ![c] = "read"] ELSE pc
    /\ UNCHANGED <<events, server, tunnel, timers, current, guiVars>>

(* The GUI stalls past the read deadline, and the server drops it. *)
Stall ==
    /\ gui = "up" /\ client # NoConn /\ Event
    /\ conn[client] = "on"
    /\ conn' = Dropped(client, conn)
    /\ pc' = IF conn'[client] = "gone" THEN [pc EXCEPT ![client] = "read"]
             ELSE pc
    /\ UNCHANGED <<server, tunnel, timers, current, guiVars>>

Dead == client = NoConn \/ client \notin Registered

Free == {c \in Conns : conn[c] = "off"}

(* The GUI starts: it takes a helper that is there, or asks. *)
GuiStart ==
    /\ gui = "gone" /\ ~prompt /\ Event
    /\ gui' = "up"
    /\ failures' = 0
    /\ IF server = "serving"
       THEN \E c \in Free :
               /\ conn' = [conn EXCEPT ![c] = "new"]
               /\ client' = c
               /\ UNCHANGED prompt
       ELSE prompt' = TRUE /\ client' = NoConn /\ UNCHANGED conn
    /\ UNCHANGED <<server, pc, tunnel, timers, current>>

(* A ping that times out behind no long call: a new connection takes the
   place of the one that works. *)
Swap ==
    /\ gui = "up" /\ client \in Registered /\ server = "serving" /\ Event
    /\ \E c \in Free :
          /\ conn' = [conn EXCEPT ![c] = "new"]
          /\ client' = c
    /\ UNCHANGED <<server, pc, tunnel, timers, current, gui, failures, prompt>>

(* The tick finds a helper on the socket. *)
Adopt ==
    /\ gui = "up" /\ ~prompt /\ Dead /\ server = "serving"
    /\ \E c \in Free :
          /\ conn' = [conn EXCEPT ![c] = "new"]
          /\ client' = c
    /\ failures' = 0
    /\ UNCHANGED <<events, server, pc, tunnel, timers, current, gui, prompt>>

(* Mutant: only the first failed ping tries to recover. *)
Recover_Once_Mut ==
    /\ gui = "up" /\ ~prompt /\ Dead /\ client # NoConn
    /\ server = "exited" /\ failures = 0
    /\ prompt' = TRUE
    /\ UNCHANGED <<events, process, gui, client, failures>>

(* There is none: recoverHelper asks for one.  Without a client the GUI never
   asks. *)
Recover ==
    /\ gui = "up" /\ ~prompt /\ Dead /\ client # NoConn
    /\ server = "exited" /\ failures < MaxAutoRecover
    /\ prompt' = TRUE
    /\ UNCHANGED <<events, process, gui, client, failures>>

(* The answer, which may come when the GUI has quit: a helper starts, and the
   GUI, if it is there, connects to it. *)
Approve ==
    /\ prompt
    /\ prompt' = FALSE
    /\ \/ /\ server = "exited" /\ gui = "up"
          /\ \E c \in Conns : Fresh(c) /\ client' = c
          /\ failures' = 0
       \/ /\ server = "exited" /\ gui # "up"
          /\ Fresh(NoConn)
          /\ UNCHANGED <<client, failures>>
       \/ /\ server # "exited"
          /\ UNCHANGED <<process, client, failures>>
    /\ UNCHANGED <<events, gui>>

Deny ==
    /\ prompt
    /\ prompt' = FALSE
    /\ failures' = IF client = NoConn THEN 0 ELSE failures + 1
    /\ UNCHANGED <<events, process, gui, client>>

(* doShutdown: the gate is tripped, and no recovery begins any more. *)
Quit ==
    /\ gui = "up" /\ Event
    /\ gui' = "quitting"
    /\ UNCHANGED <<process, client, failures, prompt>>

(* disconnect_on_quit: the tunnels are told to go down. *)
QuitDisconnect ==
    /\ gui = "quitting" /\ client \in Registered
    /\ tunnel = "up" /\ pc[Teardown] = "idle"
    /\ tunnel' = "disconnecting"
    /\ UNCHANGED <<events, server, conn, pc, timers, current, guiVars>>

(* The helper is told to shut down, whether or not they are down, or with the
   setting off is left alone; the GUI ends. *)
QuitDone ==
    /\ gui = "quitting"
    /\ gui' = "gone"
    /\ client' = NoConn
    /\ (client \in Registered /\ Close) \/ UNCHANGED server
    /\ UNCHANGED <<events, conn, pc, tunnel, timers, current, failures, prompt>>

GuiDies ==
    /\ gui # "gone" /\ Event
    /\ gui' = "gone"
    /\ client' = NoConn
    /\ UNCHANGED <<process, failures, prompt>>

-----------------------------------------------------------------------------
(* Steps that stand between a check and what is done upon it. *)
Internal ==
    \/ \E c \in Conns : Attached(c)
    \/ CheckControlConn
    \/ \E g \in Goroutines : ReadActive(g) \/ Arm(g)
    \/ \E i \in DOMAIN timers : CheckTunnel(i) \/ TimerShutdown(i)

Background ==
    \/ \E i \in DOMAIN timers : Fire(i) \/ CheckCurrent(i)
    \/ Cleanup \/ Exit
    \/ ConnectReturns \/ Disconnected
    \/ \E c \in Conns : Detach(c)
    \/ Adopt \/ Recover \/ Approve \/ Deny
    \/ QuitDisconnect \/ QuitDone

Outside ==
    \/ CtlStop \/ Die
    \/ Connect \/ Disconnect
    \/ GuiStart \/ Swap \/ Stall \/ Quit \/ GuiDies

Next == Internal \/ Background \/ Outside

Spec == Init /\ [][Next]_vars

(* No check is overtaken. *)
Overtaken ==
    \/ \E c \in Conns : conn[c] = "new"
    \/ \E g \in Goroutines : pc[g] # "idle"
    \/ \E i \in DOMAIN timers : timers[i] \in {"current", "shut"}

SerialNext ==
    \/ Internal
    \/ ~Overtaken /\ (Background \/ Outside)

(* Goroutines are scheduled, timers fire, the health monitor ticks, and the
   user answers. *)
SerialSpec ==
    /\ Init /\ [][SerialNext]_vars
    /\ WF_vars(Internal) /\ WF_vars(~Overtaken /\ Background)

-----------------------------------------------------------------------------
(* Properties *)

TypeOK ==
    /\ events \in 0..MaxEvents
    /\ server \in {"serving", "closed", "cleaned", "exited"}
    /\ conn \in [Conns -> {"off", "new", "on", "gone"}]
    /\ pc \in [Goroutines -> {"idle", "check", "read", "active", "inactive"}]
    /\ tunnel \in {"down", "connecting", "up", "disconnecting"}
    /\ timers \in Seq({"armed", "stopped", "started", "current", "shut", "done"})
    /\ current \in 0..Len(timers)
    /\ gui \in {"gone", "up", "quitting"}
    /\ client \in Conns \cup {NoConn}
    /\ failures \in 0..MaxAutoRecover
    /\ prompt \in BOOLEAN

(* "wg-quick never shuts down while a tunnel is active", nor under a GUI: the
   grace window closes the server only when nobody needs the helper. *)
ShutdownOnlyWhenIdle ==
    [][\A i \in DOMAIN timers :
          TimerShutdown(i) => ~Active /\ Registered = {}]_vars

(* A helper that neither a GUI nor a tunnel needs any more ends. *)
Exits == <>[](gui = "gone" /\ ~Active) => <>[](server = "exited")

(* A GUI that stays has a helper in the end, unless the user has refused one
   as often as it asks. *)
GuiServed ==
    <>[](gui = "up") =>
        <>[](client \in Registered \/ failures = MaxAutoRecover
                 \/ (client = NoConn /\ server = "exited"))

=============================================================================
