--------------------------- MODULE AutomationEngine ---------------------------
(***************************************************************************)
(* The automation engine of the helper: triggers that post into a mailbox  *)
(* with one slot, the loop that evaluates every tunnel's policy against a  *)
(* context sampled at the top of a round, the back-off and the pause, the  *)
(* settle recheck; and around it what it reads: the SSID, which on macOS   *)
(* comes in reports from the GUI and is believed while the gateway is the  *)
(* one stamped with the report, and the latches the GUI writes to          *)
(* settings.json before it calls the helper.                               *)
(*                                                                         *)
(* A network has a context of AutomationRules, with its true SSID.  The    *)
(* verdict is Decide.  Connects and disconnects are atomic (TunnelManager  *)
(* has their steps); the policy and DNS blocks, which are constant while   *)
(* the configs are, are left out.                                          *)
(***************************************************************************)
EXTENDS AutomationRules, TLC

CONSTANTS
    Tunnels,
    Networks,
    ContextOf,   \* what each of them looks like
    Policies,
    PolicyOf,    \* the rules and the Default State of each of them
    Exempt,      \* the tunnels with automation disabled
    NoReport,
    MaxEvents    \* bound: what users and the outside world do

VARIABLES
    \* The world.
    darwin,      \* macOS: SSID reports and route events instead of polls
    net,
    events,      \* how much has happened
    \* The source of the SSID: the GUI's reporter, or the helper's own monitor.
    seen,        \* the SSID it has last taken notice of
    report,      \* the SSID it is delivering
    routeEvent,  \* the route monitor has a change to announce
    \* The helper.
    lastSSID, stampGW,
    box, reason, \* evalRequests, evalReason
    round,       \* the evaluation under way
    active,
    backoff,     \* autoConnectBackoff: within nextRetry, or past it
    paused,      \* conflictPaused
    settle,      \* a settle timer runs; several are one
    \* Settings.
    policy, off, on,
    \* The GUI's calls.
    request,
    \* History.
    late         \* tunnels whose latch was gone when the call came back, or
                 \* that did not go down, and no round has begun since

world == <<darwin, net, events>>
source == <<seen, report, routeEvent>>
helper == <<lastSSID, stampGW, box, reason, round, active, backoff, paused,
            settle>>
settings == <<policy, off, on>>
vars == <<world, source, helper, settings, request, late>>

Idle == [pc |-> "idle"]

(* The engine tells two reasons from the others. *)
Reason(why) == IF why \in {"ssid-change", "settle-recheck"} THEN why ELSE "other"

(* Mutant: an evaluation under way counts as a request in the mailbox. *)
Post_Mut(why) ==
    /\ reason' = Reason(why)
    /\ box' = (box \/ round.pc = "idle")

(* requestAutomationEval: the reason is overwritten, the slot is filled. *)
Post(why) ==
    /\ reason' = Reason(why)
    /\ box' = TRUE

(* currentNetworkContext: a report is not believed behind another gateway than
   the one it was stamped with. *)
Stale ==
    /\ lastSSID # None
    /\ Canonical(ContextOf[net].mac) # None
    /\ Canonical(stampGW) # None
    /\ Canonical(stampGW) # Canonical(ContextOf[net].mac)

KnownSSID == IF Stale THEN None ELSE lastSSID
Context(n, ssid) == [ContextOf[n] EXCEPT !.ssid = ssid]
TrueSSID == ContextOf[net].ssid

Env(t, offs, ons) ==
    [exempted |-> t \in Exempt, paused |-> t \in paused,
     off |-> t \in offs, on |-> t \in ons, active |-> t \in active,
     backingOff |-> backoff[t] = "waiting",
     policyBlock |-> FALSE, dnsBlock |-> FALSE]

Init ==
    /\ darwin \in BOOLEAN
    /\ net \in Networks
    /\ events = 0
    /\ seen = None
    /\ report = NoReport
    /\ routeEvent = FALSE
    /\ lastSSID = None
    /\ stampGW = <<None, None>>
    /\ box = TRUE
    /\ reason = Reason("startup")
    /\ round = Idle
    /\ active = {}
    /\ backoff = [t \in Tunnels |-> "none"]
    /\ paused = {}
    /\ settle = FALSE
    /\ policy \in [Tunnels -> Policies]
    /\ off = {}
    /\ on = {}
    /\ request = [t \in Tunnels |-> "none"]
    /\ late = {}

-----------------------------------------------------------------------------
(* Triggers *)

Event == events < MaxEvents /\ events' = events + 1

(* The machine moves to another network.  Only macOS has the route monitor. *)
Move ==
    /\ Event
    /\ \E n \in Networks \ {net} : net' = n
    /\ routeEvent' = darwin
    /\ UNCHANGED <<darwin, seen, report, helper, settings, request, late>>

(* The reporter's loop, the monitor's poll: a change is noticed. *)
Notice ==
    /\ report = NoReport
    /\ TrueSSID # seen
    /\ seen' = TrueSSID
    /\ report' = TrueSSID
    /\ UNCHANGED <<world, routeEvent, helper, settings, request, late>>

(* handleReportSSID stamps the gateway there is now with the SSID read before;
   the monitor's callback posts first, the handler itself once more. *)
DeliverReport ==
    /\ darwin
    /\ report # NoReport
    /\ stampGW' = ContextOf[net].mac
    /\ lastSSID' = report
    /\ Post("ssid-report")
    /\ report' = NoReport
    /\ UNCHANGED <<world, seen, routeEvent, round, active, backoff, paused,
                   settle, settings, request, late>>

(* The same call, with the loop taking the first request before the second. *)
DeliverReportTwice ==
    /\ darwin
    /\ report \notin {NoReport, lastSSID}
    /\ round = Idle
    /\ stampGW' = ContextOf[net].mac
    /\ lastSSID' = report
    /\ Post("ssid-report")
    /\ round' = [pc |-> "started", reason |-> "ssid-change"]
    /\ report' = NoReport
    /\ UNCHANGED <<world, seen, routeEvent, active, backoff, paused, settle,
                   settings, request, late>>

(* Elsewhere the helper reads the SSID itself, and stamps nothing. *)
SSIDChange ==
    /\ ~darwin
    /\ report # NoReport
    /\ lastSSID' = report
    /\ Post("ssid-change")
    /\ report' = NoReport
    /\ UNCHANGED <<world, seen, routeEvent, stampGW, round, active, backoff,
                   paused, settle, settings, request, late>>

RouteEvent ==
    /\ routeEvent
    /\ routeEvent' = FALSE
    /\ Post("network-change")
    /\ UNCHANGED <<world, seen, report, lastSSID, stampGW, round, active,
                   backoff, paused, settle, settings, request, late>>

Poll ==
    /\ ~darwin
    /\ Post("poll")
    /\ UNCHANGED <<world, source, lastSSID, stampGW, round, active, backoff,
                   paused, settle, settings, request, late>>

SettleRecheck ==
    /\ settle
    /\ settle' = FALSE
    /\ Post("settle-recheck")
    /\ UNCHANGED <<world, source, lastSSID, stampGW, round, active, backoff,
                   paused, settings, request, late>>

(* nextRetry passes.  Nothing is posted. *)
BackoffPasses(t) ==
    /\ backoff[t] = "waiting"
    /\ backoff' = [backoff EXCEPT ![t] = "over"]
    /\ UNCHANGED <<world, source, lastSSID, stampGW, box, reason, round,
                   active, paused, settle, settings, request, late>>

-----------------------------------------------------------------------------
(* automationEvalLoop and reevaluateAutomation *)

(* The request is popped and its reason read (a moment later in the code: what
   is posted in between leaves another request).  The reason is not read
   again, so it is forgotten. *)
Pop ==
    /\ round = Idle
    /\ box
    /\ box' = FALSE
    /\ reason' = None
    /\ round' = [pc |-> "started", reason |-> reason]
    /\ UNCHANGED <<world, source, lastSSID, stampGW, active, backoff, paused,
                   settle, settings, request, late>>

(* Settings, context and active tunnels are read once, at the top; on an
   unidentified network the round is over. *)
Sample ==
    /\ round.pc = "started"
    /\ round' = IF KnownSSID = None /\ ContextOf[net].ips = {} THEN Idle
                ELSE [pc |-> "next", reason |-> round.reason,
                      net |-> net, ssid |-> KnownSSID, policy |-> policy, off |-> off,
                      on |-> on, active |-> active, todo |-> Tunnels,
                      again |-> FALSE]
    /\ late' = {}
    /\ UNCHANGED <<world, source, lastSSID, stampGW, box, reason, active,
                   backoff, paused, settle, settings, request>>

(* "The situation a back-off reacted to is over." *)
BackoffCleared(t) ==
    t \in round.active \cup round.off \cup round.on
        \/ round.reason = "ssid-change"

(* One tunnel's decision, from the round's sample and the tunnels that are
   active now.  The names' order plays no part. *)
DecideTunnel(t) ==
    /\ round.pc = "next"
    /\ t \in round.todo
    /\ LET skipped == t \in Exempt \/ t \in paused
           cleared == ~skipped /\ BackoffCleared(t)
           d == Decide(PolicyOf[round.policy[t]],
                       Context(round.net, round.ssid),
                       [Env(t, round.off, round.on) EXCEPT
                           !.backingOff = @ /\ ~cleared])
           acts == KnownAction(d.action)
           blind == ~skipped /\ d.blind
           rest == [round EXCEPT
                       !.todo = @ \ {t},
                       !.again = @ \/ acts \/ blind]
       IN /\ backoff' = IF cleared THEN [backoff EXCEPT ![t] = "none"]
                        ELSE backoff
          /\ round' = IF acts
                      THEN [rest EXCEPT !.pc = d.action] @@ [tunnel |-> t]
                      ELSE rest
    /\ UNCHANGED <<world, source, lastSSID, stampGW, box, reason, active,
                   paused, settle, settings, request, late>>

(* The round goes on with the next tunnel. *)
NextTunnel == [k \in DOMAIN round \ {"tunnel"} |->
                  IF k = "pc" THEN "next" ELSE round[k]]

(* automationConnect.  A tunnel that is up by now is a failure like others. *)
AutomationConnect ==
    /\ round.pc = Connect
    /\ round' = NextTunnel
    /\ LET t == round.tunnel
       IN \/ /\ t \notin active
             /\ active' = active \cup {t}
             /\ backoff' = [backoff EXCEPT ![t] = "none"]
             /\ UNCHANGED <<events, paused>>
          \/ /\ IF t \in active THEN UNCHANGED events ELSE Event
             /\ backoff' = [backoff EXCEPT ![t] = "waiting"]
             /\ UNCHANGED <<active, paused>>
          \/ /\ t \notin active /\ Event
             /\ paused' = paused \cup {t}
             /\ UNCHANGED <<active, backoff>>
    /\ UNCHANGED <<darwin, net, source, lastSSID, stampGW, box, reason, settle,
                   settings, request, late>>

(* disconnectAutoManaged; DisconnectTunnel may time out. *)
AutomationDisconnect ==
    /\ round.pc = Disconnect
    /\ round' = NextTunnel
    /\ \/ active' = active \ {round.tunnel} /\ UNCHANGED <<events, late>>
       \/ Event /\ late' = late \cup {round.tunnel} /\ UNCHANGED active
    /\ UNCHANGED <<darwin, net, source, lastSSID, stampGW, box, reason,
                   backoff, paused, settle, settings, request>>

(* Mutant: a recheck schedules the next one. *)
EndRound_Mut ==
    /\ round.pc = "next"
    /\ round.todo = {}
    /\ settle' = (settle \/ round.again)
    /\ round' = Idle
    /\ UNCHANGED <<world, source, lastSSID, stampGW, box, reason, active,
                   backoff, paused, settings, request, late>>

(* A round that acted, or was blind, is followed by one recheck. *)
EndRound ==
    /\ round.pc = "next"
    /\ round.todo = {}
    /\ settle' = (settle \/ (round.again /\ round.reason # "settle-recheck"))
    /\ round' = Idle
    /\ UNCHANGED <<world, source, lastSSID, stampGW, box, reason, active,
                   backoff, paused, settings, request, late>>

-----------------------------------------------------------------------------
(* The user *)

(* TunnelService.Connect and DisconnectTunnel: the latch first, the call then. *)
UserConnect(t) ==
    /\ request[t] = "none" /\ Event
    /\ on' = on \cup {t} /\ off' = off \ {t}
    /\ request' = [request EXCEPT ![t] = "connect"]
    /\ UNCHANGED <<darwin, net, source, helper, policy, late>>

UserDisconnect(t) ==
    /\ request[t] = "none" /\ Event
    /\ off' = off \cup {t} /\ on' = on \ {t}
    /\ request' = [request EXCEPT ![t] = "disconnect"]
    /\ UNCHANGED <<darwin, net, source, helper, policy, late>>

(* The call is back. *)
Return(t) ==
    /\ request' = [request EXCEPT ![t] = "none"]
    /\ late' = IF t \in off \cup on THEN late ELSE late \cup {t}

(* handleConnect: a tunnel that came up is no longer paused; one whose address
   another adapter holds is. *)
HandleConnect(t) ==
    /\ request[t] = "connect"
    /\ Return(t)
    /\ \/ /\ t \notin active
          /\ active' = active \cup {t}
          /\ paused' = paused \ {t}
          /\ backoff' = IF t \in paused THEN [backoff EXCEPT ![t] = "none"]
                        ELSE backoff
          /\ UNCHANGED events
       \/ /\ t \in active
          /\ UNCHANGED <<active, paused, backoff, events>>
       \/ /\ t \notin active /\ Event
          /\ paused' \in {paused, paused \cup {t}}
          /\ UNCHANGED <<active, backoff>>
    /\ UNCHANGED <<darwin, net, source, lastSSID, stampGW, box, reason, round,
                   settle, settings>>

HandleDisconnect(t) ==
    /\ request[t] = "disconnect"
    /\ Return(t)
    /\ active' = active \ {t}
    /\ UNCHANGED <<world, source, lastSSID, stampGW, box, reason, round,
                   backoff, paused, settle, settings>>

(* handleResumeAutoConnect: "keep trying". *)
Resume(t) ==
    /\ t \in paused /\ Event
    /\ paused' = paused \ {t}
    /\ backoff' = [backoff EXCEPT ![t] = "none"]
    /\ Post("conflict-resume")
    /\ UNCHANGED <<darwin, net, source, lastSSID, stampGW, round, active,
                   settle, settings, request, late>>

(* SaveAutomationRules and ClearManualOverride write settings.json and ask for
   an evaluation. *)
SavePolicy(t) ==
    /\ Event
    /\ \E p \in Policies : policy' = [policy EXCEPT ![t] = p]
    /\ Post("settings-save")
    /\ UNCHANGED <<darwin, net, source, lastSSID, stampGW, round, active,
                   backoff, paused, settle, off, on, request, late>>

ClearOverride(t) ==
    /\ t \in off \cup on /\ Event
    /\ off' = off \ {t} /\ on' = on \ {t}
    /\ Post("settings-save")
    /\ UNCHANGED <<darwin, net, source, lastSSID, stampGW, round, active,
                   backoff, paused, settle, policy, request, late>>

(* The GUI starts anew: the latches go, and the reporter reports what it
   finds. *)
RestartGUI ==
    /\ Event
    /\ \A t \in Tunnels : request[t] = "none"
    /\ off' = {} /\ on' = {}
    /\ IF darwin THEN seen' = TrueSSID /\ report' = TrueSSID
       ELSE UNCHANGED <<seen, report>>
    /\ UNCHANGED <<darwin, net, routeEvent, helper, policy, request, late>>

-----------------------------------------------------------------------------
Source == Notice \/ DeliverReport \/ DeliverReportTwice \/ SSIDChange

Loop ==
    \/ Pop \/ Sample \/ EndRound
    \/ AutomationConnect \/ AutomationDisconnect
    \/ \E t \in Tunnels : DecideTunnel(t)

GUICall(t) == HandleConnect(t) \/ HandleDisconnect(t)

(* What waits to be delivered; of that there is only so much. *)
Pending ==
    \/ Source \/ RouteEvent
    \/ \E t \in Tunnels : BackoffPasses(t) \/ GUICall(t)

(* What comes again and again. *)
Ticks == Poll \/ SettleRecheck

User ==
    \/ \E t \in Tunnels :
          \/ UserConnect(t) \/ UserDisconnect(t) \/ Resume(t)
          \/ SavePolicy(t) \/ ClearOverride(t)
    \/ RestartGUI

Next ==
    \/ Pending \/ Ticks \/ Loop
    \/ Move \/ User

Spec == Init /\ [][Next]_vars

(* Goroutines are scheduled, timers and tickers fire, calls are answered.
   Nothing obliges the network or the user to do anything. *)
Fairness == WF_vars(Pending) /\ WF_vars(Ticks) /\ WF_vars(Loop)

FairSpec == Spec /\ Fairness

-----------------------------------------------------------------------------
(* Properties *)

TypeOK ==
    /\ net \in Networks
    /\ round.pc \in {"idle", "started", "next", Connect, Disconnect}
    /\ active \in SUBSET Tunnels
    /\ backoff \in [Tunnels -> {"none", "waiting", "over"}]
    /\ paused \in SUBSET Tunnels
    /\ policy \in [Tunnels -> Policies]
    /\ off \in SUBSET Tunnels /\ on \in SUBSET Tunnels /\ off \cap on = {}
    /\ request \in [Tunnels -> {"none", "connect", "disconnect"}]

(* What an evaluation of the true network would find to do. *)
Unfinished(t) ==
    KnownAction(Decide(PolicyOf[policy[t]], ContextOf[net], Env(t, off, on)).action)

(* macOS has no poll.  Four cases wait there for an event that may never
   come: a tunnel whose connect failed (the back-off posts nothing when it
   passes), one whose latch is cleared while the user's connect or disconnect
   is still under way, one that does not go down in a round that counts as a
   recheck (the reason of a request that waits is overwritten by the settle
   timer's, so this need not be the recheck), and rules on the SSID behind a new gateway that serves
   the old SSID (the reporter sees no change, so nothing renews the stamp). *)
Waits(t) ==
    darwin /\ \/ backoff[t] # "none"
              \/ t \in late
              \/ Stale /\ RulesReferenceSSID(PolicyOf[policy[t]].rules)

(* "The engine converges on the final network state": once nothing happens
   any more every tunnel is, and stays, as its policy and latches say for the
   network the machine is really on. *)
Converges == <>[](\A t \in Tunnels : ~Unfinished(t) \/ Waits(t))

(* No "steady evaluation loop": on macOS the engine comes to rest. *)
ComesToRest == darwin => <>[](round = Idle /\ ~box /\ ~settle)

=============================================================================
