------------------------- MODULE ReconnectTriggers -------------------------
(* What makes the reconnect monitor rebuild a tunnel: the detectors of wake-ups,
   of a new primary network and of a resumed session, each with a channel of one
   slot; triggerLoop, which empties them; and monitorLoop, which looks at the
   handshake every half minute.  A retry is its teardown and its connects (with
   slots, cancels and the firewall it is ReconnectMonitor's).  One tunnel. *)
EXTENDS Naturals

CONSTANTS
    Platforms,  \* of "darwin", "linux", "windows"
    Networks,   \* what may be the primary network
    None,       \* no network, no value yet
    MaxEvents   \* bound: what networks, sleeps, sessions and users do

Retries == {"all", "one"}
StaleAfter == 7     \* checks since the handshake: 180 s are over
FlaggedAfter == 6   \* 150 s are; at the fifth, perhaps
Cooldown == 2       \* polls, one a second, after which a change fires again

VARIABLES
    events, platform,
    net,        \* the primary network
    detected,   \* the detector's last one
    cool,       \* its polls since it fired
    changed, woke, resumed,     \* the channels
    health, exempt,             \* the switch; the tunnel has opted out
    state, path, by,    \* down, connecting, up; built on which network; by whom
    cached,     \* its config, in activeCfgs
    shaken, age,                \* a handshake, ever; checks since it, or the connect
    due,        \* monitorLoop has found it stale and is about to trigger
    retry,      \* [at, torn] of each key
    idle,       \* history: checks in a row that passed over a silent tunnel, 2 at most
    unseen,     \* history: the detector has missed a change since the connect
    kept        \* history: an all-tunnels teardown has passed over the connect

vars == <<events, platform, net, detected, cool, changed, woke, resumed, health, exempt,
          state, path, by, cached, shaken, age, due, retry, idle, unseen, kept>>
channels == <<changed, woke, resumed>>
detector == <<net, detected, cool>>
switches == <<health, exempt>>
tunnel == <<state, path, by, cached, shaken, age>>

Idle == [at |-> "none", torn |-> FALSE]
Fresh == [at |-> "sleeping", torn |-> FALSE]

TypeOK ==
    /\ events \in 0 .. MaxEvents /\ platform \in Platforms
    /\ net \in Networks \cup {None} /\ detected \in Networks \cup {None, "unset"}
    /\ cool \in 0 .. Cooldown
    /\ {changed, woke, resumed, health, exempt, cached, shaken, due, unseen, kept} \subseteq BOOLEAN
    /\ state \in {"down", "connecting", "up"} /\ path \in Networks \cup {None, "slept"}
    /\ by \in Retries \cup {"user", "nobody"} /\ age \in 0 .. 8 /\ idle \in 0 .. 2
    /\ retry \in [Retries -> [at : {"none", "sleeping", "tearing", "torn", "connecting"},
                              torn : BOOLEAN]]

Init ==
    /\ events = 0 /\ platform \in Platforms /\ net \in Networks
    /\ detected = IF platform = "linux" THEN net ELSE "unset"
    /\ cool = Cooldown /\ changed = FALSE /\ woke = FALSE /\ resumed = FALSE
    /\ health = TRUE /\ exempt = FALSE
    /\ state = "down" /\ path = None /\ by = "nobody" /\ cached = FALSE
    /\ shaken = FALSE /\ age = 0
    /\ due = FALSE /\ retry = [k \in Retries |-> Idle]
    /\ idle = 0 /\ unseen = FALSE /\ kept = FALSE

Event == events < MaxEvents /\ events' = events + 1
Same == UNCHANGED <<events, platform>>
AtLeast(n, bound) == IF n < bound THEN n + 1 ELSE bound
Running(r) == \E k \in Retries : r[k].at # "none"

-----------------------------------------------------------------------------
(* The detectors *)

\* A change back to what the detector knows is over before it looks.
NetworkChanges ==
    /\ Event
    /\ \E n \in (Networks \cup {None}) \ {net} :
           /\ net' = n
           /\ unseen' = (unseen \/ (n = detected /\ state # "down" /\ path # n))
    /\ UNCHANGED <<platform, detected, cool, channels, switches, tunnel, due, retry, idle, kept>>

\* On macOS and Windows a change within two seconds of the last one that fired is
\* noted and dropped; two polls later the clock decides.
Suppressed == platform # "linux" /\ cool < Cooldown

(* A poll, or on Linux a netlink message. *)
Sample ==
    /\ detected # net \/ cool < Cooldown
    /\ detected' = net
    /\ IF detected \in {net, "unset"}
       THEN /\ cool' = AtLeast(cool, Cooldown)
            /\ unseen' = (unseen \/ (detected = "unset" /\ state # "down" /\ path # net))
            /\ UNCHANGED changed
       ELSE \/ /\ Suppressed
               /\ cool' = AtLeast(cool, Cooldown)
               /\ unseen' = (unseen \/ state # "down")
               /\ UNCHANGED changed
            \/ /\ ~Suppressed \/ cool = Cooldown - 1
               /\ cool' = IF platform = "linux" THEN Cooldown ELSE 0
               /\ changed' = TRUE /\ UNCHANGED unseen
    /\ Same /\ UNCHANGED <<net, woke, resumed, switches, tunnel, due, retry, idle, kept>>

\* A sleep.  The wake-up is told of, or it is not; ConnectedAt may not count it.
Sleeps ==
    /\ Event
    /\ \E told \in BOOLEAN :
           /\ woke' = (woke \/ told)
           /\ unseen' = (unseen \/ (~told /\ state # "down"))
    /\ path' = IF state = "down" THEN path ELSE "slept"
    /\ age' \in IF state # "up" THEN {age} ELSE IF shaken THEN {8} ELSE {age, 8}
    /\ idle' = 0
    /\ UNCHANGED <<platform, detector, changed, resumed, switches, state, by, cached, shaken,
                   due, retry, kept>>

\* Windows: the display turns on, the session is unlocked; or a wake-up's second message.
SessionResumes ==
    /\ Event /\ platform = "windows"
    /\ \/ resumed' = TRUE /\ UNCHANGED woke
       \/ woke' = TRUE /\ UNCHANGED resumed
    /\ UNCHANGED <<platform, detector, changed, switches, tunnel, due, retry, idle, unseen, kept>>

-----------------------------------------------------------------------------
(* The loops *)

Replaced(k) == IF k = "all" THEN Retries ELSE {k}

\* A retry that is connecting is cancelled, and its connect runs on.
Trigger(k) ==
    /\ retry' = [q \in Retries |-> IF q = k THEN Fresh
                                   ELSE IF q \in Replaced(k) THEN Idle ELSE retry[q]]
    /\ by' = IF by \in Replaced(k) THEN "nobody" ELSE by

TriggerOne == IF exempt THEN UNCHANGED <<retry, by>> ELSE Trigger("one")

\* Only with a tunnel up or on its way.
TriggerAll == IF state = "down" THEN UNCHANGED <<retry, by>> ELSE Trigger("all")

Others == UNCHANGED <<detector, switches, state, path, cached, shaken, age, idle, unseen, kept>>

TakeWake == woke /\ woke' = FALSE /\ TriggerAll /\ Same /\ Others /\ UNCHANGED <<changed, resumed, due>>

TakeChange ==
    changed /\ changed' = FALSE /\ TriggerAll /\ Same /\ Others /\ UNCHANGED <<woke, resumed, due>>

\* healIfNeeded, with the switch on.  A tunnel on its way up counts as dead.
Dead(flagged) == state = "connecting" \/ (state = "up" /\ age >= flagged)

TakeResume ==
    /\ resumed /\ resumed' = FALSE
    /\ \/ health /\ Dead(FlaggedAfter - 1) /\ TriggerOne
       \/ ~(health /\ Dead(FlaggedAfter)) /\ UNCHANGED <<retry, by>>
    /\ Same /\ Others /\ UNCHANGED <<changed, woke, due>>

(* monitorLoop's check; one tick waits while it triggers.  Ages are counted up to 8,
   a tunnel that has been silent for longer than any check should leave it. *)
HalfMinute ==
    /\ state = "up" /\ ~due
    /\ age' = AtLeast(age, 8)
    /\ due' = (health /\ ~exempt /\ age' >= StaleAfter)
    /\ idle' = IF health /\ ~exempt /\ age' = 8 /\ ~Running(retry) THEN AtLeast(idle, 2) ELSE 0
    /\ Same
    /\ UNCHANGED <<detector, channels, switches, state, path, by, cached, shaken, retry,
                   unseen, kept>>

MonitorTriggers ==
    /\ due /\ due' = FALSE /\ TriggerOne
    /\ Same /\ Others /\ UNCHANGED channels

Handshake ==
    /\ state = "up" /\ net # None /\ (age > 0 \/ ~shaken)
    /\ age' = 0 /\ shaken' = TRUE
    /\ Same /\ UNCHANGED <<detector, channels, switches, state, path, by, cached, due, retry,
                           idle, unseen, kept>>

-----------------------------------------------------------------------------
(* Retries *)

Goto(k, at, torn) == retry' = [retry EXCEPT ![k] = [at |-> at, torn |-> torn]]
Env == Same /\ UNCHANGED <<detector, channels, switches, due>>

(* Mutant: the first attempt, too, takes a tunnel that is up for its goal. *)
BowsOut_Mut(k) == state = "up"

BowsOut(k) == retry[k].torn /\ state = "up"

\* The back-off ends.  What another has brought up since the teardown is left alone.
TimerFires(k) ==
    /\ retry[k].at = "sleeping"
    /\ IF BowsOut(k) THEN Goto(k, "none", FALSE) ELSE Goto(k, "tearing", retry[k].torn)
    /\ idle' = 0
    /\ Env /\ UNCHANGED <<tunnel, unseen, kept>>

TearDown(k) ==
    /\ retry[k].at = "tearing" /\ state # "connecting"
    /\ state' = "down" /\ Goto(k, "torn", TRUE)
    /\ idle' = 0
    /\ Env /\ UNCHANGED <<path, by, cached, shaken, age, unseen, kept>>

\* A connect that takes longer than ten seconds: DisconnectTunnel gives up, and
\* DisconnectAll tells nobody.
TearDownTimesOut(k) ==
    /\ retry[k].at = "tearing" /\ state = "connecting"
    /\ IF k = "all" THEN Goto(k, "torn", TRUE) ELSE Goto(k, "sleeping", retry[k].torn)
    /\ kept' = (kept \/ k = "all")
    /\ Env /\ UNCHANGED <<tunnel, idle, unseen>>

Connecting(who) ==
    /\ state' = "connecting" /\ path' = net /\ by' = who
    /\ shaken' = FALSE /\ age' = 0 /\ unseen' = FALSE /\ kept' = FALSE /\ idle' = 0

\* A policy, or the user, forbids it: the tunnel stays down, and the retry ends.
Blocked(k) ==
    /\ retry[k].at = "torn" /\ cached
    /\ Goto(k, "none", FALSE) /\ idle' = 0
    /\ Env /\ UNCHANGED <<tunnel, unseen, kept>>

\* connectMu is waited for; a tunnel that is up already is an error.
CallReconnect(k) ==
    /\ retry[k].at = "torn"
    /\ IF ~cached \/ (~exempt /\ state = "up")
       THEN Goto(k, "sleeping", TRUE) /\ UNCHANGED <<tunnel, idle, unseen, kept>>
       ELSE /\ ~exempt /\ state = "down"
            /\ Connecting(k) /\ Goto(k, "connecting", TRUE)
            /\ UNCHANGED cached
    /\ Env

ConnectEnds(ok) ==
    /\ state = "connecting"
    /\ state' = IF ok THEN "up" ELSE "down"
    /\ by' = "nobody"
    /\ cached' = (cached \/ ok)
    /\ retry' = [k \in Retries |->
                    IF k # by THEN retry[k]
                    ELSE IF ok THEN Idle ELSE [at |-> "sleeping", torn |-> TRUE]]
    /\ idle' = 0
    /\ Env /\ UNCHANGED <<path, shaken, age, unseen, kept>>

-----------------------------------------------------------------------------
(* The user and the engine *)

Connect ==
    /\ Event /\ state = "down" /\ Connecting("user")
    /\ UNCHANGED <<platform, detector, channels, switches, cached, due, retry>>

\* The tunnel's own retry goes; one of all tunnels does not.
Disconnect ==
    /\ Event
    /\ retry' = [retry EXCEPT !["one"] = Idle]
    /\ by' = IF by = "one" THEN "nobody" ELSE by
    /\ IF state = "up" THEN state' = "down" /\ cached' = FALSE ELSE UNCHANGED <<state, cached>>
    /\ idle' = 0
    /\ UNCHANGED <<platform, detector, channels, switches, path, shaken, age, due, unseen, kept>>

Switch ==
    /\ Event
    /\ \/ health' = ~health /\ UNCHANGED exempt
       \/ exempt' = ~exempt /\ UNCHANGED health
    /\ idle' = 0
    /\ UNCHANGED <<platform, detector, channels, tunnel, due, retry, unseen, kept>>

RetryStep(k) ==
    TimerFires(k) \/ TearDown(k) \/ TearDownTimesOut(k) \/ Blocked(k) \/ CallReconnect(k)

Next ==
    \/ NetworkChanges \/ Sample \/ Sleeps \/ SessionResumes
    \/ TakeWake \/ TakeChange \/ TakeResume
    \/ HalfMinute \/ MonitorTriggers \/ Handshake
    \/ \E k \in Retries : RetryStep(k)
    \/ \E ok \in BOOLEAN : ConnectEnds(ok)
    \/ Connect \/ Disconnect \/ Switch

Spec == Init /\ [][Next]_vars

-----------------------------------------------------------------------------
(* Once the detectors and the monitor have nothing left to do, a tunnel that is up
   has been built on the network there is, after the last sleep: unless the
   detector missed the change, or an all-tunnels teardown gave up on a connect and
   let it stand (monitor.go triggerLoop, reconnectWithBackoff; the detectors). *)
Rebuilt ==
    /\ state = "up" /\ detected = net /\ ~changed /\ ~woke /\ ~Running(retry)
    /\ ~unseen /\ ~kept
    => path = net

(* No tunnel stays up and dead: with the switch on and the tunnel not exempt, no two
   checks in a row find it silent for so long, a tunnel that has never shaken hands
   included, with nothing started in between to repair it.
   (monitor.go monitorLoop, triggerReconnect, reconnectWithBackoff) *)
DeadIsRepaired == state = "up" => idle < 2
=============================================================================
