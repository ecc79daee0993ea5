---------------------------- MODULE LoopWatchdog ----------------------------
(* The watchdog of a full tunnel (Windows and macOS): every five seconds it reads
   the adapter's byte counters, and three samples in a row with a high rate out and
   next to nothing in make it disconnect the tunnel, on a goroutine of its own and
   by name.  Its ticker drops a tick nobody has taken, and its rate is what the
   counters gained since the last reading, over five seconds whatever has passed.
   Counters are kept as their gain since that reading. *)
EXTENDS Naturals

CONSTANTS
    Sessions,   \* the connects of one tunnel: 1, 2, ...
    Traffic,    \* what five seconds may carry: <<out, in>>
    MaxPeriods  \* bound: spells of five seconds

Threshold == 50     \* MiB/s
Ratio == 10
Sustained == 3

VARIABLES
    periods,
    session,    \* the current or last connect; 0 before the first
    state,      \* down, up, ending: DisconnectTunnel is under way
    dog,        \* [s -> [at, have, over, gain, tick]]
    forced,     \* sessions whose watchdog's goroutine is about to disconnect the name
    trip,       \* history: how the session's watchdog tripped, [streak, prompt], or {}
    streak,     \* history: the last periods over both thresholds, of this session
    looped,     \* history: the last periods that looped
    prompt      \* history: the last periods read before the next was over

vars == <<periods, session, state, dog, forced, trip, streak, looped, prompt>>

Asleep == [at |-> "off", have |-> FALSE, over |-> 0, gain |-> <<0, 0>>, tick |-> FALSE]

TypeOK ==
    /\ periods \in 0 .. MaxPeriods /\ session \in Sessions \cup {0}
    /\ state \in {"down", "up", "ending"}
    /\ \A s \in Sessions :
           /\ dog[s].at \in {"off", "watching", "cancelled", "gone"}
           /\ dog[s].over \in 0 .. Sustained /\ {dog[s].have, dog[s].tick} \subseteq BOOLEAN
    /\ forced \subseteq Sessions
    /\ {streak, looped, prompt} \subseteq 0 .. MaxPeriods

Init ==
    /\ periods = 0 /\ session = 0 /\ state = "down"
    /\ dog = [s \in Sessions |-> Asleep] /\ forced = {}
    /\ trip = [s \in Sessions |-> {}]
    /\ streak = 0 /\ looped = 0 /\ prompt = 0

-----------------------------------------------------------------------------
(* A high rate out and grossly more out than in. *)
Runaway(out, in) == out >= Threshold /\ (in = 0 \/ out \div in >= Ratio)

(* The comments over the thresholds tell a loop, of which next to nothing comes back,
   from a healthy upload that settles at fifty to one.  The ratio of ten does not
   tolerate that upload, as they say, but counts it as runaway. *)
Upload == 50
Loops(out, in) == out >= Threshold /\ out > Upload * in

\* Connect's last phase.  On Windows an adapter that does not resolve is not watched.
Connect ==
    /\ state = "down" /\ session + 1 \in Sessions
    /\ session' = session + 1 /\ state' = "up"
    /\ streak' = 0 /\ looped' = 0 /\ prompt' = 0
    /\ \E at \in {"watching", "gone"} : dog' = [dog EXCEPT ![session + 1].at = at]
    /\ UNCHANGED <<periods, forced, trip>>

Cancel == dog' = [dog EXCEPT ![session].at = IF @ = "watching" THEN "cancelled" ELSE @]

\* DisconnectTunnel by the user or the engine, or of a name a watchdog gave it: the
\* watchdog is cancelled before the slow teardown.
Disconnect ==
    /\ state = "up" /\ state' = "ending" /\ Cancel
    /\ UNCHANGED <<periods, session, forced, trip, streak, looped, prompt>>

ForcedDisconnect ==
    \E s \in forced :
        /\ forced' = forced \ {s}
        /\ IF state = "up" THEN state' = "ending" /\ Cancel ELSE UNCHANGED <<state, dog>>
        /\ UNCHANGED <<periods, session, trip, streak, looped, prompt>>

TornDown ==
    /\ state = "ending" /\ state' = "down"
    /\ UNCHANGED <<periods, session, dog, forced, trip, streak, looped, prompt>>

Ticking(s) == dog[s].at \in {"watching", "cancelled"}

\* Five seconds: the adapter in use carries traffic, and every ticker ticks.
Period(t) ==
    /\ state # "down" /\ periods < MaxPeriods /\ periods' = periods + 1
    /\ dog' = [s \in Sessions |->
                  IF ~Ticking(s) THEN dog[s]
                  ELSE [dog[s] EXCEPT !.tick = TRUE,
                            !.gain = IF s = session THEN <<@[1] + t[1], @[2] + t[2]>> ELSE @]]
    /\ streak' = IF Runaway(t[1], t[2]) THEN streak + 1 ELSE 0
    /\ looped' = IF Loops(t[1], t[2]) THEN looped + 1 ELSE 0
    /\ prompt' = IF dog[session].tick THEN 0 ELSE prompt
    /\ UNCHANGED <<session, state, forced, trip>>

\* select takes a tick even if it has been cancelled, when both are there.
Wakes(s) == Ticking(s) /\ dog[s].tick

Prompt(s) == prompt' = IF s = session THEN prompt + 1 ELSE prompt

(* Mutant: one quiet sample does not start the count again. *)
Counted_Mut(d) == IF Runaway(d.gain[1], d.gain[2]) THEN d.over + 1 ELSE d.over

Counted(d) == IF Runaway(d.gain[1], d.gain[2]) THEN d.over + 1 ELSE 0

\* The first reading is the baseline.
Sample(s) ==
    /\ Wakes(s) /\ Prompt(s)
    /\ LET over == IF dog[s].have THEN Counted(dog[s]) ELSE 0
           trips == over >= Sustained
       IN /\ dog' = [dog EXCEPT ![s] = [at |-> IF trips THEN "gone" ELSE @.at, have |-> TRUE,
                                         over |-> over, gain |-> <<0, 0>>, tick |-> FALSE]]
          /\ forced' = IF trips THEN forced \cup {s} ELSE forced
          /\ trip' = IF trips THEN [trip EXCEPT ![s] =
                         {[streak |-> streak, prompt |-> prompt']}]
                     ELSE trip
    /\ UNCHANGED <<periods, session, state, streak, looped>>

\* The adapter cannot be read: a missed sample takes the baseline with it.
SampleFails(s) ==
    /\ Wakes(s)
    /\ dog' = [dog EXCEPT ![s] = [Asleep EXCEPT !.at = dog[s].at]]
    /\ prompt' = IF s = session THEN 0 ELSE prompt
    /\ UNCHANGED <<periods, session, state, forced, trip, streak, looped>>

Returns(s) ==
    /\ dog[s].at = "cancelled"
    /\ dog' = [dog EXCEPT ![s] = [Asleep EXCEPT !.at = "gone"]]
    /\ UNCHANGED <<periods, session, state, forced, trip, streak, looped, prompt>>

Next ==
    \/ Connect \/ Disconnect \/ ForcedDisconnect \/ TornDown
    \/ \E t \in Traffic : Period(t)
    \/ \E s \in Sessions : Sample(s) \/ SampleFails(s) \/ Returns(s)

Spec == Init /\ [][Next]_vars

-----------------------------------------------------------------------------
(* A loop that lasts is broken: while a session is watched, four samples of it in
   a row, each in time, cannot all find that next to nothing comes back without a
   trip, and a session that has tripped does not stay up once the goroutines have
   run.  And a watchdog that has read every period in time trips only after three
   in a row over both thresholds, those of an adapter another connect has replaced
   not counted.  An upload at fifty to one is over them.  (loop_watchdog_windows.go, loop_watchdog_darwin.go loopWatchdogPoll) *)
LoopBroken ==
    /\ \A s \in Sessions :
           s = session /\ state = "up" /\ dog[s].at = "watching" /\ ~dog[s].tick =>
               ~(looped > Sustained /\ prompt > Sustained)
    /\ \A s \in Sessions : s = session /\ state = "up" /\ trip[s] # {} => forced # {}
    /\ \A s \in Sessions : \A h \in trip[s] :
           s = session /\ h.prompt > Sustained => h.streak >= Sustained
=============================================================================
