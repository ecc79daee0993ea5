---------------------------- MODULE EndpointSwitch ----------------------------
(***************************************************************************)
(* One tunnel with several endpoint candidates.  A reconnect measures them *)
(* and may rotate the tunnel to a better one; in dynamic mode a loop looks *)
(* every 30 s whether one is better, and asks for a reconnect when that    *)
(* has held across a window.  Between a measurement and the decision it    *)
(* leads to, other reconnects, the loop and the user take their steps.     *)
(*                                                                         *)
(* Time is counted in periods of the loop.  A measurement takes seconds    *)
(* and a requested reconnect starts at once: a period may end during an    *)
(* evaluation, but no two do.  Ages stop counting where they no longer     *)
(* matter.                                                                 *)
(***************************************************************************)
EXTENDS Integers, Sequences, FiniteSets

CONSTANTS
    Candidates,  \* the candidate list, in the user's order
    Other,       \* an address that is not in the list
    Latencies,   \* what a probe can find, in ms; 0 is no answer
    Threshold, Margin,        \* endpoint.Opts
    Sustained, Cooldown, TTL, \* the window, the cooldown, the blessing's life
    Reconnects,  \* goroutines inside reconnectFn for this tunnel
    Loop,        \* endpointDynamicLoop
    None,
    MaxEvents    \* bound: what the network and the user do

Listed == {Candidates[i] : i \in DOMAIN Candidates}
Addresses == Listed \cup {Other}
Pickers == Reconnects \cup {Loop}

VARIABLES
    events,
    net,       \* what a probe of each candidate finds
    mode,      \* EndpointSwitchTiming, "off" also under the master switch
    saved,     \* the address in the .conf
    cached,    \* the address in activeCfgs
    choosing,  \* SetEndpointActive has saved and not reconnected yet
    apart,     \* history: the last switch reached the file or the cache only
    stamp,     \* endpointSwitches: the age of the tunnel's stamp
    pending,   \* pendingImprovements: candidate and age
    blessed,   \* blessedSwitches: candidate and age
    trigger,   \* TriggerTunnelReconnect was called, its attempt not started
    due,       \* the loop's ticker has fired
    choice,    \* what a goroutine inside its evaluation has chosen
    late,      \* those whose evaluation is from the period before
    old,       \* those whose config is not the cached one any more
    first,     \* history: by candidate, the age of its first proposal, or -1
    since      \* history: the age of the helper's last switch

user == <<events, net, mode, choosing>>
gates == <<stamp, pending, blessed>>
picks == <<choice, late, old>>
history == <<first, since>>
vars == <<user, saved, cached, apart, gates, trigger, due, picks, history>>

Event == events < MaxEvents /\ events' = events + 1

Older(age, limit) == IF age < limit THEN age + 1 ELSE age

Stay == [to |-> None, failover |-> FALSE]

-----------------------------------------------------------------------------
(* endpoint.Better *)

(* The fastest of the others that answer, the first of the list among
   equals. *)
Fallbacks(ms, current) ==
    LET answering == {i \in DOMAIN Candidates :
                         Candidates[i] # current /\ ms[Candidates[i]] > 0}
    IN {i \in answering :
           \A j \in answering :
              \/ ms[Candidates[i]] < ms[Candidates[j]]
              \/ ms[Candidates[i]] = ms[Candidates[j]] /\ i <= j}

(* An address that is not in the list is not measured, and counts as down. *)
Better(ms, current) ==
    IF Fallbacks(ms, current) = {} THEN Stay
    ELSE LET i == CHOOSE x \in Fallbacks(ms, current) : TRUE
             c == Candidates[i]
             down == current \notin Listed \/ ms[current] = 0
         IN IF down THEN [to |-> c, failover |-> TRUE]
            ELSE IF \/ ms[current] < Threshold
                    \/ ms[c] * 100 >= ms[current] * (100 - Margin)
                 THEN Stay
            ELSE [to |-> c, failover |-> FALSE]

-----------------------------------------------------------------------------
(* The gates *)

InCooldown == stamp < Cooldown

(* Mutant: an evaluation that is refused starts the cooldown again. *)
Refuse_Mut == stamp' = 0

(* allow, refused *)
Refuse == UNCHANGED stamp

(* Mutant: the stamp is forgotten. *)
Stamp_Mut == UNCHANGED stamp

(* allow, granted *)
Stamp == stamp' = 0

(* confirmImprovement, which records what it does not confirm. *)
Confirms(c) ==
    \/ Sustained = 0
    \/ pending # None /\ pending.candidate = c /\ pending.age >= Sustained

Confirm(c) ==
    /\ pending' = IF Confirms(c) THEN None ELSE [candidate |-> c, age |-> 0]
    /\ first' = [first EXCEPT ![c] = IF @ = -1 THEN 0 ELSE @]

(* takeBlessing, which drops whatever is there. *)
Blessed(c) == blessed # None /\ blessed.candidate = c /\ blessed.age < TTL

-----------------------------------------------------------------------------
(* SetEndpointCandidates puts the address in use first. *)
Init ==
    /\ events = 0
    /\ net \in [Listed -> Latencies]
    /\ mode \in {"reconnect", "dynamic"}
    /\ saved = Candidates[1] /\ cached = saved
    /\ choosing = FALSE /\ apart = FALSE
    /\ stamp = Cooldown /\ pending = None /\ blessed = None
    /\ trigger = FALSE /\ due = FALSE
    /\ choice = [p \in Pickers |-> Stay] /\ late = {} /\ old = {}
    /\ first = [c \in Listed |-> -1]
    /\ since = Cooldown

Dead == mode # "off" /\ Better(net, cached).failover

(* reconnectFn as far as the choice, without connectMu. *)
Measure(r) ==
    /\ mode # "off" /\ choice[r] = Stay
    /\ choice' = [choice EXCEPT ![r] = Better(net, cached)]
    /\ trigger' = FALSE
    /\ UNCHANGED <<net, mode, choosing, saved, cached, apart, gates, due, late,
                   old, history>>

(* It happens for a trigger or a dead link, and after sleep or a change of the
   network. *)
Reconnect(r) == (trigger \/ Dead) /\ Measure(r) /\ UNCHANGED events

Restore(r) == Event /\ Measure(r)

Picked(p) ==
    /\ choice' = [choice EXCEPT ![p] = Stay]
    /\ late' = late \ {p} /\ old' = old \ {p}

(* A connect by the user caches the config it comes with. *)
Replace(address) ==
    /\ cached' = address
    /\ apart' = FALSE
    /\ old' = {r \in Reconnects : choice[r] # Stay}

(* The peer is rewritten in the config the goroutine holds, and that config is
   saved. *)
Commit(r, c) ==
    /\ cached' = IF r \in old THEN cached ELSE c
    /\ \/ saved' = c /\ apart' = (r \in old) /\ UNCHANGED events
       \/ Event /\ apart' = TRUE /\ UNCHANGED saved

(* maybeSwitchEndpoint from the cooldown on. *)
Decide(r) ==
    /\ choice[r] # Stay
    /\ Picked(r)
    /\ LET c == choice[r].to
       IN \/ /\ InCooldown
             /\ Refuse
             /\ UNCHANGED <<pending, blessed, history, events, saved, cached,
                            apart>>
          \/ /\ ~InCooldown /\ choice[r].failover
             /\ Stamp /\ Commit(r, c) /\ since' = 0
             /\ UNCHANGED <<pending, blessed, first>>
          \/ /\ ~InCooldown /\ ~choice[r].failover
             /\ Stamp
             /\ blessed' = None
             /\ IF Blessed(c) THEN UNCHANGED <<pending, first>> ELSE Confirm(c)
             /\ IF Blessed(c) \/ Confirms(c)
                THEN Commit(r, c) /\ since' = 0
                ELSE UNCHANGED <<events, saved, cached, apart, since>>
    /\ UNCHANGED <<net, mode, choosing, trigger, due>>

(* evaluateDynamicSwitches: the measurement, unless the tunnel is in its
   cooldown; a failover is left to the health loop. *)
LoopMeasure ==
    /\ due /\ choice[Loop] = Stay
    /\ due' = FALSE
    /\ LET c == Better(net, cached)
       IN choice' = [choice EXCEPT ![Loop] =
                        IF mode # "dynamic" \/ InCooldown \/ c.failover
                        THEN Stay ELSE c]
    /\ UNCHANGED <<user, saved, cached, apart, gates, trigger, late, old,
                   history>>

(* Mutant: the reconnect is asked for without a blessing. *)
LoopDecide_Mut ==
    /\ choice[Loop] # Stay
    /\ Picked(Loop)
    /\ Confirm(choice[Loop].to)
    /\ trigger' = (trigger \/ Confirms(choice[Loop].to))
    /\ UNCHANGED <<user, saved, cached, apart, stamp, blessed, due, since>>

LoopDecide ==
    /\ choice[Loop] # Stay
    /\ Picked(Loop)
    /\ LET c == choice[Loop].to
       IN /\ Confirm(c)
          /\ IF Confirms(c)
             THEN trigger' = TRUE /\ blessed' = [candidate |-> c, age |-> 0]
             ELSE UNCHANGED <<trigger, blessed>>
    /\ UNCHANGED <<user, saved, cached, apart, stamp, due, since>>

(* The monitor or the policy gate drops the request. *)
Dropped ==
    /\ trigger /\ Event
    /\ trigger' = FALSE
    /\ UNCHANGED <<net, mode, choosing, saved, cached, apart, gates, due,
                   picks, history>>

Period ==
    /\ ~due /\ ~trigger /\ ~choosing /\ late = {}
    /\ due' = TRUE
    /\ late' = {p \in Pickers : choice[p] # Stay} /\ UNCHANGED old
    /\ stamp' = Older(stamp, Cooldown)
    /\ pending' = IF pending = None THEN None
                  ELSE [pending EXCEPT !.age = Older(@, Sustained)]
    /\ blessed' = IF blessed = None THEN None
                  ELSE [blessed EXCEPT !.age = Older(@, TTL)]
    /\ first' = [c \in Listed |-> IF first[c] = -1 THEN -1
                                  ELSE Older(first[c], Sustained)]
    /\ since' = Older(since, Cooldown)
    /\ UNCHANGED <<user, saved, cached, apart, trigger, choice>>

-----------------------------------------------------------------------------
(* The network and the user *)

Network ==
    /\ Event
    /\ \E c \in Listed :
          \E l \in Latencies \ {net[c]} : net' = [net EXCEPT ![c] = l]
    /\ UNCHANGED <<mode, choosing, saved, cached, apart, gates, trigger, due,
                   picks, history>>

SetEndpointSwitchMode ==
    /\ Event
    /\ mode' \in {"off", "reconnect", "dynamic"} \ {mode}
    /\ UNCHANGED <<net, choosing, saved, cached, apart, gates, trigger, due,
                   picks, history>>

(* SetEndpointActive: the address is saved; then the tunnel goes down and comes
   up with what the file says. *)
SetEndpointActive ==
    /\ ~choosing /\ Event
    /\ saved' \in Addresses \ {saved}
    /\ choosing' = TRUE
    /\ UNCHANGED <<net, mode, cached, apart, gates, trigger, due, picks,
                   history>>

Reload ==
    /\ choosing
    /\ choosing' = FALSE
    /\ Replace(saved)
    /\ UNCHANGED <<events, net, mode, saved, gates, trigger, due, choice, late,
                   history>>

(* A connect by the user: applyEndpointChoice has neither gate. *)
Connect ==
    /\ ~choosing /\ Event
    /\ LET c == IF mode = "off" THEN Stay ELSE Better(net, saved)
       IN saved' = IF c = Stay THEN saved ELSE c.to
    /\ Replace(saved')
    /\ UNCHANGED <<net, mode, choosing, gates, trigger, due, choice, late,
                   history>>

Helper ==
    \/ \E r \in Reconnects : Reconnect(r) \/ Restore(r) \/ Decide(r)
    \/ LoopMeasure \/ LoopDecide \/ Dropped

Outside ==
    Network \/ SetEndpointSwitchMode \/ SetEndpointActive \/ Reload \/ Connect

Next == Helper \/ Period \/ Outside

(* Time passes between any attempts, goroutines go on, the user's reconnect ends; a requested
   reconnect is made, and those of a dead link do not cease. *)
Fairness ==
    /\ WF_vars(Period) /\ WF_vars(LoopMeasure) /\ WF_vars(LoopDecide)
    /\ WF_vars(Reload)
    /\ \A r \in Reconnects : WF_vars(Decide(r))
    /\ WF_vars(\E r \in Reconnects : Reconnect(r))

Spec == Init /\ [][Next]_vars /\ Fairness

-----------------------------------------------------------------------------
(* Properties *)

Proposal == [candidate : Listed, age : Nat]

(* Each variable has its type, and the file names the address in use, but for
   a switch that could not be saved, one that was made in a config the user has
   replaced meanwhile, and a choice of the user's on its way. *)
TypeOK ==
    /\ net \in [Listed -> Latencies]
    /\ mode \in {"off", "reconnect", "dynamic"}
    /\ saved \in Addresses /\ cached \in Addresses
    /\ stamp \in 0..Cooldown /\ since \in 0..Cooldown
    /\ pending \in Proposal \cup {None} /\ blessed \in Proposal \cup {None}
    /\ {trigger, due, choosing, apart} \subseteq BOOLEAN
    /\ late \subseteq Pickers /\ old \subseteq Reconnects
    /\ choice \in [Pickers -> [to : Listed \cup {None}, failover : BOOLEAN]]
    /\ first \in [Listed -> -1..Sustained]
    /\ saved # cached => apart \/ choosing

Switches(r) ==
    /\ choice[r] # Stay /\ choice'[r] = Stay
    /\ <<saved, cached>>' # <<saved, cached>>

(* The cooldown: two switches by the helper are that far apart, whichever
   reconnects make them.  And a live link is not moved by one noisy probe: where
   there is a window, a candidate that is no more than better was proposed
   before, the window or longer ago. *)
NoChurn ==
    [][\A r \in Reconnects : Switches(r) =>
          /\ since = Cooldown
          /\ choice[r].failover \/ Sustained = 0 \/ first[choice[r].to] = Sustained]_vars

(* A dead address is left when another answers: neither the cooldown nor an
   improvement that was not confirmed keeps the tunnel on it. *)
DeadIsLeft == []<>~Dead

Improvable ==
    LET c == Better(net, cached)
    IN mode = "dynamic" /\ c # Stay /\ ~c.failover

(* "With the default 30s window two consecutive ticks are enough to confirm":
   an improvement that stays is made in the end.  A longer window never opens,
   as every tick that does not confirm renews the proposal. *)
WindowOpens == []<>~Improvable

=============================================================================
