--------------------------- MODULE UpdateScheduler ---------------------------
(***************************************************************************)
(* How the GUI learns of a new release and tells its user once.  The       *)
(* scheduler's loop and the "Check now" button each ask the release feed,  *)
(* with the validator (ETag) of the last answer, record the outcome in     *)
(* update.json, and announce a version nobody was told of or dismissed.    *)
(* Nothing serialises the two: an answer may be recorded after a newer     *)
(* one.  Updates replace the program and restart it.                       *)
(*                                                                         *)
(* Versions are numbers; a release is known by its version, the state of   *)
(* its assets, and its revision, which every edit changes and the          *)
(* validator stands for.  Timers are abstracted to "may fire": the delays  *)
(* of 30 s to 26 h, and the ramp that picks one, are finite.               *)
(***************************************************************************)
EXTENDS Naturals

CONSTANTS
    MaxVersion,  \* bound: the releases ever published
    MaxEvents    \* bound: what publishers, users and faults do

ASSUME UpdateAssumption == MaxVersion \in Nat /\ MaxEvents \in Nat

VARIABLES
    events,
    feed,        \* the latest release: [v, assets, rev]
    disk,        \* update.json: [etag, dismissed, checked]
    cur,         \* the version installed
    enabled,     \* the auto-check setting
    \* The GUI's process.
    up,
    st,          \* the StateStore's copy of update.json
    kick,        \* the one-slot wake-up channel
    last,        \* lastNotifiedVersion, 0 for none
    pc,          \* by checker: idle, sent, answered, recorded, gated, emit
    res,         \* by checker: the validator sent, then the result
    banner,      \* the version the user is shown, 0 for none
    \* What has been seen from outside.
    told,        \* times this session announced each version
    overtaken,   \* an older release was announced after a newer one
    said         \* versions whose dismissal was saved

session == <<up, st, kick, last, pc, res, banner>>
seen == <<told, overtaken, said>>
vars == <<events, feed, disk, cur, enabled, session, seen>>

Versions == 1..MaxVersion
Loop == "loop"
Manual == "manual"
Checkers == {Loop, Manual}

Event == events < MaxEvents /\ events' = events + 1

(* 0 is no validator and no version. *)
State == [etag : Nat, dismissed : SUBSET Versions, checked : BOOLEAN]
Result == [kind : {"none", "error", "unmodified", "info"},
           etag : Nat, v : 0..MaxVersion, available : BOOLEAN]
NoResult == [kind |-> "none", etag |-> 0, v |-> 0, available |-> FALSE]

TypeOK ==
    /\ events \in 0..MaxEvents
    /\ feed \in [v : 0..MaxVersion, assets : {"none", "bad", "ok"}, rev : Nat]
    /\ disk \in State /\ st \in State
    /\ cur \in 0..MaxVersion /\ cur <= feed.v
    /\ {enabled, up, kick, overtaken} \subseteq BOOLEAN
    /\ last \in 0..MaxVersion /\ banner \in 0..MaxVersion
    /\ pc \in [Checkers -> {"idle", "sent", "answered", "recorded", "gated", "emit"}]
    /\ res \in [Checkers -> Result]
    /\ told \in [Versions -> Nat]
    /\ said \subseteq Versions
    \* A validator in use is one the feed has had, and only a checker that
    \* has something to announce gets as far as announcing it.
    /\ st.etag <= feed.rev /\ disk.etag <= feed.rev
    /\ \A p \in Checkers :
           pc[p] \in {"recorded", "gated", "emit"} =>
               res[p].kind = "info" /\ res[p].available /\ res[p].v > cur

-----------------------------------------------------------------------------
(* A process that has just loaded update.json, or none. *)
NewSession(file) ==
    /\ st' = file
    /\ kick' = FALSE
    /\ last' = 0
    /\ pc' = [p \in Checkers |-> "idle"]
    /\ res' = [p \in Checkers |-> NoResult]
    /\ banner' = 0
    /\ told' = [v \in Versions |-> 0]
    /\ overtaken' = FALSE

Init ==
    /\ events = 0
    /\ feed = [v |-> 0, assets |-> "ok", rev |-> 1]
    /\ disk = [etag |-> 0, dismissed |-> {}, checked |-> FALSE]
    /\ cur = 0
    /\ enabled = TRUE
    /\ up = TRUE
    /\ st = disk
    /\ kick = FALSE
    /\ last = 0
    /\ pc = [p \in Checkers |-> "idle"]
    /\ res = [p \in Checkers |-> NoResult]
    /\ banner = 0
    /\ told = [v \in Versions |-> 0]
    /\ overtaken = FALSE
    /\ said = {}

(* StateStore.Update: the copy changes; the write to disk may fail. *)
Update(new) ==
    /\ st' = new
    /\ \/ disk' = new /\ UNCHANGED events
       \/ Event /\ UNCHANGED disk

Goto(p, label) == pc' = [pc EXCEPT ![p] = label]
Done(p) == Goto(p, "idle") /\ res' = [res EXCEPT ![p] = NoResult]

-----------------------------------------------------------------------------
(* A check, by the loop or by CheckNow. *)

(* The request carries the validator of the store as it is now. *)
Send(p) ==
    /\ Goto(p, "sent")
    /\ res' = [res EXCEPT ![p] = [NoResult EXCEPT !.etag = st.etag]]

(* What parseReleaseBody makes of the latest release. *)
Parsed ==
    IF feed.v > cur /\ feed.assets = "bad" THEN
        [NoResult EXCEPT !.kind = "error", !.etag = feed.rev]
    ELSE
        [kind |-> "info", etag |-> feed.rev, v |-> feed.v,
         available |-> feed.v > cur /\ feed.assets = "ok"]

Reply(p, result) ==
    /\ pc[p] = "sent"
    /\ Goto(p, "answered")
    /\ res' = [res EXCEPT ![p] = result]

(* The feed answers, 304 to a validator that is its own; or the check      *)
(* fails, without an answer or (its body cut short) with a validator.      *)
Answer(p) ==
    /\ UNCHANGED events
    /\ Reply(p, IF res[p].etag = feed.rev
                THEN [NoResult EXCEPT !.kind = "unmodified", !.etag = feed.rev]
                ELSE Parsed)

Fail(p) ==
    /\ Event
    /\ \E etag \in {0, feed.rev} :
           Reply(p, [NoResult EXCEPT !.kind = "error", !.etag = etag])

(* recordResult: a failure leaves the validator alone. *)
Recorded(result) ==
    [st EXCEPT !.checked = TRUE,
               !.etag = IF result.etag # 0 THEN result.etag ELSE @]

(* Stores the validator of whatever came back. *)
Record_Mut(p) ==
    /\ pc[p] = "answered"
    /\ Update(Recorded(res[p]))
    /\ IF res[p].available
       THEN Goto(p, "recorded") /\ UNCHANGED res
       ELSE Done(p)

Record(p) ==
    /\ pc[p] = "answered"
    /\ IF res[p].kind = "error" THEN UNCHANGED <<events, disk, st>>
       ELSE Update(Recorded(res[p]))
    /\ IF res[p].available
       THEN Goto(p, "recorded") /\ UNCHANGED res
       ELSE Done(p)

(* Dismissals are not looked up. *)
Gate_Mut(p) == pc[p] = "recorded" /\ Goto(p, "gated") /\ UNCHANGED res

(* maybeNotify: dismissed? *)
Gate(p) ==
    /\ pc[p] = "recorded"
    /\ IF res[p].v \in st.dismissed THEN Done(p)
       ELSE Goto(p, "gated") /\ UNCHANGED res

(* The session remembers nothing of what it announced. *)
Claim_Mut(p) ==
    /\ pc[p] = "gated"
    /\ IF last = res[p].v THEN Done(p) /\ UNCHANGED <<last, overtaken>>
       ELSE Goto(p, "emit") /\ UNCHANGED <<last, overtaken, res>>

(* maybeNotify: announced this session?  Tested and set in one step. *)
Claim(p) ==
    /\ pc[p] = "gated"
    /\ IF last = res[p].v THEN Done(p) /\ UNCHANGED <<last, overtaken>>
       ELSE /\ last' = res[p].v
            /\ overtaken' = (overtaken \/ last > res[p].v)
            /\ Goto(p, "emit")
            /\ UNCHANGED res

(* notify: the event reaches the window. *)
Emit(p) ==
    /\ pc[p] = "emit"
    /\ told' = [told EXCEPT ![res[p].v] = @ + 1]
    /\ banner' = res[p].v
    /\ Done(p)

Check(p) ==
    /\ up
    /\ \/ /\ Answer(p) \/ Fail(p)
          /\ UNCHANGED <<disk, st, last, banner, told, overtaken>>
       \/ Record(p) /\ UNCHANGED <<last, banner, told, overtaken>>
       \/ Gate(p) /\ UNCHANGED <<events, disk, st, last, banner, told, overtaken>>
       \/ Claim(p) /\ UNCHANGED <<events, disk, st, banner, told>>
       \/ Emit(p) /\ UNCHANGED <<events, disk, st, last, overtaken>>
    /\ UNCHANGED <<feed, cur, enabled, up, kick, said>>

(* The loop's timer fires, or it is kicked; it checks if the setting says  *)
(* so, and sleeps again if not.                                            *)
Wake ==
    /\ up /\ pc[Loop] = "idle"
    /\ \E kicked \in {k \in BOOLEAN : k => kick} :
           /\ kick' = (kick /\ ~kicked)
    /\ IF enabled THEN Send(Loop) ELSE UNCHANGED <<pc, res>>
    /\ UNCHANGED <<events, feed, disk, cur, enabled, up, st, last, banner,
                   told, overtaken, said>>

-----------------------------------------------------------------------------
(* The user. *)

CheckNow ==
    /\ up /\ pc[Manual] = "idle"
    /\ Event
    /\ Send(Manual)
    /\ UNCHANGED <<feed, disk, cur, enabled, up, st, kick, last, banner, seen>>

(* Kick(false): the window is focused. *)
Focus ==
    /\ up
    /\ ~st.checked
    /\ kick' = TRUE
    /\ UNCHANGED <<events, feed, disk, cur, enabled, up, st, last, pc, res, banner, seen>>

(* Settings: off, or on with Kick(true). *)
Toggle ==
    /\ up
    /\ Event
    /\ enabled' = ~enabled
    /\ kick' = (kick \/ enabled')
    /\ UNCHANGED <<feed, disk, cur, up, st, last, pc, res, banner, told, overtaken, said>>

(* The banner's cross.  The frontend hides it whether or not it was saved. *)
Dismiss ==
    /\ up /\ banner # 0
    /\ Update([st EXCEPT !.dismissed = @ \cup {banner}])
    /\ said' = IF disk' = st' THEN said \cup {banner} ELSE said
    /\ banner' = 0
    /\ UNCHANGED <<feed, cur, enabled, up, kick, last, pc, res, told, overtaken>>

(* "Update now" that ends well: the installer replaces the program and     *)
(* ends this process.  One that fails leaves everything as it was.         *)
RunUpdate ==
    /\ up /\ banner # 0
    /\ Event
    /\ cur' = banner
    /\ up' = FALSE
    /\ NewSession(disk)
    /\ UNCHANGED <<feed, disk, enabled, said>>

Quit ==
    /\ up
    /\ Event
    /\ up' = FALSE
    /\ NewSession(disk)
    /\ UNCHANGED <<feed, disk, cur, enabled, said>>

Start ==
    /\ ~up
    /\ up' = TRUE
    /\ NewSession(disk)
    /\ UNCHANGED <<events, feed, disk, cur, enabled, said>>

-----------------------------------------------------------------------------
(* The publisher: a release appears, its assets perhaps later. *)
Publish ==
    /\ Event
    /\ \/ /\ feed.v < MaxVersion
          /\ \E a \in {"none", "bad", "ok"} :
                 feed' = [v |-> feed.v + 1, assets |-> a, rev |-> feed.rev + 1]
       \/ /\ feed.assets # "ok"
          /\ feed' = [feed EXCEPT !.assets = "ok", !.rev = @ + 1]
    /\ UNCHANGED <<disk, cur, enabled, session, seen>>

(* Four hours pass since the last answer. *)
Age ==
    /\ disk.checked \/ st.checked
    /\ disk' = [disk EXCEPT !.checked = FALSE]
    /\ st' = [st EXCEPT !.checked = FALSE]
    /\ UNCHANGED <<events, feed, cur, enabled, up, kick, last, pc, res, banner,
                   told, overtaken, said>>

Next ==
    \/ \E p \in Checkers : Check(p)
    \/ Wake \/ CheckNow \/ Focus \/ Toggle \/ Dismiss \/ RunUpdate \/ Quit \/ Start
    \/ Publish \/ Age

(* Every request ends (10 s at most) and every timer fires. *)
Fairness == WF_vars(Wake) /\ \A p \in Checkers : WF_vars(Check(p))

Spec == Init /\ [][Next]_vars /\ Fairness

-----------------------------------------------------------------------------
(* Properties. *)

(* A session announces a version once, however its checks interleave,      *)
(* unless an answer that was overtaken by a newer one was announced after  *)
(* it (maybeNotify, recordResult).                                         *)
NotifyOnce == overtaken \/ \A v \in Versions : told[v] <= 1

(* A version whose dismissal was saved is not announced again, in this     *)
(* session or a later one, also by a check that asked whether it was       *)
(* dismissed before it was (maybeNotify's gates are separate steps), with  *)
(* the same exception.                                                     *)
DismissedStays == [][overtaken' \/ \A v \in said : told'[v] <= told[v]]_vars

(* A release that can be installed, and that the stored validator does not *)
(* already stand for, is announced or was dismissed, if the program and    *)
(* the setting stay on and it is not replaced by another: a failed or cut  *)
(* short check must not store a validator that hides it (recordResult).    *)
Current(v) == feed.v = v /\ feed.assets = "ok" /\ v > cur
News ==
    \A v \in Versions :
        (up /\ enabled /\ Current(v) /\ st.etag # feed.rev)
            ~> (told[v] > 0 \/ v \in st.dismissed
                \/ ~up \/ ~enabled \/ ~Current(v))

=============================================================================
