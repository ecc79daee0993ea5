---------------------------- MODULE SessionHistory ----------------------------
(* The connection history (internal/storage/history.go) and the GUI's
   bookkeeping that fills it from the helper's status events
   (internal/app/tunnel_ops.go, internal/gui/event_bridge.go).

   ReconcileHistoryFromStatus compares each event with the last one, and only
   when they differ closes the sessions of the tunnels that are gone and opens
   those of the tunnels that have shaken hands.  Its maps are shared by every
   goroutine that delivers events: after the client was swapped, the old
   subscription may still be in its handler when the new one starts.

   HistoryStore keeps the rows in memory and writes them 100 ms later.

   Left out: counters, durations and times; which completed row is old is a free
   choice, and so is whether a session was too short to be kept. *)
EXTENDS Naturals, Functions

CONSTANTS
    Tunnels,
    None,
    MaxEvents,  \* bound: changes of the tunnels and actions of the user
    MaxRows     \* bound: sessions

VARIABLES
    events,
    state,      \* the helper's tunnels: off, shaking (no handshake yet), up
    live,       \* the subscription the helper sends to
    inbox,      \* each subscription's event on its way
    at,         \* each subscription's handler: idle, closing, opening, tracking
    event,      \* the event it handles
    opened,     \* the row it has made and not stored: <<tunnel, row>>
    gui,        \* down, run, quitting, flushed
    tracked,    \* activeSessions: a tunnel's open row
    pending,    \* pendingSessions
    hint,       \* the tunnels that lastKnownStats has the reason "user" for
    asked,      \* the tunnels a Disconnect of the user is under way for
    seen,       \* lastReconcileSig
    rows,       \* the store's cache: row |-> [tunnel, open, reason]
    disk,       \* history.json
    dirty,
    armed,      \* the flush timer
    made,       \* rows made so far
    \* History.
    cleared,    \* rows the user has cleared
    failed,     \* a write or the removal of the file has failed
    overlap     \* two handlers, or a handler and the quit, ran side by side

vars == <<events, state, live, inbox, at, event, opened, gui, tracked, pending, hint,
          asked, seen, rows, disk, dirty, armed, made, cleared, failed, overlap>>

helper == <<events, state>>
streams == <<live, inbox, at, event, opened>>
maps == <<tracked, pending, hint, asked, seen>>
store == <<rows, disk, dirty, armed, made>>
history == <<cleared, failed, overlap>>

Subs == {1, 2}
Row == [tunnel : Tunnels, open : BOOLEAN, reason : {None, "user", "reconnect", "app_quit"}]
Event == [Tunnels -> {"off", "shaking", "up"}]
Active(e) == {t \in Tunnels : e[t] # "off"}

TypeOK ==
    /\ events \in 0 .. MaxEvents /\ state \in Event
    /\ live \in Subs \cup {None}
    /\ inbox \in [Subs -> Event \cup {None}] /\ event \in [Subs -> Event \cup {None}]
    /\ at \in [Subs -> {"idle", "closing", "opening", "tracking"}]
    /\ opened \in [Subs -> (Tunnels \X (1 .. MaxRows)) \cup {None}]
    /\ gui \in {"down", "run", "quitting", "flushed"}
    /\ tracked \in [Tunnels -> 1 .. MaxRows \cup {None}]
    /\ pending \subseteq Tunnels /\ hint \subseteq Tunnels /\ asked \subseteq Tunnels
    /\ seen \in Event \cup {None}
    /\ DOMAIN rows \subseteq 1 .. MaxRows /\ \A i \in DOMAIN rows : rows[i] \in Row
    /\ DOMAIN disk \subseteq 1 .. MaxRows /\ \A i \in DOMAIN disk : disk[i] \in Row
    /\ dirty \in BOOLEAN /\ armed \in BOOLEAN /\ made \in 0 .. MaxRows
    /\ cleared \subseteq 1 .. MaxRows /\ failed \in BOOLEAN /\ overlap \in BOOLEAN

Empty == [i \in {} |-> None]

Init ==
    /\ events = 0 /\ state = [t \in Tunnels |-> "off"]
    /\ live = None /\ inbox = [r \in Subs |-> None] /\ at = [r \in Subs |-> "idle"]
    /\ event = [r \in Subs |-> None] /\ opened = [r \in Subs |-> None]
    /\ gui = "down" /\ tracked = [t \in Tunnels |-> None]
    /\ pending = {} /\ hint = {} /\ asked = {} /\ seen = None
    /\ rows = Empty /\ disk = Empty /\ dirty = FALSE /\ armed = FALSE /\ made = 0
    /\ cleared = {} /\ failed = FALSE /\ overlap = FALSE

Count == events < MaxEvents /\ events' = events + 1

-----------------------------------------------------------------------------
(* The store. *)

\* commitLocked, scheduleFlushLocked.
Commit(f) == rows' = f /\ dirty' = TRUE /\ armed' = TRUE

WithRow(i, row) == [j \in DOMAIN rows \cup {i} |-> IF j = i THEN row ELSE rows[j]]

RecordConnect(t) ==
    /\ made < MaxRows /\ made' = made + 1
    /\ Commit(WithRow(made + 1, [tunnel |-> t, open |-> TRUE, reason |-> None]))
    /\ UNCHANGED disk

Ended(i, reason) == [rows EXCEPT ![i].open = FALSE, ![i].reason = reason]
Remove(S) == Restrict(rows, DOMAIN rows \ S)

\* An unknown or a closed row is left alone; one without a second or a byte is
\* dropped.
RecordDisconnect(i, reason) ==
    /\ IF i \in DOMAIN rows /\ rows[i].open
       THEN Commit(Ended(i, reason)) \/ Commit(Remove({i}))
       ELSE UNCHANGED <<rows, dirty, armed>>
    /\ UNCHANGED <<disk, made>>

Open == {i \in DOMAIN rows : rows[i].open}

CloseOpenSessions(f, short, reason) ==
    [i \in DOMAIN f \ short |->
        IF f[i].open THEN [f[i] EXCEPT !.open = FALSE, !.reason = reason] ELSE f[i]]

\* The timer's function; a write that fails stays due, with no timer.
FlushTimer ==
    /\ armed /\ gui # "down" /\ armed' = FALSE
    /\ \/ disk' = (IF dirty THEN rows ELSE disk)
          /\ dirty' = FALSE /\ UNCHANGED failed
       \/ dirty /\ failed' = TRUE /\ UNCHANGED <<disk, dirty>>
    /\ UNCHANGED <<helper, streams, gui, maps, rows, made, cleared, overlap>>

Clear(gone) ==
    /\ rows' = Empty /\ dirty' = FALSE /\ armed' = FALSE
    /\ IF gone THEN disk' = Empty /\ UNCHANGED failed ELSE failed' = TRUE /\ UNCHANGED disk

ClearConnectionHistory ==
    /\ gui = "run" /\ Count
    /\ \E gone \in BOOLEAN : Clear(gone)
    /\ cleared' = cleared \cup DOMAIN rows
    /\ UNCHANGED <<state, streams, gui, maps, made, overlap>>

\* TrimByAge, before the list is shown.
Prune ==
    /\ gui = "run"
    /\ \E S \in SUBSET (DOMAIN rows \ Open) : S # {} /\ Commit(Remove(S))
    /\ UNCHANGED <<helper, streams, gui, maps, disk, made, history>>

-----------------------------------------------------------------------------
(* The helper. *)

Becomes(t, from, to) ==
    /\ Count /\ state[t] \in from /\ state' = [state EXCEPT ![t] = to]

Connect(t) ==
    Becomes(t, {"off"}, "shaking") /\ UNCHANGED <<streams, gui, maps, store, history>>
Handshake(t) ==
    Becomes(t, {"shaking"}, "up") /\ UNCHANGED <<streams, gui, maps, store, history>>
\* A reconnect, the engine, ctl, a device that lost its session.
Drop(t) ==
    Becomes(t, {"shaking", "up"}, "off") /\ UNCHANGED <<streams, gui, maps, store, history>>

Broadcast ==
    /\ live # None /\ inbox[live] = None
    /\ inbox' = [inbox EXCEPT ![live] = state]
    /\ UNCHANGED <<helper, live, at, event, opened, gui, maps, store, history>>

-----------------------------------------------------------------------------
(* The user's disconnect: the reason first, then the call; it goes again when
   the call fails. *)

Mark(t) ==
    /\ gui = "run" /\ Count /\ t \notin asked
    /\ asked' = asked \cup {t} /\ hint' = hint \cup {t}
    /\ UNCHANGED <<state, streams, gui, tracked, pending, seen, store, history>>

Disconnected(t) ==
    /\ t \in asked /\ asked' = asked \ {t}
    /\ state' = [state EXCEPT ![t] = "off"]
    /\ UNCHANGED <<events, streams, gui, tracked, pending, hint, seen, store, history>>

CallFailed(t) ==
    /\ t \in asked /\ asked' = asked \ {t} /\ hint' = hint \ {t}
    /\ UNCHANGED <<helper, streams, gui, tracked, pending, seen, store, history>>

-----------------------------------------------------------------------------
(* ReconcileHistoryFromStatus. *)

Others(r) == \E q \in Subs \ {r} : at[q] # "idle"

(* Mutant: the handshakes are not part of the signature. *)
Unchanged_Mut(e) == seen # None /\ Active(seen) = Active(e)

Unchanged(e) == seen = e

Handle(r) ==
    /\ inbox[r] # None /\ at[r] = "idle" /\ gui # "down"
    /\ inbox' = [inbox EXCEPT ![r] = None]
    /\ event' = [event EXCEPT ![r] = inbox[r]]
    /\ at' = [at EXCEPT ![r] = IF Unchanged(inbox[r]) THEN "idle" ELSE "closing"]
    /\ seen' = inbox[r]
    /\ overlap' = (overlap \/ Others(r) \/ gui # "run")
    /\ UNCHANGED <<helper, live, opened, gui, tracked, pending, hint, asked, store,
                   cleared, failed>>

Vanished(r) == {t \in Tunnels : tracked[t] # None /\ t \notin Active(event[r])}

\* LoadAndDelete of the reason, the row, the map.
CloseSession(r, t) ==
    /\ at[r] = "closing" /\ t \in Vanished(r)
    /\ RecordDisconnect(tracked[t], IF t \in hint THEN "user" ELSE "reconnect")
    /\ tracked' = [tracked EXCEPT ![t] = None] /\ hint' = hint \ {t}
    /\ UNCHANGED <<helper, streams, gui, pending, asked, seen, history>>

DropPending(r) ==
    /\ at[r] = "closing" /\ Vanished(r) = {}
    /\ pending' = pending \cap Active(event[r])
    /\ at' = [at EXCEPT ![r] = "opening"]
    /\ UNCHANGED <<helper, live, inbox, event, opened, gui, tracked, hint, asked, seen,
                   store, history>>

Untracked(r) == {t \in Active(event[r]) : tracked[t] = None}

OpenSession(r, t) ==
    /\ at[r] = "opening" /\ t \in Untracked(r) /\ event[r][t] = "up"
    /\ RecordConnect(t)
    /\ opened' = [opened EXCEPT ![r] = <<t, made + 1>>]
    /\ at' = [at EXCEPT ![r] = "tracking"]
    /\ UNCHANGED <<helper, live, inbox, event, gui, maps, history>>

Track(r) ==
    /\ at[r] = "tracking"
    /\ tracked' = [tracked EXCEPT ![opened[r][1]] = opened[r][2]]
    /\ pending' = pending \ {opened[r][1]}
    /\ opened' = [opened EXCEPT ![r] = None]
    /\ at' = [at EXCEPT ![r] = "opening"]
    /\ UNCHANGED <<helper, live, inbox, event, gui, hint, asked, seen, store, history>>

\* The attempts that have not shaken hands wait.
EndHandle(r) ==
    /\ at[r] = "opening" /\ \A t \in Untracked(r) : event[r][t] = "shaking"
    /\ pending' = pending \cup Untracked(r)
    /\ at' = [at EXCEPT ![r] = "idle"] /\ event' = [event EXCEPT ![r] = None]
    /\ UNCHANGED <<helper, live, inbox, opened, gui, tracked, hint, asked, seen, store, history>>

-----------------------------------------------------------------------------
(* The GUI's life. *)

\* NewHistoryStore, CloseOpenSessions, the bridge.
Start ==
    /\ gui = "down" /\ Count /\ gui' = "run"
    /\ LET open == {i \in DOMAIN disk : disk[i].open} IN
       \E short \in SUBSET open :
          /\ rows' = CloseOpenSessions(disk, short, "app_quit")
          /\ dirty' = (open # {}) /\ armed' = (open # {})
    /\ live' \in Subs
    /\ UNCHANGED <<state, inbox, at, event, opened, maps, disk, made, history>>

\* The health monitor has swapped the client: the new one's events come by a
\* new subscription, the old one's handler finishes.
Resubscribe ==
    /\ gui = "run" /\ Count
    /\ \E r \in Subs \ {live} :
          at[r] = "idle" /\ live' = r /\ inbox' = [inbox EXCEPT ![live] = None]
    /\ UNCHANGED <<state, at, event, opened, gui, maps, store, history>>

\* CloseHistorySessions, session by session.
Quit ==
    /\ gui = "run" /\ Count /\ gui' = "quitting"
    /\ overlap' = (overlap \/ \E r \in Subs : at[r] # "idle")
    /\ UNCHANGED <<state, streams, maps, store, cleared, failed>>

CloseAtQuit(t) ==
    /\ gui = "quitting" /\ tracked[t] # None
    /\ RecordDisconnect(tracked[t], "app_quit")
    /\ tracked' = [tracked EXCEPT ![t] = None] /\ hint' = hint \ {t}
    /\ UNCHANGED <<helper, streams, gui, pending, asked, seen, history>>

\* The rest of the open rows, and Flush.
FlushAtQuit ==
    /\ gui = "quitting" /\ \A t \in Tunnels : tracked[t] = None
    /\ LET due == dirty \/ Open # {} IN
       \E short \in SUBSET Open :
          /\ rows' = CloseOpenSessions(rows, short, "app_quit")
          /\ armed' = FALSE
          /\ \/ disk' = (IF due THEN rows' ELSE disk)
                /\ dirty' = FALSE /\ UNCHANGED failed
             \/ due /\ failed' = TRUE /\ dirty' = TRUE /\ UNCHANGED disk
    /\ gui' = "flushed"
    /\ UNCHANGED <<helper, streams, maps, made, cleared, overlap>>

\* The process ends, after the quit or in a crash: a write under way is whole
\* or not at all.
Exit ==
    /\ gui # "down" /\ Count /\ gui' = "down"
    /\ failed' = (failed \/ (gui # "flushed" /\ dirty))
    /\ live' = None /\ inbox' = [r \in Subs |-> None] /\ at' = [r \in Subs |-> "idle"]
    /\ event' = [r \in Subs |-> None] /\ opened' = [r \in Subs |-> None]
    /\ tracked' = [t \in Tunnels |-> None] /\ pending' = {} /\ hint' = {} /\ asked' = {}
    /\ seen' = None
    /\ rows' = Empty /\ dirty' = FALSE /\ armed' = FALSE
    /\ overlap' = FALSE
    /\ UNCHANGED <<state, disk, made, cleared>>

Next ==
    \/ FlushTimer \/ ClearConnectionHistory \/ Prune \/ Broadcast
    \/ Start \/ Resubscribe \/ Quit \/ FlushAtQuit \/ Exit
    \/ \E t \in Tunnels :
          \/ Connect(t) \/ Handshake(t) \/ Drop(t)
          \/ Mark(t) \/ Disconnected(t) \/ CallFailed(t) \/ CloseAtQuit(t)
          \/ \E r \in Subs : CloseSession(r, t) \/ OpenSession(r, t)
    \/ \E r \in Subs : Handle(r) \/ DropPending(r) \/ Track(r) \/ EndHandle(r)

Spec == Init /\ [][Next]_vars

-----------------------------------------------------------------------------
(* Properties. *)

\* Once an event is handled, the tunnels that had shaken hands in it have their
\* session, and only tunnels that were in it have one; every open row is some
\* tunnel's session, so that none stays "active" for ever (tunnel_ops.go:828-858).
\* Excepted are two subscriptions' handlers side by side, which both find a
\* tunnel untracked and both open a row for it.
SessionsFollow ==
    (gui = "run" /\ ~overlap /\ \A r \in Subs : at[r] = "idle") =>
       /\ \A t \in Tunnels :
             /\ seen # None /\ seen[t] = "up" => tracked[t] # None
             /\ tracked[t] # None => seen # None /\ t \in Active(seen)
       /\ Open = {tracked[t] : t \in Tunnels} \ (cleared \cup {None})

\* What the user has cleared stays away, and everything else reaches the disk:
\* a change that is not on disk has a timer, and a quit leaves no row open
\* there, unless a write or the removal of the file fails, the process dies
\* within the 100 ms, or an event is handled beside the quit.
HistoryKept ==
    failed \/
       /\ cleared \cap (DOMAIN rows \cup DOMAIN disk) = {}
       /\ gui # "down" => (dirty => armed) /\ (dirty \/ disk = rows)
       /\ gui = "flushed" /\ ~overlap => \A i \in DOMAIN disk : ~disk[i].open

=============================================================================
