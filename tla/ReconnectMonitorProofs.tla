----------------------- MODULE ReconnectMonitorProofs -----------------------
(***************************************************************************)
(* m.retries is exact, for any number of tunnels and of retry goroutines.  *)
(*                                                                         *)
(* SlotsExact alone is not inductive: CancelOld cancels retries it took    *)
(* out of the map earlier, which must not have come back into it, and a    *)
(* new retry must start with a context nobody has cancelled.               *)
(*                                                                         *)
(* And what a reconnect may do to a tunnel with several endpoints: two     *)
(* switches are a cooldown apart, and an improvement was there before      *)
(* (SwitchesAreApart).  That needs what each stamp, proposal and blessing  *)
(* says of the switches and proposals so far (ChurnInv).                   *)
(***************************************************************************)
EXTENDS ReconnectMonitor, MCEndpointSwitch, TLAPS, WellFoundedInduction

(* A retry that is about to be cancelled is in no slot any more. *)
OldsOutOfSlots ==
    running => \A q \in Retries : \A o \in olds[q] : \A k \in Keys : slot[k] # o

IdleNotCancelled == \A r \in Retries : ~Live(r) => ~cancelled[r]

SlotInv == SlotsExact /\ OldsOutOfSlots /\ IdleNotCancelled

Inv == TypeOK /\ SlotInv

-----------------------------------------------------------------------------
(* Types *)

(* There is a first connected tunnel by name, so Status finds one. *)
LEMMA PrimaryType ==
    ASSUME TypeOK, up # {}
    PROVE  Primary \in Tunnels
<1> DEFINE ranks == {NameOrder[t] : t \in up}
<1>1. ranks \subseteq Nat /\ ranks # {}
  BY MonitorAssumption DEF TypeOK
<1>2. \E x \in ranks : \A y \in ranks : ~ (<<y, x>> \in OpToRel(<, Nat))
  BY <1>1, NatLessThanWellFounded, WFMin, Zenon
<1>3. \A x, y \in Nat : y < x => <<y, x>> \in OpToRel(<, Nat)
  BY Zenon DEF OpToRel
<1>4. \A x, y \in Nat : ~(y < x) => x <= y
  OBVIOUS
<1>5. \E x \in ranks : \A y \in ranks : x <= y
  BY <1>1, <1>2, <1>3, <1>4, Zenon
<1>6. \E t \in up : \A u \in up : NameOrder[t] <= NameOrder[u]
  BY <1>5
<1> QED
  BY <1>6 DEF Primary, TypeOK

(* ResumeFirewall gives the rules to a tunnel that exists. *)
LEMMA ResumeType ==
    ASSUME TypeOK, ResumeFirewall
    PROVE  /\ saved' \in BOOLEAN
           /\ rules' \in Tunnels \cup {Nobody, Gone}
           /\ owner' \in Tunnels \cup {Nobody}
BY PrimaryType DEF ResumeFirewall, TypeOK

(* What a retry that ends leaves behind has its type. *)
LEMMA EndType ==
    ASSUME TypeOK, NEW r \in Retries, End(r)
    PROVE  /\ pc' \in [Retries -> {"idle", "starting", "sleeping"}
                                    \cup AttemptPCs]
           /\ key' \in [Retries -> Keys]
           /\ cancelled' \in [Retries -> BOOLEAN]
           /\ olds' \in [Retries -> SUBSET Retries]
           /\ tornDown' \in [Retries -> BOOLEAN]
           /\ todo' \in [Retries -> SUBSET Tunnels]
           /\ failed' \in [Retries -> BOOLEAN]
BY DEF End, Goto, TypeOK, Keys

(* A retry that backs off, or ends because the monitor has stopped, has its type. *)
LEMMA BackOffType ==
    ASSUME TypeOK, NEW r \in Retries, NEW torn \in BOOLEAN, BackOff(r, torn)
    PROVE  /\ pc' \in [Retries -> {"idle", "starting", "sleeping"}
                                    \cup AttemptPCs]
           /\ key' \in [Retries -> Keys]
           /\ cancelled' \in [Retries -> BOOLEAN]
           /\ olds' \in [Retries -> SUBSET Retries]
           /\ tornDown' \in [Retries -> BOOLEAN]
           /\ todo' \in [Retries -> SUBSET Tunnels]
           /\ failed' \in [Retries -> BOOLEAN]
BY EndType DEF BackOff, Goto, TypeOK

(* Cancelling contexts keeps their type. *)
LEMMA CancelType ==
    ASSUME TypeOK, NEW S, Cancel(S)
    PROVE  cancelled' \in [Retries -> BOOLEAN]
BY DEF Cancel, TypeOK, Live

(* Emptying slots and cancelling what was in them keeps the types. *)
LEMMA CancelRetriesType ==
    ASSUME TypeOK, NEW keys, CancelRetries(keys)
    PROVE  /\ cancelled' \in [Retries -> BOOLEAN]
           /\ slot' \in [Keys -> Retries \cup {NoRetry}]
BY CancelType DEF CancelRetries, TypeOK

(* A retry that clears its slot leaves a slot. *)
LEMMA ClearSlotType ==
    ASSUME TypeOK, NEW r \in Retries, ClearSlot(r)
    PROVE  slot' \in [Keys -> Retries \cup {NoRetry}]
BY DEF ClearSlot, TypeOK

(* Removing the rules of a tunnel that went down keeps their types. *)
LEMMA ClearIfOwnerType ==
    ASSUME TypeOK, NEW down, ClearIfOwner(down)
    PROVE  /\ saved' \in BOOLEAN
           /\ rules' \in Tunnels \cup {Nobody, Gone}
           /\ owner' \in Tunnels \cup {Nobody}
BY DEF ClearIfOwner, RulesWithout, TypeOK

(* A step of one retry keeps the types. *)
LEMMA RetryStepType ==
    ASSUME TypeOK, NEW r \in Retries, RetryStep(r)
    PROVE  TypeOK'
<1> USE DEF tunnelVars, slotVars, locals, firewall
<1>1. CASE CancelOld(r)
  BY <1>1, CancelType DEF CancelOld, TypeOK
<1>2. CASE AbandonStart(r)
  BY <1>2, EndType DEF AbandonStart, TypeOK
<1>3. CASE Spawn(r)
  BY <1>3, BackOffType DEF Spawn, TypeOK
<1>4. CASE Interrupted(r)
  BY <1>4, EndType DEF Interrupted, TypeOK
<1>5. CASE TimerFires(r)
  BY <1>5 DEF TimerFires, SuspendFirewall, Goto, AttemptPCs, TypeOK
<1>6. CASE CheckUp(r)
  BY <1>6, EndType, ClearSlotType DEF CheckUp, Goto, AttemptPCs, TypeOK
<1>7. CASE TearDown(r)
  BY <1>7 DEF TearDown, RulesWithout, Goto, AttemptPCs, TypeOK
<1>8. CASE TearDownFails(r)
  BY <1>8 DEF TearDownFails, Goto, AttemptPCs, TypeOK
<1>9. CASE AttemptFails(r)
  <2>1. tornDown[r] \in BOOLEAN
    BY DEF TypeOK
  <2> QED
    BY <1>9, <2>1, ResumeType, BackOffType DEF AttemptFails, TypeOK
<1>10. CASE CancelledTorn(r)
  BY <1>10, ResumeType, EndType DEF CancelledTorn, TypeOK
<1>11. CASE CallReconnect(r)
  BY <1>11 DEF CallReconnect, Goto, AttemptPCs, TypeOK
<1>12. CASE Blocked(r)
  BY <1>12, EndType, ClearSlotType DEF Blocked, TypeOK
<1>13. CASE ConnectOne(r)
  <2>1. PICK t \in todo[r] :
            /\ todo' = [todo EXCEPT ![r] = @ \ {t}]
            /\ \/ /\ up' = up \cup {t}
                  /\ UNCHANGED <<failed, slotVars>>
               \/ /\ failed' = [failed EXCEPT ![r] = TRUE]
                  /\ UNCHANGED <<up, slotVars>>
               \/ /\ failed' = [failed EXCEPT ![r] = TRUE]
                  /\ CancelRetries({t})
                  /\ UNCHANGED up
    BY <1>13 DEF ConnectOne
  <2>2. t \in Tunnels /\ todo' \in [Retries -> SUBSET Tunnels]
    BY <2>1 DEF TypeOK
  <2>3. /\ up' \in SUBSET Tunnels
        /\ failed' \in [Retries -> BOOLEAN]
        /\ slot' \in [Keys -> Retries \cup {NoRetry}]
        /\ cancelled' \in [Retries -> BOOLEAN]
    BY <2>1, <2>2, CancelRetriesType DEF TypeOK
  <2> QED
    BY <1>13, <2>2, <2>3 DEF ConnectOne, TypeOK
<1>14. CASE ReconnectFails(r)
  BY <1>14 DEF ReconnectFails, Goto, AttemptPCs, TypeOK
<1>15. CASE ReconnectSucceeds(r)
  BY <1>15, ResumeType, EndType, ClearSlotType DEF ReconnectSucceeds, TypeOK
<1> QED
  BY <1>1, <1>2, <1>3, <1>4, <1>5, <1>6, <1>7, <1>8, <1>9, <1>10, <1>11,
     <1>12, <1>13, <1>14, <1>15 DEF RetryStep

(* Every action of the monitor and its surroundings keeps the types. *)
LEMMA TypeNext == TypeOK /\ [Next]_vars => TypeOK'
<1> SUFFICES ASSUME TypeOK, [Next]_vars
             PROVE  TypeOK'
  OBVIOUS
<1> USE DEF tunnelVars, slotVars, locals, firewall
<1>1. CASE UNCHANGED vars
  BY <1>1 DEF vars, TypeOK
<1>2. ASSUME NEW k \in Keys, Detect(k)
      PROVE  TypeOK'
  BY <1>2 DEF Detect, TypeOK
<1>3. ASSUME NEW k \in Keys, Trigger(k)
      PROVE  TypeOK'
  <2>1. PICK r \in Retries :
            /\ Goto(r, "starting")
            /\ key' = [key EXCEPT ![r] = k]
            /\ olds' = [olds EXCEPT ![r] =
                           Held(IF k = All THEN Keys ELSE {k})]
            /\ slot' = [x \in Keys |->
                           IF x = k THEN r
                           ELSE IF x \in (IF k = All THEN Keys ELSE {k})
                                THEN NoRetry
                           ELSE slot[x]]
    BY <1>3 DEF Trigger
  <2>2. Held(IF k = All THEN Keys ELSE {k}) \in SUBSET Retries
    BY <1>3 DEF Held, TypeOK
  <2>3. slot' \in [Keys -> Retries \cup {NoRetry}]
    BY <2>1 DEF TypeOK
  <2>4. olds' \in [Retries -> SUBSET Retries]
    BY <2>1, <2>2 DEF TypeOK
  <2> QED
    BY <1>3, <2>1, <2>3, <2>4 DEF Trigger, Goto, TypeOK
<1>4. ASSUME NEW r \in Retries, RetryStep(r)
      PROVE  TypeOK'
  BY <1>4, RetryStepType
<1>5. ASSUME NEW t \in Tunnels, HandleConnect(t)
      PROVE  TypeOK'
  BY <1>5 DEF HandleConnect, TypeOK
<1>6. ASSUME NEW t \in Tunnels, HandleDisconnect(t)
      PROVE  TypeOK'
  BY <1>6, CancelRetriesType, ClearIfOwnerType DEF HandleDisconnect, TypeOK
<1>7. ASSUME NEW t \in Tunnels, AutoDisconnect(t)
      PROVE  TypeOK'
  BY <1>7, CancelRetriesType, ClearIfOwnerType DEF AutoDisconnect, TypeOK
<1>8. CASE HandleDisconnectAll
  BY <1>8, CancelRetriesType, ClearIfOwnerType DEF HandleDisconnectAll, TypeOK
<1>9. CASE MasterSwitchOff
  BY <1>9 DEF MasterSwitchOff, TypeOK
<1>10. CASE Stop
  BY <1>10, CancelType DEF Stop, TypeOK
<1> QED
  BY <1>1, <1>2, <1>3, <1>4, <1>5, <1>6, <1>7, <1>8, <1>9, <1>10
     DEF Next, HelperOperation

-----------------------------------------------------------------------------
(* Slots: one lemma for each way a step touches them *)

(* The step moves retries along without starting or ending one, and without
   a starting one forgetting whom it has to cancel. *)
LEMMA SlotsKept ==
    ASSUME Inv,
           UNCHANGED <<slot, cancelled, key, olds, running>>,
           \A r \in Retries : /\ pc'[r] = "idle" <=> pc[r] = "idle"
                              /\ pc[r] = "starting" =>
                                    pc'[r] = "starting" \/ olds[r] = {}
    PROVE  SlotInv'
BY DEF Inv, TypeOK, SlotInv, SlotsExact, OldsOutOfSlots, IdleNotCancelled, Live

(* The same, for a step of one retry that is not starting. *)
LEMMA MoveSlots ==
    ASSUME Inv, NEW r \in Retries, NEW l,
           UNCHANGED <<slot, cancelled, key, olds, running>>,
           Goto(r, l), l # "idle", pc[r] # "idle",
           pc[r] # "starting" \/ olds[r] = {}
    PROVE  SlotInv'
BY SlotsKept DEF Goto, Inv, TypeOK

(* CancelRetry and CancelRetryFor. *)
LEMMA CancelRetriesSlots ==
    ASSUME Inv, NEW keys \in SUBSET Keys,
           CancelRetries(keys),
           UNCHANGED <<pc, key, olds, running>>
    PROVE  SlotInv'
<1>1. \A r \in Retries :
         cancelled'[r] <=> cancelled[r] \/ (Live(r) /\ r \in Held(keys))
  BY DEF CancelRetries, Cancel, Inv, TypeOK
<1>2. \A k \in Keys : slot'[k] = IF k \in keys THEN NoRetry ELSE slot[k]
  BY DEF CancelRetries
<1>3. \A k \in Keys : slot'[k] # NoRetry => slot'[k] \in Retries
  BY <1>2 DEF Inv, TypeOK
<1>4. \A k \in Keys :
         running /\ slot'[k] # NoRetry =>
            /\ Live(slot[k]) /\ key[slot[k]] = k
            /\ slot'[k] = slot[k] /\ slot[k] \notin Held(keys)
            /\ ~cancelled[slot[k]]
  BY <1>2 DEF Inv, TypeOK, SlotInv, SlotsExact, Held
<1>5. SlotsExact'
  <2>1. \A k \in Keys : running /\ slot'[k] # NoRetry =>
           /\ pc[slot'[k]] # "idle" /\ key[slot'[k]] = k
           /\ ~cancelled'[slot'[k]]
    <3> SUFFICES ASSUME NEW k \in Keys, running, slot'[k] # NoRetry
                 PROVE  /\ pc[slot'[k]] # "idle" /\ key[slot'[k]] = k
                        /\ ~cancelled'[slot'[k]]
      OBVIOUS
    <3>1. slot'[k] = slot[k] /\ slot'[k] \in Retries
      BY <1>3, <1>4
    <3>2. pc[slot[k]] # "idle" /\ key[slot[k]] = k
      BY <1>4 DEF Live
    <3>3. ~cancelled'[slot'[k]]
      BY <1>1, <1>4, <3>1, Zenon
    <3> QED
      BY <3>1, <3>2, <3>3
  <2>2. \A r \in Retries : running /\ Live(r)' /\ ~cancelled'[r] =>
           \/ slot'[key'[r]] = r
           \/ \E q \in Retries : pc'[q] = "starting" /\ r \in olds'[q]
    BY <1>1, <1>2 DEF Inv, TypeOK, SlotInv, SlotsExact, Live, Held
  <2> QED
    BY <2>1, <2>2 DEF SlotsExact, Live
<1>6. OldsOutOfSlots'
  BY <1>2, MonitorAssumption DEF Inv, TypeOK, SlotInv, OldsOutOfSlots
<1>7. IdleNotCancelled'
  BY <1>1 DEF Inv, SlotInv, IdleNotCancelled, Live
<1> QED
  BY <1>5, <1>6, <1>7 DEF SlotInv

(* A cancelled retry ends, or the monitor has stopped: no slot holds it. *)
LEMMA EndSlots ==
    ASSUME Inv, NEW r \in Retries, End(r), cancelled[r] \/ ~running,
           pc[r] # "starting" \/ ~running,
           UNCHANGED <<slot, running>>
    PROVE  SlotInv'
<1>1. /\ pc' = [pc EXCEPT ![r] = "idle"]
      /\ key' = [key EXCEPT ![r] = All]
      /\ cancelled' = [cancelled EXCEPT ![r] = FALSE]
      /\ olds' = [olds EXCEPT ![r] = {}]
  BY DEF End, Goto
<1>2. running => \A k \in Keys : slot[k] # r
  <2>1. r # NoRetry
    BY MonitorAssumption
  <2> QED
    BY <2>1, Zenon DEF Inv, SlotInv, SlotsExact
<1>3. SlotsExact'
  BY <1>1, <1>2 DEF Inv, TypeOK, SlotInv, SlotsExact, Live
<1>4. OldsOutOfSlots'
  BY <1>1 DEF Inv, TypeOK, SlotInv, OldsOutOfSlots
<1>5. IdleNotCancelled'
  BY <1>1 DEF Inv, TypeOK, SlotInv, IdleNotCancelled, Live
<1> QED
  BY <1>3, <1>4, <1>5 DEF SlotInv

(* A retry ends of its own accord, and clears its slot. *)
LEMMA FinishSlots ==
    ASSUME Inv, NEW r \in Retries, ClearSlot(r), End(r), pc[r] # "starting",
           Live(r), UNCHANGED running
    PROVE  SlotInv'
<1>1. /\ pc' = [pc EXCEPT ![r] = "idle"]
      /\ key' = [key EXCEPT ![r] = All]
      /\ cancelled' = [cancelled EXCEPT ![r] = FALSE]
      /\ olds' = [olds EXCEPT ![r] = {}]
  BY DEF End, Goto
<1>2. \A k \in Keys :
         slot'[k] = IF k = key[r] /\ slot[k] = r THEN NoRetry ELSE slot[k]
  BY DEF ClearSlot, Inv, TypeOK
<1>3. running => \A k \in Keys : slot[k] = r => k = key[r]
  BY MonitorAssumption DEF Inv, TypeOK, SlotInv, SlotsExact
<1>4. running => \A k \in Keys : slot'[k] # r
  BY <1>2, <1>3, MonitorAssumption DEF Inv, TypeOK
<1>5. SlotsExact'
  <2>1. \A k \in Keys : running /\ slot'[k] # NoRetry =>
           /\ slot'[k] = slot[k] /\ slot[k] # r /\ slot[k] \in Retries
           /\ Live(slot[k]) /\ key[slot[k]] = k /\ ~cancelled[slot[k]]
    BY <1>2, <1>4 DEF Inv, TypeOK, SlotInv, SlotsExact
  <2>2. \A k \in Keys : running /\ slot'[k] # NoRetry =>
           /\ pc'[slot'[k]] # "idle" /\ key'[slot'[k]] = k
           /\ ~cancelled'[slot'[k]]
    BY <1>1, <2>1 DEF Inv, TypeOK, Live
  <2>3. \A q \in Retries :
           running /\ pc'[q] # "idle" /\ ~cancelled'[q] =>
              \/ slot'[key'[q]] = q
              \/ \E x \in Retries : pc'[x] = "starting" /\ q \in olds'[x]
    <3> SUFFICES ASSUME NEW q \in Retries, running, pc'[q] # "idle",
                        ~cancelled'[q]
                 PROVE  \/ slot'[key'[q]] = q
                        \/ \E x \in Retries :
                              pc'[x] = "starting" /\ q \in olds'[x]
      OBVIOUS
    <3>1. q # r /\ pc[q] # "idle" /\ ~cancelled[q] /\ key'[q] = key[q]
      BY <1>1 DEF Inv, TypeOK
    <3>2. CASE slot[key[q]] = q
      BY <1>2, <3>1, <3>2 DEF Inv, TypeOK
    <3>3. CASE \E x \in Retries : pc[x] = "starting" /\ q \in olds[x]
      BY <1>1, <3>3 DEF Inv, TypeOK
    <3> QED
      BY <3>1, <3>2, <3>3 DEF Inv, SlotInv, SlotsExact, Live
  <2> QED
    BY <2>2, <2>3 DEF SlotsExact, Live
<1>6. OldsOutOfSlots'
  BY <1>1, <1>2, MonitorAssumption DEF Inv, TypeOK, SlotInv, OldsOutOfSlots
<1>7. IdleNotCancelled'
  BY <1>1 DEF Inv, TypeOK, SlotInv, IdleNotCancelled, Live
<1> QED
  BY <1>5, <1>6, <1>7 DEF SlotInv

(* A new retry takes its slot, the ones it replaces leave theirs. *)
LEMMA TriggerSlots ==
    ASSUME Inv, NEW k \in Keys, Trigger(k)
    PROVE  SlotInv'
<1> DEFINE replaced == IF k = All THEN Keys ELSE {k}
<1>1. PICK r \in Retries :
          /\ Unused(r)
          /\ pc' = [pc EXCEPT ![r] = "starting"]
          /\ key' = [key EXCEPT ![r] = k]
          /\ olds' = [olds EXCEPT ![r] = Held(replaced)]
          /\ slot' = [x \in Keys |-> IF x = k THEN r
                                     ELSE IF x \in replaced THEN NoRetry
                                     ELSE slot[x]]
  BY DEF Trigger, Goto
<1>2. UNCHANGED <<running, cancelled>>
  BY DEF Trigger, tunnelVars
<1>3. /\ pc[r] = "idle" /\ ~cancelled[r]
      /\ \A x \in Keys : slot[x] # r
      /\ \A q \in Retries : r \notin olds[q]
  BY <1>1 DEF Unused, Live, Inv, SlotInv, IdleNotCancelled
<1>4. r # NoRetry /\ replaced \subseteq Keys /\ k \in replaced
  BY MonitorAssumption
<1> HIDE DEF replaced
<1>5. \A q \in Retries : q # r =>
         pc'[q] = pc[q] /\ key'[q] = key[q] /\ olds'[q] = olds[q]
  BY <1>1 DEF Inv, TypeOK
<1>6. /\ pc'[r] = "starting" /\ key'[r] = k /\ olds'[r] = Held(replaced)
      /\ slot'[k] = r
  BY <1>1 DEF Inv, TypeOK
<1>7. \A x \in Keys : slot'[x] \notin {r, NoRetry} =>
         x \notin replaced /\ slot'[x] = slot[x]
  BY <1>1, <1>4
<1>8. \A x \in Keys : slot'[x] = r => x = k
  BY <1>1, <1>3, <1>4
<1>9. SlotsExact'
  <2>1. \A x \in Keys : running /\ slot'[x] # NoRetry =>
           /\ pc'[slot'[x]] # "idle" /\ key'[slot'[x]] = x
           /\ ~cancelled[slot'[x]]
    <3> SUFFICES ASSUME NEW x \in Keys, running, slot'[x] # NoRetry
                 PROVE  /\ pc'[slot'[x]] # "idle" /\ key'[slot'[x]] = x
                        /\ ~cancelled[slot'[x]]
      OBVIOUS
    <3>1. CASE slot'[x] = r
      BY <1>3, <1>6, <1>8, <3>1
    <3>2. CASE slot'[x] # r
      <4>1. slot'[x] = slot[x] /\ slot[x] \in Retries
        BY <1>7, <3>2 DEF Inv, TypeOK
      <4>2. pc[slot[x]] # "idle" /\ key[slot[x]] = x /\ ~cancelled[slot[x]]
        BY <4>1, Zenon DEF Inv, SlotInv, SlotsExact, Live
      <4> QED
        BY <1>5, <3>2, <4>1, <4>2
    <3> QED
      BY <3>1, <3>2
  <2>2. \A q \in Retries :
           running /\ pc'[q] # "idle" /\ ~cancelled[q] =>
              \/ slot'[key'[q]] = q
              \/ \E x \in Retries : pc'[x] = "starting" /\ q \in olds'[x]
    <3> SUFFICES ASSUME NEW q \in Retries, running, pc'[q] # "idle",
                        ~cancelled[q], q # r
                 PROVE  \/ slot'[key'[q]] = q
                        \/ \E x \in Retries :
                              pc'[x] = "starting" /\ q \in olds'[x]
      BY <1>6
    <3>1. /\ pc[q] # "idle" /\ key'[q] = key[q] /\ key[q] \in Keys
          /\ q # NoRetry
      BY <1>5, MonitorAssumption DEF Inv, TypeOK
    <3>2. CASE slot[key[q]] = q /\ key[q] \in replaced
      <4>1. q \in Held(replaced)
        BY <3>1, <3>2 DEF Held
      <4> QED
        BY <1>6, <4>1
    <3>3. CASE slot[key[q]] = q /\ key[q] \notin replaced
      BY <1>1, <1>4, <3>1, <3>3
    <3>4. CASE \E x \in Retries : pc[x] = "starting" /\ q \in olds[x]
      BY <1>3, <1>5, <3>4
    <3> QED
      BY <3>1, <3>2, <3>3, <3>4 DEF Inv, SlotInv, SlotsExact, Live
  <2> QED
    BY <1>2, <2>1, <2>2 DEF SlotsExact, Live
<1>10. OldsOutOfSlots'
  <2> SUFFICES ASSUME running, NEW q \in Retries, NEW o \in olds'[q],
                      NEW x \in Keys, slot'[x] = o
               PROVE  FALSE
    BY <1>2 DEF OldsOutOfSlots
  <2>1. CASE q = r
    <3>1. PICK y \in replaced : o = slot[y] /\ o # NoRetry
      BY <1>6, <2>1 DEF Held
    <3>2. o # r /\ x \notin replaced /\ slot[x] = o
      BY <1>3, <1>4, <1>7, <3>1
    <3>3. key[o] = x /\ key[o] = y
      BY <1>4, <3>1, <3>2, <1>2 DEF Inv, SlotInv, SlotsExact
    <3> QED
      BY <3>2, <3>3
  <2>2. CASE q # r
    <3>1. o \in olds[q] /\ o \in Retries
      BY <1>5, <2>2 DEF Inv, TypeOK
    <3>2. o # r /\ o # NoRetry
      BY <1>3, <3>1, MonitorAssumption
    <3>3. slot[x] = o
      BY <1>7, <3>2
    <3> QED
      BY <1>2, <3>1, <3>3 DEF Inv, SlotInv, OldsOutOfSlots
  <2> QED
    BY <2>1, <2>2
<1>11. IdleNotCancelled'
  BY <1>2, <1>5, <1>6 DEF Inv, SlotInv, IdleNotCancelled, Live
<1> QED
  BY <1>9, <1>10, <1>11 DEF SlotInv

(* The old retry is cancelled only once it is out of the map. *)
LEMMA CancelOldSlots ==
    ASSUME Inv, NEW r \in Retries, CancelOld(r)
    PROVE  SlotInv'
<1>1. PICK o \in olds[r] : /\ Cancel({o})
                           /\ olds' = [olds EXCEPT ![r] = @ \ {o}]
  BY DEF CancelOld
<1>2. UNCHANGED <<running, slot, pc, key>>
  BY DEF CancelOld
<1>3. \A q \in Retries :
         cancelled'[q] <=> cancelled[q] \/ (Live(q) /\ q = o)
  BY <1>1 DEF Cancel, Inv, TypeOK
<1>4. \A q \in Retries : olds'[q] = IF q = r THEN olds[q] \ {o} ELSE olds[q]
  BY <1>1 DEF Inv, TypeOK
<1>5. running => \A k \in Keys : slot[k] # o
  BY <1>1 DEF Inv, SlotInv, OldsOutOfSlots
<1>6. SlotsExact'
  <2>1. \A k \in Keys : running /\ slot[k] # NoRetry =>
           pc[slot[k]] # "idle" /\ key[slot[k]] = k /\ ~cancelled'[slot[k]]
    <3> SUFFICES ASSUME NEW k \in Keys, running, slot[k] # NoRetry
                 PROVE  /\ pc[slot[k]] # "idle" /\ key[slot[k]] = k
                        /\ ~cancelled'[slot[k]]
      OBVIOUS
    <3>1. slot[k] \in Retries /\ slot[k] # o
      BY <1>5 DEF Inv, TypeOK
    <3>2. /\ pc[slot[k]] # "idle" /\ key[slot[k]] = k
          /\ ~cancelled[slot[k]]
      BY Zenon DEF Inv, SlotInv, SlotsExact, Live
    <3> QED
      BY <1>3, <3>1, <3>2, Zenon
  <2>2. \A q \in Retries : running /\ pc[q] # "idle" /\ ~cancelled'[q] =>
           \/ slot[key[q]] = q
           \/ \E x \in Retries : pc[x] = "starting" /\ q \in olds'[x]
    <3> SUFFICES ASSUME NEW q \in Retries, running, pc[q] # "idle",
                        ~cancelled'[q]
                 PROVE  \/ slot[key[q]] = q
                        \/ \E x \in Retries :
                              pc[x] = "starting" /\ q \in olds'[x]
      OBVIOUS
    <3>1. ~cancelled[q] /\ q # o
      BY <1>3, Zenon DEF Live
    <3> QED
      BY <1>4, <3>1 DEF Inv, SlotInv, SlotsExact, Live
  <2> QED
    BY <1>2, <2>1, <2>2 DEF SlotsExact, Live
<1>7. OldsOutOfSlots'
  BY <1>2, <1>4 DEF Inv, SlotInv, OldsOutOfSlots
<1>8. IdleNotCancelled'
  BY <1>2, <1>3, Zenon DEF Inv, SlotInv, IdleNotCancelled, Live
<1> QED
  BY <1>6, <1>7, <1>8 DEF SlotInv

-----------------------------------------------------------------------------
(* Every step keeps the slots exact. *)
LEMMA RetryStepSlots ==
    ASSUME Inv, NEW r \in Retries, RetryStep(r)
    PROVE  SlotInv'
<1> USE DEF tunnelVars, slotVars, locals, firewall, Live
<1>1. CASE CancelOld(r)
  BY <1>1, CancelOldSlots
<1>2. CASE AbandonStart(r)
  BY <1>2, EndSlots DEF AbandonStart
<1>3. CASE Spawn(r)
  BY <1>3, EndSlots, MoveSlots DEF Spawn, BackOff
<1>4. CASE Interrupted(r)
  BY <1>4, EndSlots DEF Interrupted
<1>5. CASE TimerFires(r)
  BY <1>5, MoveSlots DEF TimerFires
<1>6. CASE CheckUp(r)
  BY <1>6, FinishSlots, MoveSlots DEF CheckUp
<1>7. CASE TearDown(r)
  BY <1>7, MoveSlots DEF TearDown
<1>8. CASE TearDownFails(r)
  BY <1>8, MoveSlots DEF TearDownFails
<1>9. CASE AttemptFails(r)
  BY <1>9, EndSlots, MoveSlots DEF AttemptFails, BackOff
<1>10. CASE CancelledTorn(r)
  BY <1>10, EndSlots DEF CancelledTorn
<1>11. CASE CallReconnect(r)
  BY <1>11, MoveSlots DEF CallReconnect
<1>12. CASE Blocked(r)
  BY <1>12, FinishSlots DEF Blocked
<1>13. CASE ConnectOne(r)
  <2>1. CASE UNCHANGED slotVars
    BY <1>13, <2>1, SlotsKept DEF ConnectOne
  <2>2. CASE \E t \in Tunnels : CancelRetries({t})
    BY <1>13, <2>2, CancelRetriesSlots DEF ConnectOne, Keys
  <2> QED
    BY <1>13, <2>1, <2>2 DEF ConnectOne, Inv, TypeOK
<1>14. CASE ReconnectFails(r)
  BY <1>14, MoveSlots DEF ReconnectFails
<1>15. CASE ReconnectSucceeds(r)
  BY <1>15, FinishSlots DEF ReconnectSucceeds
<1> QED
  BY <1>1, <1>2, <1>3, <1>4, <1>5, <1>6, <1>7, <1>8, <1>9, <1>10, <1>11,
     <1>12, <1>13, <1>14, <1>15 DEF RetryStep

(* Every action keeps the slots exact. *)
LEMMA SlotsNext == Inv /\ [Next]_vars => SlotInv'
<1> SUFFICES ASSUME Inv, [Next]_vars
             PROVE  SlotInv'
  OBVIOUS
<1> USE DEF tunnelVars, slotVars, locals, firewall
<1>1. CASE UNCHANGED vars
  BY <1>1, SlotsKept DEF vars
<1>2. ASSUME NEW k \in Keys, Detect(k)
      PROVE  SlotInv'
  BY <1>2, SlotsKept DEF Detect
<1>3. ASSUME NEW k \in Keys, Trigger(k)
      PROVE  SlotInv'
  BY <1>3, TriggerSlots
<1>4. ASSUME NEW r \in Retries, RetryStep(r)
      PROVE  SlotInv'
  BY <1>4, RetryStepSlots
<1>5. ASSUME NEW t \in Tunnels, HandleConnect(t)
      PROVE  SlotInv'
  BY <1>5, SlotsKept DEF HandleConnect
<1>6. ASSUME NEW t \in Tunnels, HandleDisconnect(t)
      PROVE  SlotInv'
  BY <1>6, CancelRetriesSlots DEF HandleDisconnect, Keys
<1>7. ASSUME NEW t \in Tunnels, AutoDisconnect(t)
      PROVE  SlotInv'
  BY <1>7, CancelRetriesSlots DEF AutoDisconnect, Keys
<1>8. CASE HandleDisconnectAll
  BY <1>8, CancelRetriesSlots DEF HandleDisconnectAll
<1>9. CASE MasterSwitchOff
  BY <1>9, SlotsKept DEF MasterSwitchOff
<1>10. CASE Stop
  <2>1. ~running'
    BY <1>10 DEF Stop
  <2>2. IdleNotCancelled'
    BY <1>10 DEF Stop, Cancel, Live, Inv, TypeOK, SlotInv, IdleNotCancelled
  <2> QED
    BY <2>1, <2>2 DEF SlotInv, SlotsExact, OldsOutOfSlots
<1> QED
  BY <1>1, <1>2, <1>3, <1>4, <1>5, <1>6, <1>7, <1>8, <1>9, <1>10
     DEF Next, HelperOperation

-----------------------------------------------------------------------------
(* A monitor that has just started has empty slots. *)
LEMMA InitInv == Init => Inv
<1> SUFFICES ASSUME Init
             PROVE  Inv
  OBVIOUS
<1>1. TypeOK
  BY DEF Init, TypeOK, Keys
<1>2. SlotInv
  BY DEF Init, SlotInv, SlotsExact, OldsOutOfSlots, IdleNotCancelled, Live
<1> QED
  BY <1>1, <1>2 DEF Inv

(* The inductive invariant of the monitor: types, slots, and what keeps the
   slots exact from step to step. *)
THEOREM Invariant == Spec => []Inv
<1>1. Inv /\ [Next]_vars => Inv'
  BY TypeNext, SlotsNext DEF Inv
<1> QED
  BY InitInv, <1>1, PTL DEF Spec

(* Whatever triggers, cancellations and stops come in whatever order, a slot
   of m.retries holds a live retry of its key that nobody has cancelled, and
   no such retry is out of reach of CancelRetry. *)
THEOREM SlotsAreExact == Spec => []SlotsExact
<1>1. Inv => SlotsExact
  BY DEF Inv, SlotInv
<1> QED
  BY Invariant, <1>1, PTL

(* The variables of the monitor keep their types; in particular Status always
   finds the tunnel whose interface the firewall rules are resumed for. *)
THEOREM TypeCorrect == Spec => []TypeOK
<1>1. Inv => TypeOK
  BY DEF Inv
<1> QED
  BY Invariant, <1>1, PTL

-----------------------------------------------------------------------------
(* Endpoints: what a reconnect does with a choice it made some steps ago *)

Proposals(limit) == [candidate : Endpoints!Listed, age : 0..limit]
Choices == {Endpoints!Stay} \cup [to : Endpoints!Listed, failover : BOOLEAN]

(* The stamp is the helper's last switch, or younger: an evaluation that ends
   without a switch renews it. *)
Stamped == stamp <= since

(* Who is on record as a proposal was first proposed then, or before. *)
Proposed == pending # None => first[pending.candidate] >= pending.age

(* A blessing goes to a candidate that the window has confirmed. *)
Confirmed == blessed # None => Sustained = 0 \/ first[blessed.candidate] = Sustained

ChurnTypes ==
    /\ stamp \in 0..Cooldown /\ since \in 0..Cooldown
    /\ first \in [Endpoints!Listed -> -1..Sustained]
    /\ pending \in Proposals(Sustained) \cup {None}
    /\ blessed \in Proposals(TTL) \cup {None}
    /\ choice \in [Endpoints!Pickers -> Choices]

ChurnInv == ChurnTypes /\ Stamped /\ Proposed /\ Confirmed

(* endpoint.Best returns one of the candidates, if any. *)
LEMMA BetterType ==
    ASSUME NEW ms, NEW current
    PROVE  Endpoints!Better(ms, current) \in Choices
<1>1. CASE Endpoints!Fallbacks(ms, current) = {}
  BY <1>1 DEF Endpoints!Better, Choices
<1>2. CASE Endpoints!Fallbacks(ms, current) # {}
  <2> DEFINE i == CHOOSE x \in Endpoints!Fallbacks(ms, current) : TRUE
  <2>1. i \in DOMAIN Candidates
    BY <1>2 DEF Endpoints!Fallbacks
  <2>2. Candidates[i] \in Endpoints!Listed
    BY <2>1 DEF Endpoints!Listed
  <2>3. Endpoints!Better(ms, current)
            \in {Endpoints!Stay, [to |-> Candidates[i], failover |-> TRUE],
                 [to |-> Candidates[i], failover |-> FALSE]}
    <3> DEFINE down == current \notin Endpoints!Listed \/ ms[current] = 0
    <3>1. Endpoints!Better(ms, current) =
              IF down THEN [to |-> Candidates[i], failover |-> TRUE]
              ELSE IF \/ ms[current] < Threshold
                      \/ ms[Candidates[i]] * 100 >= ms[current] * (100 - Margin)
                   THEN Endpoints!Stay
              ELSE [to |-> Candidates[i], failover |-> FALSE]
      BY <1>2, Zenon DEF Endpoints!Better
    <3>2. QED
      BY <3>1, Zenon
  <2>4. /\ Endpoints!Stay \in Choices
        /\ \A down \in BOOLEAN : [to |-> Candidates[i], failover |-> down] \in Choices
    BY <2>2 DEF Choices
  <2>5. QED
    BY <2>3, <2>4, Zenon
<1>3. QED
  BY <1>1, <1>2

(* confirmImprovement lowers nobody's age, and what it records is new. *)
LEMMA ConfirmKeeps ==
    ASSUME ChurnInv, NEW c \in Endpoints!Listed, Endpoints!Confirm(c)
    PROVE  /\ first' \in [Endpoints!Listed -> -1..Sustained]
           /\ pending' \in Proposals(Sustained) \cup {None}
           /\ Proposed'
           /\ \A d \in Endpoints!Listed : first[d] = Sustained => first'[d] = Sustained
           /\ Endpoints!Confirms(c) => Sustained = 0 \/ first[c] = Sustained
<1> USE EndpointAssumption DEF ChurnInv, ChurnTypes
<1>1. /\ first' = [first EXCEPT ![c] = IF @ = -1 THEN 0 ELSE @]
      /\ pending' = None \/ pending' = [candidate |-> c, age |-> 0]
  BY DEF Endpoints!Confirm
<1>2. first' \in [Endpoints!Listed -> -1..Sustained]
  BY <1>1
<1>3. pending' \in Proposals(Sustained) \cup {None}
  BY <1>1 DEF Proposals
<1>4. first'[c] >= 0
  BY <1>1
<1>5. Proposed'
  BY <1>1, <1>4 DEF Proposed
<1>6. \A d \in Endpoints!Listed : first[d] = Sustained => first'[d] = Sustained
  BY <1>1
<1>7. Endpoints!Confirms(c) => Sustained = 0 \/ first[c] = Sustained
  BY DEF Endpoints!Confirms, Proposed, Proposals
<1>8. QED
  BY <1>2, <1>3, <1>5, <1>6, <1>7

(* A step that is no evaluation's changes neither gate nor history. *)
LEMMA GatesKept ==
    ASSUME ChurnInv, UNCHANGED <<stamp, pending, blessed, first, since>>,
           choice' \in [Endpoints!Pickers -> Choices]
    PROVE  ChurnInv'
BY DEF ChurnInv, ChurnTypes, Stamped, Proposed, Confirmed

LEMMA PickedType ==
    ASSUME ChurnTypes, NEW p, Endpoints!Picked(p)
    PROVE  choice' \in [Endpoints!Pickers -> Choices]
BY DEF ChurnTypes, Endpoints!Picked, Choices

LEMMA DecideKeeps ==
    ASSUME ChurnInv, NEW r \in Reconnects, Endpoints!Decide(r)
    PROVE  ChurnInv'
<1> DEFINE c == choice[r].to
<1>1. choice' \in [Endpoints!Pickers -> Choices]
  BY PickedType DEF Endpoints!Decide, ChurnInv
<1>2. c \in Endpoints!Listed
  BY DEF Endpoints!Decide, ChurnInv, ChurnTypes, Choices, Endpoints!Pickers
<1>3. CASE UNCHANGED <<stamp, pending, blessed, first, since>>
  BY <1>1, <1>3, GatesKept
<1>4. CASE /\ stamp' = 0 /\ since' = 0
           /\ UNCHANGED <<pending, blessed, first>>
  BY <1>1, <1>4, EndpointAssumption
     DEF ChurnInv, ChurnTypes, Stamped, Proposed, Confirmed
<1>5. CASE /\ stamp' = 0 /\ (since' = 0 \/ since' = since)
           /\ blessed' = None
           /\ UNCHANGED <<pending, first>> \/ Endpoints!Confirm(c)
  <2>1. /\ stamp' \in 0..Cooldown /\ since' \in 0..Cooldown
        /\ stamp' <= since'
    BY <1>5, EndpointAssumption DEF ChurnInv, ChurnTypes
  <2>2. /\ first' \in [Endpoints!Listed -> -1..Sustained]
        /\ pending' \in Proposals(Sustained) \cup {None}
        /\ Proposed'
    <3>1. CASE UNCHANGED <<pending, first>>
      BY <3>1 DEF ChurnInv, ChurnTypes, Proposed
    <3>2. CASE Endpoints!Confirm(c)
      BY <3>2, <1>2, ConfirmKeeps
    <3>3. QED
      BY <1>5, <3>1, <3>2
  <2>3. QED
    BY <1>1, <1>5, <2>1, <2>2 DEF ChurnInv, ChurnTypes, Stamped, Confirmed
<1>6. QED
  BY <1>3, <1>4, <1>5
     DEF Endpoints!Decide, Endpoints!Refuse, Endpoints!Stamp, Endpoints!history

LEMMA LoopDecideKeeps ==
    ASSUME ChurnInv, Endpoints!LoopDecide
    PROVE  ChurnInv'
<1> DEFINE c == choice[Loop].to
<1>1. choice' \in [Endpoints!Pickers -> Choices]
  BY PickedType DEF Endpoints!LoopDecide, ChurnInv
<1>2. c \in Endpoints!Listed
  BY DEF Endpoints!LoopDecide, ChurnInv, ChurnTypes, Choices, Endpoints!Pickers
<1>3. /\ Endpoints!Confirm(c)
      /\ UNCHANGED <<stamp, since>>
      /\ \/ Endpoints!Confirms(c) /\ blessed' = [candidate |-> c, age |-> 0]
         \/ UNCHANGED blessed
  BY DEF Endpoints!LoopDecide
<1>4. blessed' \in Proposals(TTL) \cup {None}
  BY <1>2, <1>3, EndpointAssumption DEF ChurnInv, ChurnTypes, Proposals
<1>5. Confirmed'
  <2>1. CASE Endpoints!Confirms(c) /\ blessed' = [candidate |-> c, age |-> 0]
    BY <1>2, <1>3, <2>1, ConfirmKeeps DEF Confirmed
  <2>2. CASE UNCHANGED blessed
    BY <1>2, <1>3, <2>2, ConfirmKeeps DEF Confirmed, ChurnInv, ChurnTypes, Proposals
  <2>3. QED
    BY <1>3, <2>1, <2>2
<1>6. /\ first' \in [Endpoints!Listed -> -1..Sustained]
      /\ pending' \in Proposals(Sustained) \cup {None}
      /\ Proposed'
  BY <1>2, <1>3, ConfirmKeeps
<1>7. QED
  BY <1>1, <1>3, <1>4, <1>5, <1>6 DEF ChurnInv, ChurnTypes, Stamped

(* All ages grow alike, up to where they no longer matter. *)
LEMMA PeriodKeeps ==
    ASSUME ChurnInv, Endpoints!Period
    PROVE  ChurnInv'
<1> USE EndpointAssumption DEF ChurnInv, ChurnTypes
<1>1. /\ stamp' = Endpoints!Older(stamp, Cooldown)
      /\ since' = Endpoints!Older(since, Cooldown)
      /\ pending' = IF pending = None THEN None
                    ELSE [pending EXCEPT !.age = Endpoints!Older(@, Sustained)]
      /\ blessed' = IF blessed = None THEN None
                    ELSE [blessed EXCEPT !.age = Endpoints!Older(@, TTL)]
      /\ first' = [c \in Endpoints!Listed |->
                      IF first[c] = -1 THEN -1
                      ELSE Endpoints!Older(first[c], Sustained)]
      /\ UNCHANGED choice
  BY DEF Endpoints!Period
<1>2. /\ stamp' \in 0..Cooldown /\ since' \in 0..Cooldown
      /\ stamp' <= since'
  BY <1>1 DEF Stamped, Endpoints!Older
<1>3. first' \in [Endpoints!Listed -> -1..Sustained]
  BY <1>1 DEF Endpoints!Older
<1>4. pending' \in Proposals(Sustained) \cup {None}
  BY <1>1 DEF Proposals, Endpoints!Older
<1>5. blessed' \in Proposals(TTL) \cup {None}
  BY <1>1 DEF Proposals, Endpoints!Older
<1>6. Proposed'
  <2> SUFFICES ASSUME pending' # None
               PROVE  first'[pending'.candidate] >= pending'.age
    BY DEF Proposed
  <2>1. /\ pending # None /\ pending \in Proposals(Sustained)
        /\ first[pending.candidate] >= pending.age
    BY <1>1 DEF Proposed
  <2>2. /\ pending.candidate \in Endpoints!Listed /\ pending.age \in 0..Sustained
        /\ pending'.candidate = pending.candidate
        /\ pending'.age = Endpoints!Older(pending.age, Sustained)
    BY <1>1, <2>1 DEF Proposals
  <2>3. QED
    BY <1>1, <2>1, <2>2 DEF Endpoints!Older
<1>7. Confirmed'
  <2> SUFFICES ASSUME blessed' # None, Sustained # 0
               PROVE  first'[blessed'.candidate] = Sustained
    BY DEF Confirmed
  <2>1. /\ blessed \in Proposals(TTL) /\ first[blessed.candidate] = Sustained
    BY <1>1 DEF Confirmed
  <2>2. /\ blessed.candidate \in Endpoints!Listed
        /\ blessed'.candidate = blessed.candidate
    BY <1>1, <2>1 DEF Proposals
  <2>3. QED
    BY <1>1, <2>1, <2>2 DEF Endpoints!Older
<1>8. QED
  BY <1>1, <1>2, <1>3, <1>4, <1>5, <1>6, <1>7 DEF Stamped

LEMMA ChurnKept ==
    ASSUME ChurnInv, [Endpoints!Next]_(Endpoints!vars)
    PROVE  ChurnInv'
<1>1. ASSUME NEW r \in Reconnects, Endpoints!Measure(r)
      PROVE  ChurnInv'
  <2>1. /\ choice' = [choice EXCEPT ![r] = Endpoints!Better(net, cached)]
        /\ UNCHANGED <<stamp, pending, blessed, first, since>>
    BY <1>1 DEF Endpoints!Measure, Endpoints!gates, Endpoints!history
  <2>2. QED
    BY <2>1, BetterType, GatesKept DEF ChurnInv, ChurnTypes
<1>2. ASSUME Endpoints!LoopMeasure
      PROVE  ChurnInv'
  <2>1. /\ \E c \in Choices : choice' = [choice EXCEPT ![Loop] = c]
        /\ UNCHANGED <<stamp, pending, blessed, first, since>>
    <3>1. Endpoints!Stay \in Choices
      BY DEF Choices
    <3>2. QED
      BY <1>2, <3>1, BetterType
         DEF Endpoints!LoopMeasure, Endpoints!gates, Endpoints!history
  <2>2. QED
    BY <2>1, GatesKept DEF ChurnInv, ChurnTypes
<1>3. ASSUME \/ Endpoints!Dropped \/ Endpoints!Outside
             \/ UNCHANGED Endpoints!vars
      PROVE  ChurnInv'
  <2>1. UNCHANGED <<choice, stamp, pending, blessed, first, since>>
    BY <1>3 DEF Endpoints!Dropped, Endpoints!Outside, Endpoints!Network,
       Endpoints!SetEndpointSwitchMode, Endpoints!SetEndpointActive,
       Endpoints!Reload, Endpoints!Connect, Endpoints!vars, Endpoints!gates,
       Endpoints!picks, Endpoints!history
  <2>2. QED
    BY <2>1, GatesKept DEF ChurnInv, ChurnTypes
<1>4. QED
  BY <1>1, <1>2, <1>3, DecideKeeps, LoopDecideKeeps, PeriodKeeps
     DEF Endpoints!Next, Endpoints!Helper, Endpoints!Reconnect, Endpoints!Restore

(* Only an evaluation switches.  It has found the stamp as old as the cooldown,
   so the last switch is as old; and an improvement was blessed or has been
   confirmed just now. *)
LEMMA SwitchIsDue ==
    ASSUME ChurnInv, NEW r \in Reconnects,
           [Endpoints!Next]_(Endpoints!vars), Endpoints!Switches(r)
    PROVE  /\ since = Cooldown
           /\ \/ choice[r].failover \/ Sustained = 0
              \/ first[choice[r].to] = Sustained
<1> USE EndpointAssumption
<1>1. /\ choice[r] # Endpoints!Stay /\ choice'[r] = Endpoints!Stay
      /\ <<written, cached>>' # <<written, cached>>
  BY DEF Endpoints!Switches
<1>2. r \in Endpoints!Pickers
  BY DEF Endpoints!Pickers
<1>3. \E q \in Reconnects : Endpoints!Decide(q)
  <2>1. ~(\/ Endpoints!Dropped \/ Endpoints!Period \/ Endpoints!LoopMeasure
          \/ Endpoints!LoopDecide
          \/ \E q \in Reconnects : Endpoints!Measure(q))
    BY <1>1 DEF Endpoints!Dropped, Endpoints!Period, Endpoints!LoopMeasure,
       Endpoints!LoopDecide, Endpoints!Measure
  <2>2. ~(Endpoints!Outside \/ UNCHANGED Endpoints!vars)
    BY <1>1 DEF Endpoints!Outside, Endpoints!Network,
       Endpoints!SetEndpointSwitchMode, Endpoints!SetEndpointActive,
       Endpoints!Reload, Endpoints!Connect, Endpoints!vars, Endpoints!picks
  <2>3. QED
    BY <2>1, <2>2
       DEF Endpoints!Next, Endpoints!Helper, Endpoints!Reconnect, Endpoints!Restore
<1>4. Endpoints!Decide(r)
  <2>1. PICK q \in Reconnects : Endpoints!Decide(q)
    BY <1>3
  <2>2. choice' = [choice EXCEPT ![q] = Endpoints!Stay]
    BY <2>1 DEF Endpoints!Decide, Endpoints!Picked
  <2>3. q = r
    BY <1>1, <1>2, <2>2 DEF ChurnInv, ChurnTypes
  <2>4. QED
    BY <2>1, <2>3
<1> DEFINE c == choice[r].to
<1>5. c \in Endpoints!Listed
  BY <1>1, <1>2 DEF ChurnInv, ChurnTypes, Choices
<1>6. /\ ~Endpoints!InCooldown
      /\ \/ choice[r].failover
         \/ Endpoints!Blessed(c)
         \/ Endpoints!Confirm(c) /\ Endpoints!Confirms(c)
  BY <1>1, <1>4 DEF Endpoints!Decide
<1>7. since = Cooldown
  BY <1>6 DEF Endpoints!InCooldown, ChurnInv, ChurnTypes, Stamped
<1>8. Endpoints!Blessed(c) => Sustained = 0 \/ first[c] = Sustained
  BY DEF Endpoints!Blessed, ChurnInv, Confirmed
<1>9. Endpoints!Confirm(c) /\ Endpoints!Confirms(c)
         => Sustained = 0 \/ first[c] = Sustained
  BY <1>5, ConfirmKeeps
<1>10. QED
  BY <1>6, <1>7, <1>8, <1>9

(* Two switches by the helper are a cooldown apart, and a live link is left only
   for a candidate that was better a window ago already.  It is so for any
   candidates, latencies, cooldown, window and blessing's life, and any number of
   reconnects that measure, wait and decide beside each other and the loop.
   (helper/endpoint_switch.go maybeSwitchEndpoint, allow, confirmImprovement,
   takeBlessing, helper/endpoint_dynamic.go evaluateDynamicSwitches) *)
THEOREM SwitchesAreApart == EndpointSpec => NoChurn
<1>1. Endpoints!Init => ChurnInv
  BY EndpointAssumption
     DEF Endpoints!Init, ChurnInv, ChurnTypes, Stamped, Proposed, Confirmed, Choices
<1>2. ChurnInv /\ [Endpoints!Next]_(Endpoints!vars) => ChurnInv'
  BY ChurnKept
<1>3. ChurnInv /\ [Endpoints!Next]_(Endpoints!vars) =>
          \A r \in Reconnects : Endpoints!Switches(r) =>
              /\ since = Cooldown
              /\ choice[r].failover \/ Sustained = 0 \/ first[choice[r].to] = Sustained
  BY SwitchIsDue
<1>4. QED
  BY <1>1, <1>2, <1>3, PTL
     DEF EndpointSpec, NoChurn, Endpoints!Spec, Endpoints!NoChurn

=============================================================================
