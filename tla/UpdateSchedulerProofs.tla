------------------------ MODULE UpdateSchedulerProofs ------------------------
(***************************************************************************)
(* The user is told of a version once, and not again after dismissing it,  *)
(* however the loop's checks and the button's interleave, for any number   *)
(* of releases, sessions and failures.                                     *)
(*                                                                         *)
(* maybeNotify's memory is one version, the last one announced, and its    *)
(* two gates are separate steps.  That is enough as long as the versions   *)
(* announced rise: a version above the last was never announced in this    *)
(* session, and one that was dismissed meanwhile is not above it.          *)
(***************************************************************************)
EXTENDS UpdateScheduler, TLAPS

Labels == {"idle", "sent", "answered", "recorded", "gated", "emit"}

(* The types the argument needs, and what a check carries to the gates. *)
Types ==
    /\ feed \in [v : 0..MaxVersion, assets : {"none", "bad", "ok"}, rev : Nat]
    /\ disk \in State /\ st \in State
    /\ cur \in 0..MaxVersion
    /\ last \in 0..MaxVersion /\ banner \in 0..MaxVersion
    /\ overtaken \in BOOLEAN
    /\ pc \in [Checkers -> Labels]
    /\ res \in [Checkers -> Result]
    /\ told \in [Versions -> Nat]
    /\ said \subseteq Versions
    /\ \A p \in Checkers :
           /\ res[p].available => res[p].v \in Versions
           /\ pc[p] \in {"recorded", "gated", "emit"} => res[p].available

(* A dismissal that was saved is in the copy and in the file. *)
Saved == said \subseteq st.dismissed /\ said \subseteq disk.dismissed

(* A session that announces rising versions. *)
Rising ==
    /\ \A v \in Versions : told[v] <= 1 /\ (told[v] > 0 => v <= last)
    /\ banner <= last
    /\ \A p \in Checkers :
           /\ pc[p] = "gated" /\ res[p].v \in said => res[p].v <= last
           /\ pc[p] = "emit" => /\ res[p].v <= last /\ told[res[p].v] = 0
                                /\ res[p].v \notin said
                                /\ res[p].v # banner
    /\ \A p, q \in Checkers :
           p # q /\ pc[p] = "emit" /\ pc[q] = "emit" => res[p].v # res[q].v

IInv == Types /\ Saved /\ (overtaken \/ Rising)

-----------------------------------------------------------------------------
(* What a check may find, and what StateStore.Update does to a dismissal. *)
LEMMA ResultTypes ==
    ASSUME Types
    PROVE  /\ NoResult \in Result /\ NoResult.available = FALSE
           /\ Parsed \in Result /\ (Parsed.available => Parsed.v \in Versions)
           /\ \A e \in Nat : [NoResult EXCEPT !.etag = e] \in Result
           /\ \A e \in Nat : [NoResult EXCEPT !.etag = e].available = FALSE
           /\ \A e \in Nat, k \in {"error", "unmodified"} :
                 /\ [NoResult EXCEPT !.kind = k, !.etag = e] \in Result
                 /\ [NoResult EXCEPT !.kind = k, !.etag = e].available = FALSE
<1>1. /\ feed.v \in 0..MaxVersion /\ feed.rev \in Nat /\ cur \in 0..MaxVersion
      /\ 0 \in 0..MaxVersion
  BY UpdateAssumption DEF Types
<1>2. /\ NoResult \in Result /\ NoResult.available = FALSE
      /\ \A e \in Nat : [NoResult EXCEPT !.etag = e] \in Result
      /\ \A e \in Nat : [NoResult EXCEPT !.etag = e].available = FALSE
  BY <1>1 DEF NoResult, Result
<1>3. \A e \in Nat, k \in {"error", "unmodified"} :
         /\ [NoResult EXCEPT !.kind = k, !.etag = e] \in Result
         /\ [NoResult EXCEPT !.kind = k, !.etag = e].available = FALSE
  BY <1>1 DEF NoResult, Result
<1>4. Parsed \in Result /\ (Parsed.available => Parsed.v \in Versions)
  <2>1. CASE feed.v > cur /\ feed.assets = "bad"
    BY <1>1, <1>3, <2>1 DEF Parsed
  <2>2. CASE ~(feed.v > cur /\ feed.assets = "bad")
    <3> DEFINE b == feed.v > cur /\ feed.assets = "ok"
    <3>1. b \in BOOLEAN /\ (b => feed.v \in Versions)
      BY <1>1, UpdateAssumption DEF Versions
    <3>2. Parsed = [kind |-> "info", etag |-> feed.rev, v |-> feed.v, available |-> b]
      BY <2>2 DEF Parsed
    <3> HIDE DEF b
    <3>3. QED
      BY <1>1, <3>1, <3>2 DEF Result
  <2>3. QED BY <2>1, <2>2
<1>5. QED
  BY <1>2, <1>3, <1>4

(* A step that announces nothing, and lets nothing through that was dismissed,
   keeps the session as it is. *)
LEMMA RisingFrame ==
    ASSUME Rising, UNCHANGED <<told, last, banner, said>>,
           \A p \in Checkers :
              /\ pc'[p] = "gated" => \/ pc[p] = "gated" /\ res'[p].v = res[p].v
                                     \/ res'[p].v \notin said
              /\ pc'[p] = "emit" => pc[p] = "emit" /\ res'[p].v = res[p].v
    PROVE  Rising'
BY DEF Rising

(* The store's copy changes, and perhaps the file: no dismissal goes. *)
LEMMA UpdateSaves ==
    ASSUME Types, Saved, NEW new \in State, st.dismissed \subseteq new.dismissed,
           Update(new), said' = said
    PROVE  Saved' /\ st' \in State /\ disk' \in State
BY DEF Types, Saved, Update, State

-----------------------------------------------------------------------------
(* A step of a check. *)
LEMMA CheckKeeps ==
    ASSUME IInv, NEW p \in Checkers, Check(p)
    PROVE  IInv'
<1> USE DEF IInv
<1>1. UNCHANGED <<feed, cur, said>>
  BY DEF Check
<1>2. res[p] \in Result /\ feed.rev \in Nat
  BY DEF Types
<1>3. CASE (Answer(p) \/ Fail(p))
           /\ UNCHANGED <<disk, st, last, banner, told, overtaken>>
  <2>1. PICK x \in Result : Reply(p, x) /\ (x.available => x.v \in Versions)
    <3>1. CASE Answer(p)
      BY <1>2, <3>1, ResultTypes DEF Answer
    <3>2. CASE Fail(p)
      <4>1. PICK e \in {0, feed.rev} :
               Reply(p, [NoResult EXCEPT !.kind = "error", !.etag = e])
        BY <3>2 DEF Fail
      <4>2. e \in Nat
        BY <1>2
      <4>3. QED
        BY <4>1, <4>2, ResultTypes
    <3>3. QED BY <1>3, <3>1, <3>2
  <2>2. /\ pc' \in [Checkers -> Labels] /\ res' \in [Checkers -> Result]
        /\ pc'[p] = "answered" /\ res'[p] = x
        /\ \A q \in Checkers : q # p => pc'[q] = pc[q] /\ res'[q] = res[q]
    BY <2>1 DEF Reply, Goto, Types, Labels
  <2>3. Types'
    BY <1>1, <1>3, <2>1, <2>2 DEF Types
  <2>4. Saved'
    BY <1>1, <1>3 DEF Saved
  <2>5. Rising => Rising'
    BY <1>1, <1>3, <2>2, RisingFrame
  <2>6. QED
    BY <1>3, <2>3, <2>4, <2>5
<1>4. CASE Record(p) /\ UNCHANGED <<last, banner, told, overtaken>>
  <2>1. /\ pc' \in [Checkers -> Labels] /\ res' \in [Checkers -> Result]
        /\ pc'[p] \in {"idle", "recorded"}
        /\ pc'[p] = "recorded" => res[p].available
        /\ res'[p] \in {res[p], NoResult}
        /\ pc'[p] = "recorded" => res'[p] = res[p]
        /\ \A q \in Checkers : q # p => pc'[q] = pc[q] /\ res'[q] = res[q]
    <3>1. CASE res[p].available
      <4>1. pc' = [pc EXCEPT ![p] = "recorded"] /\ res' = res
        BY <1>4, <3>1 DEF Record, Goto
      <4>2. QED
        BY <1>2, <3>1, <4>1 DEF Types, Labels
    <3>2. CASE ~res[p].available
      <4>1. pc' = [pc EXCEPT ![p] = "idle"] /\ res' = [res EXCEPT ![p] = NoResult]
        BY <1>4, <3>2 DEF Record, Goto, Done
      <4>2. NoResult \in Result
        BY ResultTypes
      <4>3. QED
        BY <4>1, <4>2 DEF Types, Labels
    <3>3. QED BY <3>1, <3>2
  <2>2. Saved' /\ st' \in State /\ disk' \in State
    <3>1. CASE UNCHANGED <<disk, st>>
      BY <1>1, <3>1 DEF Types, Saved
    <3>2. CASE Update(Recorded(res[p]))
      <4>1. /\ Recorded(res[p]) \in State
            /\ Recorded(res[p]).dismissed = st.dismissed
        BY <1>2 DEF Types, State, Result, Recorded
      <4>2. QED
        BY <1>1, <3>2, <4>1, UpdateSaves
    <3>3. QED BY <1>4, <3>1, <3>2 DEF Record
  <2>3. Types'
    <3>1. \A q \in Checkers :
             /\ res'[q].available => res'[q].v \in Versions
             /\ pc'[q] \in {"recorded", "gated", "emit"} => res'[q].available
      BY <2>1, ResultTypes DEF Types
    <3>2. QED
      BY <1>1, <1>4, <2>1, <2>2, <3>1 DEF Types
  <2>4. Rising => Rising'
    BY <1>1, <1>4, <2>1, RisingFrame
  <2>5. QED
    BY <1>4, <2>2, <2>3, <2>4
<1>5. CASE Gate(p) /\ UNCHANGED <<disk, st, last, banner, told, overtaken>>
  <2>1. pc[p] = "recorded"
    BY <1>5 DEF Gate
  <2>2. /\ pc' \in [Checkers -> Labels] /\ res' \in [Checkers -> Result]
        /\ pc'[p] \in {"idle", "gated"}
        /\ res'[p] \in {res[p], NoResult}
        /\ pc'[p] = "gated" => res'[p] = res[p] /\ res[p].v \notin st.dismissed
        /\ \A q \in Checkers : q # p => pc'[q] = pc[q] /\ res'[q] = res[q]
    <3>1. CASE res[p].v \in st.dismissed
      <4>1. pc' = [pc EXCEPT ![p] = "idle"] /\ res' = [res EXCEPT ![p] = NoResult]
        BY <1>5, <3>1 DEF Gate, Goto, Done
      <4>2. NoResult \in Result
        BY ResultTypes
      <4>3. QED
        BY <4>1, <4>2 DEF Types, Labels
    <3>2. CASE res[p].v \notin st.dismissed
      <4>1. pc' = [pc EXCEPT ![p] = "gated"] /\ res' = res
        BY <1>5, <3>2 DEF Gate, Goto
      <4>2. QED
        BY <1>2, <3>2, <4>1 DEF Types, Labels
    <3>3. QED BY <3>1, <3>2
  <2>3. Types'
    <3>1. \A q \in Checkers :
             /\ res'[q].available => res'[q].v \in Versions
             /\ pc'[q] \in {"recorded", "gated", "emit"} => res'[q].available
      BY <2>1, <2>2, ResultTypes DEF Types
    <3>2. QED
      BY <1>1, <1>5, <2>2, <3>1 DEF Types
  <2>4. Saved'
    BY <1>1, <1>5 DEF Saved
  <2>5. Rising => Rising'
    <3>1. pc'[p] = "gated" => res'[p].v \notin said
      BY <2>2 DEF Saved
    <3>2. QED
      BY <1>1, <1>5, <2>2, <3>1, RisingFrame
  <2>6. QED
    BY <1>5, <2>3, <2>4, <2>5
<1>6. CASE Claim(p) /\ UNCHANGED <<disk, st, banner, told>>
  <2>1. pc[p] = "gated" /\ res[p].v \in Versions /\ res[p].v \in 0..MaxVersion
    BY <1>2, <1>6 DEF Claim, Types, Result
  <2>2. Saved'
    BY <1>1, <1>6 DEF Saved
  <2>3. CASE last = res[p].v
    <3>1. /\ pc' = [pc EXCEPT ![p] = "idle"] /\ res' = [res EXCEPT ![p] = NoResult]
          /\ UNCHANGED <<last, overtaken>>
      BY <1>6, <2>3 DEF Claim, Goto, Done
    <3>2. /\ pc' \in [Checkers -> Labels] /\ res' \in [Checkers -> Result]
          /\ pc'[p] = "idle" /\ res'[p] = NoResult
          /\ \A q \in Checkers : q # p => pc'[q] = pc[q] /\ res'[q] = res[q]
      BY <3>1, ResultTypes DEF Types, Labels
    <3>3. \A q \in Checkers :
             /\ res'[q].available => res'[q].v \in Versions
             /\ pc'[q] \in {"recorded", "gated", "emit"} => res'[q].available
      BY <3>2, ResultTypes DEF Types
    <3>4. Types'
      BY <1>1, <1>6, <3>1, <3>2, <3>3 DEF Types
    <3>5. Rising => Rising'
      BY <1>1, <1>6, <3>1, <3>2, RisingFrame
    <3>6. QED
      BY <2>2, <3>1, <3>4, <3>5
  <2>4. CASE last # res[p].v
    <3>1. /\ pc' = [pc EXCEPT ![p] = "emit"] /\ res' = res /\ last' = res[p].v
          /\ overtaken' = (overtaken \/ last > res[p].v)
      BY <1>6, <2>4 DEF Claim, Goto
    <3>2. /\ pc' \in [Checkers -> Labels] /\ pc'[p] = "emit"
          /\ \A q \in Checkers : q # p => pc'[q] = pc[q]
      BY <3>1 DEF Types, Labels
    <3>3. Types'
      BY <1>1, <1>6, <2>1, <3>1, <3>2 DEF Types
    <3>4. ASSUME ~overtaken' PROVE Rising'
      <4>1. Rising /\ last < res[p].v
        <5>1. ~overtaken /\ ~(last > res[p].v)
          BY <3>1, <3>4, Zenon
        <5>2. last \in 0..MaxVersion
          BY DEF Types
        <5>3. QED
          BY <2>1, <2>4, <5>1, <5>2
      <4>2. /\ told[res[p].v] = 0 /\ res[p].v \notin said
            /\ res[p].v # banner
            /\ \A q \in Checkers : pc[q] = "emit" => res[q].v # res[p].v
        BY <2>1, <4>1 DEF Rising, Types, Result
      <4>3. \A v \in 0..MaxVersion : v <= last => v <= last'
        BY <2>1, <3>1, <4>1 DEF Types
      <4>4. \A q \in Checkers : res[q].v \in 0..MaxVersion
        BY DEF Types, Result
      <4>5. \A v \in Versions : v \in 0..MaxVersion
        BY DEF Versions
      <4>6. \A v \in Versions : told'[v] <= 1 /\ (told'[v] > 0 => v <= last')
        BY <1>6, <4>1, <4>3, <4>5 DEF Rising
      <4>7. banner' <= last'
        BY <1>6, <4>1, <4>3 DEF Rising, Types
      <4>8. \A q \in Checkers : pc'[q] = "gated" /\ res'[q].v \in said'
                                  => res'[q].v <= last'
        BY <1>1, <3>1, <3>2, <4>1, <4>3, <4>4 DEF Rising
      <4>9. \A q \in Checkers :
               pc'[q] = "emit" => /\ res'[q].v <= last' /\ told'[res'[q].v] = 0
                                  /\ res'[q].v \notin said' /\ res'[q].v # banner'
        <5>1. ASSUME NEW q \in Checkers, pc'[q] = "emit"
              PROVE  /\ res'[q].v <= last' /\ told'[res'[q].v] = 0
                     /\ res'[q].v \notin said' /\ res'[q].v # banner'
          <6>1. CASE q = p
            BY <1>1, <1>6, <2>1, <3>1, <4>2, <6>1
          <6>2. CASE q # p
            <7>1. pc[q] = "emit"
              BY <3>2, <5>1, <6>2
            <7>2. QED
              BY <1>1, <1>6, <3>1, <4>1, <4>3, <4>4, <7>1 DEF Rising
          <6>3. QED BY <6>1, <6>2
        <5>2. QED BY <5>1
      <4>10. \A q, r \in Checkers :
                q # r /\ pc'[q] = "emit" /\ pc'[r] = "emit" => res'[q].v # res'[r].v
        BY <3>1, <3>2, <4>1, <4>2 DEF Rising
      <4>11. QED
        BY <4>6, <4>7, <4>8, <4>9, <4>10 DEF Rising
    <3>5. QED
      BY <2>2, <3>3, <3>4
  <2>5. QED BY <2>3, <2>4
<1>7. CASE Emit(p) /\ UNCHANGED <<disk, st, last, overtaken>>
  <2> DEFINE v == res[p].v
  <2>1. /\ pc[p] = "emit" /\ v \in Versions /\ v \in 0..MaxVersion
        /\ told' = [told EXCEPT ![v] = @ + 1] /\ banner' = v
        /\ pc' = [pc EXCEPT ![p] = "idle"] /\ res' = [res EXCEPT ![p] = NoResult]
    BY <1>2, <1>7 DEF Emit, Done, Goto, Types, Result
  <2>2. /\ pc' \in [Checkers -> Labels] /\ res' \in [Checkers -> Result]
        /\ pc'[p] = "idle" /\ res'[p] = NoResult
        /\ \A q \in Checkers : q # p => pc'[q] = pc[q] /\ res'[q] = res[q]
    BY <2>1, ResultTypes DEF Types, Labels
  <2>3. /\ told' \in [Versions -> Nat] /\ told'[v] = told[v] + 1
        /\ \A w \in Versions : w # v => told'[w] = told[w]
    BY <2>1 DEF Types
  <2>4. \A q \in Checkers :
           /\ res'[q].available => res'[q].v \in Versions
           /\ pc'[q] \in {"recorded", "gated", "emit"} => res'[q].available
    BY <2>2, ResultTypes DEF Types
  <2>5. Types'
    BY <1>1, <1>7, <2>1, <2>2, <2>3, <2>4 DEF Types
  <2>6. Saved'
    BY <1>1, <1>7 DEF Saved
  <2>7. ASSUME Rising PROVE Rising'
    <3>1. v <= last /\ told[v] = 0
      BY <2>1, <2>7 DEF Rising
    <3>2. \A w \in Versions : told'[w] <= 1 /\ (told'[w] > 0 => w <= last')
      BY <1>7, <2>3, <2>7, <3>1 DEF Rising
    <3>3. \A q \in Checkers :
             pc'[q] = "emit" => /\ res'[q].v <= last' /\ told'[res'[q].v] = 0
                                /\ res'[q].v \notin said' /\ res'[q].v # banner'
      <4>1. ASSUME NEW q \in Checkers, pc'[q] = "emit"
            PROVE  /\ res'[q].v <= last' /\ told'[res'[q].v] = 0
                   /\ res'[q].v \notin said' /\ res'[q].v # banner'
        <5>1. q # p /\ pc[q] = "emit" /\ res'[q] = res[q]
          BY <2>2, <4>1
        <5>2. res[q].v # v /\ res[q].v \in Versions
          BY <2>1, <2>7, <5>1 DEF Rising, Types
        <5>3. QED
          BY <1>1, <1>7, <2>1, <2>3, <2>7, <5>1, <5>2 DEF Rising
      <4>2. QED BY <4>1
    <3>4. \A q \in Checkers : pc'[q] = "gated" /\ res'[q].v \in said'
                                => res'[q].v <= last'
      BY <1>1, <1>7, <2>2, <2>7 DEF Rising
    <3>5. \A q, r \in Checkers :
              q # r /\ pc'[q] = "emit" /\ pc'[r] = "emit" => res'[q].v # res'[r].v
      BY <2>2, <2>7 DEF Rising
    <3>6. QED
      BY <1>7, <2>1, <3>1, <3>2, <3>3, <3>4, <3>5 DEF Rising
  <2>8. QED
    BY <1>7, <2>5, <2>6, <2>7
<1>8. QED
  BY <1>3, <1>4, <1>5, <1>6, <1>7 DEF Check

(* The loop wakes, or the user checks: a request with the copy's validator. *)
LEMMA SendKeeps ==
    ASSUME IInv, Wake \/ CheckNow
    PROVE  IInv'
<1> USE DEF IInv
<1>1. UNCHANGED <<feed, disk, cur, st, last, banner, told, overtaken, said>>
  BY DEF Wake, CheckNow, seen
<1>2. \/ UNCHANGED <<pc, res>>
      \/ \E p \in Checkers : pc[p] = "idle" /\ Send(p)
  BY DEF Wake, CheckNow, Checkers
<1>3. Saved'
  BY <1>1 DEF Saved
<1>4. CASE UNCHANGED <<pc, res>>
  <2>1. Types'
    BY <1>1, <1>4 DEF Types
  <2>2. Rising => Rising'
    BY <1>1, <1>4, RisingFrame
  <2>3. QED
    BY <1>1, <1>3, <2>1, <2>2
<1>5. ASSUME NEW p \in Checkers, pc[p] = "idle", Send(p) PROVE IInv'
  <2> DEFINE x == [NoResult EXCEPT !.etag = st.etag]
  <2>1. x \in Result /\ x.available = FALSE
    <3>1. st.etag \in Nat
      BY DEF Types, State
    <3>2. QED
      BY <3>1, ResultTypes
  <2>2. pc' = [pc EXCEPT ![p] = "sent"] /\ res' = [res EXCEPT ![p] = x]
    BY <1>5 DEF Send, Goto
  <2> HIDE DEF x
  <2>3. /\ pc' \in [Checkers -> Labels] /\ res' \in [Checkers -> Result]
        /\ pc'[p] = "sent" /\ res'[p] = x
        /\ \A q \in Checkers : q # p => pc'[q] = pc[q] /\ res'[q] = res[q]
    BY <2>1, <2>2 DEF Types, Labels
  <2>4. Types'
    BY <1>1, <2>1, <2>3 DEF Types
  <2>5. Rising => Rising'
    BY <1>1, <2>3, RisingFrame
  <2>6. QED
    BY <1>1, <1>3, <2>4, <2>5
<1>6. QED
  BY <1>2, <1>4, <1>5

(* The banner's cross: what is dismissed has been announced. *)
LEMMA DismissKeeps ==
    ASSUME IInv, Dismiss
    PROVE  IInv'
<1> USE DEF IInv
<1> DEFINE new == [st EXCEPT !.dismissed = @ \cup {banner}]
<1>1. /\ banner # 0 /\ banner' = 0
      /\ Update(new)
      /\ said' = IF disk' = st' THEN said \cup {banner} ELSE said
      /\ UNCHANGED <<feed, cur, last, pc, res, told, overtaken>>
  BY DEF Dismiss
<1>2. banner \in Versions
  BY <1>1, UpdateAssumption DEF Types, Versions
<1>3. new \in State /\ new.dismissed = st.dismissed \cup {banner}
  BY <1>2 DEF Types, State
<1> HIDE DEF new
<1>4. st' = new /\ disk' \in {new, disk}
  BY <1>1 DEF Update
<1>5. Saved' /\ st' \in State /\ disk' \in State
  BY <1>1, <1>3, <1>4 DEF Saved, Types
<1>6. 0 \in 0..MaxVersion /\ said' \subseteq Versions
  BY <1>1, <1>2, UpdateAssumption DEF Types
<1>7. Types'
  BY <1>1, <1>5, <1>6 DEF Types
<1>8. ASSUME Rising PROVE Rising'
  <2>1. \A v \in said' : v \in said \/ v = banner
    BY <1>1
  <2>2. \A q \in Checkers : pc[q] = "emit" => res[q].v \notin said' /\ res[q].v # 0
    <3>1. \A q \in Checkers : pc[q] = "emit" => res[q].v \in Versions
      BY DEF Types
    <3>2. 0 \notin Versions
      BY DEF Versions
    <3>3. QED
      BY <1>8, <2>1, <3>1, <3>2 DEF Rising
  <2>3. \A q \in Checkers : pc[q] = "gated" /\ res[q].v \in said' => res[q].v <= last
    BY <1>8, <2>1 DEF Rising
  <2>4. banner' <= last
    BY <1>1 DEF Types
  <2>5. QED
    BY <1>1, <1>8, <2>2, <2>3, <2>4 DEF Rising
<1>9. QED
  BY <1>1, <1>5, <1>7, <1>8

(* A process ends, or starts: it knows of its file what the last one saved,
   and of what that one announced nothing. *)
LEMMA SessionKeeps ==
    ASSUME IInv, RunUpdate \/ Quit \/ Start
    PROVE  IInv'
<1> USE DEF IInv
<1>1. /\ UNCHANGED <<feed, disk, said>> /\ NewSession(disk)
      /\ cur' \in {cur, banner}
  BY DEF RunUpdate, Quit, Start
<1>2. /\ st' = disk /\ last' = 0 /\ banner' = 0 /\ overtaken' = FALSE
      /\ pc' = [p \in Checkers |-> "idle"] /\ res' = [p \in Checkers |-> NoResult]
      /\ told' = [v \in Versions |-> 0]
  BY <1>1 DEF NewSession
<1>3. /\ pc' \in [Checkers -> Labels] /\ res' \in [Checkers -> Result]
      /\ \A p \in Checkers : pc'[p] = "idle" /\ res'[p].available = FALSE
      /\ told' \in [Versions -> Nat] /\ \A v \in Versions : told'[v] = 0
  BY <1>2, ResultTypes DEF Labels
<1>4. Types'
  <2>1. 0 \in 0..MaxVersion /\ cur' \in 0..MaxVersion
    BY <1>1, UpdateAssumption DEF Types
  <2>2. /\ last' \in 0..MaxVersion /\ banner' \in 0..MaxVersion
        /\ overtaken' \in BOOLEAN
    BY <1>2, <2>1
  <2>3. QED
    BY <1>1, <1>2, <1>3, <2>1, <2>2 DEF Types
<1>5. Saved'
  BY <1>1, <1>2 DEF Saved
<1>6. Rising'
  BY <1>2, <1>3 DEF Rising
<1>7. QED
  BY <1>4, <1>5, <1>6

(* The feed, the settings and the clock. *)
LEMMA OutsideKeeps ==
    ASSUME IInv, Focus \/ Toggle \/ Publish \/ Age
    PROVE  IInv'
<1> USE DEF IInv
<1>1. UNCHANGED <<cur, last, pc, res, banner, told, overtaken, said>>
  BY DEF Focus, Toggle, Publish, Age, session, seen
<1>2. /\ disk' \in State /\ st' \in State
      /\ disk'.dismissed = disk.dismissed /\ st'.dismissed = st.dismissed
  <2>1. CASE Age
    BY <2>1 DEF Age, Types, State
  <2>2. CASE UNCHANGED <<disk, st>>
    BY <2>2 DEF Types
  <2>3. QED
    BY <2>1, <2>2 DEF Focus, Toggle, Publish, session
<1>3. feed' \in [v : 0..MaxVersion, assets : {"none", "bad", "ok"}, rev : Nat]
  <2>1. CASE Publish
    <3>1. feed.v \in 0..MaxVersion /\ feed.rev \in Nat
      BY DEF Types
    <3>2. CASE feed.v < MaxVersion /\ \E a \in {"none", "bad", "ok"} :
                  feed' = [v |-> feed.v + 1, assets |-> a, rev |-> feed.rev + 1]
      <4>1. feed.v + 1 \in 0..MaxVersion /\ feed.rev + 1 \in Nat
        BY <3>1, <3>2, UpdateAssumption
      <4>2. PICK a \in {"none", "bad", "ok"} :
               feed' = [v |-> feed.v + 1, assets |-> a, rev |-> feed.rev + 1]
        BY <3>2
      <4>3. QED
        BY <4>1, <4>2
    <3>3. CASE feed' = [feed EXCEPT !.assets = "ok", !.rev = @ + 1]
      <4>1. /\ feed \in [v : 0..MaxVersion, assets : {"none", "bad", "ok"},
                         rev : Nat]
            /\ feed.rev + 1 \in Nat
        BY <3>1 DEF Types
      <4>2. QED
        BY <3>3, <4>1
    <3>4. QED
      BY <2>1, <3>2, <3>3 DEF Publish
  <2>2. CASE feed' = feed
    BY <2>2 DEF Types
  <2>3. QED
    BY <2>1, <2>2 DEF Focus, Toggle, Age
<1>4. Types'
  BY <1>1, <1>2, <1>3 DEF Types
<1>5. Saved'
  BY <1>1, <1>2 DEF Saved
<1>6. Rising => Rising'
  BY <1>1, RisingFrame
<1>7. QED
  BY <1>1, <1>4, <1>5, <1>6

-----------------------------------------------------------------------------
(* A program that has just started has told nobody anything. *)
LEMMA InitUpdate == Init => IInv
<1> SUFFICES ASSUME Init PROVE IInv
  OBVIOUS
<1>1. NoResult \in Result /\ NoResult.available = FALSE
  BY UpdateAssumption DEF NoResult, Result
<1>2. /\ pc \in [Checkers -> Labels] /\ res \in [Checkers -> Result]
      /\ \A p \in Checkers : pc[p] = "idle" /\ res[p].available = FALSE
      /\ told \in [Versions -> Nat] /\ \A v \in Versions : told[v] = 0
  BY <1>1 DEF Init, Labels
<1>3. disk \in State /\ st \in State
  BY DEF Init, State
<1>4. Types
  <2>1. 0 \in 0..MaxVersion
    BY UpdateAssumption
  <2>2. feed \in [v : 0..MaxVersion, assets : {"none", "bad", "ok"}, rev : Nat]
    BY <2>1 DEF Init
  <2>3. QED
    BY <1>2, <1>3, <2>1, <2>2 DEF Types, Init
<1>5. Saved
  BY DEF Saved, Init
<1>6. Rising
  BY <1>2 DEF Rising, Init
<1>7. QED
  BY <1>4, <1>5, <1>6 DEF IInv

(* Every action keeps the scheduler's invariant. *)
LEMMA NextUpdate == IInv /\ [Next]_vars => IInv'
<1> SUFFICES ASSUME IInv, [Next]_vars PROVE IInv'
  OBVIOUS
<1>1. CASE UNCHANGED vars
  <2>1. UNCHANGED <<feed, disk, cur, st, last, pc, res, banner, told, overtaken,
                    said>>
    BY <1>1 DEF vars, session, seen
  <2>2. Types' /\ Saved'
    BY <2>1 DEF IInv, Types, Saved
  <2>3. Rising => Rising'
    BY <2>1, RisingFrame
  <2>4. QED
    BY <2>1, <2>2, <2>3 DEF IInv
<1>2. CASE \E p \in Checkers : Check(p)
  BY <1>2, CheckKeeps
<1>3. CASE Wake \/ CheckNow
  BY <1>3, SendKeeps
<1>4. CASE Dismiss
  BY <1>4, DismissKeeps
<1>5. CASE RunUpdate \/ Quit \/ Start
  BY <1>5, SessionKeeps
<1>6. CASE Focus \/ Toggle \/ Publish \/ Age
  BY <1>6, OutsideKeeps
<1>7. QED
  BY <1>1, <1>2, <1>3, <1>4, <1>5, <1>6 DEF Next

(* The invariant holds in every behaviour. *)
LEMMA UpdateInvariant == Spec => []IInv
BY InitUpdate, NextUpdate, PTL DEF Spec

(* maybeNotify announces a version once in a session, however the checks of
   the loop and of the button interleave, unless an answer that a newer one
   has overtaken is announced after it. *)
THEOREM TellsOnce == Spec => []NotifyOnce
<1>1. IInv => NotifyOnce
  BY DEF IInv, Rising, NotifyOnce
<1>2. QED
  BY <1>1, UpdateInvariant, PTL

(* A version whose dismissal was saved is not announced again, in the session
   that dismissed it or in a later one, with the same exception: no step that
   keeps the session in order raises its count. *)
THEOREM DismissalHolds == Spec => DismissedStays
<1>1. ASSUME IInv, [Next]_vars, ~overtaken', NEW v \in said
      PROVE  told'[v] <= told[v]
  <2>1. v \in Versions /\ told[v] \in Nat
    BY <1>1 DEF IInv, Types
  <2>2. CASE told' = told
    BY <2>1, <2>2
  <2>3. CASE told' = [w \in Versions |-> 0]
    BY <2>1, <2>3
  <2>4. ASSUME NEW p \in Checkers, Emit(p), overtaken' = overtaken
        PROVE  told'[v] <= told[v]
    <3>1. Rising /\ pc[p] = "emit"
      BY <1>1, <2>4 DEF IInv, Emit
    <3>2. res[p].v # v
      BY <3>1 DEF Rising
    <3>3. told' = [told EXCEPT ![res[p].v] = @ + 1]
      BY <2>4 DEF Emit
    <3>4. told'[v] = told[v]
      BY <1>1, <2>1, <3>2, <3>3 DEF IInv, Types
    <3>5. QED
      BY <2>1, <3>4
  <2>5. \/ told' = told \/ told' = [w \in Versions |-> 0]
        \/ \E p \in Checkers : Emit(p) /\ overtaken' = overtaken
    <3>1. CASE Next
      <4>1. CASE \E p \in Checkers : Check(p)
        BY <4>1 DEF Check
      <4>2. CASE Wake \/ CheckNow \/ Focus \/ Toggle \/ Dismiss \/ Publish \/ Age
        BY <4>2 DEF Wake, CheckNow, Focus, Toggle, Dismiss, Publish, Age, seen
      <4>3. CASE RunUpdate \/ Quit \/ Start
        BY <4>3 DEF RunUpdate, Quit, Start, NewSession
      <4>4. QED
        BY <3>1, <4>1, <4>2, <4>3 DEF Next
    <3>2. CASE UNCHANGED vars
      BY <3>2 DEF vars, seen
    <3>3. QED BY <1>1, <3>1, <3>2
  <2>6. QED
    BY <2>2, <2>3, <2>4, <2>5
<1>2. IInv /\ [Next]_vars => [overtaken' \/ \A v \in said : told'[v] <= told[v]]_vars
  BY <1>1
<1>3. QED
  BY <1>2, UpdateInvariant, PTL DEF Spec, DismissedStays

=============================================================================
