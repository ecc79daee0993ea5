-------------------------- MODULE SystemStateProofs --------------------------
(***************************************************************************)
(* What the program leaves in the operating system, proved for any set of  *)
(* adapters, endpoints and networks, and any number of events.             *)
(*                                                                         *)
(* Each part has an inductive invariant of its own; a step of the whole is *)
(* a step of one part and leaves the others alone.                         *)
(***************************************************************************)
EXTENDS MCSystemState, TLAPS

all == <<part, userVars, vars, lvars, wvars, mvars, dvars, rvars>>

-----------------------------------------------------------------------------
(* Windows: where an operation is. *)
Linking == Windows!ConnectSteps
Detecting == <<"detect", "bypass", "verify", "half", "half", "dns", "up">>
Bypassing == <<"bypass", "verify", "half", "half", "dns", "up">>
Verifying == <<"verify", "half", "half", "dns", "up">>
Halving == <<"half", "half", "dns", "up">>
HalvingAgain == <<"half", "dns", "up">>
Naming == <<"dns", "up">>
Rising == <<"up">>
Unhalving == Windows!RemoveSteps
Unrouting == <<"rbypass", "close">>
Closing == <<"close">>

Looking == {Linking, Detecting}
Routing == {Bypassing, Verifying}
Routed == {Halving, HalvingAgain, Naming, Rising}
Removing == {Unhalving, Unrouting, Closing}

Wanted == target.eps \X {target.on}

(* Connected, or as good as: the endpoints' routes are in and on the list. *)
Standing == wtodo \in Routed \/ wup
Bare == wtodo \in Looking \cup Routing \cup {Closing} \/ (wtodo = << >> /\ ~wup)

Places ==
    /\ wtodo \in {<< >>} \cup Looking \cup Routing \cup Routed \cup Removing
    /\ wup \in BOOLEAN /\ mon = wup /\ (wup => wtodo = << >>)
    /\ halves \in Nat

(* The list of the routes, the routes, and the halves of the default route. *)
Listed ==
    /\ Standing => bypass = target
    /\ Bare => bypass = Windows!Nothing
    /\ halves > 0 => Standing \/ wtodo = Unhalving
    /\ (Standing \/ halves > 0) /\ ~lostRows => Wanted \subseteq rows
    /\ wtodo \notin Routing => rows \subseteq Windows!Kept \cup leaked
    /\ wtodo \in Routing => rows \subseteq Wanted \cup leaked

(* What an evaluation has resolved is so unless the network has changed since,
   in which case the timer runs. *)
On == {e \in 1..2 : evals[e].on}
Current == Windows!Resolved(pinned)
Pinned ==
    /\ evals = [e \in 1..2 |-> evals[e]]
    /\ On # {} => wup \/ wtodo \in Removing
    /\ mon /\ ~raced =>
          /\ \A d, e \in On : d = e
          /\ \A e \in On : evals[e].prev = lastV4
          /\ polled \/ sock = lastV4
          /\ ~armed => /\ \A e \in On : /\ evals[e].nic = Current
                                        /\ evals[e].why = Windows!Why(pinned)
                       /\ On = {} => /\ lastV4 = Current
                                     /\ reported = Windows!Why(pinned)

WindowsInv == Places /\ Listed /\ Pinned

(* The next step of an operation, and what is left after it. *)
LEMMA HeadsAndTails ==
    /\ Head(Linking) = "link" /\ Tail(Linking) = Detecting
    /\ Head(Detecting) = "detect" /\ Tail(Detecting) = Bypassing
    /\ Head(Bypassing) = "bypass" /\ Tail(Bypassing) = Verifying
    /\ Head(Verifying) = "verify" /\ Tail(Verifying) = Halving
    /\ Head(Halving) = "half" /\ Tail(Halving) = HalvingAgain
    /\ Head(HalvingAgain) = "half" /\ Tail(HalvingAgain) = Naming
    /\ Head(Naming) = "dns" /\ Tail(Naming) = Rising
    /\ Head(Rising) = "up" /\ Tail(Rising) = << >>
    /\ Head(Unhalving) = "rhalves" /\ Tail(Unhalving) = Unrouting
    /\ Head(Unrouting) = "rbypass" /\ Tail(Unrouting) = Closing
    /\ Head(Closing) = "close" /\ Tail(Closing) = << >>
<1>1. Head(Linking) = "link" /\ Tail(Linking) = Detecting
  BY DEF Linking, Detecting, Windows!ConnectSteps
<1>2. Head(Detecting) = "detect" /\ Tail(Detecting) = Bypassing
  BY DEF Detecting, Bypassing
<1>3. Head(Bypassing) = "bypass" /\ Tail(Bypassing) = Verifying
  BY DEF Bypassing, Verifying
<1>4. Head(Verifying) = "verify" /\ Tail(Verifying) = Halving
  BY DEF Verifying, Halving
<1>5. Head(Halving) = "half" /\ Tail(Halving) = HalvingAgain
  BY DEF Halving, HalvingAgain
<1>6. Head(HalvingAgain) = "half" /\ Tail(HalvingAgain) = Naming
  BY DEF HalvingAgain, Naming
<1>7. Head(Naming) = "dns" /\ Tail(Naming) = Rising
  BY DEF Naming, Rising
<1>8. Head(Rising) = "up" /\ Tail(Rising) = << >>
  BY DEF Rising
<1>9. Head(Unhalving) = "rhalves" /\ Tail(Unhalving) = Unrouting
  BY DEF Unhalving, Unrouting, Windows!RemoveSteps
<1>10. Head(Unrouting) = "rbypass" /\ Tail(Unrouting) = Closing
  BY DEF Unrouting, Closing
<1>11. Head(Closing) = "close" /\ Tail(Closing) = << >>
  BY DEF Closing
<1>12. QED
  BY <1>1, <1>2, <1>3, <1>4, <1>5, <1>6, <1>7, <1>8, <1>9, <1>10, <1>11

(* Which step of a connect or a disconnect is next says what is left to do. *)
LEMMA Heads ==
    ASSUME Places
    PROVE  /\ Windows!Step("link") => wtodo = Linking /\ Tail(wtodo) = Detecting
           /\ Windows!Step("detect") => wtodo = Detecting /\ Tail(wtodo) = Bypassing
           /\ Windows!Step("bypass") => wtodo = Bypassing /\ Tail(wtodo) = Verifying
           /\ Windows!Step("verify") => wtodo = Verifying /\ Tail(wtodo) = Halving
           /\ Windows!Step("half") \/ Windows!Step("dns") =>
                 wtodo \in Routed /\ Tail(wtodo) \in Routed
           /\ Windows!Step("up") => wtodo = Rising /\ Tail(wtodo) = << >>
           /\ Windows!Step("rhalves") => wtodo = Unhalving /\ Tail(wtodo) = Unrouting
           /\ Windows!Step("rbypass") => wtodo = Unrouting /\ Tail(wtodo) = Closing
           /\ Windows!Step("close") => wtodo = Closing /\ Tail(wtodo) = << >>
BY HeadsAndTails DEF Places, Windows!Step, Looking, Routing, Routed, Removing

(* The stages are different ones. *)
LEMMA Stages ==
    /\ \A s \in Looking \cup Routing \cup Routed \cup Removing : s # << >>
    /\ \A s \in Looking : s \notin Routing /\ s \notin Routed /\ s \notin Removing
    /\ \A s \in Routing : s \notin Routed /\ s \notin Removing
    /\ \A s \in Routed : s \notin Removing
    /\ Unhalving # Closing /\ Unrouting # Closing /\ Unrouting # Unhalving
BY DEF Looking, Routing, Routed, Removing, Linking, Detecting, Bypassing,
       Verifying, Halving, HalvingAgain, Naming, Rising, Unhalving, Unrouting,
       Closing, Windows!ConnectSteps, Windows!RemoveSteps

(* A step that leaves the routes, or the socket's pin, alone. *)
LEMMA ListedFrame ==
    ASSUME Places, Listed,
           UNCHANGED <<wtodo, wup, mon, halves, bypass, target, rows, lostRows, leaked>>
    PROVE  Places' /\ Listed'
BY DEF Places, Listed, Standing, Bare, Wanted, Windows!Kept

(* The socket's pin is kept by a step that changes neither adapters nor the
   monitor, as long as a monitor that is on has a tunnel or its teardown. *)
LEMMA PinnedFrame ==
    ASSUME Pinned,
           UNCHANGED <<evals, mon, raced, lastV4, polled, sock, armed, pinned,
                       reported, underlay, adapters>>,
           On # {} => wup' \/ wtodo' \in Removing
    PROVE  Pinned'
<1>1. On' = On /\ Current' = Current
  BY DEF On, Current, Windows!Resolved, Windows!Best
<1>2. QED
  BY <1>1 DEF Pinned, Windows!Why

-----------------------------------------------------------------------------
(* The steps of a connect up to the halves of the default route. *)
LEMMA RoutingKeeps ==
    ASSUME WindowsInv,
           Windows!Connect \/ Windows!Link \/ Windows!Detect \/ Windows!Bypass
              \/ Windows!Verify
    PROVE  WindowsInv'
<1> USE DEF WindowsInv
<1>1. /\ ~wup /\ wup' = wup /\ mon' = mon /\ UNCHANGED <<halves, lostRows>>
      /\ wtodo \in {<< >>} \cup Looking \cup Routing
      /\ UNCHANGED <<evals, raced, lastV4, polled, sock, armed, pinned, reported,
                     underlay, adapters>>
  <2>1. wtodo = << >> \/ wtodo \in Looking \cup Routing
    BY Heads DEF Windows!Connect, Windows!Link, Windows!Detect, Windows!Bypass,
                 Windows!Verify, Looking, Routing
  <2>2. ~wup
    BY <2>1, Stages DEF Places, Windows!Connect, Windows!Link, Windows!Detect,
                       Windows!Bypass, Windows!Verify, Windows!Step
  <2>3. QED
    BY <2>1, <2>2 DEF Windows!Connect, Windows!Link, Windows!Detect, Windows!Bypass,
           Windows!Verify, Windows!machine, Windows!monitor, Windows!history
<1>2. /\ ~Standing /\ Bare /\ bypass = Windows!Nothing /\ Windows!Kept = {}
      /\ halves = 0
  <2>1. ~Standing /\ Bare /\ wtodo # Unhalving
    BY <1>1, Stages DEF Standing, Bare, Removing
  <2>2. bypass = Windows!Nothing /\ halves = 0
    BY <2>1 DEF Listed, Places
  <2>3. QED
    BY <2>1, <2>2 DEF Windows!Kept, Windows!Nothing
<1>3. On = {}
  BY <1>1, Stages DEF Pinned, Removing
<1>4. Pinned'
  BY <1>1, <1>3, PinnedFrame
<1>5. CASE wtodo' = Unhalving /\ bypass' = bypass /\ rows' = rows /\ rows \subseteq leaked'
  <2>1. Places'
    BY <1>1, <1>5 DEF Places, Removing
  <2>2. ~Standing' /\ ~Bare' /\ wtodo' \notin Routing
    BY <1>1, <1>5, Stages DEF Standing, Bare, Removing
  <2>3. Listed'
    BY <1>1, <1>2, <1>5, <2>2 DEF Listed
  <2>4. QED BY <1>4, <2>1, <2>3
<1>6. CASE Windows!Connect
  <2>1. wtodo' = Linking /\ UNCHANGED <<bypass, rows, leaked, target>> /\ wtodo = << >>
    BY <1>6 DEF Windows!Connect, Windows!machine, Windows!history, Linking
  <2>2. Places' /\ wtodo' \in Looking
    BY <1>1, <2>1 DEF Places, Looking
  <2>3. ~Standing' /\ wtodo' \notin Routing /\ wtodo \notin Routing
    BY <1>1, <2>1, <2>2, Stages DEF Standing, Routing
  <2>4. Listed'
    BY <1>1, <1>2, <2>1, <2>3 DEF Listed, Windows!Kept
  <2>5. QED BY <1>4, <2>2, <2>4
<1>7. CASE Windows!Link
  <2>1. UNCHANGED <<bypass, rows, leaked, target>> /\ wtodo = Linking
    BY <1>7, Heads DEF Windows!Link, Windows!machine, Windows!history
  <2>2. wtodo \notin Routing
    BY <2>1, Stages DEF Looking
  <2>3. rows \subseteq leaked
    BY <1>2, <2>2 DEF Listed
  <2>4. CASE wtodo' = Unhalving
    BY <1>5, <2>1, <2>3, <2>4
  <2>5. CASE wtodo' = Detecting
    <3>1. Places' /\ wtodo' \in Looking
      BY <1>1, <2>5 DEF Places, Looking
    <3>2. ~Standing' /\ wtodo' \notin Routing
      BY <1>1, <3>1, Stages DEF Standing
    <3>3. Listed'
      BY <1>1, <1>2, <2>1, <2>3, <3>2 DEF Listed
    <3>4. QED BY <1>4, <3>1, <3>3
  <2>6. QED
    BY <1>7, <2>4, <2>5, Heads DEF Windows!Link, Windows!Finish, Windows!Fails,
                                  Unhalving
<1>8. CASE Windows!Detect
  <2>1. UNCHANGED <<bypass, rows, leaked>> /\ wtodo = Detecting
    BY <1>8, Heads DEF Windows!Detect, Windows!machine, Windows!history
  <2>2. wtodo \notin Routing
    BY <2>1, Stages DEF Looking
  <2>3. rows \subseteq leaked
    BY <1>2, <2>2 DEF Listed
  <2>4. CASE wtodo' = Unhalving
    BY <1>5, <2>1, <2>3, <2>4
  <2>5. CASE wtodo' = Bypassing
    <3>1. Places' /\ wtodo' \in Routing
      BY <1>1, <2>5 DEF Places, Routing
    <3>2. ~Standing'
      BY <1>1, <3>1, Stages DEF Standing
    <3>3. Listed'
      BY <1>1, <1>2, <2>1, <2>3, <3>1, <3>2 DEF Listed
    <3>4. QED BY <1>4, <3>1, <3>3
  <2>6. QED
    BY <1>8, <2>4, <2>5, Heads DEF Windows!Detect, Windows!Finish, Windows!Fails,
                                  Unhalving
<1>9. CASE Windows!Bypass
  <2>1. UNCHANGED <<bypass, target>> /\ wtodo = Bypassing /\ wtodo \in Routing
    BY <1>9, Heads DEF Windows!Bypass, Routing
  <2>2. rows \subseteq Wanted \cup leaked
    BY <2>1 DEF Listed
  <2>3. \/ wtodo' \in {Bypassing, Verifying} /\ leaked' = leaked
           /\ rows' \subseteq rows \cup Wanted
        \/ wtodo' = Unhalving /\ rows' = rows
           /\ leaked' = leaked \cup {r \in rows : r[2] = target.on}
    <3> DEFINE missing == {e \in target.eps : <<e, target.on>> \notin rows}
    <3>1. CASE missing = {}
      BY <1>9, <2>1, <3>1, Heads DEF Windows!Bypass, Windows!Finish
    <3>2. CASE missing # {} /\ wtodo' # wtodo
      <4>1. /\ Windows!Fails /\ UNCHANGED rows
            /\ leaked' = leaked \cup {r \in rows : r[2] = target.on}
        BY <1>9, <3>2 DEF Windows!Bypass
      <4>2. wtodo' = Unhalving
        BY <4>1 DEF Windows!Fails, Unhalving
      <4>3. QED BY <4>1, <4>2
    <3>3. CASE missing # {} /\ wtodo' = wtodo
      <4>0. wtodo # Unhalving
        BY <2>1, Stages DEF Removing
      <4>1. /\ \E e \in missing : rows' = rows \cup {<<e, target.on>>}
            /\ UNCHANGED <<wtodo, leaked>>
        BY <1>9, <3>3, <4>0 DEF Windows!Bypass, Windows!Fails, Unhalving
      <4>2. PICK e \in missing : rows' = rows \cup {<<e, target.on>>}
        BY <4>1
      <4>3. <<e, target.on>> \in Wanted
        BY DEF Wanted
      <4>4. QED BY <2>1, <4>1, <4>2, <4>3
    <3>4. QED BY <3>1, <3>2, <3>3
  <2>4. CASE wtodo' = Unhalving /\ rows' = rows
             /\ leaked' = leaked \cup {r \in rows : r[2] = target.on}
    <3>1. rows \subseteq leaked'
      BY <2>2, <2>4 DEF Wanted
    <3>2. QED BY <1>5, <2>1, <2>4, <3>1
  <2>5. CASE wtodo' \in {Bypassing, Verifying} /\ leaked' = leaked
             /\ rows' \subseteq rows \cup Wanted
    <3>1. Places' /\ wtodo' \in Routing
      BY <1>1, <2>5 DEF Places, Routing
    <3>2. ~Standing'
      BY <1>1, <3>1, Stages DEF Standing
    <3>3. Listed'
      BY <1>1, <1>2, <2>1, <2>2, <2>5, <3>1, <3>2 DEF Listed, Wanted
    <3>4. QED BY <1>4, <3>1, <3>3
  <2>6. QED BY <2>3, <2>4, <2>5
<1>10. CASE Windows!Verify
  <2>1. UNCHANGED <<rows, target>> /\ wtodo = Verifying /\ wtodo \in Routing
    BY <1>10, Heads DEF Windows!Verify, Windows!machine, Routing
  <2>2. rows \subseteq Wanted \cup leaked
    BY <2>1 DEF Listed
  <2>3. CASE \A e \in target.eps : <<e, target.on>> \in rows
    <3>1. wtodo' = Halving /\ bypass' = target /\ leaked' = leaked
      BY <1>10, <2>3, Heads DEF Windows!Verify, Windows!Finish
    <3>2. Places' /\ wtodo' \in Routed
      BY <1>1, <3>1 DEF Places, Routed
    <3>3. ~Bare' /\ wtodo' \notin Routing
      BY <1>1, <3>2, Stages DEF Bare, Removing
    <3>4. Wanted \subseteq rows
      BY <2>3 DEF Wanted
    <3>5. Windows!Kept' = Wanted
      BY <3>1 DEF Windows!Kept, Wanted
    <3>6. Listed'
      BY <1>1, <1>2, <2>1, <2>2, <3>1, <3>3, <3>4, <3>5 DEF Listed, Wanted
    <3>7. QED BY <1>4, <3>2, <3>6
  <2>4. CASE ~\A e \in target.eps : <<e, target.on>> \in rows
    <3>1. /\ wtodo' = Unhalving /\ bypass' = bypass
          /\ leaked' = leaked \cup {r \in rows : r[2] = target.on}
      BY <1>10, <2>4 DEF Windows!Verify, Windows!Fails, Unhalving
    <3>2. rows \subseteq leaked'
      BY <2>2, <3>1 DEF Wanted
    <3>3. QED BY <1>5, <2>1, <3>1, <3>2
  <2>5. QED BY <2>3, <2>4
<1>11. QED
  BY <1>6, <1>7, <1>8, <1>9, <1>10

-----------------------------------------------------------------------------
(* The halves of the default route, the tunnel's servers, and the connect's    *)
(* end: the endpoints' routes are in and on the list.                          *)
LEMMA RoutedKeeps ==
    ASSUME WindowsInv, Windows!Half \/ Windows!DNS \/ Windows!Up
    PROVE  WindowsInv'
<1> USE DEF WindowsInv
<1>1. wtodo \in Routed /\ UNCHANGED <<bypass, target, rows, lostRows, leaked>>
  BY Heads DEF Windows!Half, Windows!DNS, Windows!Up, Windows!machine,
               Windows!history, Routed
<1>2. ~wup /\ Standing /\ wtodo \notin Routing /\ wtodo # << >>
  BY <1>1, Stages DEF Places, Standing
<1>3. /\ bypass = target /\ (~lostRows => Wanted \subseteq rows)
      /\ rows \subseteq Windows!Kept \cup leaked
      /\ Wanted' = Wanted /\ Windows!Kept' = Windows!Kept
  BY <1>1, <1>2 DEF Listed, Wanted, Windows!Kept
<1>4. On = {}
  BY <1>1, <1>2, Stages DEF Pinned
<1>5. CASE wtodo' = Unhalving /\ wup' = wup /\ mon' = mon /\ halves' = halves /\ Pinned'
  <2>1. Places'
    BY <1>2, <1>5 DEF Places, Removing
  <2>2. ~Standing' /\ ~Bare' /\ wtodo' \notin Routing
    BY <1>2, <1>5, Stages DEF Standing, Bare, Removing
  <2>3. QED BY <1>1, <1>3, <1>5, <2>1, <2>2 DEF Listed
<1>6. CASE wtodo' \in Routed /\ wup' = wup /\ mon' = mon /\ halves' \in Nat /\ Pinned'
  <2>1. Places'
    BY <1>2, <1>6 DEF Places
  <2>2. Standing' /\ ~Bare' /\ wtodo' \notin Routing
    BY <1>2, <1>6, Stages DEF Standing, Bare, Removing
  <2>3. QED BY <1>1, <1>3, <1>6, <2>1, <2>2 DEF Listed
<1>7. CASE Windows!Half
  <2>1. UNCHANGED <<wup, mon, evals, raced, lastV4, polled, sock, armed, pinned,
                    reported, underlay, adapters>>
    BY <1>7 DEF Windows!Half, Windows!monitor, Windows!history
  <2>2. \/ wtodo' = Unhalving /\ halves' = halves
        \/ wtodo' \in Routed /\ halves' \in Nat
    <3>1. halves \in Nat /\ Tail(wtodo) \in Routed
      BY <1>7, Heads DEF Windows!Half, Places
    <3>2. \/ wtodo' = Unhalving /\ halves' = halves
          \/ wtodo' = Tail(wtodo) /\ halves' = halves + 1
      BY <1>7 DEF Windows!Half, Windows!Finish, Windows!Fails, Unhalving
    <3>3. halves + 1 \in Nat
      BY <3>1
    <3>4. CASE wtodo' = Tail(wtodo) /\ halves' = halves + 1
      BY <3>1, <3>3, <3>4 DEF Windows!Half
    <3>5. QED BY <3>2, <3>4
  <2>3. Pinned'
    BY <1>4, <2>1, PinnedFrame
  <2>4. QED BY <1>5, <1>6, <2>1, <2>2, <2>3
<1>8. CASE Windows!DNS
  <2>1. UNCHANGED <<wup, mon, halves, evals, raced, lastV4, polled, sock, armed, pinned,
                    reported, underlay, adapters>>
    BY <1>8 DEF Windows!DNS, Windows!machine, Windows!monitor, Windows!history
  <2>2. wtodo' = Unhalving \/ wtodo' \in Routed
    BY <1>8, Heads DEF Windows!DNS, Windows!Finish, Windows!Fails, Unhalving
  <2>3. Pinned'
    BY <1>4, <2>1, PinnedFrame
  <2>4. halves \in Nat
    BY DEF Places
  <2>5. QED BY <1>5, <1>6, <2>1, <2>2, <2>3, <2>4
<1>9. CASE Windows!Up
  <2>1. /\ wtodo' = << >> /\ wup' = TRUE /\ mon' = TRUE
        /\ UNCHANGED <<halves, evals, underlay, adapters>>
    BY <1>9, Heads DEF Windows!Up, Windows!Finish
  <2>2. Places'
    BY <2>1 DEF Places
  <2>3. Standing' /\ ~Bare' /\ wtodo' \notin Routing
    BY <2>1, Stages DEF Standing, Bare, Removing, Looking
  <2>4. Listed'
    BY <1>1, <1>3, <2>1, <2>3 DEF Listed
  <2>5. On' = {}
    BY <1>4, <2>1 DEF On
  <2>6. sock' = lastV4' /\ lastV4' = Current'
    BY <1>9, <2>1 DEF Windows!Up, Current, Windows!Resolved, Windows!Best
  <2>7. reported' = Windows!Why(pinned)'
    BY <1>9, <2>1 DEF Windows!Up, Windows!NoteLost, Windows!Why
  <2>8. Pinned'
    BY <2>1, <2>5, <2>6, <2>7 DEF Pinned
  <2>9. QED BY <2>2, <2>4, <2>8
<1>10. QED BY <1>7, <1>8, <1>9

(* A disconnect or a rollback, step by step, and the end of the process. *)
LEMMA RemovingKeeps ==
    ASSUME WindowsInv,
           Windows!Disconnect \/ Windows!RemoveHalves \/ Windows!RemoveBypass
              \/ Windows!Close \/ Windows!Crash
    PROVE  WindowsInv'
<1> USE DEF WindowsInv
<1>1. CASE Windows!Disconnect
  <2>1. /\ wtodo = << >> /\ wup /\ wtodo' = Unhalving /\ wup' = FALSE /\ mon' = FALSE
        /\ UNCHANGED <<bypass, target, rows, halves, lostRows, leaked, evals>>
    BY <1>1 DEF Windows!Disconnect, Windows!machine, Windows!history, Unhalving
  <2>2. Places' /\ wtodo' \in Removing
    BY <2>1 DEF Places, Removing
  <2>3. Standing /\ wtodo \notin Routing
    BY <2>1, Stages DEF Standing
  <2>4. ~Standing' /\ ~Bare' /\ wtodo' \notin Routing
    BY <2>1, <2>2, Stages DEF Standing, Bare
  <2>5. Listed'
    BY <2>1, <2>3, <2>4 DEF Listed, Wanted, Windows!Kept
  <2>6. Pinned'
    BY <2>1, <2>2 DEF Pinned, On
  <2>7. QED BY <2>2, <2>5, <2>6
<1>2. CASE Windows!RemoveHalves
  <2>1. /\ wtodo = Unhalving /\ wtodo' = Unrouting /\ halves' = 0
        /\ UNCHANGED <<wup, mon, bypass, target, rows, lostRows, leaked>>
        /\ UNCHANGED <<evals, raced, lastV4, polled, sock, armed, pinned, reported,
                       underlay, adapters>>
    BY <1>2, Heads DEF Windows!RemoveHalves, Windows!Finish, Windows!monitor,
                       Windows!history
  <2>2. Places' /\ wtodo' \in Removing /\ ~wup /\ wtodo \in Removing
    BY <2>1, Stages DEF Places, Removing
  <2>3. ~Standing' /\ ~Bare' /\ wtodo' \notin Routing /\ wtodo \notin Routing
    BY <2>1, <2>2, Stages DEF Standing, Bare
  <2>4. Listed'
    BY <2>1, <2>3 DEF Listed, Windows!Kept
  <2>5. Pinned'
    BY <2>1, <2>2, PinnedFrame
  <2>6. QED BY <2>2, <2>4, <2>5
<1>3. CASE Windows!RemoveBypass
  <2>1. /\ wtodo = Unrouting /\ wtodo' = Closing /\ bypass' = Windows!Nothing
        /\ rows' = rows \ Windows!Kept /\ leaked' = leaked \ Windows!Kept
        /\ UNCHANGED <<wup, mon, target, halves, lostRows>>
        /\ UNCHANGED <<evals, raced, lastV4, polled, sock, armed, pinned, reported,
                       underlay, adapters>>
    BY <1>3, Heads DEF Windows!RemoveBypass, Windows!Finish, Windows!monitor
  <2>2. Places' /\ wtodo' \in Removing /\ ~wup /\ wtodo \in Removing
    BY <2>1, Stages DEF Places, Removing
  <2>3. /\ ~Standing' /\ wtodo' \notin Routing
        /\ ~Standing /\ wtodo \notin Routing /\ wtodo # Unhalving
    BY <2>1, <2>2, Stages DEF Standing
  <2>4. halves = 0
    BY <2>3 DEF Listed, Places
  <2>5. rows' \subseteq leaked'
    BY <2>1, <2>3 DEF Listed
  <2>6. Listed'
    BY <2>1, <2>3, <2>4, <2>5 DEF Listed
  <2>7. Pinned'
    BY <2>1, <2>2, PinnedFrame
  <2>8. QED BY <2>2, <2>6, <2>7
<1>4. CASE Windows!Close
  <2>1. /\ wtodo = Closing /\ wtodo' = << >>
        /\ UNCHANGED <<wup, mon, bypass, target, rows, halves, lostRows, leaked>>
        /\ evals' = [e \in 1..2 |-> Windows!Idle]
    BY <1>4, Heads DEF Windows!Close, Windows!Finish, Windows!history
  <2>2. wtodo \in Removing /\ ~wup /\ ~mon /\ Places'
    BY <2>1, Stages DEF Places, Removing
  <2>3. /\ ~Standing' /\ wtodo' \notin Routing
        /\ Bare /\ ~Standing /\ wtodo \notin Routing /\ wtodo # Unhalving
    BY <2>1, <2>2, Stages DEF Standing, Bare, Removing
  <2>4. Listed'
    BY <2>1, <2>2, <2>3 DEF Listed, Windows!Kept
  <2>5. On' = {}
    BY <2>1 DEF On, Windows!Idle
  <2>6. Pinned'
    BY <2>1, <2>2, <2>5 DEF Pinned
  <2>7. QED BY <2>2, <2>4, <2>6
<1>5. CASE Windows!Crash
  <2>1. /\ wtodo' = << >> /\ wup' = FALSE /\ mon' = FALSE /\ halves' = 0
        /\ bypass' = Windows!Nothing /\ leaked' = rows /\ rows' = rows
        /\ evals' = [e \in 1..2 |-> Windows!Idle]
    BY <1>5 DEF Windows!Crash
  <2>2. Places'
    BY <2>1 DEF Places
  <2>3. ~Standing' /\ wtodo' \notin Routing
    BY <2>1, Stages DEF Standing
  <2>4. Listed'
    BY <2>1, <2>3 DEF Listed
  <2>5. On' = {}
    BY <2>1 DEF On, Windows!Idle
  <2>6. Pinned'
    BY <2>1, <2>5 DEF Pinned
  <2>7. QED BY <2>2, <2>4, <2>6
<1>6. QED BY <1>1, <1>2, <1>3, <1>4, <1>5

(* The network changes; the timer runs afterwards if the monitor is registered. *)
LEMMA NetworkKeeps ==
    ASSUME WindowsInv, Windows!NetworkChange
    PROVE  WindowsInv'
<1> USE DEF WindowsInv
<1>1. /\ UNCHANGED <<wtodo, wup, mon, halves, bypass, target, leaked>>
      /\ UNCHANGED <<evals, raced, lastV4, polled, sock, pinned, reported>>
      /\ armed' = (mon \/ armed)
  BY DEF Windows!NetworkChange, Windows!manager
<1>2. rows' \subseteq rows /\ (~lostRows' => ~lostRows /\ rows' = rows)
  BY DEF Windows!NetworkChange
<1>3. Places'
  BY <1>1 DEF Places
<1>4. /\ Standing' = Standing /\ Bare' = Bare /\ Wanted' = Wanted
      /\ Windows!Kept' = Windows!Kept
  BY <1>1 DEF Standing, Bare, Wanted, Windows!Kept
<1>5. Listed'
  BY <1>1, <1>2, <1>4 DEF Listed
<1>6. On' = On
  BY <1>1 DEF On
<1>7. mon' => armed'
  BY <1>1
<1>8. Pinned'
  BY <1>1, <1>6, <1>7 DEF Pinned
<1>9. QED BY <1>3, <1>5, <1>8

(* The start-up poll and the evaluations, which touch the socket alone. *)
LEMMA WatchKeeps ==
    ASSUME WindowsInv, Windows!Watch
    PROVE  WindowsInv'
<1> USE DEF WindowsInv
<1>1. UNCHANGED <<wtodo, wup, mon, halves, bypass, target, rows, lostRows, leaked>>
  BY DEF Windows!Watch, Windows!Poll, Windows!PollEnds, Windows!Evaluate, Windows!Bind,
         Windows!machine, Windows!manager, Windows!history
<1>2. Places' /\ Listed'
  BY <1>1, ListedFrame
<1>3. UNCHANGED <<pinned, underlay, adapters>>
  BY DEF Windows!Watch, Windows!Poll, Windows!PollEnds, Windows!Evaluate, Windows!Bind,
         Windows!machine
<1>4. Current' = Current /\ Windows!Why(pinned)' = Windows!Why(pinned)
  BY <1>3 DEF Current, Windows!Resolved, Windows!Best, Windows!Why
<1>5. CASE Windows!PollEnds
  <2>1. UNCHANGED <<evals, raced, lastV4, polled, sock, armed, reported>>
    BY <1>5 DEF Windows!PollEnds, Windows!machine, Windows!history
  <2>2. On # {} => wup' \/ wtodo' \in Removing
    BY <1>1 DEF Pinned
  <2>3. QED BY <1>1, <1>2, <1>3, <2>1, <2>2, PinnedFrame
<1>6. CASE Windows!Poll
  <2>1. /\ UNCHANGED <<evals, raced, lastV4, armed>>
        /\ sock' = Current /\ reported' = Windows!Why(pinned)
        /\ polled' = (Current # lastV4)
    BY <1>6 DEF Windows!Poll, Windows!NoteLost, Current
  <2>2. On' = On
    BY <2>1 DEF On
  <2>3. polled' \/ sock' = lastV4'
    BY <2>1
  <2>4. Pinned'
    BY <1>1, <1>4, <2>1, <2>2, <2>3 DEF Pinned
  <2>5. QED BY <1>2, <2>4
<1>7. ASSUME NEW e \in 1..2, Windows!Evaluate(e) PROVE Pinned'
  <2>1. /\ mon /\ armed /\ armed' = FALSE
        /\ UNCHANGED <<lastV4, sock, polled, reported>>
        /\ raced' = (raced \/ \E d \in 1..2 : evals[d].on)
    BY <1>7 DEF Windows!Evaluate, Windows!machine
  <2>2. evals' = [evals EXCEPT ![e] = [nic |-> Current, why |-> Windows!Why(pinned),
                                       prev |-> lastV4, on |-> TRUE]]
    BY <1>7 DEF Windows!Evaluate, Current
  <2>3. evals = [d \in 1..2 |-> evals[d]]
    BY DEF Pinned
  <2>4. /\ evals'[e].nic = Current /\ evals'[e].why = Windows!Why(pinned)
        /\ evals'[e].prev = lastV4 /\ evals'[e].on
        /\ \A d \in 1..2 : d # e => evals'[d] = evals[d]
        /\ evals' = [d \in 1..2 |-> evals'[d]]
    BY <2>2, <2>3
  <2>5. On' = On \cup {e}
    BY <2>4 DEF On
  <2>6. ~raced' => ~raced /\ On' = {e}
    BY <2>1, <2>5 DEF On
  <2>7. wup' /\ mon'
    BY <1>1, <2>1 DEF Places
  <2>8. ASSUME ~raced'
        PROVE  /\ \A c, d \in On' : c = d
               /\ \A d \in On' : evals'[d].prev = lastV4'
               /\ polled' \/ sock' = lastV4'
               /\ \A d \in On' : evals'[d].nic = Current' /\ evals'[d].why = Windows!Why(pinned)'
               /\ On' # {}
    <3>1. On' = {e} /\ (polled \/ sock = lastV4)
      BY <2>1, <2>6, <2>8 DEF Pinned
    <3>2. QED BY <1>4, <2>1, <2>4, <3>1
  <2>9. QED BY <2>4, <2>7, <2>8 DEF Pinned
<1>8. ASSUME NEW e \in 1..2, Windows!Bind(e) PROVE Pinned'
  <2>1. /\ evals[e].on /\ lastV4' = evals[e].nic /\ reported' = evals[e].why
        /\ UNCHANGED <<raced, armed>>
        /\ evals' = [evals EXCEPT ![e] = Windows!Idle]
        /\ evals[e].nic = evals[e].prev => UNCHANGED <<sock, polled>>
        /\ evals[e].nic # evals[e].prev => sock' = evals[e].nic
    BY <1>8 DEF Windows!Bind, Windows!NoteLost
  <2>2. evals = [d \in 1..2 |-> evals[d]]
    BY DEF Pinned
  <2>3. /\ ~evals'[e].on
        /\ \A d \in 1..2 : d # e => evals'[d] = evals[d]
        /\ evals' = [d \in 1..2 |-> evals'[d]]
    BY <2>1, <2>2 DEF Windows!Idle
  <2>4. On' = On \ {e} /\ e \in On
    BY <2>1, <2>3 DEF On
  <2>5. wup' \/ wtodo' \in Removing
    BY <1>1, <2>4 DEF Pinned
  <2>6. ASSUME mon', ~raced'
        PROVE  /\ On' = {} /\ (polled' \/ sock' = lastV4')
               /\ ~armed' => lastV4' = Current' /\ reported' = Windows!Why(pinned)'
    <3>1. /\ \A c, d \in On : c = d
          /\ evals[e].prev = lastV4
          /\ polled \/ sock = lastV4
          /\ ~armed => evals[e].nic = Current /\ evals[e].why = Windows!Why(pinned)
      BY <1>1, <2>1, <2>4, <2>6 DEF Pinned
    <3>2. On' = {}
      BY <2>4, <3>1
    <3>3. polled' \/ sock' = lastV4'
      BY <2>1, <3>1
    <3>4. QED BY <1>4, <2>1, <3>1, <3>2, <3>3
  <2>7. QED BY <2>3, <2>5, <2>6 DEF Pinned
<1>9. QED
  BY <1>2, <1>5, <1>6, <1>7, <1>8 DEF Windows!Watch

(* The invariant holds at first and in every step of the whole. *)
LEMMA WindowsInitially ==
    ASSUME MCInit
    PROVE  WindowsInv
<1>1. /\ wtodo = << >> /\ wup = FALSE /\ mon = FALSE /\ halves = 0
      /\ bypass = Windows!Nothing /\ rows = {}
      /\ evals = [e \in 1..2 |-> Windows!Idle]
  BY DEF MCInit, Windows!Init
<1>2. On = {} /\ ~Standing /\ wtodo \notin Routing
  BY <1>1, Stages DEF On, Standing, Windows!Idle
<1>3. Places
  BY <1>1 DEF Places
<1>4. Listed
  BY <1>1, <1>2 DEF Listed
<1>5. evals = [e \in 1..2 |-> evals[e]]
  BY <1>1
<1>6. QED
  BY <1>1, <1>2, <1>3, <1>4, <1>5 DEF WindowsInv, Pinned

(* No step, of this part or of another, breaks the invariant of the Windows
   network manager. *)
LEMMA WindowsKept ==
    ASSUME WindowsInv, [MCNext]_all
    PROVE  WindowsInv'
<1>1. CASE UNCHANGED wvars
  <2>1. Places' /\ Listed'
    BY <1>1, ListedFrame DEF WindowsInv, wvars
  <2>2. On # {} => wup' \/ wtodo' \in Removing
    BY <1>1 DEF WindowsInv, Pinned, wvars
  <2>3. Pinned'
    BY <1>1, <2>2, PinnedFrame DEF WindowsInv, wvars
  <2>4. QED BY <2>1, <2>3 DEF WindowsInv
<1>2. CASE Windows!Next
  BY <1>2, RoutingKeeps, RoutedKeeps, RemovingKeeps, NetworkKeeps, WatchKeeps
     DEF Windows!Next, Windows!Operate
<1>3. QED
  BY <1>1, <1>2 DEF MCNext, SystemNext, all

(* At every step of a connect, a rollback and a disconnect on Windows, the     *)
(* packets to every endpoint go out by a route of their own while a half of    *)
(* the default route leads into the tunnel, and between two operations the     *)
(* routes left are the connected tunnel's, or known to be left behind.         *)
(* (network/windows.go addFullTunnelRoutes, RemoveRoutes)                      *)
THEOREM RoutesOutOfTheTunnel == MCSpec => []BypassHolds
<1>1. MCInit => WindowsInv
  BY WindowsInitially
<1>2. WindowsInv /\ [MCNext]_all => WindowsInv'
  BY WindowsKept
<1>3. WindowsInv => BypassHolds
  <2>1. SUFFICES ASSUME WindowsInv PROVE BypassHolds
    OBVIOUS
  <2>2. halves > 0 /\ ~lostRows => Wanted \subseteq rows
    BY <2>1 DEF WindowsInv, Listed
  <2>3. wtodo = << >> => rows \subseteq Windows!Kept \cup leaked
    BY <2>1, Stages DEF WindowsInv, Listed
  <2>4. QED BY <2>2, <2>3 DEF BypassHolds, Windows!BypassHolds, Wanted
<1>4. QED BY <1>1, <1>2, <1>3, PTL DEF MCSpec, all

(* Once the monitor has nothing left to look at, the socket is on the adapter  *)
(* of the best default route or on the pinned one, and a pinned adapter that   *)
(* is gone is reported, if no two evaluations have overlapped and the start-up *)
(* poll has not bound the socket elsewhere.                                    *)
(* (network/socket_bind_windows.go reevaluate, evaluateOneFamily)              *)
THEOREM SocketFollows == MCSpec => []PinFollows
<1>1. MCInit => WindowsInv
  BY WindowsInitially
<1>2. WindowsInv /\ [MCNext]_all => WindowsInv'
  BY WindowsKept
<1>3. WindowsInv => PinFollows
  <2>1. SUFFICES ASSUME WindowsInv, mon, ~armed, ~raced,
                        ~(\E e \in 1..2 : evals[e].on)
                 PROVE  /\ lastV4 = Current
                        /\ polled \/ sock = lastV4
                        /\ reported = Windows!Why(pinned)
    BY DEF PinFollows, Windows!PinFollows, Current
  <2>2. On = {}
    BY <2>1 DEF On
  <2>3. QED BY <2>1, <2>2 DEF WindowsInv, Pinned
<1>4. QED BY <1>1, <1>2, <1>3, PTL DEF MCSpec, all

-----------------------------------------------------------------------------
(* The loop watchdog. *)
Connects == {1, 2}
Dog == dog[session]
Runs == session \in Connects /\ Watchdog!Ticking(session)

DogTypes ==
    /\ session \in Connects \cup {0}
    /\ phase # "down" => session \in Connects
    /\ dog \in [Connects -> [at : {"off", "watching", "cancelled", "gone"}, have : BOOLEAN,
                             over : Nat, gain : Nat \X Nat, tick : BOOLEAN]]
    /\ trip = [s \in Connects |-> trip[s]]
    /\ streak \in Nat /\ looped \in Nat /\ looped <= streak /\ prompt \in Nat

(* A connect that is still to come has no watchdog and has not tripped. *)
Unborn == \A s \in Connects : s > session => dog[s] = Watchdog!Asleep /\ trip[s] = {}

(* The periods over both thresholds, up to the last one read. *)
Told == IF Dog.tick THEN streak - 1 ELSE streak

(* Of the last samples, all in time, each but the first is of one period: the  *)
(* count is the length of the streak, or at least of those samples.            *)
Sampled ==
    Runs =>
        /\ Dog.over < Watchdog!Sustained
        /\ ~Dog.tick => Dog.gain = <<0, 0>>
        /\ prompt > 0 =>
              /\ Dog.have
              /\ Dog.tick => (Watchdog!Runaway(Dog.gain[1], Dog.gain[2]) <=> streak > 0)
              /\ Told >= 0 /\ Told < prompt - 1 => Dog.over = Told
              /\ Told >= prompt - 1 => Dog.over >= prompt - 1

Tripped ==
    session \in Connects =>
        /\ phase = "up" /\ trip[session] # {} => forced # {}
        /\ \A h \in trip[session] :
              h.prompt > Watchdog!Sustained => h.streak >= Watchdog!Sustained

WatchdogInv == DogTypes /\ Unborn /\ Sampled /\ Tripped

(* What the count depends on. *)
LEMMA SampledFrame ==
    ASSUME Sampled, UNCHANGED <<session, streak, prompt>>, Runs' => Runs,
           Dog'.tick = Dog.tick, Dog'.gain = Dog.gain, Dog'.have = Dog.have,
           Dog'.over = Dog.over
    PROVE  Sampled'
<1>1. Told' = Told
  BY DEF Told
<1>2. QED BY <1>1 DEF Sampled

(* A connect, and a disconnect, by the user or by a watchdog. *)
LEMMA SessionKeeps ==
    ASSUME WatchdogInv,
           Watchdog!Connect \/ Watchdog!Disconnect \/ Watchdog!ForcedDisconnect
              \/ Watchdog!TornDown
    PROVE  WatchdogInv'
<1> USE DEF WatchdogInv
<1>1. CASE Watchdog!Connect
  <2>1. /\ session + 1 \in Connects /\ session' = session + 1
        /\ streak' = 0 /\ looped' = 0 /\ prompt' = 0
        /\ UNCHANGED <<forced, trip>>
    BY <1>1 DEF Watchdog!Connect, Connects
  <2>2. PICK at \in {"watching", "gone"} : dog' = [dog EXCEPT ![session + 1].at = at]
    BY <1>1 DEF Watchdog!Connect
  <2>3. dog[session + 1] = Watchdog!Asleep /\ trip[session + 1] = {}
    BY <2>1 DEF Unborn, Connects, DogTypes
  <2>4. DogTypes'
    BY <2>1, <2>2 DEF DogTypes
  <2>5. /\ dog'[session + 1] = [Watchdog!Asleep EXCEPT !.at = at]
        /\ \A s \in Connects : s # session + 1 => dog'[s] = dog[s]
    BY <2>1, <2>2, <2>3 DEF DogTypes
  <2>6. Unborn'
    BY <2>1, <2>5 DEF Unborn, Connects, DogTypes
  <2>7. Dog' = [Watchdog!Asleep EXCEPT !.at = at]
    BY <2>1, <2>5 DEF Dog
  <2>8. Dog'.over = 0 /\ Dog'.gain = <<0, 0>>
    BY <2>7 DEF Watchdog!Asleep
  <2>9. Sampled'
    BY <2>1, <2>8 DEF Sampled, Watchdog!Sustained
  <2>10. Tripped'
    BY <2>1, <2>3 DEF Tripped
  <2>11. QED BY <2>4, <2>6, <2>9, <2>10
<1>2. ASSUME Watchdog!Cancel, session \in Connects, phase' = "ending",
             UNCHANGED <<session, streak, looped, prompt, trip>>
      PROVE  WatchdogInv'
  <2>1. PICK at \in {"off", "watching", "cancelled", "gone"} :
           /\ dog' = [dog EXCEPT ![session].at = at]
           /\ at \in {"watching", "cancelled"} => Dog.at \in {"watching", "cancelled"}
    <3> DEFINE at == IF Dog.at = "watching" THEN "cancelled" ELSE Dog.at
    <3>1. at \in {"off", "watching", "cancelled", "gone"}
      BY <1>2 DEF DogTypes, Dog
    <3>2. dog' = [dog EXCEPT ![session].at = at]
      BY <1>2 DEF Watchdog!Cancel, Dog
    <3>3. at \in {"watching", "cancelled"} => Dog.at \in {"watching", "cancelled"}
      OBVIOUS
    <3>4. QED BY <3>1, <3>2, <3>3
  <2>2. DogTypes'
    BY <1>2, <2>1 DEF DogTypes
  <2>3. /\ Dog' = [Dog EXCEPT !.at = at]
        /\ \A s \in Connects : s # session => dog'[s] = dog[s]
    BY <1>2, <2>1 DEF DogTypes, Dog
  <2>4. Unborn'
    BY <1>2, <2>3 DEF Unborn, Connects
  <2>5. /\ Dog'.tick = Dog.tick /\ Dog'.gain = Dog.gain /\ Dog'.have = Dog.have
        /\ Dog'.over = Dog.over /\ Dog'.at = at
    BY <1>2, <2>3 DEF DogTypes, Dog
  <2>6. Runs' => Runs
    BY <1>2, <2>1, <2>5 DEF Runs, Watchdog!Ticking, Dog
  <2>7. Sampled'
    BY <1>2, <2>5, <2>6, SampledFrame
  <2>8. Tripped'
    BY <1>2 DEF Tripped
  <2>9. QED BY <2>2, <2>4, <2>7, <2>8
<1>3. ASSUME UNCHANGED <<session, streak, looped, prompt, trip, dog>>, phase # "up", phase' # "up",
             phase' # "down" => phase # "down"
      PROVE  WatchdogInv'
  <2>1. DogTypes' /\ Unborn'
    BY <1>3 DEF DogTypes, Unborn
  <2>2. Dog' = Dog /\ Runs' = Runs
    BY <1>3 DEF Dog, Runs, Watchdog!Ticking
  <2>3. Sampled'
    BY <1>3, <2>2, SampledFrame
  <2>4. Tripped'
    BY <1>3 DEF Tripped
  <2>5. QED BY <2>1, <2>3, <2>4
<1>4. CASE Watchdog!Disconnect
  <2>1. session \in Connects
    BY <1>4 DEF Watchdog!Disconnect, DogTypes
  <2>2. QED BY <1>2, <1>4, <2>1 DEF Watchdog!Disconnect
<1>5. CASE Watchdog!ForcedDisconnect
  <2>1. UNCHANGED <<session, trip, streak, looped, prompt>>
    BY <1>5 DEF Watchdog!ForcedDisconnect
  <2>2. IF phase = "up" THEN phase' = "ending" /\ Watchdog!Cancel
        ELSE UNCHANGED <<phase, dog>>
    BY <1>5 DEF Watchdog!ForcedDisconnect
  <2>3. phase = "up" => session \in Connects
    BY DEF DogTypes
  <2>4. QED BY <1>2, <1>3, <2>1, <2>2, <2>3
<1>6. CASE Watchdog!TornDown
  BY <1>3, <1>6 DEF Watchdog!TornDown
<1>7. QED BY <1>1, <1>4, <1>5, <1>6

(* Five seconds pass: what is not read is one period, or the samples are not   *)
(* in time any more.                                                           *)
LEMMA PeriodKeeps ==
    ASSUME WatchdogInv,
           NEW t \in {<<0, 0>>, <<25, 0>>, <<50, 0>>, <<50, 1>>, <<50, 6>>},
           Watchdog!Period(t)
    PROVE  WatchdogInv'
<1> USE DEF WatchdogInv
<1> DEFINE loops1 == Watchdog!Runaway(t[1], t[2])
<1>0. Watchdog!Loops(t[1], t[2]) => loops1
  <2>1. t[2] = 0 => loops1 \/ ~Watchdog!Loops(t[1], t[2])
    BY DEF Watchdog!Loops, Watchdog!Runaway
  <2>2. t = <<50, 1>> \/ t = <<50, 6>> => ~Watchdog!Loops(t[1], t[2])
    BY DEF Watchdog!Loops, Watchdog!Upload
  <2>3. QED BY <2>1, <2>2
<1>1. t[1] \in Nat /\ t[2] \in Nat
  OBVIOUS
<1>2. /\ phase # "down" /\ UNCHANGED <<session, phase, forced, trip>>
      /\ streak' = IF loops1 THEN streak + 1 ELSE 0
      /\ looped' = IF Watchdog!Loops(t[1], t[2]) THEN looped + 1 ELSE 0
      /\ prompt' = IF Dog.tick THEN 0 ELSE prompt
  BY DEF Watchdog!Period, Dog
<1> HIDE DEF loops1
<1>3. session \in Connects
  BY <1>2 DEF DogTypes
<1>4. dog' = [s \in Connects |->
                 IF ~Watchdog!Ticking(s) THEN dog[s]
                 ELSE [dog[s] EXCEPT !.tick = TRUE,
                           !.gain = IF s = session THEN <<@[1] + t[1], @[2] + t[2]>> ELSE @]]
  BY DEF Watchdog!Period, Connects
<1>5. DogTypes'
  <2>1. streak' \in Nat /\ looped' \in Nat /\ looped' <= streak' /\ prompt' \in Nat
    BY <1>0, <1>2 DEF DogTypes
  <2>2. ASSUME NEW s \in Connects
        PROVE  dog'[s] \in [at : {"off", "watching", "cancelled", "gone"}, have : BOOLEAN,
                             over : Nat, gain : Nat \X Nat, tick : BOOLEAN]
    <3>1. dog[s] \in [at : {"off", "watching", "cancelled", "gone"}, have : BOOLEAN,
                             over : Nat, gain : Nat \X Nat, tick : BOOLEAN]
      BY DEF DogTypes
    <3>2. <<dog[s].gain[1] + t[1], dog[s].gain[2] + t[2]>> \in Nat \X Nat
      BY <1>1, <3>1
    <3>3. QED BY <1>4, <3>1, <3>2
  <2>3. QED BY <1>2, <1>4, <2>1, <2>2 DEF DogTypes
<1>6. Unborn'
  <2>1. ASSUME NEW s \in Connects, s > session
        PROVE  dog'[s] = Watchdog!Asleep
    <3>1. dog[s] = Watchdog!Asleep
      BY <2>1 DEF Unborn
    <3>2. ~Watchdog!Ticking(s)
      BY <3>1 DEF Watchdog!Ticking, Watchdog!Asleep
    <3>3. QED BY <1>4, <3>1, <3>2
  <2>2. QED BY <1>2, <2>1 DEF Unborn
<1>7. Tripped'
  BY <1>2 DEF Tripped
<1>8. Sampled'
  <2>1. SUFFICES ASSUME Runs' PROVE Sampled'
    BY DEF Sampled
  <2>2. /\ Dog \in [at : {"off", "watching", "cancelled", "gone"}, have : BOOLEAN,
                    over : Nat, gain : Nat \X Nat, tick : BOOLEAN]
        /\ Dog' = IF ~Watchdog!Ticking(session) THEN Dog
                  ELSE [Dog EXCEPT !.tick = TRUE,
                            !.gain = <<Dog.gain[1] + t[1], Dog.gain[2] + t[2]>>]
    BY <1>2, <1>3, <1>4 DEF Dog, DogTypes
  <2>3. Watchdog!Ticking(session)
    BY <1>2, <2>1, <2>2 DEF Runs, Watchdog!Ticking, Dog
  <2>4. /\ Dog'.tick = TRUE /\ Dog'.over = Dog.over /\ Dog'.have = Dog.have
        /\ Dog'.gain = <<Dog.gain[1] + t[1], Dog.gain[2] + t[2]>>
    BY <2>2, <2>3
  <2>5. Runs
    BY <1>3, <2>3 DEF Runs
  <2>6. Dog.over < Watchdog!Sustained
    BY <2>5 DEF Sampled
  <2>7. CASE prompt' = 0
    BY <2>4, <2>6, <2>7 DEF Sampled
  <2>8. CASE prompt' # 0
    <3>1. ~Dog.tick /\ prompt' = prompt /\ prompt > 0
      BY <1>2, <2>8 DEF DogTypes
    <3>2. /\ Dog.gain = <<0, 0>> /\ Dog.have
          /\ Told = streak
          /\ Told < prompt - 1 => Dog.over = Told
          /\ Told >= prompt - 1 => Dog.over >= prompt - 1
      BY <2>5, <3>1 DEF Sampled, DogTypes, Told
    <3>3. Dog'.gain[1] = t[1] /\ Dog'.gain[2] = t[2]
      BY <1>1, <2>4, <3>2
    <3>4. Told' = streak' - 1
      BY <2>4 DEF Told
    <3>5. Watchdog!Runaway(Dog'.gain[1], Dog'.gain[2]) <=> streak' > 0
      BY <1>2, <3>3 DEF loops1, DogTypes
    <3>6. /\ Told' >= 0 /\ Told' < prompt' - 1 => Dog'.over = Told'
          /\ Told' >= prompt' - 1 => Dog'.over >= prompt' - 1
      <4>1. CASE loops1
        BY <1>2, <2>4, <3>1, <3>2, <3>4, <4>1 DEF DogTypes
      <4>2. CASE ~loops1
        BY <1>2, <2>4, <3>1, <3>2, <3>4, <4>2 DEF DogTypes
      <4>3. QED BY <4>1, <4>2
    <3>7. QED BY <2>4, <2>6, <3>2, <3>5, <3>6 DEF Sampled
  <2>9. QED BY <2>7, <2>8
<1>9. QED BY <1>5, <1>6, <1>7, <1>8

(* A reading, one that fails, and the end of a watchdog that is cancelled. *)
LEMMA ReadingKeeps ==
    ASSUME WatchdogInv, NEW s \in Connects,
           Watchdog!Sample(s) \/ Watchdog!SampleFails(s) \/ Watchdog!Returns(s)
    PROVE  WatchdogInv'
<1> USE DEF WatchdogInv
<1>1. /\ UNCHANGED <<session, phase, streak, looped>> /\ Watchdog!Ticking(s)
      /\ s # session => prompt' = prompt
  BY DEF Watchdog!Sample, Watchdog!SampleFails, Watchdog!Returns, Watchdog!Wakes,
         Watchdog!Ticking, Watchdog!Prompt
<1>2. PICK d : dog' = [dog EXCEPT ![s] = d]
  BY DEF Watchdog!Sample, Watchdog!SampleFails, Watchdog!Returns
<1>3. /\ \A r \in Connects : r # s => dog'[r] = dog[r]
      /\ dog'[s] = d
  BY <1>2 DEF DogTypes
<1>4. ~(s > session)
  BY <1>1 DEF Unborn, Watchdog!Ticking, Watchdog!Asleep
<1>5. trip' = trip \/ \E x : trip' = [trip EXCEPT ![s] = x]
  BY DEF Watchdog!Sample, Watchdog!SampleFails, Watchdog!Returns
<1>6. /\ trip' = [r \in Connects |-> trip'[r]]
      /\ \A r \in Connects : r # s => trip'[r] = trip[r]
  BY <1>5 DEF DogTypes
<1>7. Unborn'
  BY <1>1, <1>3, <1>4, <1>6 DEF Unborn
<1>8. dog[s] \in [at : {"off", "watching", "cancelled", "gone"}, have : BOOLEAN,
                  over : Nat, gain : Nat \X Nat, tick : BOOLEAN]
  BY DEF DogTypes
<1>9. ASSUME d \in [at : {"off", "watching", "cancelled", "gone"}, have : BOOLEAN,
                    over : Nat, gain : Nat \X Nat, tick : BOOLEAN],
             prompt' \in Nat
      PROVE  DogTypes'
  BY <1>1, <1>2, <1>6, <1>9 DEF DogTypes
<1>10. forced \subseteq forced'
  BY DEF Watchdog!Sample, Watchdog!SampleFails, Watchdog!Returns
<1>11. CASE Watchdog!SampleFails(s)
  <2>1. d = [Watchdog!Asleep EXCEPT !.at = dog[s].at] /\ trip' = trip
    BY <1>3, <1>11 DEF Watchdog!SampleFails, DogTypes
  <2>2. s = session => prompt' = 0
    BY <1>11 DEF Watchdog!SampleFails
  <2>3. /\ d \in [at : {"off", "watching", "cancelled", "gone"}, have : BOOLEAN,
                  over : Nat, gain : Nat \X Nat, tick : BOOLEAN]
        /\ d.over = 0 /\ d.gain = <<0, 0>>
    BY <1>8, <2>1 DEF Watchdog!Asleep
  <2>4. DogTypes'
    BY <1>1, <1>9, <2>2, <2>3 DEF DogTypes
  <2>5. CASE s = session
    <3>1. Dog' = d
      BY <1>1, <1>3, <2>5 DEF Dog
    <3>2. Sampled'
      BY <2>2, <2>3, <2>5, <3>1 DEF Sampled, Watchdog!Sustained
    <3>3. QED BY <1>1, <1>7, <1>10, <2>1, <2>4, <3>2 DEF Tripped
  <2>6. CASE s # session
    <3>1. session \in Connects => Dog' = Dog
      BY <1>1, <1>3, <2>6 DEF Dog
    <3>2. Runs' => Runs /\ session \in Connects
      BY <1>1, <3>1 DEF Runs, Watchdog!Ticking, Dog
    <3>3. Sampled'
      BY <1>1, <2>6, <3>1, <3>2, SampledFrame DEF Sampled
    <3>4. QED BY <1>1, <1>7, <1>10, <2>1, <2>4, <3>3 DEF Tripped
  <2>7. QED BY <2>5, <2>6
<1>12. CASE Watchdog!Returns(s)
  <2>1. d = [Watchdog!Asleep EXCEPT !.at = "gone"] /\ trip' = trip /\ prompt' = prompt
    BY <1>3, <1>12 DEF Watchdog!Returns, DogTypes
  <2>2. /\ d \in [at : {"off", "watching", "cancelled", "gone"}, have : BOOLEAN,
                  over : Nat, gain : Nat \X Nat, tick : BOOLEAN]
        /\ d.at = "gone"
    BY <2>1 DEF Watchdog!Asleep
  <2>3. DogTypes'
    BY <1>9, <2>1, <2>2 DEF DogTypes
  <2>4. CASE s = session
    <3>1. ~Runs'
      BY <1>1, <1>3, <2>2, <2>4 DEF Runs, Watchdog!Ticking
    <3>2. QED BY <1>1, <1>7, <1>10, <2>1, <2>3, <3>1 DEF Tripped, Sampled
  <2>5. CASE s # session
    <3>1. session \in Connects => Dog' = Dog
      BY <1>1, <1>3, <2>5 DEF Dog
    <3>2. Runs' => Runs /\ session \in Connects
      BY <1>1, <3>1 DEF Runs, Watchdog!Ticking, Dog
    <3>3. Sampled'
      BY <1>1, <2>1, <3>1, <3>2, SampledFrame DEF Sampled
    <3>4. QED BY <1>1, <1>7, <1>10, <2>1, <2>3, <3>3 DEF Tripped
  <2>6. QED BY <2>4, <2>5
<1>13. CASE Watchdog!Sample(s)
  <2> DEFINE over == IF dog[s].have THEN Watchdog!Counted(dog[s]) ELSE 0
             trips == over >= Watchdog!Sustained
  <2>1. /\ dog[s].tick /\ prompt' = IF s = session THEN prompt + 1 ELSE prompt
        /\ dog' = [dog EXCEPT ![s] = [at |-> IF trips THEN "gone" ELSE dog[s].at,
                       have |-> TRUE, over |-> over, gain |-> <<0, 0>>, tick |-> FALSE]]
        /\ forced' = IF trips THEN forced \cup {s} ELSE forced
        /\ trip' = IF trips THEN [trip EXCEPT ![s] =
                                     {[streak |-> streak, prompt |-> prompt']}]
                   ELSE trip
    BY <1>8, <1>13 DEF Watchdog!Sample, Watchdog!Wakes, Watchdog!Prompt
  <2>2. over \in Nat
    BY <1>8 DEF Watchdog!Counted
  <2>3. over = IF dog[s].have /\ Watchdog!Runaway(dog[s].gain[1], dog[s].gain[2])
               THEN dog[s].over + 1 ELSE 0
    BY <1>8 DEF Watchdog!Counted
  <2> HIDE DEF over
  <2>4. d = [at |-> IF trips THEN "gone" ELSE dog[s].at, have |-> TRUE, over |-> over,
             gain |-> <<0, 0>>, tick |-> FALSE]
    BY <1>3, <2>1 DEF DogTypes
  <2>5. d \in [at : {"off", "watching", "cancelled", "gone"}, have : BOOLEAN,
               over : Nat, gain : Nat \X Nat, tick : BOOLEAN]
    BY <1>8, <2>2, <2>4
  <2>6. DogTypes'
    BY <1>9, <2>1, <2>5 DEF DogTypes
  <2>7. CASE s # session
    <3>1. session \in Connects => Dog' = Dog
      BY <1>1, <1>3, <2>7 DEF Dog
    <3>2. Runs' => Runs /\ session \in Connects
      BY <1>1, <3>1 DEF Runs, Watchdog!Ticking, Dog
    <3>3. Sampled'
      BY <1>1, <2>7, <3>1, <3>2, SampledFrame DEF Sampled
    <3>4. session \in Connects => trip'[session'] = trip[session]
      BY <1>1, <1>6, <2>7
    <3>5. Tripped'
      BY <1>1, <1>10, <3>4 DEF Tripped
    <3>6. QED BY <1>7, <2>6, <3>3, <3>5
  <2>8. CASE s = session
    <3>1. Runs /\ Dog = dog[s] /\ Dog.tick /\ prompt' = prompt + 1
      BY <1>1, <2>1, <2>8 DEF Runs, Dog
    <3>2. Dog' = d
      BY <1>1, <1>3, <2>8 DEF Dog
    <3>3. /\ Dog'.have /\ ~Dog'.tick /\ Dog'.gain = <<0, 0>> /\ Dog'.over = over
          /\ Dog'.at = IF trips THEN "gone" ELSE Dog.at
      BY <2>4, <3>1, <3>2
    <3>4. Told = streak - 1 /\ Told' = streak
      BY <1>1, <3>1, <3>3 DEF Told
    <3>5. /\ streak < prompt => over = streak
          /\ streak >= prompt => over >= prompt
      <4>1. CASE prompt = 0
        BY <2>2, <4>1 DEF DogTypes
      <4>2. CASE prompt > 0 /\ streak = 0
        <5>1. ~Watchdog!Runaway(dog[s].gain[1], dog[s].gain[2])
          BY <3>1, <4>2 DEF Sampled
        <5>2. over = 0
          BY <2>3, <5>1
        <5>3. QED BY <4>2, <5>2 DEF DogTypes
      <4>3. CASE prompt > 0 /\ streak > 0
        <5>1. over = Dog.over + 1
          BY <2>3, <3>1, <4>3 DEF Sampled
        <5>2. /\ streak - 1 < prompt - 1 => Dog.over = streak - 1
              /\ streak - 1 >= prompt - 1 => Dog.over >= prompt - 1
          BY <3>1, <3>4, <4>3 DEF Sampled, DogTypes
        <5>3. Dog.over \in Nat /\ streak \in Nat /\ prompt \in Nat
          BY <1>8, <3>1 DEF DogTypes
        <5>4. QED BY <5>1, <5>2, <5>3
      <4>4. QED BY <4>1, <4>2, <4>3 DEF DogTypes
    <3>6. streak \in Nat /\ prompt \in Nat /\ over \in Nat
      BY <2>2 DEF DogTypes
    <3>7. Sampled'
      <4>1. SUFFICES ASSUME Runs' PROVE Sampled'
        BY DEF Sampled
      <4>2. Dog'.at \in {"watching", "cancelled"}
        BY <1>1, <4>1 DEF Runs, Watchdog!Ticking, Dog
      <4>3. ~trips
        BY <3>3, <4>2
      <4>4. over < Watchdog!Sustained
        BY <4>3, <3>6 DEF Watchdog!Sustained
      <4>5. /\ Told' < prompt' - 1 => Dog'.over = Told'
            /\ Told' >= prompt' - 1 => Dog'.over >= prompt' - 1
        BY <3>1, <3>3, <3>4, <3>5, <3>6
      <4>6. QED BY <3>3, <4>4, <4>5 DEF Sampled
    <3>8. CASE ~trips
      <4>1. trip' = trip
        BY <2>1, <3>8
      <4>2. Tripped'
        BY <1>1, <1>10, <4>1 DEF Tripped
      <4>3. QED BY <1>7, <2>6, <3>7, <4>2
    <3>9. CASE trips
      <4>1. /\ trip'[s] = {[streak |-> streak, prompt |-> prompt']}
          /\ s \in forced'
        BY <2>1, <3>9 DEF DogTypes
      <4>2. prompt' > Watchdog!Sustained => streak >= Watchdog!Sustained
        BY <3>1, <3>5, <3>6, <3>9 DEF Watchdog!Sustained
      <4>3. Tripped'
        BY <1>1, <2>8, <4>1, <4>2 DEF Tripped
      <4>4. QED BY <1>7, <2>6, <3>7, <4>3
    <3>10. QED BY <3>8, <3>9
  <2>9. QED BY <2>7, <2>8
<1>14. QED BY <1>11, <1>12, <1>13

(* The invariant holds at first and in every step of the whole. *)
LEMMA WatchdogInitially ==
    ASSUME MCInit
    PROVE  WatchdogInv
<1>1. /\ session = 0 /\ phase = "down" /\ streak = 0 /\ looped = 0 /\ prompt = 0
      /\ dog = [s \in Connects |-> Watchdog!Asleep] /\ trip = [s \in Connects |-> {}]
  BY DEF MCInit, Watchdog!Init, Connects
<1>2. Watchdog!Asleep \in [at : {"off", "watching", "cancelled", "gone"}, have : BOOLEAN,
                           over : Nat, gain : Nat \X Nat, tick : BOOLEAN]
  BY DEF Watchdog!Asleep
<1>3. trip = [s \in Connects |-> trip[s]]
  BY <1>1
<1>4. DogTypes
  BY <1>1, <1>2, <1>3 DEF DogTypes
<1>5. Unborn
  BY <1>1 DEF Unborn
<1>6. session \notin Connects
  BY <1>1 DEF Connects
<1>7. QED BY <1>4, <1>5, <1>6 DEF WatchdogInv, Sampled, Tripped, Runs

(* No step, of this part or of another, breaks the invariant of the watchdog. *)
LEMMA WatchdogKept ==
    ASSUME WatchdogInv, [MCNext]_all
    PROVE  WatchdogInv'
<1>1. CASE UNCHANGED dvars
  <2>1. UNCHANGED <<session, phase, dog, forced, trip, streak, looped, prompt>>
    BY <1>1 DEF dvars
  <2>2. DogTypes' /\ Unborn' /\ Tripped'
    BY <2>1 DEF WatchdogInv, DogTypes, Unborn, Tripped
  <2>3. Dog' = Dog /\ Runs' = Runs
    BY <2>1 DEF Dog, Runs, Watchdog!Ticking
  <2>4. Sampled'
    BY <2>1, <2>3, SampledFrame DEF WatchdogInv
  <2>5. QED BY <2>2, <2>4 DEF WatchdogInv
<1>2. CASE Watchdog!Next
  BY <1>2, SessionKeeps, PeriodKeeps, ReadingKeeps DEF Watchdog!Next, Connects
<1>3. QED
  BY <1>1, <1>2 DEF MCNext, SystemNext, all

(* A loop that lasts is broken: four samples in time over which the session    *)
(* loops make its watchdog trip, a session that has tripped is about to be     *)
(* disconnected, and one whose samples were in time has been over both         *)
(* thresholds for three periods.                                               *)
(* (tunnel/loop_watchdog_windows.go, loop_watchdog_darwin.go loopWatchdogPoll) *)
THEOREM LoopsEnd == MCSpec => []LoopBroken
<1>1. MCInit => WatchdogInv
  BY WatchdogInitially
<1>2. WatchdogInv /\ [MCNext]_all => WatchdogInv'
  BY WatchdogKept
<1>3. WatchdogInv => LoopBroken
  <2>1. SUFFICES ASSUME WatchdogInv, session \in Connects
                 PROVE  /\ phase = "up" /\ Dog.at = "watching" /\ ~Dog.tick =>
                              ~(looped > Watchdog!Sustained /\ prompt > Watchdog!Sustained)
                        /\ phase = "up" /\ trip[session] # {} => forced # {}
                        /\ \A h \in trip[session] : h.prompt > Watchdog!Sustained =>
                                                    h.streak >= Watchdog!Sustained
    BY DEF LoopBroken, Watchdog!LoopBroken, Dog, Connects
  <2>2. ASSUME Dog.at = "watching", ~Dog.tick, looped > 3, prompt > 3
        PROVE  FALSE
    <3>1. Runs
      BY <2>1, <2>2 DEF Runs, Watchdog!Ticking, Dog
    <3>2. Told = streak /\ streak \in Nat /\ streak > 3 /\ prompt \in Nat
      BY <2>1, <2>2 DEF Told, WatchdogInv, DogTypes
    <3>3. /\ Dog.over < 3
          /\ Told < prompt - 1 => Dog.over = Told
          /\ Told >= prompt - 1 => Dog.over >= prompt - 1
      BY <2>1, <2>2, <3>1, <3>2 DEF WatchdogInv, Sampled, Watchdog!Sustained
    <3>4. Dog.over \in Nat
      BY <2>1 DEF WatchdogInv, DogTypes, Dog
    <3>5. QED BY <2>2, <3>2, <3>3, <3>4
  <2>3. QED BY <2>1, <2>2 DEF WatchdogInv, Tripped, Watchdog!Sustained
<1>4. QED BY <1>1, <1>2, <1>3, PTL DEF MCSpec, all

-----------------------------------------------------------------------------
(* The reconnect monitor's triggers. *)
Both == {"all", "one"}

(* The retry of all tunnels is still to tear down what there is. *)
Tears == retry["all"].at \in {"sleeping", "tearing"} /\ ~retry["all"].torn

TriggerTypes ==
    /\ retry = [k \in Both |-> retry[k]]
    /\ age \in 0..8 /\ idle \in 0..2

(* A tunnel on another network than its own, or one that has slept, is in the  *)
(* hands of the detector, of triggerLoop or of a retry that is yet to tear it  *)
(* down.  The connect of a retry that has been replaced is nobody's.           *)
Noticed ==
    vpn # "down" /\ ~unseen /\ ~kept /\ builtOn # primary =>
        detected # primary \/ changed \/ woke \/ Tears
Owned == builtBy = "all" => retry["all"].at = "connecting"
Busy == \E k \in Both : retry[k].at # "none"

(* A check that has passed over a silent tunnel is about to trigger a retry, or *)
(* one runs.                                                                    *)
Passed == idle < 2 /\ (idle > 0 => ~exempt /\ (due \/ Busy))

TriggersInv == TriggerTypes /\ Noticed /\ Owned /\ Passed

(* What the networks, sleeps and sessions do, and what the detector sees. *)
LEMMA DetectorKeeps ==
    ASSUME TriggersInv,
           Triggers!NetworkChanges \/ Triggers!Sample \/ Triggers!Sleeps
              \/ Triggers!SessionResumes
    PROVE  TriggersInv'
<1> USE DEF TriggersInv
<1>1. UNCHANGED <<retry, builtBy, vpn, kept, exempt, due>> /\ idle' \in {idle, 0}
  BY DEF Triggers!NetworkChanges, Triggers!Sample, Triggers!Sleeps,
         Triggers!SessionResumes, Triggers!tunnel, Triggers!switches
<1>2. Owned' /\ Tears' = Tears /\ retry' = [k \in Both |-> retry'[k]] /\ Passed'
  BY <1>1 DEF Owned, Tears, TriggerTypes, Passed, Busy
<1>3. CASE Triggers!NetworkChanges
  <2>1. UNCHANGED <<detected, changed, woke, builtOn, age, idle>>
    BY <1>3 DEF Triggers!NetworkChanges, Triggers!channels, Triggers!tunnel
  <2>2. unseen' = (unseen \/ (primary' = detected /\ vpn # "down" /\ builtOn # primary'))
    BY <1>3 DEF Triggers!NetworkChanges
  <2>3. Noticed'
    BY <1>1, <1>2, <2>1, <2>2 DEF Noticed
  <2>4. QED BY <1>2, <2>1, <2>3 DEF TriggerTypes
<1>4. CASE Triggers!Sample
  <2>1. detected' = primary /\ UNCHANGED <<primary, woke, builtOn, age, idle>>
    BY <1>4 DEF Triggers!Sample, Triggers!tunnel
  <2>2. \/ /\ detected \in {primary, "unset"} /\ UNCHANGED changed
           /\ unseen' = (unseen \/ (detected = "unset" /\ vpn # "down" /\ builtOn # primary))
        \/ unseen' = (unseen \/ vpn # "down") /\ UNCHANGED changed
        \/ changed' = TRUE /\ UNCHANGED unseen
    BY <1>4 DEF Triggers!Sample
  <2>3. Noticed'
    BY <1>1, <1>2, <2>1, <2>2 DEF Noticed
  <2>4. QED BY <1>2, <2>1, <2>3 DEF TriggerTypes
<1>5. CASE Triggers!Sleeps
  <2>1. /\ UNCHANGED <<primary, detected, changed>> /\ idle' = 0
        /\ builtOn' = IF vpn = "down" THEN builtOn ELSE "slept"
        /\ age' \in IF vpn # "up" THEN {age} ELSE IF shaken THEN {8} ELSE {age, 8}
    BY <1>5 DEF Triggers!Sleeps, Triggers!detector
  <2>2. PICK told \in BOOLEAN : /\ woke' = (woke \/ told)
                                /\ unseen' = (unseen \/ (~told /\ vpn # "down"))
    BY <1>5 DEF Triggers!Sleeps
  <2>3. Noticed'
    BY <1>1, <1>2, <2>1, <2>2 DEF Noticed
  <2>4. age' \in 0..8
    BY <2>1 DEF TriggerTypes
  <2>5. QED BY <1>2, <2>1, <2>3, <2>4 DEF TriggerTypes
<1>6. CASE Triggers!SessionResumes
  <2>1. /\ UNCHANGED <<primary, detected, changed, builtOn, age, idle, unseen>>
        /\ woke => woke'
    BY <1>6 DEF Triggers!SessionResumes, Triggers!detector, Triggers!tunnel
  <2>2. Noticed'
    BY <1>1, <1>2, <2>1 DEF Noticed
  <2>3. QED BY <1>2, <2>1, <2>2 DEF TriggerTypes
<1>7. QED BY <1>3, <1>4, <1>5, <1>6

(* triggerLoop and monitorLoop: a trigger for all tunnels starts a retry that  *)
(* is yet to tear down; one for the tunnel leaves that retry alone.            *)
LEMMA TriggerKeeps ==
    ASSUME TriggersInv,
           Triggers!TakeWake \/ Triggers!TakeChange \/ Triggers!TakeResume
              \/ Triggers!MonitorTriggers
    PROVE  TriggersInv'
<1> USE DEF TriggersInv
<1>1. /\ UNCHANGED <<primary, detected, vpn, builtOn, age, idle, unseen, kept>>
      /\ Triggers!TriggerAll \/ Triggers!TriggerOne \/ UNCHANGED <<retry, builtBy>>
      /\ Triggers!TriggerAll \/ UNCHANGED <<woke, changed>>
  BY DEF Triggers!TakeWake, Triggers!TakeChange, Triggers!TakeResume,
         Triggers!MonitorTriggers, Triggers!Others, Triggers!detector, Triggers!channels
<1>2. Passed'
  <2>1. exempt' = exempt /\ idle' = idle
    BY <1>1 DEF Triggers!TakeWake, Triggers!TakeChange, Triggers!TakeResume,
                Triggers!MonitorTriggers, Triggers!Others, Triggers!switches
  <2>2. ASSUME NEW k \in Both, Triggers!Trigger(k)
        PROVE  Busy'
    <3>1. retry'[k] = Triggers!Fresh
      BY <2>2 DEF Triggers!Trigger, Triggers!Retries, Both
    <3>2. QED BY <3>1 DEF Busy, Triggers!Fresh
  <2>3. CASE UNCHANGED <<retry, due>>
    BY <2>1, <2>3 DEF Passed, Busy
  <2>4. CASE Triggers!Trigger("all") \/ Triggers!Trigger("one")
    BY <2>1, <2>2, <2>4 DEF Passed, Both
  <2>5. CASE exempt /\ UNCHANGED retry
    BY <2>1, <2>5 DEF Passed
  <2>6. QED
    BY <2>3, <2>4, <2>5 DEF Triggers!TakeWake, Triggers!TakeChange, Triggers!TakeResume,
       Triggers!MonitorTriggers, Triggers!TriggerAll, Triggers!TriggerOne
<1>3. CASE UNCHANGED <<retry, builtBy>> /\ (vpn = "down" \/ UNCHANGED <<woke, changed>>)
  <2>1. Tears' = Tears /\ TriggerTypes' /\ Owned'
    BY <1>1, <1>3 DEF Tears, TriggerTypes, Owned
  <2>2. Noticed'
    BY <1>1, <1>3, <2>1 DEF Noticed
  <2>3. QED BY <1>2, <2>1, <2>2
<1>4. CASE Triggers!Trigger("all")
  <2>1. retry' = [q \in Both |-> IF q = "all" THEN Triggers!Fresh
                  ELSE IF q \in Triggers!Replaced("all") THEN Triggers!Idle ELSE retry[q]]
    BY <1>4 DEF Triggers!Trigger, Triggers!Retries, Both
  <2>2. retry'["all"] = [at |-> "sleeping", torn |-> FALSE]
    BY <2>1 DEF Both, Triggers!Fresh
  <2>3. retry' = [k \in Both |-> retry'[k]] /\ Tears'
    BY <2>1, <2>2 DEF Tears
  <2>4. builtBy' # "all"
    BY <1>4 DEF Triggers!Trigger, Triggers!Replaced, Triggers!Retries
  <2>5. QED BY <1>1, <1>2, <2>3, <2>4 DEF TriggerTypes, Noticed, Owned
<1>5. CASE Triggers!Trigger("one") /\ UNCHANGED <<woke, changed>>
  <2>1. retry' = [q \in Both |-> IF q = "one" THEN Triggers!Fresh
                  ELSE IF q \in Triggers!Replaced("one") THEN Triggers!Idle ELSE retry[q]]
    BY <1>5 DEF Triggers!Trigger, Triggers!Retries, Both
  <2>2. retry'["all"] = retry["all"] /\ retry' = [k \in Both |-> retry'[k]]
    BY <2>1 DEF Both, Triggers!Replaced
  <2>3. builtBy' = "all" => builtBy = "all"
    BY <1>5 DEF Triggers!Trigger
  <2>4. Tears' = Tears /\ Owned'
    BY <2>2, <2>3 DEF Tears, Owned
  <2>5. QED BY <1>1, <1>2, <1>5, <2>2, <2>4 DEF TriggerTypes, Noticed
<1>6. QED
  BY <1>1, <1>3, <1>4, <1>5 DEF Triggers!TriggerAll, Triggers!TriggerOne

(* The retries' steps: the one that is yet to tear down ends in a teardown, or *)
(* in one that gives up on a connect.                                          *)
LEMMA RetryKeeps ==
    ASSUME TriggersInv, NEW k \in Both, Triggers!RetryStep(k)
    PROVE  TriggersInv'
<1> USE DEF TriggersInv
<1>1. /\ UNCHANGED <<primary, detected, changed, woke>>
      /\ (age' = age \/ age' = 0) /\ (idle' = idle \/ idle' = 0)
  BY DEF Triggers!RetryStep, Triggers!TimerFires, Triggers!TearDown,
         Triggers!TearDownTimesOut, Triggers!Blocked, Triggers!CallReconnect,
         Triggers!Env, Triggers!detector, Triggers!channels, Triggers!tunnel,
         Triggers!Connecting
<1>2. PICK at, past : retry' = [retry EXCEPT ![k] = [at |-> at, torn |-> past]]
  BY DEF Triggers!RetryStep, Triggers!TimerFires, Triggers!TearDown,
         Triggers!TearDownTimesOut, Triggers!Blocked, Triggers!CallReconnect,
         Triggers!Goto
<1>3. retry = [q \in Both |-> retry[q]]
  BY DEF TriggerTypes
<1>4. retry' = [q \in Both |-> retry'[q]]
  BY <1>2, <1>3
<1>5. TriggerTypes' /\ Passed'
  <2>1. age' \in 0..8 /\ idle' \in 0..2 /\ idle' < 2
    BY <1>1 DEF TriggerTypes, Passed
  <2>2. UNCHANGED <<exempt, due>>
    BY DEF Triggers!RetryStep, Triggers!TimerFires, Triggers!TearDown,
           Triggers!TearDownTimesOut, Triggers!Blocked, Triggers!CallReconnect,
           Triggers!Env, Triggers!switches
  <2>3. \/ idle' = 0
        \/ /\ idle' = idle
           /\ \E x \in {"torn", "sleeping"} : \E y : Triggers!Goto(k, x, y)
    BY DEF Triggers!RetryStep, Triggers!TimerFires, Triggers!TearDown,
           Triggers!TearDownTimesOut, Triggers!Blocked, Triggers!CallReconnect,
           Triggers!Connecting
  <2>4. ASSUME NEW x \in {"torn", "sleeping"}, NEW y, Triggers!Goto(k, x, y)
        PROVE  Busy'
    <3>1. retry'[k] = [at |-> x, torn |-> y]
      BY <1>3, <2>4 DEF Triggers!Goto
    <3>2. QED BY <3>1 DEF Busy
  <2>5. Passed'
    BY <2>1, <2>2, <2>3, <2>4 DEF Passed
  <2>6. QED BY <1>4, <2>1, <2>5 DEF TriggerTypes
<1>6. "all" \in Both /\ (k # "all" => retry'["all"] = retry["all"])
  BY <1>2, <1>3 DEF Both
<1>7. retry[k].at # "connecting" /\ (k = "all" => builtBy # "all")
  <2>1. retry[k].at # "connecting"
    BY DEF Triggers!RetryStep, Triggers!TimerFires, Triggers!TearDown,
           Triggers!TearDownTimesOut, Triggers!Blocked, Triggers!CallReconnect
  <2>2. QED BY <2>1 DEF Owned
<1> DEFINE refused == ~configured \/ (~exempt /\ vpn = "up")
<1>8. CASE Triggers!CallReconnect(k) /\ ~refused
  <2>1. builtOn' = primary /\ builtBy' = k
    BY <1>8 DEF Triggers!CallReconnect, Triggers!Connecting
  <2>2. k = "all" => retry'["all"].at = "connecting"
    <3>1. Triggers!Goto(k, "connecting", TRUE)
      BY <1>8 DEF Triggers!CallReconnect
    <3>2. QED BY <1>3, <3>1 DEF Triggers!Goto
  <2>3. QED BY <1>1, <1>5, <2>1, <2>2 DEF Noticed, Owned, Both
<1>9. CASE /\ UNCHANGED <<builtBy, builtOn, unseen>>
           /\ vpn' # "down" /\ ~kept' => vpn # "down" /\ ~kept /\ (Tears => Tears')
  <2>1. Owned'
    BY <1>6, <1>7, <1>9 DEF Owned
  <2>2. Noticed'
    BY <1>1, <1>9 DEF Noticed
  <2>3. QED BY <1>5, <2>1, <2>2
<1>10. CASE Triggers!TimerFires(k)
  <2>1. UNCHANGED <<builtBy, builtOn, unseen, vpn, kept>>
    BY <1>10 DEF Triggers!TimerFires, Triggers!tunnel
  <2>2. k = "all" /\ Tears => Tears'
    <3>1. SUFFICES ASSUME k = "all", Tears PROVE Tears'
      OBVIOUS
    <3>2. Triggers!Goto(k, "tearing", retry[k].torn)
      BY <1>10, <3>1 DEF Triggers!TimerFires, Triggers!BowsOut, Tears
    <3>3. retry'["all"].at = "tearing" /\ retry'["all"].torn = retry["all"].torn
      BY <1>3, <3>1, <3>2 DEF Triggers!Goto
    <3>4. QED BY <3>1, <3>3 DEF Tears
  <2>3. QED BY <1>6, <1>9, <2>1, <2>2 DEF Tears
<1>11. CASE Triggers!TearDown(k)
  BY <1>9, <1>11 DEF Triggers!TearDown
<1>12. CASE Triggers!TearDownTimesOut(k)
  <2>1. /\ UNCHANGED <<builtBy, builtOn, unseen, vpn>> /\ kept' = (kept \/ k = "all")
    BY <1>12 DEF Triggers!TearDownTimesOut, Triggers!tunnel
  <2>2. QED BY <1>6, <1>9, <2>1 DEF Tears
<1>13. CASE Triggers!Blocked(k) \/ (Triggers!CallReconnect(k) /\ refused)
  <2>1. UNCHANGED <<builtBy, builtOn, unseen, vpn, kept>> /\ retry[k].at = "torn"
    BY <1>13 DEF Triggers!Blocked, Triggers!CallReconnect, Triggers!tunnel
  <2>2. k = "all" => ~Tears
    BY <2>1 DEF Tears
  <2>3. QED BY <1>6, <1>9, <2>1, <2>2 DEF Tears
<1>14. QED
  BY <1>8, <1>10, <1>11, <1>12, <1>13 DEF Triggers!RetryStep

(* The checks and handshakes of a tunnel that is up, the end of a connect, and *)
(* what the user and the engine do.                                            *)
LEMMA TunnelKeeps ==
    ASSUME TriggersInv,
           \/ Triggers!HalfMinute \/ Triggers!Handshake
           \/ \E ok \in BOOLEAN : Triggers!ConnectEnds(ok)
           \/ Triggers!Connect \/ Triggers!Disconnect \/ Triggers!Switch
    PROVE  TriggersInv'
<1> USE DEF TriggersInv
<1>1. UNCHANGED <<primary, detected, changed, woke>>
  BY DEF Triggers!HalfMinute, Triggers!Handshake, Triggers!ConnectEnds,
         Triggers!Connect, Triggers!Disconnect, Triggers!Switch, Triggers!Env,
         Triggers!detector, Triggers!channels
<1>2. retry = [q \in Both |-> retry[q]] /\ "all" \in Both
  BY DEF TriggerTypes, Both
<1>3. ASSUME UNCHANGED <<retry, builtBy, vpn, builtOn, unseen, kept>>
      PROVE  Noticed' /\ Owned' /\ retry' = [q \in Both |-> retry'[q]]
  <2>1. Tears' = Tears
    BY <1>3 DEF Tears
  <2>2. QED BY <1>1, <1>2, <1>3, <2>1 DEF Noticed, Owned
<1>4. CASE Triggers!HalfMinute
  <2>1. /\ UNCHANGED <<retry, builtBy, vpn, builtOn, unseen, kept>>
        /\ age' = Triggers!AtLeast(age, 8)
        /\ due' = (health /\ ~exempt /\ age' >= 7)
        /\ idle' = IF health /\ ~exempt /\ age' = 8 /\ ~Triggers!Running(retry)
                   THEN Triggers!AtLeast(idle, 2) ELSE 0
        /\ ~due /\ exempt' = exempt
    BY <1>4 DEF Triggers!HalfMinute, Triggers!StaleAfter, Triggers!switches
  <2>2. age' \in 0..8
    BY <2>1 DEF Triggers!AtLeast, TriggerTypes
  <2>3. idle' \in {0, 1} /\ (idle' > 0 => ~exempt /\ due')
    <3>1. CASE health /\ ~exempt /\ age' = 8 /\ ~Triggers!Running(retry)
      <4>1. ~(idle > 0)
        BY <2>1, <3>1 DEF Passed, Busy, Triggers!Running, Triggers!Retries, Both
      <4>2. idle' = 1
        BY <2>1, <3>1, <4>1 DEF TriggerTypes, Triggers!AtLeast
      <4>3. due'
        <5>1. age' >= 7
          BY <3>1
        <5>2. QED BY <2>1, <3>1, <5>1, Zenon
      <4>4. QED BY <3>1, <4>2, <4>3
    <3>2. CASE ~(health /\ ~exempt /\ age' = 8 /\ ~Triggers!Running(retry))
      <4>1. idle' = 0
        BY <2>1, <3>2
      <4>2. QED BY <4>1
    <3>3. QED BY <3>1, <3>2
  <2>4. QED BY <1>3, <2>1, <2>2, <2>3 DEF TriggerTypes, Passed
<1>5. CASE Triggers!Handshake
  <2>1. /\ UNCHANGED <<retry, builtBy, vpn, builtOn, unseen, kept, idle, exempt, due>>
        /\ age' = 0
    BY <1>5 DEF Triggers!Handshake, Triggers!switches
  <2>2. QED BY <1>3, <2>1 DEF TriggerTypes, Passed, Busy
<1>6. CASE Triggers!Switch
  <2>1. /\ UNCHANGED <<retry, builtBy, vpn, builtOn, unseen, kept, age>> /\ idle' = 0
    BY <1>6 DEF Triggers!Switch, Triggers!tunnel
  <2>2. QED BY <1>3, <2>1 DEF TriggerTypes, Passed
<1>7. ASSUME NEW ok \in BOOLEAN, Triggers!ConnectEnds(ok) PROVE TriggersInv'
  <2>1. /\ UNCHANGED <<builtOn, unseen, kept, age>> /\ idle' = 0 /\ builtBy' = "nobody"
        /\ vpn = "connecting"
    BY <1>7 DEF Triggers!ConnectEnds
  <2>2. retry' = [k \in Both |-> IF k # builtBy THEN retry[k]
                    ELSE IF ok THEN Triggers!Idle ELSE [at |-> "sleeping", torn |-> TRUE]]
    BY <1>7 DEF Triggers!ConnectEnds, Triggers!Retries, Both
  <2>3. retry' = [k \in Both |-> retry'[k]]
    BY <2>2
  <2>4. Tears => Tears'
    <3>1. SUFFICES ASSUME Tears PROVE retry'["all"] = retry["all"]
      BY DEF Tears
    <3>2. builtBy # "all"
      BY <3>1 DEF Tears, Owned
    <3>3. QED BY <1>2, <2>2, <3>2
  <2>5. Noticed'
    BY <1>1, <2>1, <2>4 DEF Noticed
  <2>6. QED BY <2>1, <2>3, <2>5 DEF TriggerTypes, Passed, Owned
<1>8. CASE Triggers!Connect
  <2>1. /\ UNCHANGED retry /\ builtOn' = primary /\ builtBy' = "user"
        /\ idle' = 0 /\ age' = 0
    BY <1>8 DEF Triggers!Connect, Triggers!Connecting
  <2>2. QED BY <1>1, <1>2, <2>1 DEF TriggerTypes, Passed, Owned, Noticed
<1>9. CASE Triggers!Disconnect
  <2>1. /\ UNCHANGED <<builtOn, unseen, kept, age>> /\ idle' = 0
        /\ vpn' # "down" => vpn # "down"
        /\ builtBy' = "all" => builtBy = "all"
        /\ retry' = [retry EXCEPT !["one"] = Triggers!Idle]
    BY <1>9 DEF Triggers!Disconnect
  <2>2. retry'["all"] = retry["all"] /\ retry' = [k \in Both |-> retry'[k]]
    BY <1>2, <2>1
  <2>3. Tears' = Tears /\ Owned'
    BY <2>1, <2>2 DEF Tears, Owned
  <2>4. Noticed'
    BY <1>1, <2>1, <2>3 DEF Noticed
  <2>5. QED BY <2>1, <2>2, <2>3, <2>4 DEF TriggerTypes, Passed
<1>10. QED BY <1>4, <1>5, <1>6, <1>7, <1>8, <1>9

(* The invariant holds at first and in every step of the whole. *)
LEMMA TriggersInitially ==
    ASSUME MCInit
    PROVE  TriggersInv
<1>1. /\ vpn = "down" /\ builtBy = "nobody" /\ age = 0 /\ idle = 0
      /\ retry = [k \in Both |-> Triggers!Idle]
  BY DEF MCInit, Triggers!Init, Triggers!Retries, Both
<1>2. retry = [k \in Both |-> retry[k]]
  BY <1>1
<1>3. QED BY <1>1, <1>2 DEF TriggersInv, TriggerTypes, Noticed, Owned, Passed

(* No step, of this part or of another, breaks the invariant of the triggers. *)
LEMMA TriggersKept ==
    ASSUME TriggersInv, [MCNext]_all
    PROVE  TriggersInv'
<1>1. CASE UNCHANGED rvars
  <2>1. UNCHANGED <<retry, age, idle, vpn, unseen, kept, builtOn, builtBy, primary,
                    detected, changed, woke, exempt, due>>
    BY <1>1 DEF rvars
  <2>2. Tears' = Tears
    BY <2>1 DEF Tears
  <2>3. QED BY <2>1, <2>2 DEF TriggersInv, TriggerTypes, Noticed, Owned, Passed, Busy
<1>2. CASE Triggers!Next
  BY <1>2, DetectorKeeps, TriggerKeeps, RetryKeeps, TunnelKeeps
     DEF Triggers!Next, Triggers!Retries, Both
<1>3. QED
  BY <1>1, <1>2 DEF MCNext, SystemNext, all

(* Once the detectors and the monitor have nothing left to do, a tunnel that   *)
(* is up has been built on the network there is and after the last sleep,      *)
(* unless the detector missed the change or a teardown gave up on a connect;   *)
(* and no silent tunnel passes two checks with nothing started to repair it.   *)
(* (reconnect/monitor.go triggerLoop, monitorLoop, reconnectWithBackoff)       *)
THEOREM ChangesAreFollowed == MCSpec => []RepairsFollow
<1>1. MCInit => TriggersInv
  BY TriggersInitially
<1>2. TriggersInv /\ [MCNext]_all => TriggersInv'
  BY TriggersKept
<1>3. TriggersInv => RepairsFollow
  <2>1. SUFFICES ASSUME TriggersInv PROVE RepairsFollow
    OBVIOUS
  <2>2. ~Triggers!Running(retry) => ~Tears
    BY DEF Triggers!Running, Triggers!Retries, Tears
  <2>3. Triggers!Rebuilt
    BY <2>1, <2>2 DEF TriggersInv, Noticed, Triggers!Rebuilt
  <2>4. Triggers!DeadIsRepaired
    BY <2>1 DEF TriggersInv, Passed, Triggers!DeadIsRepaired
  <2>5. QED BY <2>3, <2>4 DEF RepairsFollow
<1>4. QED BY <1>1, <1>2, <1>3, PTL DEF MCSpec, all

-----------------------------------------------------------------------------
(* macOS: where an operation is. *)
Attaching == Mac!ConnectSteps
Probing == <<"probe", "bypass", "halves", "stash", "capture", "setdns", "up">>
Diverting == <<"bypass", "halves", "stash", "capture", "setdns", "up">>
Splitting == <<"halves", "stash", "capture", "setdns", "up">>
Stashing == <<"stash", "capture", "setdns", "up">>
Capturing == <<"capture", "setdns", "up">>
Serving == <<"setdns", "up">>
Finishing == <<"up">>
Undoing == Mac!Rollback
Stripping == <<"remove", "cleanup">>
Leaving == Mac!DisconnectSteps
Withdrawing == <<"remove", "restore", "cleanup">>
Restoring == <<"restore", "cleanup">>
Cleaning == <<"cleanup">>

(* Before the first route, with the routes in and the monitor on, and after    *)
(* the last route.                                                             *)
Approaching == {Attaching, Probing, Diverting}
Tracked == {Capturing, Serving, Finishing}
Parting == {Restoring, Cleaning}
MacSteps == Approaching \cup {Splitting, Stashing} \cup Tracked
           \cup {Undoing, Stripping, Leaving, Withdrawing} \cup Parting

Idle == mtodo = << >> /\ ~mup
Tracking == mtodo \in Tracked \/ mup
Watched == Tracking \/ mtodo \in {Undoing, Leaving}

(* A route by the gateway, or into nowhere if there is none. *)
Fits(eps, gw) ==
    \A e \in eps : hosts[e] = gw \/ (hosts[e] = "hole" /\ (pinnedTo \/ gw = None))

(* What a service has that no tunnel has written to. *)
Users(s) == IF s \in emptied THEN "empty" ELSE "own"

Loop(r) == r = [at |-> r.at, eps |-> r.eps, old |-> r.old, gw |-> r.gw,
                prev |-> r.prev, servers |-> r.servers]
Last(r) == r = [set |-> r.set, eps |-> r.eps, gw |-> r.gw]

MacTypes ==
    /\ live \in Endpoints
    /\ hosts = [e \in Endpoints |-> hosts[e]]
    /\ services = [s \in Services |-> services[s]]
    /\ msaved = [s \in Services |-> msaved[s]]
    /\ Last(mlast)
    /\ loops = [l \in 1..2 |-> loops[l]]
    /\ \A l \in 1..2 : Loop(loops[l]) /\ loops[l].eps \subseteq Endpoints
    /\ mbypass = {e \in Endpoints : hosts[e] # None}

(* The monitor runs only beside a tunnel whose routes are in.  *)
Beside ==
    /\ mtodo \in {<< >>} \cup MacSteps
    /\ mup \in BOOLEAN /\ (mup => mtodo = << >>)
    /\ kick => monitor = "running"
    /\ \A l \in 1..2 : loops[l].at = "waiting" => monitor = "running"
    /\ monitor # "off" => Watched /\ split1 /\ mlast.set
    /\ Mac!Working # {} /\ ~overlap => Watched /\ split1 /\ mlast.set
    /\ split1 => Watched \/ mtodo \in {Stashing, Stripping, Withdrawing}
    /\ Tracking \/ mtodo = Stashing \/ mtodo = Leaving => split1

Alone == \A k, l \in Mac!Working : k = l

(* Where a reapply is with its routes. *)
Reapplying(l) ==
    LET r == loops[l] IN
    /\ r.at \in {"look", "delete", "dns"} => mbypass = mlast.eps
    /\ r.at \in {"look", "delete"} => r.prev = mlast.gw /\ r.old = mlast.eps
    /\ r.at \in {"delete", "add"} => r.gw # r.prev \/ r.eps \cap r.old = {}
    /\ r.at = "add" => mbypass = {}
    /\ r.at = "store" => mbypass = r.eps /\ Fits(r.eps, r.gw)
    /\ r.at \in {"delete", "add", "store"} => \E e \in Endpoints : r.eps = {e}
    /\ r.at = "dns" => r.gw = mlast.gw

(* The routes are those of the endpoint the manager knows of. *)
Unrouted == mtodo \in Approaching \cup Parting \/ Idle => mbypass = {}
OneRoute ==
    split1 \/ mtodo = Splitting =>
        /\ \E e \in Endpoints : mlast.eps = {e}
        /\ Mac!Working = {} => mbypass = mlast.eps
Probed == mtodo \in {Splitting, Stashing} => probed # None /\ Fits(mlast.eps, probed)
Followed ==
    Tracking =>
        /\ ~shifted /\ (\A l \in Mac!Working : loops[l].at \notin {"add", "store"}) =>
              Fits(mlast.eps, mlast.gw)
        /\ ~kick /\ ~missed =>
              /\ Mac!Working = {} => mlast.gw = gateway
              /\ \A l \in Mac!Working : loops[l].at # "look" => loops[l].gw = gateway
Diverted ==
    Unrouted /\ OneRoute /\ Probed /\ Followed
    /\ \A l \in Mac!Working : Reapplying(l)

(* A service does not go away. *)
Lasting ==
    \A s \in Services :
        /\ s \in emptied => services[s] # "absent"
        /\ msaved[s] # "absent" /\ preMod[s] # "absent"

(* What the tunnel's servers have replaced is kept, and is the user's. *)
Unserved == ~dnsActive => mtodo = Serving \/ msaved = Mac!NoServices
NotYet ==
    mtodo \in Approaching \cup {Splitting, Stashing, Capturing} \/ Idle =>
        ~dnsActive /\ preMod = Mac!NoServices
Replaced ==
    /\ \A l \in Mac!Working : loops[l].servers => dnsActive
    /\ \A s \in Services :
          /\ msaved[s] # None => msaved[s] = Users(s) /\ services[s] # "absent"
          /\ preMod[s] # None => preMod[s] = Users(s)
          /\ services[s] \in {"absent", Users(s), "tunnel"}
          /\ services[s] = "tunnel" => msaved[s] # None /\ dnsActive

MacInv ==
    /\ MacTypes /\ Beside /\ Lasting /\ Unserved /\ NotYet
    /\ ~overlap => Alone /\ Diverted /\ Replaced

-----------------------------------------------------------------------------
(* The next step of an operation on macOS, and what is left after it. *)
LEMMA MacHeadsAndTails ==
    /\ Head(Attaching) = "link" /\ Tail(Attaching) = Probing
    /\ Head(Probing) = "probe" /\ Tail(Probing) = Diverting
    /\ Head(Diverting) = "bypass" /\ Tail(Diverting) = Splitting
    /\ Head(Splitting) = "halves" /\ Tail(Splitting) = Stashing
    /\ Head(Stashing) = "stash" /\ Tail(Stashing) = Capturing
    /\ Head(Capturing) = "capture" /\ Tail(Capturing) = Serving
    /\ Head(Serving) = "setdns" /\ Tail(Serving) = Finishing
    /\ Head(Finishing) = "up" /\ Tail(Finishing) = << >>
    /\ Head(Undoing) = "unsubscribe" /\ Tail(Undoing) = Stripping
    /\ Head(Stripping) = "remove" /\ Tail(Stripping) = Cleaning
    /\ Head(Leaving) = "unsubscribe" /\ Tail(Leaving) = Withdrawing
    /\ Head(Withdrawing) = "remove" /\ Tail(Withdrawing) = Restoring
    /\ Head(Restoring) = "restore" /\ Tail(Restoring) = Cleaning
    /\ Head(Cleaning) = "cleanup" /\ Tail(Cleaning) = << >>
<1>1. Head(Attaching) = "link" /\ Tail(Attaching) = Probing
  BY DEF Attaching, Probing, Mac!ConnectSteps
<1>2. Head(Probing) = "probe" /\ Tail(Probing) = Diverting
  BY DEF Probing, Diverting
<1>3. Head(Diverting) = "bypass" /\ Tail(Diverting) = Splitting
  BY DEF Diverting, Splitting
<1>4. Head(Splitting) = "halves" /\ Tail(Splitting) = Stashing
  BY DEF Splitting, Stashing
<1>5. Head(Stashing) = "stash" /\ Tail(Stashing) = Capturing
  BY DEF Stashing, Capturing
<1>6. Head(Capturing) = "capture" /\ Tail(Capturing) = Serving
  BY DEF Capturing, Serving
<1>7. Head(Serving) = "setdns" /\ Tail(Serving) = Finishing
  BY DEF Serving, Finishing
<1>8. Head(Finishing) = "up" /\ Tail(Finishing) = << >>
  BY DEF Finishing
<1>9. Head(Undoing) = "unsubscribe" /\ Tail(Undoing) = Stripping
  BY DEF Undoing, Stripping, Mac!Rollback
<1>10. Head(Stripping) = "remove" /\ Tail(Stripping) = Cleaning
  BY DEF Stripping, Cleaning
<1>11. Head(Leaving) = "unsubscribe" /\ Tail(Leaving) = Withdrawing
  BY DEF Leaving, Withdrawing, Mac!DisconnectSteps
<1>12. Head(Withdrawing) = "remove" /\ Tail(Withdrawing) = Restoring
  BY DEF Withdrawing, Restoring
<1>13. Head(Restoring) = "restore" /\ Tail(Restoring) = Cleaning
  BY DEF Restoring, Cleaning
<1>14. Head(Cleaning) = "cleanup" /\ Tail(Cleaning) = << >>
  BY DEF Cleaning
<1>15. QED
  BY <1>1, <1>2, <1>3, <1>4, <1>5, <1>6, <1>7, <1>8, <1>9, <1>10, <1>11, <1>12,
     <1>13, <1>14

(* Which step is next says what is left to do, but for the two ends. *)
LEMMA MacHeads ==
    ASSUME mtodo \in {<< >>} \cup MacSteps
    PROVE  /\ Mac!Step("link") => mtodo = Attaching /\ Tail(mtodo) = Probing
           /\ Mac!Step("probe") => mtodo = Probing /\ Tail(mtodo) = Diverting
           /\ Mac!Step("bypass") => mtodo = Diverting /\ Tail(mtodo) = Splitting
           /\ Mac!Step("halves") => mtodo = Splitting /\ Tail(mtodo) = Stashing
           /\ Mac!Step("stash") => mtodo = Stashing /\ Tail(mtodo) = Capturing
           /\ Mac!Step("capture") => mtodo = Capturing /\ Tail(mtodo) = Serving
           /\ Mac!Step("setdns") => mtodo = Serving /\ Tail(mtodo) = Finishing
           /\ Mac!Step("up") => mtodo = Finishing /\ Tail(mtodo) = << >>
           /\ Mac!Step("unsubscribe") =>
                 \/ mtodo = Undoing /\ Tail(mtodo) = Stripping
                 \/ mtodo = Leaving /\ Tail(mtodo) = Withdrawing
           /\ Mac!Step("remove") =>
                 \/ mtodo = Stripping /\ Tail(mtodo) = Cleaning
                 \/ mtodo = Withdrawing /\ Tail(mtodo) = Restoring
           /\ Mac!Step("restore") => mtodo = Restoring /\ Tail(mtodo) = Cleaning
           /\ Mac!Step("cleanup") => mtodo = Cleaning /\ Tail(mtodo) = << >>
BY MacHeadsAndTails, ZenonT(60)
   DEF Mac!Step, MacSteps, Approaching, Tracked, Parting

(* The stages of the operations are different ones. *)
LEMMA MacStages ==
    /\ \A s \in MacSteps : s # << >>
    /\ \A s \in Approaching :
          s \notin {Splitting, Stashing, Undoing, Stripping, Leaving, Withdrawing}
                      \cup Tracked \cup Parting
    /\ \A s \in Tracked :
          s \notin {Splitting, Stashing, Undoing, Stripping, Leaving, Withdrawing}
                      \cup Parting
    /\ \A s \in Parting :
          s \notin {Splitting, Stashing, Undoing, Stripping, Leaving, Withdrawing}
    /\ Splitting \notin {Stashing, Undoing, Stripping, Leaving, Withdrawing}
    /\ Stashing \notin {Undoing, Stripping, Leaving, Withdrawing}
    /\ Undoing \notin {Stripping, Leaving, Withdrawing}
    /\ Stripping \notin {Leaving, Withdrawing}
    /\ Leaving # Withdrawing
    /\ Capturing \notin {Serving, Finishing} /\ Serving # Finishing
    /\ Restoring # Cleaning
BY DEF MacSteps, Approaching, Tracked, Parting, Attaching, Probing, Diverting,
       Splitting, Stashing, Capturing, Serving, Finishing, Undoing, Stripping,
       Leaving, Withdrawing, Restoring, Cleaning, Mac!ConnectSteps, Mac!Rollback,
       Mac!DisconnectSteps

(* A step that leaves the routes and the reapplies alone. *)
LEMMA DivertedFrame ==
    ASSUME Diverted, UNCHANGED <<hosts, mbypass, mlast, split1, pinnedTo>>,
           Mac!Working' = Mac!Working,
           \A l \in Mac!Working : loops'[l] = loops[l],
           mtodo' \in Approaching \cup Parting \/ Idle' =>
              mtodo \in Approaching \cup Parting \/ Idle,
           mtodo' = Splitting => mtodo = Splitting,
           mtodo' \in {Splitting, Stashing} =>
              mtodo \in {Splitting, Stashing} /\ probed' = probed,
           Tracking' => Tracking,
           shifted => shifted',
           kick \/ missed => kick' \/ missed',
           Tracking => gateway' = gateway \/ kick' \/ missed'
    PROVE  Diverted'
<1>1. Unrouted' /\ OneRoute'
  BY DEF Diverted, Unrouted, OneRoute
<1>2. \A e, g : Fits(e, g)' <=> Fits(e, g)
  BY DEF Fits
<1>3. Probed'
  BY <1>2 DEF Diverted, Probed, Fits
<1>4. Followed'
  <2>1. SUFFICES ASSUME Tracking' PROVE Followed'
    BY DEF Followed
  <2>2. Tracking
    BY <2>1
  <2>3. ~shifted' /\ (\A l \in Mac!Working' : loops'[l].at \notin {"add", "store"}) =>
           Fits(mlast.eps, mlast.gw)'
    <3>1. SUFFICES ASSUME ~shifted',
                          \A l \in Mac!Working' : loops'[l].at \notin {"add", "store"}
                   PROVE  Fits(mlast.eps, mlast.gw)'
      OBVIOUS
    <3>2. ~shifted /\ \A l \in Mac!Working : loops[l].at \notin {"add", "store"}
      BY <3>1
    <3>3. Fits(mlast.eps, mlast.gw)
      BY <2>2, <3>2 DEF Diverted, Followed
    <3>4. QED BY <3>3 DEF Fits
  <2>4. ~kick' /\ ~missed' =>
           /\ Mac!Working' = {} => mlast'.gw = gateway'
           /\ \A l \in Mac!Working' : loops'[l].at # "look" => loops'[l].gw = gateway'
    BY <2>2 DEF Diverted, Followed
  <2>5. QED BY <2>3, <2>4 DEF Followed
<1>5. \A l \in Mac!Working' : Reapplying(l)'
  <2>1. SUFFICES ASSUME NEW l \in Mac!Working PROVE Reapplying(l)'
    OBVIOUS
  <2>2. Reapplying(l) /\ loops'[l] = loops[l]
    BY DEF Diverted
  <2>3. QED BY <2>2 DEF Reapplying, Fits
<1>6. QED BY <1>1, <1>3, <1>4, <1>5 DEF Diverted

(* A step that leaves the services and their snapshots alone. *)
LEMMA ReplacedFrame ==
    ASSUME Replaced, UNCHANGED <<services, msaved, preMod, dnsActive, emptied>>,
           \A l \in Mac!Working' :
              l \in Mac!Working /\ loops'[l].servers = loops[l].servers
    PROVE  Replaced'
BY DEF Replaced, Users

(* A step that leaves the routes, the services and the reapplies alone. *)
LEMMA MacTypesFrame ==
    ASSUME MacTypes, live' \in Endpoints,
           UNCHANGED <<hosts, services, msaved, mlast, loops, mbypass>>
    PROVE  MacTypes'
BY DEF MacTypes, Loop, Last

(* An operation goes on, or back, and has changed nothing. *)
LEMMA MacMoves ==
    ASSUME MacInv,
           UNCHANGED <<Mac!machine, Mac!state, Mac!watch, Mac!history>>,
           mtodo' \in ({<< >>} \cup MacSteps) \ {Splitting, Stashing},
           mup' \in BOOLEAN, mup' => mtodo' = << >>,
           Watched => Watched', Tracking' => Tracking,
           split1 => Watched' \/ mtodo' \in {Stripping, Withdrawing},
           Tracking' \/ mtodo' = Leaving => split1,
           mtodo' \in Approaching \cup Parting \/ Idle' =>
              mtodo \in Approaching \cup Parting \/ Idle,
           mtodo' \in Approaching \cup {Capturing} \/ Idle' =>
              mtodo \in Approaching \cup {Splitting, Stashing, Capturing} \/ Idle,
           mtodo = Serving => dnsActive
    PROVE  MacInv'
<1> USE DEF MacInv
<1>1. /\ UNCHANGED <<gateway, pinnedTo, usable, live, hosts, split1, services>>
      /\ UNCHANGED <<mlast, mbypass, msaved, preMod, dnsActive>>
      /\ UNCHANGED <<monitor, restarts, kick, loops>>
      /\ UNCHANGED <<emptied, missed, shifted, overlap>>
      /\ Mac!Working' = Mac!Working
  BY DEF Mac!machine, Mac!state, Mac!watch, Mac!history, Mac!Working, Mac!network
<1>2. MacTypes'
  BY <1>1, MacTypesFrame DEF MacTypes
<1>3. Beside'
  BY <1>1 DEF Beside
<1>4. Unserved' /\ NotYet'
  BY <1>1 DEF Unserved, NotYet, Mac!NoServices
<1>5. ~overlap => Diverted' /\ Replaced'
  BY <1>1, DivertedFrame, ReplacedFrame
<1>6. QED
  BY <1>1, <1>2, <1>3, <1>4, <1>5 DEF Alone, Lasting

(* Link, Probe, Up and the beginning of a disconnect. *)
LEMMA MacMovesOn ==
    ASSUME MacInv, Mac!Link \/ Mac!Probe \/ Mac!Up \/ Mac!Disconnect
    PROVE  MacInv'
<1>1. mtodo \in {<< >>} \cup MacSteps /\ mup \in BOOLEAN /\ (mup => mtodo = << >>)
  BY DEF MacInv, Beside
<1>2. UNCHANGED <<Mac!machine, Mac!state, Mac!watch, Mac!history>>
  BY DEF Mac!Link, Mac!Probe, Mac!Up, Mac!Disconnect
<1>3. CASE Mac!Link \/ Mac!Probe
  <2>1. mtodo \in Approaching /\ mtodo # << >>
    BY <1>1, <1>3, MacHeads, MacStages DEF Mac!Link, Mac!Probe, Approaching, MacSteps
  <2>2. mtodo' \in Approaching \cup {Undoing} /\ UNCHANGED mup
    BY <1>1, <1>3, MacHeads DEF Mac!Link, Mac!Probe, Mac!Finish, Mac!Fails,
                               Approaching, Undoing
  <2>3. ~mup /\ ~Watched /\ ~Tracking
    BY <1>1, <2>1, MacStages DEF Watched, Tracking
  <2>4. mtodo # Serving /\ mtodo # Stashing /\ mtodo # Stripping /\ mtodo # Withdrawing
    BY <2>1, MacStages DEF Tracked
  <2>5. ~split1
    BY <2>3, <2>4 DEF MacInv, Beside
  <2>6. mtodo' \in MacSteps /\ mtodo' \notin {Splitting, Stashing, Leaving, Capturing}
        /\ ~Tracking'
        /\ mtodo' # << >>
    BY <2>2, <2>3, MacStages DEF MacSteps, Tracking, Tracked
  <2>7. QED
    BY <1>1, <1>2, <2>1, <2>2, <2>3, <2>4, <2>5, <2>6, MacMoves DEF Idle
<1>4. CASE Mac!Up
  <2>1. mtodo = Finishing /\ mtodo' = << >> /\ mup' = TRUE
    BY <1>1, <1>4, MacHeads DEF Mac!Up, Mac!Finish
  <2>2. Tracking /\ Tracking' /\ Watched' /\ ~Idle' /\ mtodo # Serving
    BY <2>1, MacStages DEF Tracking, Tracked, Watched, Idle
  <2>3. split1
    BY <2>2 DEF MacInv, Beside
  <2>4. << >> \notin MacSteps
    BY MacStages
  <2>5. QED
    BY <1>1, <1>2, <2>1, <2>2, <2>3, <2>4, MacMoves
       DEF MacSteps, Approaching, Parting, Tracked
<1>5. CASE Mac!Disconnect
  <2>1. mtodo = << >> /\ mup /\ mtodo' = Leaving /\ mup' = FALSE
    BY <1>1, <1>5 DEF Mac!Disconnect, Leaving
  <2>2. Leaving \in MacSteps \ {Splitting, Stashing, Capturing} /\ Leaving \notin Approaching
        /\ Leaving \notin Parting /\ Leaving \notin Tracked /\ Leaving # << >>
    BY MacStages DEF MacSteps, Tracked
  <2>3. Tracking /\ ~Tracking' /\ Watched' /\ ~Idle'
    BY <2>1, <2>2 DEF Tracking, Watched, Idle
  <2>4. split1
    BY <2>3 DEF MacInv, Beside
  <2>5. Serving \in MacSteps
    BY DEF MacSteps, Tracked
  <2>6. QED
    BY <1>1, <1>2, <2>1, <2>2, <2>3, <2>4, <2>5, MacMoves, MacStages
<1>6. QED BY <1>3, <1>4, <1>5

(* A connect begins where nothing is left, or nothing but what was not undone. *)
LEMMA MacConnects ==
    ASSUME MacInv, Mac!Connect
    PROVE  MacInv'
<1> USE DEF MacInv
<1>1. /\ mtodo = << >> /\ ~mup /\ mtodo' = Attaching /\ mup' = mup
      /\ Mac!Working = {} /\ Mac!Working' = {}
      /\ overlap' = (overlap /\ ~Mac!Untouched)
      /\ UNCHANGED <<gateway, pinnedTo, usable, live, hosts, split1, services>>
      /\ UNCHANGED <<mlast, mbypass, msaved, preMod, dnsActive>>
      /\ UNCHANGED <<monitor, restarts, kick, loops, emptied>>
  BY DEF Mac!Connect, Mac!machine, Mac!state, Mac!watch, Attaching, Mac!Working,
         Mac!network
<1>2. /\ Attaching \in Approaching /\ Attaching \in MacSteps /\ Attaching # << >>
      /\ Attaching \notin {Splitting, Stashing, Undoing, Stripping, Leaving,
                            Withdrawing} \cup Tracked \cup Parting
      /\ << >> \notin MacSteps
  BY MacStages DEF Approaching, MacSteps
<1>3. ~Tracking /\ ~Watched /\ ~Tracking' /\ ~Watched' /\ Idle /\ ~Idle'
  BY <1>1, <1>2 DEF Tracking, Watched, Idle, MacSteps, Tracked
<1>4. MacTypes'
  BY <1>1, MacTypesFrame DEF MacTypes
<1>5. ~split1 /\ monitor = "off"
  BY <1>1, <1>2, <1>3 DEF Beside, MacSteps
<1>6. Beside'
  BY <1>1, <1>2, <1>3, <1>5 DEF Beside
<1>7. ~dnsActive /\ preMod = Mac!NoServices /\ msaved = Mac!NoServices
  BY <1>1, <1>2, <1>3 DEF NotYet, Unserved, MacSteps, Tracked
<1>8. Unserved' /\ NotYet' /\ Lasting'
  BY <1>1, <1>7 DEF Lasting, Unserved, NotYet, Mac!NoServices
<1>9. CASE overlap /\ ~Mac!Untouched
  BY <1>1, <1>4, <1>6, <1>8, <1>9
<1>10. CASE ~overlap \/ Mac!Untouched
  <2>1. mbypass = {}
    <3>1. CASE ~overlap
      BY <1>3, <3>1 DEF Diverted, Unrouted
    <3>2. CASE Mac!Untouched
      BY <3>2 DEF MacTypes, Mac!Untouched
    <3>3. QED BY <1>10, <3>1, <3>2
  <2>2. \A s \in Services : services[s] \in {"absent", Users(s)}
    <3>1. CASE ~overlap
      BY <1>7, <3>1 DEF Replaced
    <3>2. CASE Mac!Untouched
      BY <3>2 DEF Mac!Untouched, Mac!Present, Users
    <3>3. QED BY <1>10, <3>1, <3>2
  <2>3. Alone'
    BY <1>1 DEF Alone
  <2>4. Diverted'
    BY <1>1, <1>2, <1>3, <1>5, <2>1 DEF Diverted, Unrouted, OneRoute, Probed, Followed
  <2>5. Replaced'
    BY <1>1, <1>7, <2>2 DEF Replaced, Users, Mac!NoServices
  <2>6. QED BY <1>4, <1>6, <1>8, <2>3, <2>4, <2>5
<1>11. QED BY <1>9, <1>10

(* The host route. *)
LEMMA MacDiverts ==
    ASSUME MacInv, Mac!Bypass
    PROVE  MacInv'
<1> USE DEF MacInv
<1>1. /\ mtodo = Diverting /\ UNCHANGED mup
      /\ UNCHANGED <<gateway, pinnedTo, usable, live, split1, services, probed>>
      /\ UNCHANGED <<msaved, preMod, dnsActive>>
      /\ UNCHANGED <<monitor, restarts, kick, loops, emptied, missed, shifted, overlap>>
      /\ Mac!Working' = Mac!Working
  BY MacHeads DEF Mac!Bypass, Mac!network, Mac!watch, Mac!history, Beside, Mac!Working
<1>2. /\ mtodo \in Approaching /\ mtodo # << >> /\ mup = FALSE /\ ~Tracking /\ ~Watched
      /\ mtodo # Serving
  <2>1. mtodo \in Approaching /\ mtodo # << >>
    BY <1>1, MacStages DEF Approaching, MacSteps
  <2>2. QED BY <2>1, MacStages DEF Beside, Tracking, Watched, Tracked
<1>3. ~split1 /\ monitor = "off"
  BY <1>2, MacStages DEF Beside
<1>4. CASE mtodo' = Undoing /\ UNCHANGED <<hosts, mbypass, mlast>>
  <2>1. /\ Undoing \in MacSteps /\ Undoing \notin {Splitting, Stashing, Leaving, Capturing}
        /\ Undoing \notin Approaching /\ Undoing \notin Parting
        /\ Undoing \notin Tracked /\ Undoing # << >>
    BY MacStages DEF MacSteps, Tracked
  <2>2. QED
    BY <1>1, <1>2, <1>3, <1>4, <2>1, MacMoves
       DEF Mac!machine, Mac!state, Mac!watch, Mac!history, Mac!network, Tracking,
           Idle
<1>5. CASE /\ Mac!Reachable(probed)
           /\ mtodo' = Splitting
           /\ hosts' = [hosts EXCEPT ![live] = probed]
           /\ mbypass' = mbypass \cup {live}
           /\ mlast' = [mlast EXCEPT !.eps = {live}]
  <2>1. /\ Splitting \in MacSteps /\ Splitting # << >>
        /\ Splitting \notin {Stashing, Undoing, Stripping, Leaving, Withdrawing}
                              \cup Approaching \cup Parting \cup Tracked
    BY MacStages DEF MacSteps
  <2>2. ~Tracking' /\ ~Watched' /\ ~Idle'
    BY <1>1, <1>2, <1>5, <2>1 DEF Tracking, Watched, Idle
  <2>3. /\ probed # None /\ live \in Endpoints
        /\ \A e \in Endpoints : hosts'[e] = IF e = live THEN probed ELSE hosts[e]
        /\ mlast'.eps = {live} /\ mlast'.set = mlast.set
        /\ Last(mlast')
    BY <1>5 DEF Mac!Reachable, MacTypes, Last
  <2>4. MacTypes'
    BY <1>1, <1>5, <2>3 DEF MacTypes, Loop
  <2>5. Beside'
    BY <1>1, <1>2, <1>3, <1>5, <2>1, <2>2, <2>3 DEF Beside
  <2>6. Unserved' /\ NotYet'
    BY <1>1, <1>2, <1>5, <2>2 DEF Unserved, NotYet, Mac!NoServices
  <2>7. ASSUME ~overlap PROVE Diverted' /\ Replaced'
    <3>1. Mac!Working = {} /\ mbypass = {}
      BY <1>2, <2>7 DEF Beside, Diverted, Unrouted
    <3>2. Unrouted' /\ OneRoute' /\ Followed'
      BY <1>1, <1>3, <1>5, <2>1, <2>2, <2>3, <3>1 DEF Unrouted, OneRoute, Followed
    <3>3. Probed'
      BY <1>1, <2>3 DEF Probed, Fits
    <3>4. Replaced'
      BY <1>1, <2>7, ReplacedFrame
    <3>5. QED BY <1>1, <3>1, <3>2, <3>3, <3>4 DEF Diverted
  <2>8. QED BY <1>1, <2>4, <2>5, <2>6, <2>7 DEF Alone, Lasting
<1>6. QED
  BY <1>1, <1>4, <1>5, MacHeads DEF Mac!Bypass, Mac!Finish, Mac!Fails, Undoing,
                                   Beside

(* Half of the default route, twice. *)
LEMMA MacSplits ==
    ASSUME MacInv, Mac!Halves
    PROVE  MacInv'
<1> USE DEF MacInv
<1>1. /\ mtodo = Splitting /\ UNCHANGED mup
      /\ UNCHANGED <<gateway, pinnedTo, usable, live, services, probed, hosts>>
      /\ UNCHANGED <<mlast, mbypass, msaved, preMod, dnsActive>>
      /\ UNCHANGED <<monitor, restarts, kick, loops, emptied, missed, shifted, overlap>>
      /\ Mac!Working' = Mac!Working
      /\ (Mac!Fails /\ UNCHANGED split1) \/ (mtodo' = Stashing /\ split1' = TRUE)
  BY MacHeads DEF Mac!Halves, Mac!network, Mac!watch, Mac!history, Mac!state, Beside,
                  Mac!Working, Mac!Finish
<1>2. /\ Splitting # << >> /\ mup = FALSE /\ ~Tracking /\ ~Watched /\ mtodo # Serving
      /\ Splitting \notin {Stripping, Withdrawing, Stashing}
  <2>1. mtodo # << >>
    BY <1>1, MacStages DEF MacSteps
  <2>2. QED BY <1>1, <2>1, MacStages DEF Beside, Tracking, Watched, Tracked
<1>3. ~split1 /\ monitor = "off"
  BY <1>1, <1>2, MacStages DEF Beside
<1>4. CASE Mac!Fails /\ UNCHANGED split1
  <2>1. /\ Undoing \in MacSteps /\ Undoing \notin {Splitting, Stashing, Leaving, Capturing}
        /\ Undoing \notin Approaching /\ Undoing \notin Parting
        /\ Undoing \notin Tracked /\ Undoing # << >> /\ mtodo' = Undoing
    BY <1>4, MacStages DEF MacSteps, Tracked, Mac!Fails, Undoing
  <2>2. QED
    BY <1>1, <1>2, <1>3, <1>4, <2>1, MacMoves
       DEF Mac!machine, Mac!state, Mac!watch, Mac!history, Mac!network, Tracking,
           Idle
<1>5. CASE mtodo' = Stashing /\ split1' = TRUE
  <2>1. /\ Stashing \in MacSteps /\ Stashing # << >>
        /\ Stashing \notin {Undoing, Stripping, Leaving, Withdrawing}
                              \cup Approaching \cup Parting \cup Tracked
    BY MacStages DEF MacSteps
  <2>2. ~Tracking' /\ ~Watched' /\ ~Idle'
    BY <1>1, <1>2, <1>5, <2>1 DEF Tracking, Watched, Idle
  <2>3. MacTypes'
    BY <1>1, MacTypesFrame DEF MacTypes
  <2>4. Beside'
    BY <1>1, <1>2, <1>3, <1>5, <2>1, <2>2 DEF Beside
  <2>5. Unserved' /\ NotYet'
    BY <1>1, <1>2, <1>5, <2>2 DEF Unserved, NotYet, Mac!NoServices
  <2>6. ASSUME ~overlap PROVE Diverted' /\ Replaced'
    <3>1. Mac!Working = {} /\ OneRoute /\ Probed
      BY <1>2, <2>6 DEF Beside, Diverted
    <3>2. Unrouted' /\ OneRoute' /\ Followed'
      BY <1>1, <1>5, <2>1, <2>2, <3>1 DEF Unrouted, OneRoute, Followed
    <3>3. Probed'
      BY <1>1, <3>1 DEF Probed, Fits
    <3>4. Replaced'
      BY <1>1, <2>6, ReplacedFrame
    <3>5. QED BY <1>1, <3>1, <3>2, <3>3, <3>4 DEF Diverted
  <2>7. QED BY <1>1, <2>3, <2>4, <2>5, <2>6 DEF Alone, Lasting
<1>6. QED
  BY <1>1, <1>4, <1>5

(* The manager keeps what it needs to follow the network, and subscribes. *)
LEMMA MacStashes ==
    ASSUME MacInv, Mac!Stash
    PROVE  MacInv'
<1> USE DEF MacInv
<1>1. /\ mtodo = Stashing /\ mtodo' = Capturing /\ UNCHANGED mup
      /\ UNCHANGED <<gateway, pinnedTo, usable, live, hosts, split1, services, probed>>
      /\ UNCHANGED <<mbypass, msaved, preMod, dnsActive>>
      /\ UNCHANGED <<kick, loops, emptied, missed, overlap>>
      /\ mlast' = [mlast EXCEPT !.set = TRUE, !.gw = gateway]
      /\ shifted' = (gateway # probed) /\ monitor' = "delayed"
      /\ Mac!Working' = Mac!Working
  BY MacHeads DEF Mac!Stash, Mac!machine, Mac!network, Beside, Mac!Working, Mac!Finish
<1>2. /\ Stashing # << >> /\ ~mup /\ ~Tracking /\ ~Watched /\ mtodo # Serving
  <2>1. mtodo # << >>
    BY <1>1, MacStages DEF MacSteps
  <2>2. QED BY <1>1, <2>1, MacStages DEF Beside, Tracking, Watched, Tracked
<1>3. split1 /\ monitor = "off" /\ ~kick /\ (\A l \in 1..2 : loops[l].at # "waiting")
  BY <1>1, <1>2 DEF Beside
<1>4. /\ mlast'.eps = mlast.eps /\ mlast'.gw = gateway /\ mlast'.set = TRUE
      /\ Last(mlast')
  BY <1>1 DEF MacTypes, Last
<1>5. /\ Capturing \in MacSteps /\ Capturing \in Tracked /\ Capturing # << >>
      /\ Capturing \notin {Splitting, Stashing, Undoing, Stripping, Leaving, Withdrawing}
                              \cup Approaching \cup Parting
  BY MacStages DEF MacSteps, Tracked
<1>6. Tracking' /\ Watched' /\ ~Idle'
  BY <1>1, <1>5 DEF Tracking, Watched, Idle
<1>7. MacTypes'
  BY <1>1, <1>4 DEF MacTypes, Loop
<1>8. Beside'
  BY <1>1, <1>2, <1>3, <1>4, <1>5, <1>6 DEF Beside
<1>9. Unserved' /\ NotYet'
  BY <1>1, <1>2, <1>5, <1>6, MacStages DEF Unserved, NotYet, Mac!NoServices
<1>10. ASSUME ~overlap PROVE Diverted' /\ Replaced'
  <2>1. Mac!Working = {} /\ OneRoute /\ Probed
    BY <1>2, <1>10 DEF Beside, Diverted
  <2>2. Unrouted' /\ OneRoute' /\ Probed'
    BY <1>1, <1>4, <1>5, <1>6, <2>1 DEF Unrouted, OneRoute, Probed
  <2>3. Followed'
    <3>1. Fits(mlast.eps, probed)
      BY <1>1, <2>1 DEF Probed
    <3>2. gateway = probed => Fits(mlast.eps, mlast.gw)'
      BY <1>1, <1>4, <3>1 DEF Fits
    <3>3. QED BY <1>1, <1>4, <2>1, <3>2 DEF Followed
  <2>4. Replaced'
    BY <1>1, <1>10, ReplacedFrame
  <2>5. QED BY <1>1, <2>1, <2>2, <2>3, <2>4 DEF Diverted
<1>11. QED BY <1>1, <1>7, <1>8, <1>9, <1>10 DEF Alone, Lasting

(* The services there are, and what they have. *)
LEMMA MacCaptures ==
    ASSUME MacInv, Mac!Capture
    PROVE  MacInv'
<1> USE DEF MacInv
<1>1. /\ mtodo = Capturing /\ mtodo' = Serving /\ UNCHANGED mup
      /\ UNCHANGED <<gateway, pinnedTo, usable, live, hosts, split1, services, probed>>
      /\ UNCHANGED <<mlast, mbypass, dnsActive>>
      /\ UNCHANGED <<monitor, kick, loops, emptied, missed, shifted, overlap>>
      /\ msaved' = Mac!CaptureAll(Mac!Present) /\ preMod' = msaved'
      /\ Mac!Working' = Mac!Working
  BY MacHeads DEF Mac!Capture, Mac!machine, Mac!network, Mac!watch, Mac!history, Beside,
                  Mac!Working, Mac!Finish
<1>2. /\ {Capturing, Serving} \subseteq MacSteps /\ {Capturing, Serving} \subseteq Tracked
      /\ Capturing # << >> /\ Serving # << >> /\ Serving # Capturing
      /\ {Capturing, Serving} \cap ({Splitting, Stashing, Undoing, Stripping, Leaving,
                                     Withdrawing} \cup Approaching \cup Parting) = {}
  BY MacStages DEF MacSteps, Tracked
<1>3. mup = FALSE /\ Tracking /\ Watched /\ Tracking' /\ Watched' /\ ~Idle'
  BY <1>1, <1>2 DEF Beside, Tracking, Watched, Idle
<1>4. ~dnsActive /\ msaved = Mac!NoServices
  BY <1>1, <1>2 DEF NotYet, Unserved
<1>5. \A s \in Services :
         msaved'[s] = IF services[s] # "absent" THEN services[s] ELSE None
  BY <1>1, <1>4 DEF Mac!CaptureAll, Mac!Present, Mac!NoServices
<1>6. MacTypes'
  <2>1. msaved' = [s \in Services |-> msaved'[s]]
    BY <1>1 DEF Mac!CaptureAll
  <2>2. QED BY <1>1, <2>1 DEF MacTypes, Loop, Last
<1>7. Beside'
  BY <1>1, <1>2, <1>3 DEF Beside
<1>8. Unserved' /\ NotYet'
  BY <1>1, <1>2, <1>3 DEF Unserved, NotYet
<1>9. ASSUME ~overlap PROVE Diverted' /\ Replaced'
  <2>1. Diverted'
    BY <1>1, <1>2, <1>3, <1>9, DivertedFrame
  <2>2. Replaced'
    BY <1>1, <1>4, <1>5, <1>9 DEF Replaced, Users
  <2>3. QED BY <2>1, <2>2
<1>10. Lasting'
  BY <1>1, <1>5, NoneAssumption DEF Lasting
<1>11. QED BY <1>1, <1>6, <1>7, <1>8, <1>9, <1>10 DEF Alone

(* The tunnel's servers, to the services that were captured. *)
LEMMA MacServes ==
    ASSUME MacInv, Mac!SetDNS
    PROVE  MacInv'
<1> USE DEF MacInv
<1>1. /\ mtodo = Serving /\ mtodo' \in {Finishing, Undoing} /\ UNCHANGED mup
      /\ UNCHANGED <<gateway, pinnedTo, usable, live, hosts, split1, probed>>
      /\ UNCHANGED <<mlast, mbypass, msaved, preMod>>
      /\ UNCHANGED <<monitor, kick, loops, emptied, missed, shifted, overlap>>
      /\ services' = [s \in Services |-> IF s \in Mac!Captured THEN "tunnel" ELSE services[s]]
      /\ dnsActive' = TRUE
      /\ Mac!Working' = Mac!Working
  BY MacHeads DEF Mac!SetDNS, Mac!routes, Mac!network, Mac!watch, Mac!history, Beside,
                  Mac!Working, Mac!Finish, Mac!Fails, Undoing
<1>2. /\ {Serving, Finishing, Undoing} \subseteq MacSteps
      /\ {Serving, Finishing} \subseteq Tracked /\ Undoing \notin Tracked
      /\ Serving # << >> /\ Finishing # << >> /\ Undoing # << >>
      /\ {Serving, Finishing, Undoing} \cap ({Splitting, Stashing, Stripping, Leaving,
                    Withdrawing, Capturing} \cup Approaching \cup Parting) = {}
  BY MacStages DEF MacSteps, Tracked
<1>3. mup = FALSE /\ Tracking /\ Watched /\ Watched' /\ ~Idle'
  BY <1>1, <1>2 DEF Beside, Tracking, Watched, Idle
<1>4. MacTypes'
  BY <1>1 DEF MacTypes, Loop, Last
<1>5. Beside'
  BY <1>1, <1>2, <1>3 DEF Beside
<1>6. Unserved' /\ NotYet'
  BY <1>1, <1>2, <1>3 DEF Unserved, NotYet
<1>7. ASSUME ~overlap PROVE Diverted' /\ Replaced'
  <2>1. Diverted'
    BY <1>1, <1>2, <1>3, <1>7, DivertedFrame
  <2>2. Replaced'
    BY <1>1, <1>7 DEF Replaced, Users, Mac!Captured
  <2>3. QED BY <2>1, <2>2
<1>8. Lasting'
  BY <1>1 DEF Lasting
<1>9. QED BY <1>1, <1>4, <1>5, <1>6, <1>7, <1>8 DEF Alone

(* Stop, and the wait for the reapply under way. *)
LEMMA MacUnsubscribes ==
    ASSUME MacInv, Mac!Unsubscribe
    PROVE  MacInv'
<1> USE DEF MacInv
<1>1. /\ \/ mtodo = Undoing /\ mtodo' = Stripping
         \/ mtodo = Leaving /\ mtodo' = Withdrawing
      /\ UNCHANGED mup
      /\ UNCHANGED <<gateway, pinnedTo, usable, live, hosts, split1, services, probed>>
      /\ UNCHANGED <<mlast, mbypass, msaved, preMod, dnsActive>>
      /\ UNCHANGED <<emptied, missed, shifted>>
      /\ monitor' = "off" /\ kick' = FALSE
      /\ loops' = [l \in 1..2 |-> IF loops[l].at = "waiting" THEN Mac!Gone ELSE loops[l]]
      /\ overlap' = (overlap \/ Mac!Working # {})
  BY MacHeads DEF Mac!Unsubscribe, Mac!machine, Mac!network, Mac!state, Beside,
                  Mac!Finish
<1>2. /\ {Undoing, Stripping, Leaving, Withdrawing} \subseteq MacSteps
      /\ {Undoing, Stripping, Leaving, Withdrawing} \cap
            ({<< >>, Splitting, Stashing} \cup Approaching \cup Parting \cup Tracked) = {}
      /\ {Undoing, Leaving} \cap {Stripping, Withdrawing} = {}
  BY MacStages DEF MacSteps
<1>3. mup = FALSE /\ ~Tracking' /\ ~Watched' /\ ~Idle'
  BY <1>1, <1>2 DEF Beside, Tracking, Watched, Idle
<1>4. \A l \in 1..2 : loops'[l].at # "waiting"
  BY <1>1 DEF Mac!Gone
<1>5. Mac!Working' = Mac!Working /\ \A l \in Mac!Working : loops'[l] = loops[l]
  BY <1>1 DEF Mac!Working, Mac!Gone
<1>6. MacTypes'
  <2>1. \A l \in 1..2 : Loop(loops'[l]) /\ loops'[l].eps \subseteq Endpoints
    BY <1>1 DEF MacTypes, Loop, Mac!Gone
  <2>2. QED BY <1>1, <2>1 DEF MacTypes, Last
<1>7. Beside'
  <2>1. ~overlap' => Mac!Working' = {}
    BY <1>1, <1>5
  <2>2. QED BY <1>1, <1>2, <1>3, <1>4, <2>1 DEF Beside
<1>8. Unserved' /\ NotYet' /\ Lasting'
  BY <1>1, <1>2, <1>3, MacStages DEF Unserved, NotYet, Tracked, Mac!NoServices, Lasting
<1>9. ASSUME ~overlap' PROVE Alone' /\ Diverted' /\ Replaced'
  <2>1. ~overlap /\ Mac!Working = {}
    BY <1>1, <1>9
  <2>2. OneRoute'
    BY <1>1, <1>2, <1>5, <2>1 DEF Diverted, OneRoute
  <2>3. Diverted'
    BY <1>1, <1>2, <1>3, <1>5, <2>1, <2>2 DEF Diverted, Unrouted, Probed, Followed
  <2>4. Replaced'
    BY <1>1, <1>5, <2>1, ReplacedFrame
  <2>5. QED BY <1>5, <2>1, <2>3, <2>4 DEF Alone
<1>10. QED BY <1>6, <1>7, <1>8, <1>9

(* The halves, the host routes and what the manager kept. *)
LEMMA MacRemoves ==
    ASSUME MacInv, Mac!Remove
    PROVE  MacInv'
<1> USE DEF MacInv
<1>1. /\ \/ mtodo = Stripping /\ mtodo' = Cleaning
         \/ mtodo = Withdrawing /\ mtodo' = Restoring
      /\ UNCHANGED mup
      /\ UNCHANGED <<gateway, pinnedTo, usable, live, services, probed>>
      /\ UNCHANGED <<msaved, preMod, dnsActive>>
      /\ UNCHANGED <<monitor, kick, loops, emptied, missed, shifted, overlap>>
      /\ split1' = FALSE /\ hosts' = Mac!Without(mbypass)
      /\ mbypass' = {} /\ mlast' = Mac!Forgotten
      /\ Mac!Working' = Mac!Working
  BY MacHeads DEF Mac!Remove, Mac!network, Mac!watch, Mac!history, Beside,
                  Mac!Finish, Mac!Working
<1>2. /\ {Stripping, Withdrawing} \cup Parting \subseteq MacSteps
      /\ {Stripping, Withdrawing} \cap
            ({<< >>, Undoing, Leaving} \cup Tracked) = {}
      /\ Cleaning \in Parting /\ Restoring \in Parting
      /\ Parting \cap ({<< >>, Splitting, Stashing, Undoing, Leaving}
                          \cup Approaching \cup Tracked) = {}
  BY MacStages DEF MacSteps, Parting
<1>3. mup = FALSE /\ ~Watched /\ ~Tracking' /\ ~Watched' /\ ~Idle' /\ mtodo # Serving
  BY <1>1, <1>2 DEF Beside, Tracking, Watched, Idle, Tracked
<1>4. MacTypes'
  <2>1. \A e \in Endpoints : hosts'[e] = None
    BY <1>1 DEF MacTypes, Mac!Without
  <2>2. hosts' = [e \in Endpoints |-> hosts'[e]]
    BY <1>1 DEF Mac!Without
  <2>3. Last(mlast') /\ mlast'.eps = {}
    BY <1>1 DEF Last, Mac!Forgotten
  <2>4. QED BY <1>1, <2>1, <2>2, <2>3 DEF MacTypes, Loop
<1>5. Beside'
  BY <1>1, <1>2, <1>3 DEF Beside
<1>6. Unserved' /\ NotYet'
  <2>1. mtodo' \notin Approaching \cup {Splitting, Stashing, Capturing}
    BY <1>1, <1>2 DEF Tracked
  <2>2. QED BY <1>1, <1>3, <2>1 DEF Unserved, NotYet, Mac!NoServices
<1>7. ASSUME ~overlap PROVE Diverted' /\ Replaced'
  <2>1. Mac!Working = {}
    BY <1>3, <1>7 DEF Beside
  <2>2. Diverted'
    BY <1>1, <1>2, <1>3, <2>1 DEF Diverted, Unrouted, OneRoute, Probed, Followed
  <2>3. Replaced'
    BY <1>1, <1>7, ReplacedFrame
  <2>4. QED BY <2>2, <2>3
<1>8. QED BY <1>1, <1>4, <1>5, <1>6, <1>7 DEF Alone, Lasting

(* What the services had, or nothing for one that nobody captured. *)
LEMMA MacRestores ==
    ASSUME MacInv, Mac!Restore
    PROVE  MacInv'
<1> USE DEF MacInv
<1>1. /\ mtodo = Restoring /\ mtodo' = Cleaning /\ UNCHANGED mup
      /\ UNCHANGED <<gateway, pinnedTo, usable, live, hosts, split1, probed>>
      /\ UNCHANGED <<mlast, mbypass, preMod>>
      /\ UNCHANGED <<monitor, kick, loops, missed, shifted, overlap>>
      /\ services' = [s \in Services |->
                        IF s \in Mac!Present THEN Mac!Original(s) ELSE "absent"]
      /\ msaved' = Mac!NoServices /\ dnsActive' = FALSE
      /\ emptied' = emptied \cup {s \in Mac!Present :
                                     services[s] = "own" /\ Mac!Original(s) = "empty"}
      /\ Mac!Working' = Mac!Working
  BY MacHeads DEF Mac!Restore, Mac!network, Mac!routes, Mac!watch, Beside,
                  Mac!Finish, Mac!Working
<1>2. /\ Parting \subseteq MacSteps
      /\ Cleaning \in Parting /\ Restoring \in Parting /\ Cleaning # Restoring
      /\ Parting \cap ({<< >>, Splitting, Stashing, Undoing, Leaving, Stripping,
                        Withdrawing} \cup Approaching \cup Tracked) = {}
  BY MacStages DEF MacSteps, Parting
<1>3. mup = FALSE /\ ~Watched /\ ~Tracking' /\ ~Watched' /\ ~Idle' /\ ~Idle /\ ~Tracking
  BY <1>1, <1>2 DEF Beside, Tracking, Watched, Idle
<1>4. MacTypes'
  BY <1>1 DEF MacTypes, Loop, Last, Mac!NoServices
<1>5. Beside'
  BY <1>1, <1>2, <1>3 DEF Beside
<1>6. Unserved' /\ NotYet'
  <2>1. mtodo' \notin Approaching \cup {Splitting, Stashing, Capturing}
    BY <1>1, <1>2 DEF Tracked
  <2>2. QED BY <1>1, <1>3, <2>1 DEF Unserved, NotYet, Mac!NoServices
<1>7. ASSUME ~overlap PROVE Diverted' /\ Replaced'
  <2>1. Mac!Working = {}
    BY <1>3, <1>7 DEF Beside
  <2>2. Diverted'
    BY <1>1, <1>2, <1>3, <1>7, DivertedFrame
  <2>3. \A s \in Services :
          /\ preMod[s] # None => preMod[s] = Users(s)'
          /\ services'[s] \in {"absent", Users(s)'}
    <3>1. TAKE s \in Services
    <3>2. /\ msaved[s] # None => msaved[s] = Users(s)
          /\ preMod[s] # None => preMod[s] = Users(s)
          /\ services[s] \in {"absent", Users(s), "tunnel"}
          /\ services[s] = "tunnel" => msaved[s] # None
      BY <1>7 DEF Replaced
    <3>3. services'[s] = IF services[s] # "absent" THEN Mac!Original(s) ELSE "absent"
      BY <1>1 DEF Mac!Present
    <3>4. s \in emptied' <=>
            s \in emptied \/ (services[s] = "own" /\ Mac!Original(s) = "empty")
      BY <1>1 DEF Mac!Present
    <3>5. QED BY <3>2, <3>3, <3>4 DEF Users, Mac!Original
  <2>4. \A s \in Services : services'[s] # "tunnel"
    BY <2>3 DEF Users
  <2>5. Replaced'
    BY <1>1, <2>1, <2>3, <2>4 DEF Replaced, Mac!NoServices
  <2>6. QED BY <2>2, <2>5
<1>8. Lasting'
  BY <1>1, NoneAssumption DEF Lasting, Mac!Original, Mac!Present, Mac!NoServices
<1>9. QED BY <1>1, <1>4, <1>5, <1>6, <1>7, <1>8 DEF Alone

(* The manager's own snapshot, if nothing has restored the services before. *)
LEMMA MacCleansUp ==
    ASSUME MacInv, Mac!Cleanup
    PROVE  MacInv'
<1> USE DEF MacInv
<1>1. /\ mtodo = Cleaning /\ mtodo' = << >> /\ UNCHANGED mup
      /\ UNCHANGED <<gateway, pinnedTo, usable, live, split1, probed>>
      /\ UNCHANGED <<mlast, emptied>>
      /\ UNCHANGED <<monitor, kick, loops, missed, shifted, overlap>>
      /\ services' = [s \in Services |-> IF dnsActive /\ msaved[s] # None
                                         THEN msaved[s] ELSE services[s]]
      /\ msaved' = (IF dnsActive THEN Mac!NoServices ELSE msaved)
      /\ dnsActive' = FALSE /\ preMod' = Mac!NoServices
      /\ hosts' = Mac!Without(mbypass) /\ mbypass' = {}
      /\ Mac!Working' = Mac!Working
  BY MacHeads DEF Mac!Cleanup, Mac!network, Mac!watch, Mac!history, Beside,
                  Mac!Finish, Mac!Working
<1>2. /\ Cleaning \in Parting /\ << >> \notin MacSteps
      /\ Cleaning \notin {<< >>, Splitting, Stashing, Undoing, Leaving, Stripping,
                        Withdrawing} \cup Approaching \cup Tracked
  BY MacStages DEF MacSteps, Parting
<1>3. mup = FALSE /\ ~Watched /\ ~Tracking' /\ ~Watched' /\ ~Tracking /\ mtodo # Serving
  BY <1>1, <1>2 DEF Beside, Tracking, Watched, MacSteps, Tracked
<1>4. msaved' = Mac!NoServices
  BY <1>1, <1>3 DEF Unserved, Mac!NoServices
<1>5. MacTypes'
  <2>1. \A e \in Endpoints : hosts'[e] = None
    BY <1>1 DEF MacTypes, Mac!Without
  <2>2. hosts' = [e \in Endpoints |-> hosts'[e]]
    BY <1>1 DEF Mac!Without
  <2>3. QED BY <1>1, <1>4, <2>1, <2>2 DEF MacTypes, Loop, Last, Mac!NoServices
<1>6. ~split1
  BY <1>1, <1>2, <1>3 DEF Beside
<1>7. Beside'
  BY <1>1, <1>2, <1>3, <1>6 DEF Beside, MacSteps
<1>8. Unserved' /\ NotYet'
  BY <1>1, <1>4 DEF Unserved, NotYet, Mac!NoServices
<1>9. ASSUME ~overlap PROVE Diverted' /\ Replaced'
  <2>1. Mac!Working = {}
    BY <1>3, <1>9 DEF Beside
  <2>2. Diverted'
    BY <1>1, <1>2, <1>3, <1>6, <2>1
       DEF Diverted, Unrouted, OneRoute, Probed, Followed, MacSteps
  <2>3. \A s \in Services : services'[s] \in {"absent", Users(s)}
    BY <1>1, <1>9 DEF Replaced
  <2>4. Replaced'
    BY <1>1, <1>4, <2>1, <2>3 DEF Replaced, Users, Mac!NoServices
  <2>5. QED BY <2>2, <2>4
<1>10. Lasting'
  BY <1>1, <1>4, NoneAssumption DEF Lasting, Mac!NoServices
<1>11. QED BY <1>1, <1>5, <1>7, <1>8, <1>9, <1>10 DEF Alone

(* The network changes, and is heard of while the monitor runs. *)
LEMMA MacNetworkKeeps ==
    ASSUME MacInv, Mac!NetworkChange \/ Mac!Roam
    PROVE  MacInv'
<1> USE DEF MacInv
<1>1. /\ UNCHANGED <<pinnedTo, hosts, split1, mtodo, mup, probed>>
      /\ UNCHANGED <<mlast, mbypass, msaved, preMod, dnsActive>>
      /\ UNCHANGED <<monitor, loops, emptied, shifted, overlap>>
      /\ live' \in Endpoints
      /\ Mac!Working' = Mac!Working
  BY DEF Mac!NetworkChange, Mac!Roam, Mac!routes, Mac!manager, Mac!watch, Mac!history,
         Mac!Working, MacTypes
<1>2. /\ kick' => kick \/ monitor = "running"
      /\ kick => kick'
      /\ missed => missed'
      /\ mup \/ mtodo # << >> => gateway' = gateway \/ kick' \/ missed'
  <2>1. CASE Mac!NetworkChange
    <3>1. /\ kick' = (kick \/ monitor = "running")
          /\ missed' = (missed \/ ((mup \/ mtodo # << >>) /\ monitor # "running"))
      BY <2>1 DEF Mac!NetworkChange, Mac!Trigger
    <3>2. QED BY <3>1
  <2>2. CASE Mac!Roam
    BY <2>2 DEF Mac!Roam, Mac!watch, Mac!history
  <2>3. QED BY <2>1, <2>2
<1>3. \/ UNCHANGED services
      \/ \E s \in Services : services[s] = "absent"
                             /\ services' = [services EXCEPT ![s] = "own"]
  BY DEF Mac!NetworkChange, Mac!Roam
<1>4. /\ \A s \in Services : \/ services'[s] = services[s]
                             \/ services[s] = "absent" /\ services'[s] = "own"
      /\ services' = [s \in Services |-> services'[s]]
  <2>1. CASE UNCHANGED services
    BY <2>1 DEF MacTypes
  <2>2. ASSUME NEW t \in Services, services[t] = "absent",
               services' = [services EXCEPT ![t] = "own"]
        PROVE  /\ \A s \in Services : \/ services'[s] = services[s]
                                      \/ services[s] = "absent" /\ services'[s] = "own"
               /\ services' = [s \in Services |-> services'[s]]
    <3>1. services = [s \in Services |-> services[s]]
      BY DEF MacTypes
    <3>2. QED BY <2>2, <3>1
  <2>3. QED BY <1>3, <2>1, <2>2
<1>5. MacTypes'
  BY <1>1, <1>4 DEF MacTypes, Loop, Last
<1>6. Beside'
  BY <1>1, <1>2 DEF Beside, Watched, Tracking
<1>7. Lasting'
  BY <1>1, <1>4 DEF Lasting
<1>8. Unserved' /\ NotYet'
  BY <1>1 DEF Unserved, NotYet, Idle, Mac!NoServices
<1>9. ASSUME ~overlap PROVE Diverted' /\ Replaced'
  <2>1. Diverted'
    <3>1. Tracking => mup \/ mtodo # << >>
      BY MacStages DEF Tracking, Tracked, MacSteps
    <3>2. /\ Tracking' = Tracking /\ Idle' = Idle
      BY <1>1 DEF Tracking, Idle
    <3>3. QED BY <1>1, <1>2, <1>9, <3>1, <3>2, DivertedFrame
  <2>2. Replaced'
    <3>1. \A s \in Services : services[s] = "absent" => s \notin emptied
      BY DEF Lasting
    <3>2. QED BY <1>1, <1>4, <1>9, <3>1 DEF Replaced, Users
  <2>3. QED BY <2>1, <2>2
<1>10. QED BY <1>1, <1>5, <1>6, <1>7, <1>8, <1>9 DEF Alone

(* The subprocess and its debounce loops come and go. *)
LEMMA MacMonitorKeeps ==
    ASSUME MacInv, Mac!Start \/ Mac!Die
    PROVE  MacInv'
<1> USE DEF MacInv
<1>1. /\ UNCHANGED <<gateway, pinnedTo, usable, live, hosts, split1, services>>
      /\ UNCHANGED <<mtodo, mup, probed, mlast, mbypass, msaved, preMod, dnsActive>>
      /\ UNCHANGED <<emptied, shifted, overlap>>
      /\ monitor # "off" /\ kick' = FALSE
  BY DEF Mac!Start, Mac!Die, Mac!machine, Mac!network, Mac!routes, Mac!manager, Mac!history
<1>2. /\ \/ monitor' = "running"
         \/ monitor' # "off" /\ \A l \in 1..2 : loops'[l].at # "waiting"
      /\ kick \/ missed => missed'
      /\ loops' = [l \in 1..2 |-> loops'[l]]
      /\ \A l \in 1..2 : \/ loops'[l] = loops[l]
                         \/ loops'[l] \in {Mac!Gone, Mac!Waiting}
                               /\ loops[l].at \in {"gone", "waiting"}
  <2>1. CASE Mac!Start
    <3>1. PICK l \in 1..2 : loops[l].at = "gone" /\ loops' = [loops EXCEPT ![l] = Mac!Waiting]
      BY <2>1 DEF Mac!Start
    <3>2. loops = [k \in 1..2 |-> loops[k]]
      BY DEF MacTypes
    <3>3. /\ loops' = [k \in 1..2 |-> loops'[k]]
          /\ \A k \in 1..2 : loops'[k] = IF k = l THEN Mac!Waiting ELSE loops[k]
      BY <3>1, <3>2
    <3>4. monitor' = "running" /\ ~kick /\ missed' = missed
      BY <2>1 DEF Mac!Start, Beside, Mac!history
    <3>5. QED BY <3>1, <3>3, <3>4
  <2>2. CASE Mac!Die
    BY <2>2 DEF Mac!Die, Mac!Gone
  <2>3. QED BY <2>1, <2>2
<1>3. Mac!Working' = Mac!Working /\ \A l \in Mac!Working : loops'[l] = loops[l]
  BY <1>2 DEF Mac!Working, Mac!Gone, Mac!Waiting
<1>4. MacTypes'
  <2>1. \A l \in 1..2 : Loop(loops'[l]) /\ loops'[l].eps \subseteq Endpoints
    BY <1>2 DEF MacTypes, Loop, Mac!Gone, Mac!Waiting
  <2>2. QED BY <1>1, <1>2, <2>1 DEF MacTypes, Last
<1>5. Beside'
  BY <1>1, <1>2, <1>3 DEF Beside, Watched, Tracking
<1>6. Unserved' /\ NotYet' /\ Lasting'
  BY <1>1 DEF Unserved, NotYet, Idle, Mac!NoServices, Lasting
<1>7. ASSUME ~overlap PROVE Alone' /\ Diverted' /\ Replaced'
  <2>1. Diverted'
    <3>1. /\ Tracking' = Tracking /\ Idle' = Idle
      BY <1>1 DEF Tracking, Idle
    <3>2. QED BY <1>1, <1>2, <1>3, <1>7, <3>1, DivertedFrame
  <2>2. Replaced'
    BY <1>1, <1>3, <1>7, ReplacedFrame
  <2>3. QED BY <1>3, <1>7, <2>1, <2>2 DEF Alone
<1>8. QED BY <1>1, <1>4, <1>5, <1>6, <1>7

(* A reapply goes on while the tunnel's routes are in. *)
LEMMA MacWatched ==
    ASSUME Beside, Watched
    PROVE  /\ mtodo \notin Approaching \cup Parting \cup {Splitting, Stashing} /\ ~Idle
           /\ mtodo # Splitting
<1>1. mup => mtodo \notin MacSteps
  BY MacStages DEF Beside
<1>2. QED
  BY <1>1, MacStages DEF Watched, Tracking, Idle, MacSteps

(* A reapply goes on to its next step. *)
LEMMA LoopGoes ==
    ASSUME MacTypes, NEW l \in 1..2, NEW x, loops' = [loops EXCEPT ![l].at = x]
    PROVE  /\ loops' = [k \in 1..2 |-> loops'[k]]
           /\ \A k \in 1..2 : k # l => loops'[k] = loops[k]
           /\ loops'[l].at = x
           /\ UNCHANGED <<loops[l].eps, loops[l].old, loops[l].gw, loops[l].prev,
                          loops[l].servers>>
           /\ Loop(loops'[l])
<1>1. loops = [k \in 1..2 |-> loops[k]] /\ Loop(loops[l])
  BY DEF MacTypes
<1>2. loops' = [k \in 1..2 |-> IF k = l THEN [loops[l] EXCEPT !.at = x] ELSE loops[k]]
  BY <1>1
<1>3. loops'[l] = [loops[l] EXCEPT !.at = x]
  BY <1>2
<1>4. QED
  BY <1>1, <1>2, <1>3 DEF Loop

Started(p, o, s) ==
    [Mac!Gone EXCEPT !.at = "look", !.prev = p, !.old = o, !.servers = s]

(* What a loop is before its first reapply, between two, and at the start of one. *)
LEMMA LoopShapes ==
    ASSUME NEW p, NEW o, NEW s
    PROVE  /\ Mac!Gone.at = "gone" /\ Mac!Gone.eps = {} /\ Loop(Mac!Gone)
           /\ Mac!Waiting.at = "waiting" /\ Mac!Waiting.eps = {} /\ Loop(Mac!Waiting)
           /\ Started(p, o, s) =
                 [at |-> "look", eps |-> {}, old |-> o, gw |-> None, prev |-> p, servers |-> s]
<1>1. PICK no : no = FALSE
  OBVIOUS
<1>2. PICK n : n = {}
  OBVIOUS
<1>3. Mac!Gone = [at |-> "gone", eps |-> n, old |-> n, gw |-> None, prev |-> None,
                  servers |-> no]
  BY <1>1, <1>2 DEF Mac!Gone
<1>4. Mac!Gone.at = "gone" /\ Mac!Gone.eps = {} /\ Loop(Mac!Gone)
  BY <1>2, <1>3 DEF Loop
<1>5. Mac!Waiting.at = "waiting" /\ Mac!Waiting.eps = {} /\ Loop(Mac!Waiting)
  <2>1. Mac!Waiting = [at |-> "waiting", eps |-> n, old |-> n, gw |-> None, prev |-> None,
                       servers |-> no]
    BY <1>3 DEF Mac!Waiting
  <2>2. QED BY <1>2, <2>1 DEF Loop
<1>6. Started(p, o, s) =
         [at |-> "look", eps |-> {}, old |-> o, gw |-> None, prev |-> p, servers |-> s]
  <2>1. PICK r1 : r1 = [Mac!Gone EXCEPT !.at = "look"]
    OBVIOUS
  <2>2. r1 = [at |-> "look", eps |-> n, old |-> n, gw |-> None, prev |-> None, servers |-> no]
    BY <1>3, <2>1
  <2>3. PICK r2 : r2 = [r1 EXCEPT !.prev = p]
    OBVIOUS
  <2>4. r2 = [at |-> "look", eps |-> n, old |-> n, gw |-> None, prev |-> p, servers |-> no]
    BY <2>2, <2>3
  <2>5. PICK r3 : r3 = [r2 EXCEPT !.old = o]
    OBVIOUS
  <2>6. r3 = [at |-> "look", eps |-> n, old |-> o, gw |-> None, prev |-> p, servers |-> no]
    BY <2>4, <2>5
  <2>7. PICK r4 : r4 = [r3 EXCEPT !.servers = s]
    OBVIOUS
  <2>8. r4 = [at |-> "look", eps |-> n, old |-> o, gw |-> None, prev |-> p, servers |-> s]
    BY <2>6, <2>7
  <2>9. Started(p, o, s) = r4
    BY <2>1, <2>3, <2>5, <2>7 DEF Started
  <2>10. QED BY <1>2, <2>8, <2>9
<1>7. QED BY <1>4, <1>5, <1>6

(* A burst of events has settled. *)
LEMMA MacSettles ==
    ASSUME MacInv, NEW l \in 1..2, Mac!Settle(l)
    PROVE  MacInv'
<1> USE DEF MacInv
<1> DEFINE r == Started(mlast.gw, mlast.eps, dnsActive)
<1>1. /\ UNCHANGED <<gateway, pinnedTo, usable, live, hosts, split1, services>>
      /\ UNCHANGED <<mtodo, mup, probed, mlast, mbypass, msaved, preMod, dnsActive>>
      /\ UNCHANGED <<monitor, emptied, missed, shifted>>
      /\ kick' = FALSE /\ monitor = "running" /\ loops[l].at = "waiting"
      /\ overlap' = (overlap \/ Mac!Working # {})
  BY DEF Mac!Settle, Mac!machine, Mac!network, Mac!routes, Mac!manager
<1>2. Watched /\ split1 /\ mlast.set
  BY <1>1 DEF Beside
<1>3. loops' = [loops EXCEPT ![l] = r]
  BY <1>2 DEF Mac!Settle, Started
<1>4. /\ r.at = "look" /\ r.prev = mlast.gw /\ r.old = mlast.eps /\ r.servers = dnsActive
      /\ r.eps = {} /\ Loop(r)
  <2>1. r = [at |-> "look", eps |-> {}, old |-> mlast.eps, gw |-> None, prev |-> mlast.gw,
             servers |-> dnsActive]
    BY LoopShapes
  <2> HIDE DEF r
  <2>2. QED BY <2>1 DEF Loop
<1>5. /\ loops' = [k \in 1..2 |-> loops'[k]] /\ loops'[l] = r
      /\ \A k \in 1..2 : k # l => loops'[k] = loops[k]
  <2>1. loops = [k \in 1..2 |-> loops[k]]
    BY DEF MacTypes
  <2>2. QED BY <1>3, <2>1
<1> HIDE DEF r
<1>6. MacTypes'
  BY <1>1, <1>4, <1>5 DEF MacTypes, Last, Loop
<1>7. Beside'
  BY <1>1, <1>2, <1>4, <1>5 DEF Beside, Watched, Tracking
<1>8. Unserved' /\ NotYet' /\ Lasting'
  BY <1>1 DEF Unserved, NotYet, Idle, Mac!NoServices, Lasting
<1>9. ASSUME ~overlap' PROVE Alone' /\ Diverted' /\ Replaced'
  <2>1. ~overlap /\ Mac!Working = {}
    BY <1>1, <1>9
  <2>2. Mac!Working' = {l}
    BY <1>1, <1>4, <1>5, <2>1 DEF Mac!Working
  <2>3. Unrouted' /\ OneRoute' /\ Probed'
    <3>1. mtodo \notin Approaching \cup Parting \cup {Splitting, Stashing} /\ ~Idle
      BY <1>2, MacWatched
    <3>2. QED BY <1>1, <1>2, <2>1, <2>2, <3>1
             DEF Diverted, Unrouted, OneRoute, Probed, Idle
  <2>4. Reapplying(l)'
    BY <1>1, <1>2, <1>4, <1>5, <2>1 DEF Diverted, OneRoute, Reapplying
  <2>5. Followed'
    <3>1. SUFFICES ASSUME Tracking' PROVE Followed'
      BY DEF Followed
    <3>2. ~shifted => Fits(mlast.eps, mlast.gw)
      BY <1>1, <2>1, <3>1 DEF Diverted, Followed, Tracking
    <3>3. ~shifted' => Fits(mlast.eps, mlast.gw)'
      BY <1>1, <3>2 DEF Fits
    <3>4. QED BY <1>4, <1>5, <2>2, <3>3 DEF Followed
  <2>6. Replaced'
    BY <1>1, <1>4, <1>5, <2>1, <2>2 DEF Replaced, Users
  <2>7. QED BY <2>2, <2>3, <2>4, <2>5, <2>6 DEF Alone, Diverted
<1>10. QED BY <1>6, <1>7, <1>8, <1>9

(* The peer's address and the gateway now. *)
LEMMA MacLooks ==
    ASSUME MacInv, NEW l \in 1..2, Mac!Look(l)
    PROVE  MacInv'
<1> USE DEF MacInv
<1> DEFINE x == IF gateway # loops[l].prev \/ {live} # loops[l].old THEN "delete" ELSE "dns"
<1>1. /\ UNCHANGED <<gateway, pinnedTo, usable, live, hosts, split1, services>>
      /\ UNCHANGED <<mtodo, mup, probed, mlast, mbypass, msaved, preMod, dnsActive>>
      /\ UNCHANGED <<monitor, kick, emptied, shifted, overlap>>
      /\ missed' = FALSE /\ loops[l].at = "look"
  BY DEF Mac!Look, Mac!machine, Mac!network, Mac!routes, Mac!manager
<1>2. /\ loops' = [k \in 1..2 |-> loops'[k]]
      /\ \A k \in 1..2 : k # l => loops'[k] = loops[k]
      /\ loops'[l].at = x /\ loops'[l].eps = {live} /\ loops'[l].gw = gateway
      /\ UNCHANGED <<loops[l].old, loops[l].prev, loops[l].servers>>
      /\ Loop(loops'[l])
  <2>1. loops = [k \in 1..2 |-> loops[k]] /\ Loop(loops[l])
    BY DEF MacTypes
  <2>2. loops' = [loops EXCEPT ![l].eps = {live}, ![l].gw = gateway, ![l].at = x]
    BY DEF Mac!Look
  <2>3. /\ loops' = [k \in 1..2 |-> loops'[k]]
        /\ \A k \in 1..2 : k # l => loops'[k] = loops[k]
        /\ loops'[l] = [loops[l] EXCEPT !.eps = {live}, !.gw = gateway, !.at = x]
    BY <2>1, <2>2
  <2>4. QED BY <2>1, <2>3 DEF Loop
<1>3. x \in {"delete", "dns"}
  OBVIOUS
<1>4. (x = "delete") <=> (gateway # loops[l].prev \/ {live} # loops[l].old)
  OBVIOUS
<1> HIDE DEF x
<1>5. Mac!Working' = Mac!Working /\ l \in Mac!Working
  BY <1>1, <1>2, <1>3 DEF Mac!Working
<1>6. MacTypes'
  BY <1>1, <1>2 DEF MacTypes, Last, Loop
<1>7. Beside'
  BY <1>1, <1>2, <1>3, <1>5 DEF Beside, Watched, Tracking
<1>8. Unserved' /\ NotYet' /\ Lasting'
  BY <1>1 DEF Unserved, NotYet, Idle, Mac!NoServices, Lasting
<1>9. ASSUME ~overlap PROVE Alone' /\ Diverted' /\ Replaced'
  <2>1. Mac!Working = {l} /\ Watched /\ split1
    BY <1>5, <1>9 DEF Alone, Beside
  <2>2. Unrouted' /\ OneRoute' /\ Probed'
    <3>1. mtodo \notin Approaching \cup Parting \cup {Splitting, Stashing} /\ ~Idle
      BY <2>1, MacWatched
    <3>2. QED BY <1>1, <1>5, <1>9, <2>1, <3>1
             DEF Diverted, Unrouted, OneRoute, Probed, Idle
  <2>3. Reapplying(l)'
    <3>1. Reapplying(l) /\ \E e \in Endpoints : mlast.eps = {e}
      BY <1>5, <1>9, <2>1 DEF Diverted, OneRoute
    <3>2. mbypass = mlast.eps /\ loops[l].prev = mlast.gw /\ loops[l].old = mlast.eps
      BY <1>1, <3>1 DEF Reapplying
    <3>3. x = "delete" => gateway # loops[l].prev \/ {live} \cap loops[l].old = {}
      BY <1>4, <3>1, <3>2
    <3>4. x = "dns" => gateway = mlast.gw
      BY <1>4, <3>2
    <3>5. live \in Endpoints
      BY DEF MacTypes
    <3>6. QED BY <1>1, <1>2, <1>3, <3>2, <3>3, <3>4, <3>5 DEF Reapplying
  <2>4. Followed'
    <3>1. SUFFICES ASSUME Tracking' PROVE Followed'
      BY DEF Followed
    <3>2. ~shifted => Fits(mlast.eps, mlast.gw)
      BY <1>1, <1>9, <2>1, <3>1 DEF Diverted, Followed, Tracking
    <3>3. ~shifted' => Fits(mlast.eps, mlast.gw)'
      BY <1>1, <3>2 DEF Fits
    <3>4. QED BY <1>1, <1>2, <1>5, <2>1, <3>3 DEF Followed
  <2>5. Replaced'
    BY <1>1, <1>2, <1>5, <1>9, <2>1, ReplacedFrame
  <2>6. QED BY <1>5, <1>9, <2>1, <2>2, <2>3, <2>4, <2>5 DEF Alone, Diverted
<1>10. QED BY <1>1, <1>6, <1>7, <1>8, <1>9

(* The routes that are stale go. *)
LEMMA MacDeletes ==
    ASSUME MacInv, NEW l \in 1..2, Mac!Delete(l)
    PROVE  MacInv'
<1> USE DEF MacInv
<1>1. /\ UNCHANGED <<gateway, pinnedTo, usable, live, split1, services>>
      /\ UNCHANGED <<mtodo, mup, probed, mlast, msaved, preMod, dnsActive>>
      /\ UNCHANGED <<monitor, missed, emptied, shifted, overlap>>
      /\ loops[l].at = "delete" /\ loops' = [loops EXCEPT ![l].at = "add"]
      /\ mbypass' = mbypass \ Mac!Stale(l) /\ hosts' = Mac!Without(Mac!Stale(l))
  BY DEF Mac!Delete, Mac!network, Mac!history, Mac!Goto
<1>2. (kick => kick') /\ (kick' => kick \/ monitor = "running")
  <2>1. kick' = (kick \/ monitor = "running")
    BY DEF Mac!Delete, Mac!Trigger
  <2>2. QED BY <2>1
<1>3. /\ loops' = [k \in 1..2 |-> loops'[k]]
      /\ \A k \in 1..2 : k # l => loops'[k] = loops[k]
      /\ loops'[l].at = "add"
      /\ UNCHANGED <<loops[l].eps, loops[l].old, loops[l].gw, loops[l].prev,
                     loops[l].servers>>
      /\ Loop(loops'[l])
  BY <1>1, LoopGoes
<1>4. Mac!Working' = Mac!Working /\ l \in Mac!Working
  BY <1>1, <1>3 DEF Mac!Working
<1>5. MacTypes'
  <2>1. /\ hosts' = [e \in Endpoints |-> hosts'[e]]
        /\ \A e \in Endpoints : hosts'[e] = IF e \in Mac!Stale(l) THEN None ELSE hosts[e]
    BY <1>1 DEF Mac!Without
  <2>2. mbypass' = {e \in Endpoints : hosts'[e] # None}
    BY <1>1, <2>1 DEF MacTypes
  <2>3. QED BY <1>1, <1>3, <2>1, <2>2 DEF MacTypes, Last, Loop
<1>6. Beside'
  BY <1>1, <1>2, <1>3, <1>4 DEF Beside, Watched, Tracking
<1>7. Unserved' /\ NotYet' /\ Lasting'
  BY <1>1 DEF Unserved, NotYet, Idle, Mac!NoServices, Lasting
<1>8. ASSUME ~overlap PROVE Alone' /\ Diverted' /\ Replaced'
  <2>1. Mac!Working = {l} /\ Watched /\ split1
    BY <1>4, <1>8 DEF Alone, Beside
  <2>2. Unrouted' /\ OneRoute' /\ Probed'
    <3>1. mtodo \notin Approaching \cup Parting \cup {Splitting, Stashing} /\ ~Idle
      BY <2>1, MacWatched
    <3>2. QED BY <1>1, <1>4, <1>8, <2>1, <3>1
             DEF Diverted, Unrouted, OneRoute, Probed, Idle
  <2>3. Reapplying(l)'
    <3>1. Reapplying(l)
      BY <1>4, <1>8 DEF Diverted
    <3>2. Mac!Stale(l) = mbypass
      BY <1>1, <3>1 DEF Reapplying, Mac!Stale
    <3>3. QED BY <1>1, <1>3, <3>1, <3>2 DEF Reapplying
  <2>4. Followed'
    BY <1>1, <1>2, <1>3, <1>4, <1>8, <2>1 DEF Diverted, Followed, Tracking
  <2>5. Replaced'
    BY <1>1, <1>3, <1>4, <1>8, <2>1, ReplacedFrame
  <2>6. QED BY <1>4, <1>8, <2>1, <2>2, <2>3, <2>4, <2>5 DEF Alone, Diverted
<1>9. QED BY <1>1, <1>5, <1>6, <1>7, <1>8

(* The routes that are missing are added, or lead nowhere. *)
LEMMA MacAdds ==
    ASSUME MacInv, NEW l \in 1..2, Mac!Add(l)
    PROVE  MacInv'
<1> USE DEF MacInv
<1>1. /\ UNCHANGED <<gateway, pinnedTo, usable, live, split1, services>>
      /\ UNCHANGED <<mtodo, mup, probed, mlast, msaved, preMod, dnsActive>>
      /\ UNCHANGED <<monitor, missed, emptied, shifted, overlap>>
      /\ loops[l].at = "add" /\ loops' = [loops EXCEPT ![l].at = "store"]
      /\ mbypass' = mbypass \cup Mac!Missing(l)
      /\ hosts' = [e \in Endpoints |->
                     IF e \notin Mac!Missing(l) THEN hosts[e]
                     ELSE IF Mac!Reachable(loops[l].gw) THEN loops[l].gw
                     ELSE IF hosts[e] = None THEN "hole" ELSE hosts[e]]
  BY DEF Mac!Add, Mac!network, Mac!history, Mac!Goto
<1>2. (kick => kick') /\ (kick' => kick \/ monitor = "running")
  <2>1. kick' = (kick \/ monitor = "running")
    BY DEF Mac!Add, Mac!Trigger
  <2>2. QED BY <2>1
<1>3. /\ loops' = [k \in 1..2 |-> loops'[k]]
      /\ \A k \in 1..2 : k # l => loops'[k] = loops[k]
      /\ loops'[l].at = "store"
      /\ UNCHANGED <<loops[l].eps, loops[l].old, loops[l].gw, loops[l].prev,
                     loops[l].servers>>
      /\ Loop(loops'[l])
  BY <1>1, LoopGoes
<1>4. Mac!Working' = Mac!Working /\ l \in Mac!Working
  BY <1>1, <1>3 DEF Mac!Working
<1>5. MacTypes'
  <2>1. Mac!Missing(l) \subseteq Endpoints
    BY DEF Mac!Missing, MacTypes
  <2>2. \A e \in Mac!Missing(l) : hosts'[e] # None
    BY <1>1, <2>1, NoneAssumption DEF Mac!Reachable
  <2>3. \A e \in Endpoints \ Mac!Missing(l) : hosts'[e] = hosts[e]
    BY <1>1
  <2>4. mbypass' = {e \in Endpoints : hosts'[e] # None}
    BY <1>1, <2>1, <2>2, <2>3 DEF MacTypes
  <2>5. hosts' = [e \in Endpoints |-> hosts'[e]]
    BY <1>1
  <2>6. QED BY <1>1, <1>3, <2>4, <2>5 DEF MacTypes, Last, Loop
<1>6. Beside'
  BY <1>1, <1>2, <1>3, <1>4 DEF Beside, Watched, Tracking
<1>7. Unserved' /\ NotYet' /\ Lasting'
  BY <1>1 DEF Unserved, NotYet, Idle, Mac!NoServices, Lasting
<1>8. ASSUME ~overlap PROVE Alone' /\ Diverted' /\ Replaced'
  <2>1. Mac!Working = {l} /\ Watched /\ split1
    BY <1>4, <1>8 DEF Alone, Beside
  <2>2. Unrouted' /\ OneRoute' /\ Probed'
    <3>1. mtodo \notin Approaching \cup Parting \cup {Splitting, Stashing} /\ ~Idle
      BY <2>1, MacWatched
    <3>2. QED BY <1>1, <1>4, <1>8, <2>1, <3>1
             DEF Diverted, Unrouted, OneRoute, Probed, Idle
  <2>3. Reapplying(l)'
    <3>1. Reapplying(l) /\ mbypass = {}
      BY <1>1, <1>4, <1>8 DEF Diverted, Reapplying
    <3>2. Mac!Missing(l) = loops[l].eps
      BY <1>1, <3>1 DEF Reapplying, Mac!Missing
    <3>3. \A e \in loops[l].eps : hosts[e] = None /\ e \in Endpoints
      BY <3>1 DEF MacTypes
    <3>4. \A e \in loops[l].eps :
             \/ hosts'[e] = loops[l].gw
             \/ hosts'[e] = "hole" /\ (pinnedTo \/ loops[l].gw = None)
      BY <1>1, <3>2, <3>3 DEF Mac!Reachable
    <3>5. Fits(loops[l].eps, loops[l].gw)'
      BY <1>1, <1>3, <3>4 DEF Fits
    <3>6. QED BY <1>1, <1>3, <3>1, <3>2, <3>5 DEF Reapplying
  <2>4. Followed'
    BY <1>1, <1>2, <1>3, <1>4, <1>8, <2>1 DEF Diverted, Followed, Tracking
  <2>5. Replaced'
    BY <1>1, <1>3, <1>4, <1>8, <2>1, ReplacedFrame
  <2>6. QED BY <1>4, <1>8, <2>1, <2>2, <2>3, <2>4, <2>5 DEF Alone, Diverted
<1>9. QED BY <1>1, <1>5, <1>6, <1>7, <1>8

(* What has been reapplied is kept. *)
LEMMA MacStores ==
    ASSUME MacInv, NEW l \in 1..2, Mac!Store(l)
    PROVE  MacInv'
<1> USE DEF MacInv
<1>1. /\ UNCHANGED <<gateway, pinnedTo, usable, live, hosts, split1, services>>
      /\ UNCHANGED <<mtodo, mup, probed, mbypass, msaved, preMod, dnsActive>>
      /\ UNCHANGED <<monitor, kick, missed, emptied, overlap>>
      /\ loops[l].at = "store" /\ loops' = [loops EXCEPT ![l].at = "dns"]
      /\ mlast' = [mlast EXCEPT !.eps = loops[l].eps, !.gw = loops[l].gw]
  BY DEF Mac!Store, Mac!machine, Mac!network, Mac!routes, Mac!Goto
<1>2. /\ mlast'.eps = loops[l].eps /\ mlast'.gw = loops[l].gw /\ mlast'.set = mlast.set
      /\ Last(mlast')
  BY <1>1 DEF MacTypes, Last
<1>3. /\ loops' = [k \in 1..2 |-> loops'[k]]
      /\ \A k \in 1..2 : k # l => loops'[k] = loops[k]
      /\ loops'[l].at = "dns"
      /\ UNCHANGED <<loops[l].eps, loops[l].old, loops[l].gw, loops[l].prev,
                     loops[l].servers>>
      /\ Loop(loops'[l])
  BY <1>1, LoopGoes
<1>4. Mac!Working' = Mac!Working /\ l \in Mac!Working
  BY <1>1, <1>3 DEF Mac!Working
<1>5. MacTypes'
  BY <1>1, <1>2, <1>3 DEF MacTypes, Loop
<1>6. Beside'
  BY <1>1, <1>2, <1>3, <1>4 DEF Beside, Watched, Tracking
<1>7. Unserved' /\ NotYet' /\ Lasting'
  BY <1>1 DEF Unserved, NotYet, Idle, Mac!NoServices, Lasting
<1>8. ASSUME ~overlap PROVE Alone' /\ Diverted' /\ Replaced'
  <2>1. Mac!Working = {l} /\ Watched /\ split1
    BY <1>4, <1>8 DEF Alone, Beside
  <2>2. /\ mbypass = loops[l].eps /\ Fits(loops[l].eps, loops[l].gw)
        /\ \E e \in Endpoints : loops[l].eps = {e}
    BY <1>1, <1>4, <1>8 DEF Diverted, Reapplying
  <2>3. Unrouted' /\ OneRoute' /\ Probed'
    <3>1. mtodo \notin Approaching \cup Parting \cup {Splitting, Stashing} /\ ~Idle
      BY <2>1, MacWatched
    <3>2. QED BY <1>1, <1>2, <1>4, <1>8, <2>1, <2>2, <3>1
             DEF Unrouted, OneRoute, Probed, Idle
  <2>4. Reapplying(l)'
    BY <1>1, <1>2, <1>3, <2>2 DEF Reapplying
  <2>5. Followed'
    <3>1. Fits(mlast.eps, mlast.gw)'
      BY <1>1, <1>2, <2>2 DEF Fits
    <3>2. QED BY <1>1, <1>2, <1>3, <1>4, <1>8, <2>1, <3>1 DEF Diverted, Followed, Tracking
  <2>6. Replaced'
    BY <1>1, <1>3, <1>4, <1>8, <2>1, ReplacedFrame
  <2>7. QED BY <1>4, <1>8, <2>1, <2>3, <2>4, <2>5, <2>6 DEF Alone, Diverted
<1>9. QED BY <1>1, <1>5, <1>6, <1>7, <1>8

(* The servers, to every service there is; the reapply ends. *)
LEMMA MacReapplies ==
    ASSUME MacInv, NEW l \in 1..2, Mac!ReapplyDNS(l)
    PROVE  MacInv'
<1> USE DEF MacInv
<1>1. /\ UNCHANGED <<gateway, pinnedTo, usable, live, hosts, split1>>
      /\ UNCHANGED <<mtodo, mup, probed, mlast, mbypass, preMod, dnsActive>>
      /\ UNCHANGED <<monitor, kick, missed, emptied, shifted, overlap>>
      /\ loops[l].at = "dns"
      /\ loops' = [loops EXCEPT ![l] = IF monitor = "running" THEN Mac!Waiting ELSE Mac!Gone]
  BY DEF Mac!ReapplyDNS, Mac!network, Mac!routes, Mac!history, Mac!EndOfReapply
<1>2. /\ loops' = [k \in 1..2 |-> loops'[k]]
      /\ \A k \in 1..2 : k # l => loops'[k] = loops[k]
      /\ loops'[l] = IF monitor = "running" THEN Mac!Waiting ELSE Mac!Gone
  <2>1. loops = [k \in 1..2 |-> loops[k]]
    BY DEF MacTypes
  <2>2. QED BY <1>1, <2>1
<1>3. /\ loops'[l].at \in {"waiting", "gone"} /\ Loop(loops'[l]) /\ loops'[l].eps = {}
      /\ loops'[l].at = "waiting" => monitor = "running"
  <2>1. \/ loops'[l] = Mac!Gone
        \/ loops'[l] = Mac!Waiting /\ monitor = "running"
    BY <1>2
  <2>2. QED BY <2>1, LoopShapes DEF Loop
<1>4. l \in Mac!Working /\ Mac!Working' = Mac!Working \ {l}
  BY <1>1, <1>2, <1>3 DEF Mac!Working
<1>5. /\ loops[l].servers =>
            /\ msaved' = [s \in Services |->
                            IF s \in Mac!NewServices THEN services[s] ELSE msaved[s]]
            /\ services' = [s \in Services |->
                              IF s \in Mac!Present THEN "tunnel" ELSE services[s]]
      /\ ~loops[l].servers => UNCHANGED <<msaved, services>>
  BY DEF Mac!ReapplyDNS, Mac!CaptureAll
<1>6. MacTypes'
  <2>1. /\ services' = [s \in Services |-> services'[s]]
        /\ msaved' = [s \in Services |-> msaved'[s]]
    BY <1>5 DEF MacTypes
  <2>2. QED BY <1>1, <1>2, <1>3, <2>1 DEF MacTypes, Last, Loop
<1>7. Beside'
  BY <1>1, <1>2, <1>3, <1>4 DEF Beside, Watched, Tracking
<1>8. Lasting'
  BY <1>1, <1>5 DEF Lasting, Mac!NewServices, Mac!Present
<1>9. Unserved' /\ NotYet'
  <2>1. ~dnsActive => msaved' = msaved
    BY <1>5 DEF Mac!NewServices, MacTypes
  <2>2. QED BY <1>1, <2>1 DEF Unserved, NotYet, Idle, Mac!NoServices
<1>10. ASSUME ~overlap PROVE Alone' /\ Diverted' /\ Replaced'
  <2>1. Mac!Working = {l} /\ Watched /\ split1 /\ Mac!Working' = {}
    BY <1>4, <1>10 DEF Alone, Beside
  <2>2. mbypass = mlast.eps /\ loops[l].gw = mlast.gw
    BY <1>1, <1>4, <1>10 DEF Diverted, Reapplying
  <2>3. Unrouted' /\ OneRoute' /\ Probed'
    <3>1. mtodo \notin Approaching \cup Parting \cup {Splitting, Stashing} /\ ~Idle
      BY <2>1, MacWatched
    <3>2. QED BY <1>1, <1>10, <2>1, <2>2, <3>1
             DEF Diverted, Unrouted, OneRoute, Probed, Idle
  <2>4. Followed'
    <3>1. SUFFICES ASSUME Tracking' PROVE Followed'
      BY DEF Followed
    <3>2. /\ ~shifted => Fits(mlast.eps, mlast.gw)
          /\ ~kick /\ ~missed => loops[l].gw = gateway
      BY <1>1, <1>10, <2>1, <3>1 DEF Diverted, Followed, Tracking
    <3>3. ~shifted' => Fits(mlast.eps, mlast.gw)'
      BY <1>1, <3>2 DEF Fits
    <3>4. QED BY <1>1, <2>1, <2>2, <3>2, <3>3 DEF Followed
  <2>5. Replaced'
    <3>1. Replaced /\ (loops[l].servers => dnsActive)
      BY <1>10, <2>1 DEF Replaced
    <3>2. CASE ~loops[l].servers
      BY <1>1, <1>5, <2>1, <3>1, <3>2, ReplacedFrame
    <3>3. CASE loops[l].servers
      <4>1. SUFFICES ASSUME NEW s \in Services
                     PROVE  /\ msaved'[s] # None =>
                                  msaved'[s] = Users(s) /\ services'[s] # "absent"
                            /\ preMod'[s] # None => preMod'[s] = Users(s)
                            /\ services'[s] \in {"absent", Users(s), "tunnel"}
                            /\ services'[s] = "tunnel" => msaved'[s] # None /\ dnsActive'
        BY <1>1, <2>1 DEF Replaced, Users
      <4>2. /\ msaved[s] # None => msaved[s] = Users(s) /\ services[s] # "absent"
            /\ preMod[s] # None => preMod[s] = Users(s)
            /\ services[s] \in {"absent", Users(s), "tunnel"}
            /\ services[s] = "tunnel" => msaved[s] # None
            /\ dnsActive
        BY <3>1, <3>3 DEF Replaced
      <4>3. /\ msaved'[s] = IF services[s] # "absent" /\ msaved[s] = None
                            THEN services[s] ELSE msaved[s]
            /\ services'[s] = IF services[s] # "absent" THEN "tunnel" ELSE services[s]
        BY <1>5, <3>3, <4>2 DEF Mac!NewServices, Mac!Present
      <4>4. Users(s) \in {"empty", "own"} /\ None \notin {"empty", "own", "absent", "tunnel"}
        BY NoneAssumption DEF Users
      <4>5. QED BY <1>1, <4>2, <4>3, <4>4
    <3>4. QED BY <3>2, <3>3
  <2>6. QED BY <2>1, <2>3, <2>4, <2>5 DEF Alone, Diverted
<1>11. QED BY <1>1, <1>6, <1>7, <1>8, <1>9, <1>10

-----------------------------------------------------------------------------
(* Before the first connect the macOS network manager has changed nothing. *)
LEMMA MacInitially ==
    ASSUME MCInit
    PROVE  MacInv
<1>1. /\ live \in Endpoints
      /\ hosts = [e \in Endpoints |-> None] /\ split1 = FALSE
      /\ services = [s \in Services |-> IF s = Mac!First THEN "own" ELSE "absent"]
      /\ mtodo = << >> /\ mup = FALSE
      /\ mlast = Mac!Forgotten /\ mbypass = {}
      /\ msaved = Mac!NoServices /\ preMod = Mac!NoServices /\ dnsActive = FALSE
      /\ monitor = "off" /\ kick = FALSE /\ loops = [l \in 1..2 |-> Mac!Gone]
      /\ emptied = {} /\ overlap = FALSE
  BY DEF MCInit, Mac!Init
<1>2. Mac!Working = {} /\ \A l \in 1..2 : loops[l].at = "gone"
  BY <1>1, LoopShapes DEF Mac!Working
<1>3. /\ ~Tracking /\ ~Watched /\ Idle
      /\ mtodo \notin Approaching \cup Parting \cup {Splitting, Stashing, Leaving}
  BY <1>1, MacStages DEF Tracking, Watched, Idle, MacSteps
<1>4. MacTypes
  <2>1. Last(mlast)
    <3>1. PICK no : no = FALSE
      OBVIOUS
    <3>2. mlast = [set |-> no, eps |-> {}, gw |-> None]
      BY <1>1, <3>1 DEF Mac!Forgotten
    <3>3. QED BY <3>2 DEF Last
  <2>2. loops = [l \in 1..2 |-> loops[l]]
    BY <1>1
  <2>3. \A l \in 1..2 : Loop(loops[l]) /\ loops[l].eps \subseteq Endpoints
    BY <1>1, LoopShapes
  <2>4. /\ hosts = [e \in Endpoints |-> hosts[e]]
        /\ services = [s \in Services |-> services[s]]
        /\ msaved = [s \in Services |-> msaved[s]]
        /\ mbypass = {e \in Endpoints : hosts[e] # None}
    BY <1>1 DEF Mac!NoServices
  <2>5. QED BY <1>1, <2>1, <2>2, <2>3, <2>4 DEF MacTypes
<1>5. Beside
  BY <1>1, <1>2, <1>3 DEF Beside
<1>6. Lasting /\ Unserved /\ NotYet
  BY <1>1, NoneAssumption DEF Lasting, Unserved, NotYet, Mac!NoServices
<1>7. Alone /\ Diverted
  BY <1>1, <1>2, <1>3 DEF Alone, Diverted, Unrouted, OneRoute, Probed, Followed
<1>8. Replaced
  BY <1>1, <1>2, NoneAssumption DEF Replaced, Users, Mac!NoServices
<1>9. QED
  BY <1>4, <1>5, <1>6, <1>7, <1>8 DEF MacInv

(* No step, of this part or of another, breaks the invariant of the macOS
   network manager. *)
LEMMA MacKept ==
    ASSUME MacInv, [MCNext]_all
    PROVE  MacInv'
<1>1. CASE UNCHANGED mvars
  <2>1. /\ UNCHANGED <<gateway, pinnedTo, usable, live, hosts, split1, services>>
        /\ UNCHANGED <<mtodo, mup, probed, mlast, mbypass, msaved, preMod, dnsActive>>
        /\ UNCHANGED <<monitor, restarts, kick, loops, emptied, missed, shifted, overlap>>
    BY <1>1 DEF mvars
  <2>2. UNCHANGED Mac!Working
    BY <2>1 DEF Mac!Working
  <2>3. MacTypes'
    BY <2>1, MacTypesFrame DEF MacInv, MacTypes
  <2>4. Beside' /\ Lasting' /\ Unserved' /\ NotYet'
    BY <2>1, <2>2 DEF MacInv, Beside, Watched, Tracking, Idle, Lasting, Unserved, NotYet,
                      Mac!NoServices
  <2>5. ASSUME ~overlap PROVE Alone' /\ Diverted' /\ Replaced'
    <3>1. Alone'
      BY <2>2, <2>5 DEF MacInv, Alone
    <3>2. (Idle' => Idle) /\ (Tracking' => Tracking)
      BY <2>1 DEF Idle, Tracking
    <3>3. Diverted'
      BY <2>1, <2>2, <2>5, <3>2, DivertedFrame DEF MacInv
    <3>4. Replaced'
      BY <2>1, <2>2, <2>5, ReplacedFrame DEF MacInv
    <3>5. QED BY <3>1, <3>3, <3>4
  <2>6. QED BY <2>1, <2>3, <2>4, <2>5 DEF MacInv
<1>2. CASE Mac!Operate
  BY <1>2, MacMovesOn, MacConnects, MacDiverts, MacSplits, MacStashes, MacCaptures,
     MacServes, MacUnsubscribes, MacRemoves, MacRestores, MacCleansUp DEF Mac!Operate
<1>3. CASE Mac!Monitor
  BY <1>3, MacMonitorKeeps, MacSettles, MacLooks, MacDeletes, MacAdds, MacStores,
     MacReapplies DEF Mac!Monitor
<1>4. CASE Mac!NetworkChange \/ Mac!Roam
  BY <1>4, MacNetworkKeeps
<1>5. QED
  BY <1>1, <1>2, <1>3, <1>4 DEF MCNext, SystemNext, all, Mac!Next

(* While half of the default route leads into the tunnel on macOS, every       *)
(* endpoint has a route of its own, by the gateway there is once the monitor   *)
(* has looked at the last event; and after a disconnect, or a connect that     *)
(* failed, neither a route nor a server of the tunnel's is left.  Not if two   *)
(* reapplies have run at once or Stop returned over one.                       *)
(* (network/darwin.go AddRoutes, RemoveRoutes, SetDNS;                         *)
(* route_monitor_darwin.go reapply)                                            *)
THEOREM BypassFollowsTheNetwork == MCSpec => []BypassExact
<1>1. MCInit => MacInv
  BY MacInitially
<1>2. MacInv /\ [MCNext]_all => MacInv'
  BY MacKept
<1>3. MacInv => BypassExact
  <2>1. SUFFICES ASSUME MacInv PROVE BypassExact
    OBVIOUS
  <2>2. Mac!BypassFollows
    <3>1. ASSUME split1, Mac!Working = {}, ~overlap, NEW e \in mlast.eps
          PROVE  hosts[e] # None
      BY <2>1, <3>1 DEF MacInv, MacTypes, Diverted, OneRoute
    <3>2. ASSUME mup, ~kick, Mac!Working = {}, ~missed, ~shifted, ~overlap,
                 NEW e \in mlast.eps
          PROVE  hosts[e] = gateway \/ (hosts[e] = "hole" /\ (pinnedTo \/ gateway = None))
      <4>1. Tracking
        BY <3>2 DEF Tracking
      <4>2. Fits(mlast.eps, mlast.gw) /\ mlast.gw = gateway
        BY <2>1, <3>2, <4>1 DEF MacInv, Diverted, Followed
      <4>3. QED BY <3>2, <4>2 DEF Fits
    <3>3. QED BY <3>1, <3>2 DEF Mac!BypassFollows
  <2>3. Mac!NothingRemains
    <3>1. SUFFICES ASSUME mtodo = << >>, ~mup, ~overlap PROVE Mac!Untouched
      BY DEF Mac!NothingRemains
    <3>2. Idle
      BY <3>1 DEF Idle
    <3>3. \A e \in Endpoints : hosts[e] = None
      BY <2>1, <3>1, <3>2 DEF MacInv, MacTypes, Diverted, Unrouted
    <3>4. ~dnsActive
      BY <2>1, <3>2 DEF MacInv, NotYet
    <3>5. \A s \in Mac!Present : services[s] = IF s \in emptied THEN "empty" ELSE "own"
      BY <2>1, <3>1, <3>4 DEF MacInv, Replaced, Users, Mac!Present
    <3>6. QED BY <3>3, <3>5 DEF Mac!Untouched
  <2>4. QED BY <2>2, <2>3 DEF BypassExact
<1>4. QED BY <1>1, <1>2, <1>3, PTL DEF MCSpec, all

-----------------------------------------------------------------------------
(* Packet filters: where an operation is.  A list of steps is described by the
   step that is next and by what is left behind it. *)
Items == Steps \X Maybe
Reaches(s, name) == s # << >> /\ Head(s)[1] = name

(* Steps that neither read nor write the filters, and those that put the steps
   that do in their place.  The loop protection goes in before its tunnel. *)
Outward == {"protect", "up", "down", "release", "suspend", "resume", "apply"}
Outer(s) ==
    /\ s \in Seq(Items)
    /\ \A i \in 1..Len(s) :
          /\ s[i][1] \in Outward /\ s[i][2] \in Tunnels
          /\ s[i][1] = "protect" => i < Len(s) /\ s[i + 1] = <<"up", s[i][2]>>

(* The owner is noted last. *)
Owns(s) == Reaches(s, "own") /\ Outer(Tail(s)) /\ s \in Seq(Items)
Behind(s) == Outer(s) \/ Owns(s)

(* EnableDNSProtection from each of its steps on; all have the same tunnel. *)
Remembers(s) ==
    Reaches(s, "enabled") /\ Behind(Tail(s)) /\ Head(s)[2] \in Tunnels
TurnsOn(s) ==
    Reaches(s, "pfon") /\ Remembers(Tail(s)) /\ Head(s)[2] = Head(Tail(s))[2]
Loads(s) ==
    Reaches(s, "load") /\ TurnsOn(Tail(s)) /\ Head(s)[2] = Head(Tail(s))[2]
Persists(s) == Reaches(s, "persist") /\ Loads(Tail(s))
Enables(s) == Reaches(s, "enable") /\ Behind(Tail(s)) /\ Head(s)[2] \in Tunnels

(* DisableDNSProtection. *)
Ends(s) == Reaches(s, "disabled") /\ Outer(Tail(s))
TurnsOff(s) == Reaches(s, "pfoff") /\ Ends(Tail(s))
Forgets(s, was) ==
    Reaches(s, "forget") /\ IF was THEN Ends(Tail(s)) ELSE TurnsOff(Tail(s))
Flushes(s, was) == Reaches(s, "flush") /\ Forgets(Tail(s), was)
Disables(s) == Reaches(s, "disable") /\ Outer(Tail(s))

(* The launch: Cleanup, the tunnels' recovery, RecoverSavedRules. *)
LastRestored(s) == Reaches(s, "restored") /\ Tail(s) = << >>
ThenRecover(s) == Reaches(s, "recover") /\ LastRestored(Tail(s))
ThenCleaned(s) == Reaches(s, "cleaned") /\ ThenRecover(Tail(s))
FirstFlushes(s) == Reaches(s, "flush") /\ ThenCleaned(Tail(s))
FirstDisables(s) == Reaches(s, "disable") /\ ThenCleaned(Tail(s))
FirstCleanup(s) == Reaches(s, "cleanup") /\ ThenRecover(Tail(s))
RestoreForgets(s) == Reaches(s, "forget") /\ LastRestored(Tail(s))
RestoreTurnsOff(s) == Reaches(s, "pfoff") /\ RestoreForgets(Tail(s))
RestoreFlushes(s, was) ==
    Reaches(s, "flush") /\ IF was THEN RestoreForgets(Tail(s))
                           ELSE RestoreTurnsOff(Tail(s))

(* The shutdown: DisconnectAll, Cleanup, exit. *)
LastExit(s) == Reaches(s, "exit") /\ Tail(s) = << >>
LastCleaned(s) == Reaches(s, "cleaned") /\ LastExit(Tail(s))
LastForgets(s) == Reaches(s, "forget") /\ LastCleaned(Tail(s))
LastTurnsOff(s) == Reaches(s, "pfoff") /\ LastForgets(Tail(s))
LastFlushes(s, enabled, was) ==
    Reaches(s, "flush") /\ IF ~enabled THEN LastCleaned(Tail(s))
                           ELSE IF was THEN LastForgets(Tail(s))
                           ELSE LastTurnsOff(Tail(s))
LastDisables(s) == Reaches(s, "disable") /\ LastCleaned(Tail(s))
LastCleanup(s) == Reaches(s, "cleanup") /\ LastExit(Tail(s))
ClosesAll(s) == Reaches(s, "downall") /\ LastCleanup(Tail(s))
ClosesOne(s) == Reaches(s, "down") /\ ClosesAll(Tail(s))

(* How the user had pf is lost, or so it may be. *)
Misled == torn \/ reenabled
AsItWas == pf = hadPf \/ Misled
RemembersWell == (pfWasEnabled <=> hadPf) \/ Misled

FilterTypes ==
    /\ os \in {"darwin", "linux", "windows"}
    /\ {pf, hadPf, pfWasEnabled, torn, reenabled} \subseteq BOOLEAN
    /\ {rules, carrier, owner} \subseteq Maybe
    /\ up \subseteq Tunnels /\ cached \subseteq Tunnels
    /\ todo \in Seq(Items)
    /\ file \in {"none", "on", "off"}

(* Each platform has its own; the file says how pf was before the rules. *)
Recorded ==
    /\ os # "windows" => blocks = {}
    /\ os # "darwin" => pf = hadPf /\ file = "none"
    /\ os = "darwin" /\ rules # None => file # "none"
    /\ file # "none" => (file = "on" <=> hadPf) \/ Misled
    /\ (hadPf => pf) \/ Misled

(* No step on the filters is under way. *)
AtRest ==
    /\ carrier # None => rules = carrier \/ (os = "linux" /\ reenabled)
    /\ carrier # None /\ os = "darwin" => pf
    /\ carrier = None => (rules = None \/ torn) /\ AsItWas

(* A process that has enabled the rules knows how pf was. *)
Knows == os = "darwin" /\ (carrier # None \/ owner # None) => RemembersWell

FilterOff ==
    /\ todo = << >> /\ up = {} /\ blocks = {} /\ owner = None /\ carrier = None
    /\ file = "none" => AsItWas
    /\ os = "windows" => rules = None
    /\ os = "linux" /\ rules # None => torn \/ journal # {}

FilterStarting ==
    /\ up = {} /\ blocks = {} /\ owner = None /\ carrier = None
    /\ file = "none" => AsItWas
    /\ os = "windows" => rules = None
    /\ \/ FirstCleanup(todo)
       \/ FirstFlushes(todo) /\ os = "darwin"
       \/ FirstDisables(todo) /\ os # "darwin"
       \/ /\ ThenCleaned(todo) \/ ThenRecover(todo) \/ LastRestored(todo)
          /\ os = "linux" => rules = None \/ torn
       \/ /\ RestoreFlushes(todo, file = "on")
          /\ os = "darwin" /\ file # "none"
       \/ RestoreTurnsOff(todo) /\ os = "darwin" /\ rules = None /\ file = "off"
       \/ RestoreForgets(todo) /\ os = "darwin" /\ rules = None /\ AsItWas

FilterOn ==
    /\ Knows
    /\ \/ blocks \subseteq up
       \/ Reaches(todo, "up") /\ blocks \subseteq up \cup {Arg}
    /\ \/ Outer(todo) /\ AtRest
       \/ Owns(todo) /\ AtRest /\ carrier # None
       \/ /\ os = "darwin"
          /\ \/ Persists(todo) /\ AtRest /\ (carrier = None \/ reenabled)
             \/ Loads(todo) /\ AtRest /\ file # "none"
             \/ TurnsOn(todo) /\ rules = Arg /\ file # "none"
             \/ Remembers(todo) /\ rules = Arg /\ file # "none" /\ pf
             \/ Flushes(todo, pfWasEnabled) /\ RemembersWell
             \/ Forgets(todo, pfWasEnabled) /\ RemembersWell /\ rules = None
             \/ TurnsOff(todo) /\ (~hadPf \/ Misled) /\ rules = None
             \/ Ends(todo) /\ AsItWas /\ rules = None
       \/ /\ os # "darwin"
          /\ \/ Enables(todo) /\ AtRest /\ (rules # None => reenabled)
             \/ Disables(todo)

FilterStopping ==
    \/ /\ ClosesOne(todo) \/ ClosesAll(todo) \/ LastCleanup(todo)
       /\ AtRest /\ Knows
    \/ /\ LastFlushes(todo, carrier # None, pfWasEnabled) /\ os = "darwin"
       /\ IF carrier = None THEN AsItWas ELSE RemembersWell
    \/ LastTurnsOff(todo) /\ os = "darwin" /\ (~hadPf \/ Misled) /\ rules = None
    \/ LastForgets(todo) /\ os = "darwin" /\ AsItWas /\ rules = None
    \/ LastDisables(todo) /\ os # "darwin"
    \/ (LastCleaned(todo) \/ LastExit(todo)) /\ AsItWas /\ rules = None /\ blocks = {}

FilterPhase ==
    \/ alive = "off" /\ FilterOff
    \/ alive = "starting" /\ FilterStarting
    \/ alive = "on" /\ FilterOn
    \/ alive = "stopping" /\ FilterStopping

FilterInv == FilterTypes /\ Recorded /\ FilterPhase

(* Steps put in front of others. *)
LEMMA Front ==
    ASSUME NEW u \in Seq(Items), u # << >>, NEW s \in Seq(Items)
    PROVE  /\ u \o s \in Seq(Items) /\ u \o s # << >>
           /\ Head(u \o s) = Head(u) /\ Tail(u \o s) = Tail(u) \o s
<1> DEFINE w == u \o s
<1>1. Len(u) \in Nat \ {0} /\ Len(s) \in Nat
  OBVIOUS
<1>2. w \in Seq(Items) /\ Len(w) = Len(u) + Len(s)
      /\ \A i \in 1..Len(w) : w[i] = IF i <= Len(u) THEN u[i] ELSE s[i - Len(u)]
  OBVIOUS
<1> HIDE DEF w
<1>3. w # << >> /\ Head(w) = Head(u)
  BY <1>1, <1>2
<1>4. Tail(w) = Tail(u) \o s
  <2>1. Tail(w) \in Seq(Items) /\ Tail(u) \o s \in Seq(Items)
    BY <1>1, <1>2, <1>3
  <2>2. Len(Tail(w)) = Len(Tail(u) \o s)
    BY <1>1, <1>2, <1>3
  <2>3. ASSUME NEW i \in 1..Len(Tail(w)) PROVE Tail(w)[i] = (Tail(u) \o s)[i]
    <3>1. Tail(w)[i] = w[i + 1]
      BY <1>2, <1>3
    <3>2. w[i + 1] = IF i + 1 <= Len(u) THEN u[i + 1] ELSE s[i + 1 - Len(u)]
      BY <1>1, <1>2, <1>3
    <3>3. i <= Len(u) - 1 => Tail(u)[i] = u[i + 1]
      BY <1>1
    <3>4. QED BY <1>1, <1>2, <1>3, <3>1, <3>2, <3>3
  <2> DEFINE x == Tail(w)
             y == Tail(u) \o s
  <2>4. x \in Seq(Items) /\ y \in Seq(Items) /\ Len(x) = Len(y)
        /\ \A i \in 1..Len(x) : x[i] = y[i]
    BY <2>1, <2>2, <2>3
  <2> HIDE DEF x, y
  <2>5. x = y
    BY <2>4
  <2>6. QED BY <2>5 DEF x, y
<1>5. QED BY <1>2, <1>3, <1>4 DEF w

(* No steps. *)
LEMMA Empty == ASSUME NEW s \in Seq(Items) PROVE << >> \o s = s /\ s \o << >> = s
OBVIOUS

(* What is left of steps written out. *)
LEMMA Written ==
    ASSUME NEW a \in Items, NEW b \in Items, NEW c \in Items, NEW d \in Items
    PROVE  /\ <<a>> \in Seq(Items) /\ <<a, b>> \in Seq(Items)
           /\ <<a, b, c>> \in Seq(Items) /\ <<a, b, c, d>> \in Seq(Items)
           /\ <<a>> # << >> /\ <<a, b>> # << >> /\ <<a, b, c>> # << >>
           /\ <<a, b, c, d>> # << >>
           /\ Head(<<a>>) = a /\ Tail(<<a>>) = << >>
           /\ Head(<<a, b>>) = a /\ Tail(<<a, b>>) = <<b>>
           /\ Head(<<a, b, c>>) = a /\ Tail(<<a, b, c>>) = <<b, c>>
           /\ Head(<<a, b, c, d>>) = a /\ Tail(<<a, b, c, d>>) = <<b, c, d>>
<1>1. <<a>> \in Seq(Items) /\ <<a>> # << >>
      /\ Head(<<a>>) = a /\ Tail(<<a>>) = << >>
  OBVIOUS
<1>2. <<a, b>> \in Seq(Items) /\ <<a, b>> # << >>
      /\ Head(<<a, b>>) = a /\ Tail(<<a, b>>) = <<b>>
  OBVIOUS
<1>3. <<a, b, c>> \in Seq(Items) /\ <<a, b, c>> # << >>
      /\ Head(<<a, b, c>>) = a /\ Tail(<<a, b, c>>) = <<b, c>>
  OBVIOUS
<1>4. <<a, b, c, d>> \in Seq(Items) /\ <<a, b, c, d>> # << >>
      /\ Head(<<a, b, c, d>>) = a /\ Tail(<<a, b, c, d>>) = <<b, c, d>>
  OBVIOUS
<1>5. QED BY <1>1, <1>2, <1>3, <1>4

(* One step in front of others. *)
LEMMA Concatenated ==
    ASSUME NEW a \in Items, NEW s \in Seq(Items)
    PROVE  /\ <<a>> \o s \in Seq(Items) /\ <<a>> \o s # << >>
           /\ Head(<<a>> \o s) = a /\ Tail(<<a>> \o s) = s
<1>1. <<a>> \in Seq(Items) /\ <<a>> # << >> /\ Head(<<a>>) = a /\ Tail(<<a>>) = << >>
  BY Written
<1>2. QED BY <1>1, Front, Empty

(* Steps in front of steps in front of others. *)
LEMMA Associative ==
    ASSUME NEW u \in Seq(Items), NEW v \in Seq(Items), NEW w \in Seq(Items)
    PROVE  (u \o v) \o w = u \o (v \o w)
OBVIOUS

(* The steps that come next in a list of outward steps. *)
LEMMA OuterHead ==
    ASSUME NEW s, Outer(s), s # << >>
    PROVE  /\ Head(s)[1] \in Outward /\ Head(s)[2] \in Tunnels
           /\ Head(s)[1] = "protect" =>
                 Reaches(Tail(s), "up") /\ Head(Tail(s)) = <<"up", Head(s)[2]>>
           /\ Outer(Tail(s))
<1>1. s \in Seq(Items) /\ Len(s) \in Nat \ {0} /\ Head(s) = s[1] /\ 1 \in 1..Len(s)
  BY DEF Outer
<1>2. Tail(s) \in Seq(Items) /\ Len(Tail(s)) = Len(s) - 1
      /\ \A i \in 1..(Len(s) - 1) : Tail(s)[i] = s[i + 1]
  BY <1>1
<1>3. Outer(Tail(s))
  <2>1. ASSUME NEW i \in 1..Len(Tail(s))
        PROVE  /\ Tail(s)[i][1] \in Outward /\ Tail(s)[i][2] \in Tunnels
               /\ Tail(s)[i][1] = "protect" =>
                     i < Len(Tail(s)) /\ Tail(s)[i + 1] = <<"up", Tail(s)[i][2]>>
    <3>1. i + 1 \in 1..Len(s) /\ Tail(s)[i] = s[i + 1]
      BY <1>1, <1>2
    <3>2. i < Len(Tail(s)) => Tail(s)[i + 1] = s[(i + 1) + 1]
      BY <1>1, <1>2
    <3>3. QED BY <1>1, <1>2, <3>1, <3>2 DEF Outer
  <2>2. QED BY <1>2, <2>1 DEF Outer
<1>4. Head(s)[1] = "protect" =>
         Reaches(Tail(s), "up") /\ Head(Tail(s)) = <<"up", Head(s)[2]>>
  <2>1. SUFFICES ASSUME Head(s)[1] = "protect"
                 PROVE  Reaches(Tail(s), "up") /\ Head(Tail(s)) = <<"up", Head(s)[2]>>
    OBVIOUS
  <2>2. 1 < Len(s) /\ s[2] = <<"up", Head(s)[2]>>
    BY <1>1, <2>1 DEF Outer
  <2>3. Tail(s) # << >> /\ Head(Tail(s)) = s[2]
    <3> DEFINE r == Tail(s)
    <3>1. r \in Seq(Items) /\ Len(r) > 0 /\ r[1] = s[2]
      BY <1>1, <1>2, <2>2
    <3> HIDE DEF r
    <3>2. r # << >> /\ Head(r) = r[1]
      BY <3>1
    <3>3. QED BY <3>1, <3>2 DEF r
  <2>4. QED BY <2>2, <2>3 DEF Reaches
<1>5. QED BY <1>1, <1>3, <1>4 DEF Outer

(* No step is left. *)
LEMMA OuterEmpty == Outer(<< >>)
BY DEF Outer

(* An outward step in front of others. *)
LEMMA OuterMore ==
    ASSUME NEW s, Outer(s), NEW a \in Items, a[1] \in Outward, a[2] \in Tunnels,
           a[1] = "protect" => s # << >> /\ Head(s) = <<"up", a[2]>>
    PROVE  Outer(<<a>> \o s)
<1> DEFINE w == <<a>> \o s
<1>1. s \in Seq(Items) /\ Len(s) \in Nat
  BY DEF Outer
<1>2. /\ w \in Seq(Items) /\ Len(w) = Len(s) + 1 /\ w[1] = a
      /\ \A i \in 2..Len(w) : w[i] = s[i - 1]
  BY <1>1
<1> HIDE DEF w
<1>3. ASSUME NEW i \in 1..Len(w)
      PROVE  /\ w[i][1] \in Outward /\ w[i][2] \in Tunnels
             /\ w[i][1] = "protect" => i < Len(w) /\ w[i + 1] = <<"up", w[i][2]>>
  <2>1. CASE i = 1
    <3>1. s # << >> => Len(s) >= 1 /\ w[2] = Head(s)
      BY <1>1, <1>2
    <3>2. QED BY <1>1, <1>2, <2>1, <3>1
  <2>2. CASE i # 1
    <3>1. i - 1 \in 1..Len(s) /\ w[i] = s[i - 1]
      BY <1>1, <1>2, <2>2
    <3>2. i < Len(w) => w[i + 1] = s[(i - 1) + 1]
      BY <1>1, <1>2, <2>2
    <3>3. QED BY <1>1, <1>2, <3>1, <3>2 DEF Outer
  <2>3. QED BY <2>1, <2>2
<1>4. QED BY <1>2, <1>3 DEF Outer, w

(* The steps have names of Steps. *)
LEMMA Named ==
    ASSUME NEW t \in Maybe
    PROVE  \A name \in Steps : <<name, t>> \in Items
BY DEF Items

(* Steps written out, one by one. *)
LEMMA Spelt ==
    ASSUME NEW a \in Items, NEW b \in Items, NEW c \in Items, NEW d \in Items
    PROVE  /\ <<a>> \in Seq(Items) /\ Len(<<a>>) = 1 /\ <<a>>[1] = a
           /\ <<a, b>> \in Seq(Items) /\ Len(<<a, b>>) = 2
           /\ <<a, b>>[1] = a /\ <<a, b>>[2] = b
           /\ <<a, b, c>> \in Seq(Items) /\ Len(<<a, b, c>>) = 3
           /\ <<a, b, c>>[1] = a /\ <<a, b, c>>[2] = b /\ <<a, b, c>>[3] = c
           /\ <<a, b, c, d>> \in Seq(Items) /\ Len(<<a, b, c, d>>) = 4
           /\ <<a, b, c, d>>[1] = a /\ <<a, b, c, d>>[2] = b /\ <<a, b, c, d>>[3] = c
           /\ <<a, b, c, d>>[4] = d
OBVIOUS

(* Steps written out behind one another. *)
LEMMA Joined ==
    ASSUME NEW a \in Items, NEW b \in Items, NEW c \in Items
    PROVE  <<a>> \o <<b>> = <<a, b>> /\ <<a, b>> \o <<c>> = <<a, b, c>>
<1>1. <<a>> \o <<b>> = <<a, b>>
  <2> DEFINE x == <<a>> \o <<b>>
             y == <<a, b>>
  <2>1. /\ x \in Seq(Items) /\ Len(x) = 2 /\ x[1] = a /\ x[2] = b
        /\ y \in Seq(Items) /\ Len(y) = 2 /\ y[1] = a /\ y[2] = b
    BY Spelt
  <2> HIDE DEF x, y
  <2>3. \A i \in 1..Len(x) : x[i] = y[i]
    BY <2>1
  <2>4. x = y
    BY <2>1, <2>3
  <2>5. QED BY <2>4 DEF x, y
<1>2. <<a, b>> \o <<c>> = <<a, b, c>>
  <2> DEFINE x == <<a, b>> \o <<c>>
             y == <<a, b, c>>
  <2>1. /\ x \in Seq(Items) /\ Len(x) = 3 /\ x[1] = a /\ x[2] = b /\ x[3] = c
    BY Spelt
  <2>2. y \in Seq(Items) /\ Len(y) = 3 /\ y[1] = a /\ y[2] = b /\ y[3] = c
    BY Spelt
  <2> HIDE DEF x, y
  <2>3. \A i \in 1..Len(x) : x[i] = y[i]
    BY <2>1, <2>2
  <2>4. x = y
    BY <2>1, <2>2, <2>3
  <2>5. QED BY <2>4 DEF x, y
<1>3. QED BY <1>1, <1>2

(* The longest of these lists. *)
LEMMA JoinedFour ==
    ASSUME NEW a \in Items, NEW b \in Items, NEW c \in Items, NEW d \in Items
    PROVE  <<a, b, c>> \o <<d>> = <<a, b, c, d>>
<1> DEFINE x == <<a, b, c>> \o <<d>>
           y == <<a, b, c, d>>
<1>1. /\ x \in Seq(Items) /\ Len(x) = 4 /\ x[1] = a /\ x[2] = b /\ x[3] = c /\ x[4] = d
  BY Spelt
<1>2. y \in Seq(Items) /\ Len(y) = 4 /\ y[1] = a /\ y[2] = b /\ y[3] = c /\ y[4] = d
  BY Spelt
<1> HIDE DEF x, y
<1>3. \A i \in 1..Len(x) : x[i] = y[i]
  BY <1>1, <1>2
<1>4. x = y
  BY <1>1, <1>2, <1>3
<1>5. QED BY <1>4 DEF x, y

(* EnableDNSProtection in front of what follows it. *)
LEMMA EnableList ==
    ASSUME NEW t \in Tunnels, NEW s, Behind(s)
    PROVE  /\ EnableSteps(t) \in Seq(Items)
           /\ EnableSteps(t) \o s \in Seq(Items)
           /\ os = "darwin" => Persists(EnableSteps(t) \o s)
           /\ os # "darwin" => Enables(EnableSteps(t) \o s)
<1> DEFINE a == <<"persist", t>>
           b == <<"load", t>>
           c == <<"pfon", t>>
           d == <<"enabled", t>>
           e == <<"enable", t>>
<1>1. {a, b, c, d, e} \subseteq Items /\ s \in Seq(Items)
  BY DEF Items, Steps, Maybe, Outer, Owns, Behind
<1>2. /\ a[1] = "persist" /\ b[1] = "load" /\ c[1] = "pfon" /\ d[1] = "enabled"
      /\ e[1] = "enable"
      /\ a[2] = t /\ b[2] = t /\ c[2] = t /\ d[2] = t /\ e[2] = t
  OBVIOUS
<1>3. os = "darwin" => EnableSteps(t) = <<a, b, c, d>>
  BY DEF EnableSteps
<1>4. os # "darwin" => EnableSteps(t) = <<e>>
  BY DEF EnableSteps
<1> HIDE DEF a, b, c, d, e
<1>5. /\ <<a, b, c, d>> \in Seq(Items) /\ <<e>> \in Seq(Items)
      /\ <<a, b, c, d>> \o s \in Seq(Items) /\ <<e>> \o s \in Seq(Items)
  BY <1>1, Written, Front
<1>6. Remembers(<<d>> \o s) /\ Head(<<d>> \o s)[2] = t
  BY <1>1, <1>2, Concatenated DEF Remembers, Reaches
<1>7. TurnsOn(<<c, d>> \o s) /\ Head(<<c, d>> \o s)[2] = t
  <2>1. <<c, d>> \o s # << >> /\ Head(<<c, d>> \o s) = c
        /\ Tail(<<c, d>> \o s) = <<d>> \o s
    BY <1>1, Written, Front
  <2>2. QED BY <1>2, <1>6, <2>1 DEF TurnsOn, Reaches
<1>8. Loads(<<b, c, d>> \o s)
  <2>1. <<b, c, d>> \o s # << >> /\ Head(<<b, c, d>> \o s) = b
        /\ Tail(<<b, c, d>> \o s) = <<c, d>> \o s
    BY <1>1, Written, Front
  <2>2. QED BY <1>2, <1>7, <2>1 DEF Loads, Reaches
<1>9. Persists(<<a, b, c, d>> \o s)
  <2>1. <<a, b, c, d>> \o s # << >> /\ Head(<<a, b, c, d>> \o s) = a
        /\ Tail(<<a, b, c, d>> \o s) = <<b, c, d>> \o s
    BY <1>1, Written, Front
  <2>2. QED BY <1>2, <1>8, <2>1 DEF Persists, Reaches
<1>10. Enables(<<e>> \o s)
  BY <1>1, <1>2, Concatenated DEF Enables, Reaches
<1>11. QED BY <1>3, <1>4, <1>5, <1>9, <1>10

(* DisableDNSProtection in front of what follows it. *)
LEMMA DisableList ==
    ASSUME NEW s, Outer(s)
    PROVE  /\ DisableSteps \in Seq(Items) /\ DisableSteps \o s \in Seq(Items)
           /\ os = "darwin" => Flushes(DisableSteps \o s, pfWasEnabled)
           /\ os # "darwin" => Disables(DisableSteps \o s)
<1> DEFINE a == <<"flush", None>>
           b == <<"forget", None>>
           c == <<"pfoff", None>>
           d == <<"disabled", None>>
           e == <<"disable", None>>
<1>1. {a, b, c, d, e} \subseteq Items /\ s \in Seq(Items)
  BY DEF Items, Steps, Maybe, Outer
<1>2. /\ a[1] = "flush" /\ b[1] = "forget" /\ c[1] = "pfoff" /\ d[1] = "disabled"
      /\ e[1] = "disable"
  OBVIOUS
<1>3. /\ os = "darwin" /\ pfWasEnabled =>
            DisableSteps = (<<a, b>> \o << >>) \o <<d>>
      /\ os = "darwin" /\ ~pfWasEnabled =>
            DisableSteps = (<<a, b>> \o <<c>>) \o <<d>>
      /\ os # "darwin" => DisableSteps = <<e>>
  BY DEF DisableSteps
<1> HIDE DEF a, b, c, d, e
<1>4. (<<a, b>> \o << >>) \o <<d>> = <<a, b, d>>
      /\ (<<a, b>> \o <<c>>) \o <<d>> = <<a, b, c, d>>
  <2>1. <<a, b>> \o << >> = <<a, b>>
    BY <1>1, Written, Empty
  <2>2. <<a, b>> \o <<c>> = <<a, b, c>> /\ <<a, b>> \o <<d>> = <<a, b, d>>
    BY <1>1, Joined
  <2>3. <<a, b, c>> \o <<d>> = <<a, b, c, d>>
    <3>1. a \in Items /\ b \in Items /\ c \in Items /\ d \in Items
      BY <1>1
    <3>2. QED BY <3>1, Joined, JoinedFour
  <2>4. QED BY <2>1, <2>2, <2>3, ZenonT(60)
<1>5. /\ <<a, b, c, d>> \o s \in Seq(Items) /\ <<a, b, d>> \o s \in Seq(Items)
      /\ <<e>> \o s \in Seq(Items)
      /\ {<<a, b, c, d>>, <<a, b, d>>, <<e>>} \subseteq Seq(Items)
  BY <1>1, Written, Front
<1>6. Ends(<<d>> \o s)
  BY <1>1, <1>2, Concatenated DEF Ends, Reaches
<1>7. TurnsOff(<<c, d>> \o s)
  <2>1. <<c, d>> \o s # << >> /\ Head(<<c, d>> \o s) = c
        /\ Tail(<<c, d>> \o s) = <<d>> \o s
    BY <1>1, Written, Front
  <2>2. QED BY <1>2, <1>6, <2>1 DEF TurnsOff, Reaches
<1>8. Forgets(<<b, c, d>> \o s, FALSE) /\ Forgets(<<b, d>> \o s, TRUE)
  <2>1. <<b, c, d>> \o s # << >> /\ Head(<<b, c, d>> \o s) = b
        /\ Tail(<<b, c, d>> \o s) = <<c, d>> \o s
    BY <1>1, Written, Front
  <2>2. <<b, d>> \o s # << >> /\ Head(<<b, d>> \o s) = b
        /\ Tail(<<b, d>> \o s) = <<d>> \o s
    BY <1>1, Written, Front
  <2>3. QED BY <1>2, <1>6, <1>7, <2>1, <2>2 DEF Forgets, Reaches
<1>9. Flushes(<<a, b, c, d>> \o s, FALSE) /\ Flushes(<<a, b, d>> \o s, TRUE)
  <2>1. <<a, b, c, d>> \o s # << >> /\ Head(<<a, b, c, d>> \o s) = a
        /\ Tail(<<a, b, c, d>> \o s) = <<b, c, d>> \o s
    BY <1>1, Written, Front
  <2>2. <<a, b, d>> \o s # << >> /\ Head(<<a, b, d>> \o s) = a
        /\ Tail(<<a, b, d>> \o s) = <<b, d>> \o s
    BY <1>1, Written, Front
  <2>3. QED BY <1>2, <1>8, <2>1, <2>2 DEF Flushes, Reaches
<1>10. Disables(<<e>> \o s)
  BY <1>1, <1>2, Concatenated DEF Disables, Reaches
<1>11. /\ pfWasEnabled => Flushes(<<a, b, d>> \o s, pfWasEnabled)
       /\ ~pfWasEnabled => Flushes(<<a, b, c, d>> \o s, pfWasEnabled)
  BY <1>9 DEF Flushes, Forgets
<1>12. QED BY <1>3, <1>4, <1>5, <1>10, <1>11

(* Cleanup in front of what follows it at the launch and at the shutdown. *)
LEMMA CleanupList ==
    ASSUME NEW s \in Seq(Items)
    PROVE  /\ CleanupSteps \o s \in Seq(Items)
           /\ ThenRecover(s) /\ carrier = None =>
                 /\ os = "darwin" => FirstFlushes(CleanupSteps \o s)
                 /\ os # "darwin" => FirstDisables(CleanupSteps \o s)
           /\ LastExit(s) =>
                 /\ os = "darwin" =>
                       LastFlushes(CleanupSteps \o s, carrier # None, pfWasEnabled)
                 /\ os # "darwin" => LastDisables(CleanupSteps \o s)
<1> DEFINE a == <<"flush", None>>
           b == <<"pfoff", None>>
           c == <<"forget", None>>
           d == <<"cleaned", None>>
           e == <<"disable", None>>
<1>1. {a, b, c, d, e} \subseteq Items
  BY DEF Items, Steps, Maybe
<1>2. /\ a[1] = "flush" /\ b[1] = "pfoff" /\ c[1] = "forget" /\ d[1] = "cleaned"
      /\ e[1] = "disable"
  OBVIOUS
<1>3. /\ os = "darwin" /\ carrier = None =>
            CleanupSteps = ((<<a>> \o << >>) \o << >>) \o <<d>>
      /\ os = "darwin" /\ carrier # None /\ pfWasEnabled =>
            CleanupSteps = ((<<a>> \o << >>) \o <<c>>) \o <<d>>
      /\ os = "darwin" /\ carrier # None /\ ~pfWasEnabled =>
            CleanupSteps = ((<<a>> \o <<b>>) \o <<c>>) \o <<d>>
      /\ os # "darwin" => CleanupSteps = <<e, d>>
  BY DEF CleanupSteps
<1> HIDE DEF a, b, c, d, e
<1>4. /\ ((<<a>> \o << >>) \o << >>) \o <<d>> = <<a, d>>
      /\ ((<<a>> \o << >>) \o <<c>>) \o <<d>> = <<a, c, d>>
      /\ ((<<a>> \o <<b>>) \o <<c>>) \o <<d>> = <<a, b, c, d>>
  <2>1. <<a>> \o << >> = <<a>>
    BY <1>1, Written, Empty
  <2>2. /\ <<a>> \o <<b>> = <<a, b>> /\ <<a>> \o <<c>> = <<a, c>>
        /\ <<a>> \o <<d>> = <<a, d>>
    BY <1>1, Joined
  <2>3. <<a, b>> \o <<c>> = <<a, b, c>> /\ <<a, c>> \o <<d>> = <<a, c, d>>
    BY <1>1, Joined
  <2>4. <<a, b, c>> \o <<d>> = <<a, b, c, d>>
    <3>1. a \in Items /\ b \in Items /\ c \in Items /\ d \in Items
      BY <1>1
    <3>2. QED BY <3>1, JoinedFour
  <2>5. QED BY <2>1, <2>2, <2>3, <2>4, ZenonT(60)
<1>5. /\ <<a, d>> \o s \in Seq(Items) /\ <<a, c, d>> \o s \in Seq(Items)
      /\ <<a, b, c, d>> \o s \in Seq(Items) /\ <<e, d>> \o s \in Seq(Items)
  BY <1>1, Written, Front
<1>6. /\ ThenRecover(s) => ThenCleaned(<<d>> \o s)
      /\ LastExit(s) => LastCleaned(<<d>> \o s)
  BY <1>1, <1>2, Concatenated DEF ThenCleaned, LastCleaned, Reaches
<1>7. LastExit(s) => LastForgets(<<c, d>> \o s)
  <2>1. <<c, d>> \o s # << >> /\ Head(<<c, d>> \o s) = c
        /\ Tail(<<c, d>> \o s) = <<d>> \o s
    BY <1>1, Written, Front
  <2>2. QED BY <1>2, <1>6, <2>1 DEF LastForgets, Reaches
<1>8. LastExit(s) => LastTurnsOff(<<b, c, d>> \o s)
  <2>1. <<b, c, d>> \o s # << >> /\ Head(<<b, c, d>> \o s) = b
        /\ Tail(<<b, c, d>> \o s) = <<c, d>> \o s
    BY <1>1, Written, Front
  <2>2. QED BY <1>2, <1>7, <2>1 DEF LastTurnsOff, Reaches
<1>9. /\ ThenRecover(s) =>
            FirstFlushes(<<a, d>> \o s) /\ FirstDisables(<<e, d>> \o s)
      /\ LastExit(s) =>
            LastFlushes(<<a, d>> \o s, FALSE, pfWasEnabled)
            /\ LastDisables(<<e, d>> \o s)
  <2>1. <<a, d>> \o s # << >> /\ Head(<<a, d>> \o s) = a
        /\ Tail(<<a, d>> \o s) = <<d>> \o s
    BY <1>1, Written, Front
  <2>2. <<e, d>> \o s # << >> /\ Head(<<e, d>> \o s) = e
        /\ Tail(<<e, d>> \o s) = <<d>> \o s
    BY <1>1, Written, Front
  <2>3. QED
    BY <1>2, <1>6, <2>1, <2>2
       DEF FirstFlushes, FirstDisables, LastFlushes, LastDisables, Reaches
<1>10. LastExit(s) => /\ LastFlushes(<<a, c, d>> \o s, TRUE, TRUE)
                      /\ LastFlushes(<<a, b, c, d>> \o s, TRUE, FALSE)
  <2>1. <<a, c, d>> \o s # << >> /\ Head(<<a, c, d>> \o s) = a
        /\ Tail(<<a, c, d>> \o s) = <<c, d>> \o s
    BY <1>1, Written, Front
  <2>2. <<a, b, c, d>> \o s # << >> /\ Head(<<a, b, c, d>> \o s) = a
        /\ Tail(<<a, b, c, d>> \o s) = <<b, c, d>> \o s
    BY <1>1, Written, Front
  <2>3. QED BY <1>2, <1>7, <1>8, <2>1, <2>2 DEF LastFlushes, Reaches
<1>11. LastExit(s) =>
          /\ carrier = None =>
                LastFlushes(<<a, d>> \o s, carrier # None, pfWasEnabled)
          /\ carrier # None /\ pfWasEnabled =>
                LastFlushes(<<a, c, d>> \o s, carrier # None, pfWasEnabled)
          /\ carrier # None /\ ~pfWasEnabled =>
                LastFlushes(<<a, b, c, d>> \o s, carrier # None, pfWasEnabled)
  BY <1>9, <1>10 DEF LastFlushes
<1>12. QED BY <1>3, <1>4, <1>5, <1>9, <1>11

(* RecoverSavedRules in front of the end of the launch. *)
LEMMA RecoverList ==
    ASSUME NEW s \in Seq(Items), LastRestored(s), file \in {"on", "off"}
    PROVE  /\ RecoverSteps # << >> /\ RecoverSteps \in Seq(Items)
           /\ RecoverSteps \o s \in Seq(Items)
           /\ RestoreFlushes(RecoverSteps \o s, file = "on")
<1> DEFINE a == <<"flush", None>>
           b == <<"pfoff", None>>
           c == <<"forget", None>>
<1>1. {a, b, c} \subseteq Items
  BY DEF Items, Steps, Maybe
<1>2. a[1] = "flush" /\ b[1] = "pfoff" /\ c[1] = "forget"
  OBVIOUS
<1>3. /\ file = "on" => RecoverSteps = (<<a>> \o << >>) \o <<c>>
      /\ file = "off" => RecoverSteps = (<<a>> \o <<b>>) \o <<c>>
  BY DEF RecoverSteps
<1> HIDE DEF a, b, c
<1>4. (<<a>> \o << >>) \o <<c>> = <<a, c>> /\ (<<a>> \o <<b>>) \o <<c>> = <<a, b, c>>
  <2>1. <<a>> \o << >> = <<a>>
    BY <1>1, Written, Empty
  <2>2. <<a>> \o <<b>> = <<a, b>> /\ <<a>> \o <<c>> = <<a, c>>
    BY <1>1, Joined
  <2>3. <<a, b>> \o <<c>> = <<a, b, c>>
    BY <1>1, Joined
  <2>4. QED BY <2>1, <2>2, <2>3, ZenonT(60)
<1>5. /\ <<a, c>> \o s \in Seq(Items) /\ <<a, b, c>> \o s \in Seq(Items)
      /\ <<a, c>> # << >> /\ <<a, b, c>> # << >>
      /\ <<a, c>> \in Seq(Items) /\ <<a, b, c>> \in Seq(Items)
  BY <1>1, Written, Front
<1>6. RestoreForgets(<<c>> \o s)
  BY <1>1, <1>2, Concatenated DEF RestoreForgets, Reaches
<1>7. RestoreTurnsOff(<<b, c>> \o s)
  <2>1. <<b, c>> \o s # << >> /\ Head(<<b, c>> \o s) = b
        /\ Tail(<<b, c>> \o s) = <<c>> \o s
    BY <1>1, Written, Front
  <2>2. QED BY <1>2, <1>6, <2>1 DEF RestoreTurnsOff, Reaches
<1>8. /\ RestoreFlushes(<<a, c>> \o s, TRUE)
      /\ RestoreFlushes(<<a, b, c>> \o s, FALSE)
  <2>1. <<a, c>> \o s # << >> /\ Head(<<a, c>> \o s) = a
        /\ Tail(<<a, c>> \o s) = <<c>> \o s
    BY <1>1, Written, Front
  <2>2. <<a, b, c>> \o s # << >> /\ Head(<<a, b, c>> \o s) = a
        /\ Tail(<<a, b, c>> \o s) = <<b, c>> \o s
    BY <1>1, Written, Front
  <2>3. QED BY <1>2, <1>6, <1>7, <2>1, <2>2 DEF RestoreFlushes, Reaches
<1>9. /\ file = "on" => RestoreFlushes(<<a, c>> \o s, file = "on")
      /\ file = "off" => RestoreFlushes(<<a, b, c>> \o s, file = "on")
  BY <1>8 DEF RestoreFlushes
<1>10. QED BY <1>3, <1>4, <1>5, <1>9

(* The step that is next tells where the operation is. *)
Calm == alive = "on" /\ Knows /\ blocks \subseteq up

(* An outward step is a step of a running helper, or of its shutdown. *)
LEMMA WhereOutward ==
    ASSUME FilterInv, NEW n \in Outward, Step(n)
    PROVE  \/ /\ alive = "on" /\ Knows /\ Outer(todo) /\ AtRest
              /\ blocks \subseteq up \/ (n = "up" /\ blocks \subseteq up \cup {Arg})
           \/ n = "down" /\ alive = "stopping" /\ ClosesOne(todo) /\ AtRest /\ Knows
BY DEF FilterInv, FilterPhase, FilterOff, FilterStarting, FilterOn, FilterStopping,
       Outward, Step, Reaches, Owns, Remembers, TurnsOn, Loads, Persists, Enables, Ends,
       TurnsOff, Forgets, Flushes, Disables, LastRestored, ThenRecover, ThenCleaned,
       FirstFlushes, FirstDisables, FirstCleanup, RestoreForgets, RestoreTurnsOff,
       RestoreFlushes, LastExit, LastCleaned, LastForgets, LastTurnsOff, LastFlushes,
       LastDisables, LastCleanup, ClosesAll, ClosesOne

(* The steps of EnableDNSProtection. *)
LEMMA WhereEnabling ==
    ASSUME FilterInv
    PROVE  /\ Step("own") => Calm /\ Owns(todo) /\ AtRest /\ carrier # None
           /\ Step("persist") =>
                 /\ Calm /\ os = "darwin" /\ Persists(todo)
                 /\ AtRest /\ (carrier = None \/ reenabled)
           /\ Step("load") =>
                 Calm /\ os = "darwin" /\ Loads(todo) /\ AtRest /\ file # "none"
           /\ Step("pfon") =>
                 Calm /\ os = "darwin" /\ TurnsOn(todo) /\ rules = Arg /\ file # "none"
           /\ Step("enabled") =>
                 /\ Calm /\ os = "darwin" /\ Remembers(todo)
                 /\ rules = Arg /\ file # "none" /\ pf
           /\ Step("enable") =>
                 /\ Calm /\ os # "darwin" /\ Enables(todo)
                 /\ AtRest /\ (rules # None => reenabled)
<1>1. ASSUME Outer(todo), todo # << >>
      PROVE  Head(todo)[1] \in Outward
  BY <1>1, OuterHead
<1>2. QED
  BY <1>1
     DEF FilterInv, FilterPhase, FilterOff, FilterStarting, FilterOn, FilterStopping, Calm,
         Outward, Step, Reaches, Owns, Remembers, TurnsOn, Loads, Persists, Enables, Ends,
         TurnsOff, Forgets, Flushes, Disables, LastRestored, ThenRecover, ThenCleaned,
         FirstFlushes, FirstDisables, FirstCleanup, RestoreForgets, RestoreTurnsOff,
         RestoreFlushes, LastExit, LastCleaned, LastForgets, LastTurnsOff, LastFlushes,
         LastDisables, LastCleanup, ClosesAll, ClosesOne

Booting ==
    /\ alive = "starting" /\ up = {} /\ blocks = {} /\ owner = None /\ carrier = None
    /\ file = "none" => AsItWas
    /\ os = "windows" => rules = None

(* The steps of DisableDNSProtection, Cleanup and RecoverSavedRules. *)
LEMMA WhereDisabling ==
    ASSUME FilterInv
    PROVE  /\ Step("flush") =>
                 /\ os = "darwin"
                 /\ \/ Calm /\ Flushes(todo, pfWasEnabled) /\ RemembersWell
                    \/ Booting /\ FirstFlushes(todo)
                    \/ Booting /\ RestoreFlushes(todo, file = "on") /\ file # "none"
                    \/ /\ alive = "stopping"
                       /\ LastFlushes(todo, carrier # None, pfWasEnabled)
                       /\ IF carrier = None THEN AsItWas ELSE RemembersWell
           /\ Step("forget") =>
                 /\ os = "darwin" /\ rules = None
                 /\ \/ Calm /\ Forgets(todo, pfWasEnabled) /\ RemembersWell
                    \/ Booting /\ RestoreForgets(todo) /\ AsItWas
                    \/ alive = "stopping" /\ LastForgets(todo) /\ AsItWas
           /\ Step("pfoff") =>
                 /\ os = "darwin" /\ rules = None
                 /\ \/ Calm /\ TurnsOff(todo) /\ (~hadPf \/ Misled)
                    \/ Booting /\ RestoreTurnsOff(todo) /\ file = "off"
                    \/ alive = "stopping" /\ LastTurnsOff(todo) /\ (~hadPf \/ Misled)
           /\ Step("disabled") =>
                 Calm /\ os = "darwin" /\ Ends(todo) /\ AsItWas /\ rules = None
           /\ Step("disable") =>
                 /\ os # "darwin"
                 /\ \/ Calm /\ Disables(todo)
                    \/ Booting /\ FirstDisables(todo)
                    \/ alive = "stopping" /\ LastDisables(todo)
<1>1. ASSUME Outer(todo), todo # << >>
      PROVE  Head(todo)[1] \in Outward
  BY <1>1, OuterHead
<1>2. QED
  BY <1>1
     DEF FilterInv, FilterPhase, FilterOff, FilterStarting, FilterOn, FilterStopping, Calm,
         Booting, Outward, Step, Reaches, Owns, Remembers, TurnsOn, Loads, Persists,
         Enables, Ends, TurnsOff, Forgets, Flushes, Disables, LastRestored, ThenRecover,
         ThenCleaned, FirstFlushes, FirstDisables, FirstCleanup, RestoreForgets,
         RestoreTurnsOff, RestoreFlushes, LastExit, LastCleaned, LastForgets,
         LastTurnsOff, LastFlushes, LastDisables, LastCleanup, ClosesAll, ClosesOne

(* The steps of the launch and of the shutdown. *)
LEMMA WhereLaunching ==
    ASSUME FilterInv
    PROVE  /\ Step("cleanup") =>
                 \/ Booting /\ FirstCleanup(todo)
                 \/ alive = "stopping" /\ LastCleanup(todo) /\ AtRest /\ Knows
           /\ Step("cleaned") =>
                 \/ Booting /\ ThenCleaned(todo) /\ (os = "linux" => rules = None \/ torn)
                 \/ /\ alive = "stopping" /\ LastCleaned(todo)
                    /\ AsItWas /\ rules = None /\ blocks = {}
           /\ Step("recover") =>
                 Booting /\ ThenRecover(todo) /\ (os = "linux" => rules = None \/ torn)
           /\ Step("restored") =>
                 Booting /\ LastRestored(todo) /\ (os = "linux" => rules = None \/ torn)
           /\ Step("downall") =>
                 alive = "stopping" /\ ClosesAll(todo) /\ AtRest /\ Knows
           /\ Step("exit") =>
                 /\ alive = "stopping" /\ LastExit(todo)
                 /\ AsItWas /\ rules = None /\ blocks = {}
<1>1. ASSUME Outer(todo), todo # << >>
      PROVE  Head(todo)[1] \in Outward
  BY <1>1, OuterHead
<1>2. QED
  BY <1>1
     DEF FilterInv, FilterPhase, FilterOff, FilterStarting, FilterOn, FilterStopping, Calm,
         Booting, Outward, Step, Reaches, Owns, Remembers, TurnsOn, Loads, Persists,
         Enables, Ends, TurnsOff, Forgets, Flushes, Disables, LastRestored, ThenRecover,
         ThenCleaned, FirstFlushes, FirstDisables, FirstCleanup, RestoreForgets,
         RestoreTurnsOff, RestoreFlushes, LastExit, LastCleaned, LastForgets,
         LastTurnsOff, LastFlushes, LastDisables, LastCleanup, ClosesAll, ClosesOne

(* What becomes of the filters with each step.  The loop protection goes in. *)
LEMMA ProtectKeeps ==
    ASSUME FilterInv, Protect, UNCHANGED <<events, os, hadPf>>
    PROVE  FilterInv'
<1>1. /\ alive = "on" /\ Knows /\ Outer(todo) /\ AtRest /\ blocks \subseteq up
      /\ todo # << >> /\ Head(todo)[1] = "protect"
  BY WhereOutward DEF Protect, Step, Outward
<1>2. /\ Outer(Tail(todo)) /\ Reaches(Tail(todo), "up")
      /\ Head(Tail(todo)) = <<"up", Head(todo)[2]>>
  BY <1>1, OuterHead
<1>3. FilterTypes'
  BY <1>2 DEF FilterInv, FilterTypes, Protect, Finish, Outer, files, history
<1>4. Recorded'
  BY <1>1 DEF FilterInv, Recorded, Misled, Protect, files, history
<1>5. AtRest' /\ Knows'
  BY <1>1 DEF AtRest, AsItWas, Knows, RemembersWell, Misled, Protect, files, history
<1>6. FilterPhase'
  <2>1. todo' = Tail(todo) /\ blocks' \subseteq up' \cup {Arg'}
    <3>1. todo' = Tail(todo) /\ up' = up /\ blocks' \subseteq blocks \cup {Arg}
      BY DEF Protect, Finish
    <3>2. Arg' = Arg
      <4>1. ASSUME NEW x, NEW y, y = <<"up", x>> PROVE y[2] = x
        BY <4>1
      <4>2. Head(todo') = <<"up", Arg>>
        BY <1>2, <3>1 DEF Arg
      <4>3. Head(todo')[2] = Arg
        BY <4>1, <4>2
      <4>4. QED BY <4>3 DEF Arg
    <3>3. QED BY <1>1, <3>1, <3>2
  <2>2. alive' = "on"
    BY <1>1 DEF Protect
  <2>3. QED BY <1>2, <1>5, <2>1, <2>2 DEF FilterPhase, FilterOn
<1>7. QED BY <1>3, <1>4, <1>6 DEF FilterInv

(* A tunnel comes up. *)
LEMMA UpKeeps ==
    ASSUME FilterInv, Up, UNCHANGED <<events, os, hadPf>>
    PROVE  FilterInv'
<1>1. /\ alive = "on" /\ Knows /\ Outer(todo) /\ AtRest /\ blocks \subseteq up \cup {Arg}
      /\ todo # << >>
  BY WhereOutward DEF Up, Step, Outward
<1>2. Outer(Tail(todo)) /\ Arg \in Tunnels
  BY <1>1, OuterHead DEF Arg
<1>3. FilterTypes'
  BY <1>2 DEF FilterInv, FilterTypes, Up, Finish, Outer, kernel, history
<1>4. Recorded'
  BY <1>1 DEF FilterInv, Recorded, Misled, Up, kernel, history
<1>5. AtRest' /\ Knows'
  BY <1>1 DEF AtRest, AsItWas, Knows, RemembersWell, Misled, Up, kernel, history
<1>6. FilterPhase'
  <2>1. todo' = Tail(todo) /\ blocks' \subseteq up'
    BY <1>1, <1>2 DEF Up, Finish, kernel
  <2>2. alive' = "on"
    BY <1>1 DEF Up
  <2>3. QED BY <1>2, <1>5, <2>1, <2>2 DEF FilterPhase, FilterOn
<1>7. QED BY <1>3, <1>4, <1>6 DEF FilterInv

(* A tunnel goes down, with its loop protection. *)
LEMMA DownKeeps ==
    ASSUME FilterInv, Down, UNCHANGED <<events, os, hadPf>>
    PROVE  FilterInv'
<1>1. /\ AtRest /\ Knows /\ todo # << >>
      /\ \/ alive = "on" /\ Outer(todo) /\ blocks \subseteq up
         \/ alive = "stopping" /\ ClosesOne(todo)
  BY WhereOutward DEF Down, Step, Outward
<1>2. \/ alive = "on" /\ Outer(Tail(todo)) /\ blocks \subseteq up
      \/ alive = "stopping" /\ ClosesAll(Tail(todo))
  BY <1>1, OuterHead DEF ClosesOne
<1>3. FilterTypes'
  <2>1. Tail(todo) \in Seq(Items)
    BY <1>1 DEF FilterInv, FilterTypes
  <2>2. QED BY <2>1 DEF FilterInv, FilterTypes, Down, Finish, history
<1>4. Recorded'
  BY <1>1 DEF FilterInv, Recorded, Misled, Down, history
<1>5. AtRest' /\ Knows'
  BY <1>1 DEF AtRest, AsItWas, Knows, RemembersWell, Misled, Down, history
<1>6. FilterPhase'
  <2>1. /\ todo' = Tail(todo) /\ alive' = alive
        /\ blocks \subseteq up => blocks' \subseteq up'
    BY DEF Down, Finish
  <2>2. QED BY <1>2, <1>5, <2>1 DEF FilterPhase, FilterOn, FilterStopping
<1>7. QED BY <1>3, <1>4, <1>6 DEF FilterInv

(* EnableDNSProtection takes the place of the step. *)
LEMMA ApplyKeeps ==
    ASSUME FilterInv, Apply, UNCHANGED <<events, os, hadPf>>
    PROVE  FilterInv'
<1>1. /\ alive = "on" /\ Knows /\ Outer(todo) /\ AtRest /\ blocks \subseteq up
      /\ todo # << >>
  BY WhereOutward DEF Apply, Step, Outward
<1>2. Outer(Tail(todo)) /\ Arg \in Tunnels
  BY <1>1, OuterHead DEF Arg
<1> DEFINE own == <<"own", Arg>>
           rest == <<own>> \o Tail(todo)
<1>3. own \in Items /\ Tail(todo) \in Seq(Items)
  BY <1>2 DEF Items, Steps, Maybe, Outer
<1>4. Behind(rest) /\ rest \in Seq(Items)
  <2>1. own[1] = "own"
    OBVIOUS
  <2> HIDE DEF own
  <2>2. QED BY <1>2, <1>3, <2>1, Concatenated DEF Behind, Owns, Reaches
<1>5. todo' = EnableSteps(Arg) \o rest
  <2>1. EnableSteps(Arg) \in Seq(Items) /\ <<own>> \in Seq(Items)
    BY <1>2, <1>3, <1>4, EnableList, Written
  <2>2. (EnableSteps(Arg) \o <<own>>) \o Tail(todo) = EnableSteps(Arg) \o rest
    BY <1>3, <2>1, Associative
  <2>3. QED BY <2>2 DEF Apply, Expand
<1> HIDE DEF rest
<1>6. /\ todo' \in Seq(Items)
      /\ os = "darwin" => Persists(todo')
      /\ os # "darwin" => Enables(todo')
  BY <1>2, <1>4, <1>5, EnableList
<1>7. FilterTypes'
  BY <1>6 DEF FilterInv, FilterTypes, Apply, kernel, files, memory
<1>8. Recorded'
  BY <1>1 DEF FilterInv, Recorded, Misled, Apply, kernel, files, memory
<1>9. AtRest' /\ Knows'
  BY <1>1 DEF FilterInv, FilterTypes, AtRest, AsItWas, Knows, RemembersWell, Misled, Apply,
              kernel, files, memory
<1>10. (rules # None => reenabled)' /\ (carrier = None \/ reenabled)'
  BY <1>1 DEF FilterInv, FilterTypes, AtRest, Apply, kernel, memory
<1>11. alive' = "on" /\ os' = os /\ (blocks \subseteq up)'
  BY <1>1 DEF Apply, kernel, memory
<1>12. FilterPhase'
  BY <1>6, <1>9, <1>10, <1>11 DEF FilterPhase, FilterOn
<1>13. QED BY <1>7, <1>8, <1>12 DEF FilterInv

(* The owner is noted. *)
LEMMA OwnKeeps ==
    ASSUME FilterInv, Own, UNCHANGED <<events, os, hadPf>>
    PROVE  FilterInv'
<1>1. Calm /\ Owns(todo) /\ AtRest /\ carrier # None
  BY WhereEnabling DEF Own
<1>2. Outer(Tail(todo)) /\ Arg \in Maybe
  BY <1>1 DEF Owns, Reaches, Arg, Items
<1>3. FilterTypes'
  BY <1>2 DEF FilterInv, FilterTypes, Own, Finish, Outer, kernel, files, history
<1>4. Recorded'
  BY DEF FilterInv, Recorded, Misled, Own, kernel, files, history
<1>5. AtRest' /\ Knows' /\ Calm'
  BY <1>1 DEF Calm, AtRest, AsItWas, Knows, RemembersWell, Misled, Own, kernel, files,
              history
<1>6. FilterPhase'
  BY <1>2, <1>5 DEF Own, Finish, Calm, FilterPhase, FilterOn
<1>7. QED BY <1>3, <1>4, <1>6 DEF FilterInv

(* The path is given back by its owner. *)
LEMMA ReleaseKeeps ==
    ASSUME FilterInv, Release, UNCHANGED <<events, os, hadPf>>
    PROVE  FilterInv'
<1>1. /\ alive = "on" /\ Knows /\ Outer(todo) /\ AtRest /\ blocks \subseteq up
      /\ todo # << >>
  BY WhereOutward DEF Release, Step, Outward
<1>2. Outer(Tail(todo)) /\ Arg \in Tunnels /\ Arg # None
  BY <1>1, OuterHead, FirewallAssumption DEF Arg
<1>3. Recorded'
  BY DEF FilterInv, Recorded, Misled, Release, kernel, files, history
<1>4. AtRest' /\ Knows' /\ Calm'
  BY <1>1 DEF Calm, AtRest, AsItWas, Knows, RemembersWell, Misled, Release, kernel, files,
              history
<1>5. CASE owner = Arg
  <2>1. todo' = DisableSteps \o Tail(todo) /\ owner' = None
    BY <1>5 DEF Release, Expand
  <2>2. /\ todo' \in Seq(Items)
        /\ os = "darwin" => Flushes(todo', pfWasEnabled)
        /\ os # "darwin" => Disables(todo')
    BY <1>2, <2>1, DisableList
  <2>3. FilterTypes'
    BY <2>1, <2>2 DEF FilterInv, FilterTypes, Maybe, Release, kernel, files, history
  <2>4. os = "darwin" => RemembersWell'
    BY <1>1, <1>2, <1>5
       DEF Knows, RemembersWell, Misled, Release, kernel, files, history
  <2>5. os' = os /\ pfWasEnabled' = pfWasEnabled
    BY DEF Release
  <2>6. FilterPhase'
    BY <1>4, <2>2, <2>4, <2>5 DEF Calm, FilterPhase, FilterOn
  <2>7. QED BY <1>3, <2>3, <2>6 DEF FilterInv
<1>6. CASE owner # Arg
  <2>1. todo' = Tail(todo) /\ owner' = owner
    BY <1>6 DEF Release, Finish
  <2>2. FilterTypes'
    BY <1>2, <2>1 DEF FilterInv, FilterTypes, Outer, Release, kernel, files, history
  <2>3. FilterPhase'
    BY <1>2, <1>4, <2>1 DEF Calm, FilterPhase, FilterOn
  <2>4. QED BY <1>3, <2>2, <2>3 DEF FilterInv
<1>7. QED BY <1>5, <1>6

(* The rules are suspended for a retry. *)
LEMMA SuspendKeeps ==
    ASSUME FilterInv, Suspend, UNCHANGED <<events, os, hadPf>>
    PROVE  FilterInv'
<1>1. /\ alive = "on" /\ Knows /\ Outer(todo) /\ AtRest /\ blocks \subseteq up
      /\ todo # << >>
  BY WhereOutward DEF Suspend, Step, Outward
<1>2. Outer(Tail(todo))
  BY <1>1, OuterHead
<1>3. Recorded'
  BY DEF FilterInv, Recorded, Misled, Suspend, kernel, files, history
<1>4. AtRest' /\ Knows' /\ Calm'
  BY <1>1 DEF Calm, AtRest, AsItWas, Knows, RemembersWell, Misled, Suspend, kernel, files,
              history
<1>5. CASE carrier # None
  <2>1. todo' = DisableSteps \o Tail(todo)
    BY <1>5 DEF Suspend, Expand
  <2>2. /\ todo' \in Seq(Items)
        /\ os = "darwin" => Flushes(todo', pfWasEnabled)
        /\ os # "darwin" => Disables(todo')
    BY <1>2, <2>1, DisableList
  <2>3. FilterTypes'
    BY <2>2 DEF FilterInv, FilterTypes, Suspend, kernel, files, history
  <2>4. os = "darwin" => RemembersWell'
    BY <1>1, <1>5 DEF Knows, RemembersWell, Misled, Suspend, kernel, files, history
  <2>5. os' = os /\ pfWasEnabled' = pfWasEnabled
    BY DEF Suspend
  <2>6. FilterPhase'
    BY <1>4, <2>2, <2>4, <2>5 DEF Calm, FilterPhase, FilterOn
  <2>7. QED BY <1>3, <2>3, <2>6 DEF FilterInv
<1>6. CASE carrier = None
  <2>1. todo' = Tail(todo)
    BY <1>6 DEF Suspend, Finish
  <2>2. FilterTypes'
    BY <1>2, <2>1 DEF FilterInv, FilterTypes, Outer, Suspend, kernel, files, history
  <2>3. FilterPhase'
    BY <1>2, <1>4, <2>1 DEF Calm, FilterPhase, FilterOn
  <2>4. QED BY <1>3, <2>2, <2>3 DEF FilterInv
<1>7. QED BY <1>5, <1>6

(* The rules are restored after a retry, for a tunnel that is up. *)
LEMMA ResumeKeeps ==
    ASSUME FilterInv, Resume, UNCHANGED <<events, os, hadPf>>
    PROVE  FilterInv'
<1>1. /\ alive = "on" /\ Knows /\ Outer(todo) /\ AtRest /\ blocks \subseteq up
      /\ todo # << >>
  BY WhereOutward DEF Resume, Step, Outward
<1>2. Outer(Tail(todo))
  BY <1>1, OuterHead
<1>3. reenabled' \in BOOLEAN /\ (reenabled => reenabled')
  BY DEF FilterInv, FilterTypes, Resume
<1>4. Recorded'
  BY <1>3 DEF FilterInv, Recorded, Misled, Resume, kernel, files
<1>5. AtRest' /\ Knows' /\ Calm'
  BY <1>1, <1>3
     DEF Calm, AtRest, AsItWas, Knows, RemembersWell, Misled, Resume, kernel, files
<1>6. CASE saved /\ up # {}
  <2>1. PICK t \in up : todo' = EnableSteps(t) \o Tail(todo)
    BY <1>6 DEF Resume, Expand
  <2>2. t \in Tunnels /\ Behind(Tail(todo))
    BY <1>2 DEF FilterInv, FilterTypes, Behind
  <2>3. /\ todo' \in Seq(Items)
        /\ os = "darwin" => Persists(todo')
        /\ os # "darwin" => Enables(todo')
    BY <2>1, <2>2, EnableList
  <2>4. FilterTypes'
    BY <1>3, <2>3 DEF FilterInv, FilterTypes, Resume, kernel, files
  <2>5. (rules # None => reenabled)' /\ (carrier = None \/ reenabled)'
    BY <1>1, <1>6 DEF FilterInv, FilterTypes, AtRest, Resume, kernel
  <2>6. os' = os
    OBVIOUS
  <2>7. FilterPhase'
    BY <1>5, <2>3, <2>5, <2>6 DEF Calm, FilterPhase, FilterOn
  <2>8. QED BY <1>4, <2>4, <2>7 DEF FilterInv
<1>7. CASE ~(saved /\ up # {})
  <2>1. todo' = Tail(todo)
    BY <1>7 DEF Resume, Finish
  <2>2. FilterTypes'
    BY <1>2, <1>3, <2>1 DEF FilterInv, FilterTypes, Outer, Resume, kernel, files
  <2>3. FilterPhase'
    BY <1>2, <1>5, <2>1 DEF Calm, FilterPhase, FilterOn
  <2>4. QED BY <1>4, <2>2, <2>3 DEF FilterInv
<1>8. QED BY <1>6, <1>7

(* One tunnel after another. *)
LEMMA DownAllKeeps ==
    ASSUME FilterInv, DownAll, UNCHANGED <<events, os, hadPf>>
    PROVE  FilterInv'
<1>1. alive = "stopping" /\ ClosesAll(todo) /\ AtRest /\ Knows
  BY WhereLaunching DEF DownAll
<1>2. /\ LastCleanup(Tail(todo)) /\ Head(todo) \in Items /\ Tail(todo) \in Seq(Items)
      /\ Head(todo)[1] = "downall"
  BY <1>1 DEF FilterInv, FilterTypes, ClosesAll, Reaches
<1>3. todo' \in Seq(Items) /\ (ClosesOne(todo') \/ LastCleanup(todo'))
  <2>1. CASE up = {}
    BY <1>2, <2>1 DEF DownAll, Finish
  <2>2. CASE up # {}
    <3>1. PICK t \in up : todo' = <<<<"down", t>>, Head(todo)>> \o Tail(todo)
      BY <2>2 DEF DownAll, Expand
    <3> DEFINE d == <<"down", t>>
               r == <<Head(todo)>> \o Tail(todo)
    <3>2. d \in Items /\ d[1] = "down"
      BY DEF FilterInv, FilterTypes, Items, Steps, Maybe
    <3>3. todo' = <<d, Head(todo)>> \o Tail(todo)
      BY <3>1
    <3> HIDE DEF d
    <3>4. /\ <<d, Head(todo)>> \o Tail(todo) \in Seq(Items)
          /\ <<d, Head(todo)>> \o Tail(todo) # << >>
          /\ Head(<<d, Head(todo)>> \o Tail(todo)) = d
          /\ Tail(<<d, Head(todo)>> \o Tail(todo)) = r
      BY <1>2, <3>2, Written, Front
    <3>5. r # << >> /\ Head(r) = Head(todo) /\ Tail(r) = Tail(todo)
      BY <1>2, Concatenated
    <3> HIDE DEF r
    <3>6. ClosesAll(r)
      BY <1>2, <3>5 DEF ClosesAll, Reaches
    <3>7. QED BY <3>2, <3>3, <3>4, <3>6 DEF ClosesOne, Reaches
  <2>3. QED BY <2>1, <2>2
<1>4. FilterTypes'
  BY <1>3 DEF FilterInv, FilterTypes, DownAll, kernel, files, memory, history
<1>5. Recorded'
  BY DEF FilterInv, Recorded, Misled, DownAll, kernel, files, memory, history
<1>6. AtRest' /\ Knows' /\ alive' = "stopping"
  BY <1>1 DEF AtRest, AsItWas, Knows, RemembersWell, Misled, DownAll, kernel, files,
              memory, history
<1>7. FilterPhase'
  BY <1>3, <1>6 DEF FilterPhase, FilterStopping
<1>8. QED BY <1>4, <1>5, <1>7 DEF FilterInv

(* Cleanup, at the launch or at the shutdown. *)
LEMMA CleanupKeeps ==
    ASSUME FilterInv, Cleanup, UNCHANGED <<events, os, hadPf>>
    PROVE  FilterInv'
<1>1. \/ Booting /\ FirstCleanup(todo)
      \/ alive = "stopping" /\ LastCleanup(todo) /\ AtRest /\ Knows
  BY WhereLaunching DEF Cleanup
<1>2. /\ Tail(todo) \in Seq(Items) /\ todo' = CleanupSteps \o Tail(todo)
      /\ \/ ThenRecover(Tail(todo)) /\ Booting
         \/ LastExit(Tail(todo)) /\ alive = "stopping" /\ AtRest /\ Knows
  <2>1. todo # << >>
    BY DEF Cleanup, Step
  <2>2. Tail(todo) \in Seq(Items)
    BY <2>1 DEF FilterInv, FilterTypes
  <2>3. QED BY <1>1, <2>2 DEF Cleanup, Expand, FirstCleanup, LastCleanup
<1>3. todo' \in Seq(Items)
  BY <1>2, CleanupList
<1>4. FilterTypes'
  BY <1>3 DEF FilterInv, FilterTypes, Cleanup, kernel, files, memory, history
<1>5. Recorded'
  BY DEF FilterInv, Recorded, Misled, Cleanup, kernel, files, memory, history
<1>6. UNCHANGED <<os, hadPf, alive, kernel, files, memory, history>>
  BY DEF Cleanup
<1>7. FilterPhase'
  <2>1. CASE ThenRecover(Tail(todo)) /\ Booting
    <3>1. /\ os = "darwin" => FirstFlushes(todo')
          /\ os # "darwin" => FirstDisables(todo')
      BY <1>2, <2>1, CleanupList DEF Booting
    <3>2. Booting'
      BY <1>6, <2>1 DEF Booting, AsItWas, Misled, kernel, files, memory, history
    <3>3. QED BY <1>6, <3>1, <3>2 DEF FilterPhase, FilterStarting, Booting
  <2>2. CASE LastExit(Tail(todo)) /\ alive = "stopping" /\ AtRest /\ Knows
    <3>1. /\ os = "darwin" => LastFlushes(todo', carrier # None, pfWasEnabled)
          /\ os # "darwin" => LastDisables(todo')
      BY <1>2, <2>2, CleanupList
    <3>2. os = "darwin" => IF carrier = None THEN AsItWas' ELSE RemembersWell'
      BY <1>6, <2>2 DEF AtRest, Knows, AsItWas, RemembersWell, Misled, kernel, files,
                        memory, history
    <3>3. carrier' = carrier /\ pfWasEnabled' = pfWasEnabled /\ alive' = "stopping"
      BY <1>6, <2>2 DEF memory
    <3>4. QED BY <1>6, <3>1, <3>2, <3>3 DEF FilterPhase, FilterStopping
  <2>3. QED BY <1>2, <2>1, <2>2
<1>8. QED BY <1>4, <1>5, <1>7 DEF FilterInv

(* The file says how pf was. *)
LEMMA PersistKeeps ==
    ASSUME FilterInv, Persist, UNCHANGED <<events, os, hadPf>>
    PROVE  FilterInv'
<1>1. /\ Calm /\ os = "darwin" /\ Persists(todo)
      /\ AtRest /\ (carrier = None \/ reenabled)
  BY WhereEnabling DEF Persist
<1>2. Loads(Tail(todo)) /\ Tail(todo) \in Seq(Items)
  BY <1>1 DEF FilterInv, FilterTypes, Persists, Reaches
<1>3. FilterTypes'
  BY <1>2 DEF FilterInv, FilterTypes, Persist, Finish, kernel, memory, history
<1>4. Recorded'
  BY <1>1 DEF FilterInv, FilterTypes, Recorded, AtRest, AsItWas, Misled, Persist, kernel,
              memory, history
<1>5. AtRest' /\ Calm' /\ file' # "none" /\ os' = "darwin"
  BY <1>1 DEF Calm, AtRest, AsItWas, Knows, RemembersWell, Misled, Persist, kernel,
              memory, history
<1>6. FilterPhase'
  BY <1>2, <1>5 DEF Calm, Persist, Finish, FilterPhase, FilterOn
<1>7. QED BY <1>3, <1>4, <1>6 DEF FilterInv

(* The rules are loaded. *)
LEMMA LoadKeeps ==
    ASSUME FilterInv, Load, UNCHANGED <<events, os, hadPf>>
    PROVE  FilterInv'
<1>1. Calm /\ os = "darwin" /\ Loads(todo) /\ AtRest /\ file # "none"
  BY WhereEnabling DEF Load
<1>2. /\ TurnsOn(Tail(todo)) /\ Tail(todo) \in Seq(Items) /\ Arg \in Maybe
      /\ Head(Tail(todo))[2] = Arg
  <2>1. TurnsOn(Tail(todo)) /\ Head(Tail(todo))[2] = Arg
    BY <1>1, ZenonT(60) DEF Loads, Arg
  <2>2. Tail(todo) \in Seq(Items) /\ Arg \in Maybe
    BY <1>1 DEF FilterInv, FilterTypes, Loads, Reaches, Arg, Items
  <2>3. QED BY <2>1, <2>2
<1>3. FilterTypes'
  BY <1>2 DEF FilterInv, FilterTypes, Load, Finish, files, memory, history
<1>4. Recorded'
  BY <1>1 DEF FilterInv, Recorded, Misled, Load, files, memory, history
<1>5. Calm' /\ file' # "none" /\ os' = "darwin"
  BY <1>1 DEF Calm, Knows, RemembersWell, Misled, Load, files, memory, history
<1>6. rules' = Arg'
  BY <1>2 DEF Load, Finish, Arg
<1>7. FilterPhase'
  BY <1>2, <1>5, <1>6 DEF Calm, Load, Finish, FilterPhase, FilterOn
<1>8. QED BY <1>3, <1>4, <1>7 DEF FilterInv

(* pf is turned on. *)
LEMMA PfOnKeeps ==
    ASSUME FilterInv, PfOn, UNCHANGED <<events, os, hadPf>>
    PROVE  FilterInv'
<1>1. Calm /\ os = "darwin" /\ TurnsOn(todo) /\ rules = Arg /\ file # "none"
  BY WhereEnabling DEF PfOn
<1>2. /\ Remembers(Tail(todo)) /\ Tail(todo) \in Seq(Items)
      /\ Head(Tail(todo))[2] = Arg
  <2>1. Remembers(Tail(todo)) /\ Head(Tail(todo))[2] = Arg
    BY <1>1, ZenonT(60) DEF TurnsOn, Arg
  <2>2. Tail(todo) \in Seq(Items)
    BY <1>1 DEF FilterInv, FilterTypes, TurnsOn, Reaches
  <2>3. QED BY <2>1, <2>2
<1>3. FilterTypes'
  BY <1>2 DEF FilterInv, FilterTypes, PfOn, Finish, files, memory, history
<1>4. Recorded'
  BY <1>1 DEF FilterInv, Recorded, Misled, PfOn, files, memory, history
<1>5. Calm' /\ file' # "none" /\ os' = "darwin" /\ pf'
  BY <1>1 DEF Calm, Knows, RemembersWell, Misled, PfOn, files, memory, history
<1>6. rules' = Arg'
  BY <1>1, <1>2 DEF PfOn, Finish, Arg
<1>7. FilterPhase'
  BY <1>2, <1>5, <1>6 DEF Calm, PfOn, Finish, FilterPhase, FilterOn
<1>8. QED BY <1>3, <1>4, <1>7 DEF FilterInv

(* The process remembers, on macOS. *)
LEMMA EnabledKeeps ==
    ASSUME FilterInv, Enabled, UNCHANGED <<events, os, hadPf>>
    PROVE  FilterInv'
<1>1. /\ Calm /\ os = "darwin" /\ Remembers(todo)
      /\ rules = Arg /\ file # "none" /\ pf
  BY WhereEnabling DEF Enabled
<1>2. /\ Behind(Tail(todo)) /\ Tail(todo) \in Seq(Items)
      /\ Arg \in Tunnels /\ Arg # None
  BY <1>1, FirewallAssumption
     DEF FilterInv, FilterTypes, Remembers, Reaches, Arg
<1>3. FilterTypes'
  BY <1>2 DEF FilterInv, FilterTypes, Maybe, Enabled, Finish, kernel, files, history
<1>4. Recorded'
  BY <1>1 DEF FilterInv, Recorded, Misled, Enabled, kernel, files, history
<1>5. RemembersWell'
  BY <1>1 DEF FilterInv, Recorded, RemembersWell, Misled, Enabled, kernel, files, history
<1>6. Calm' /\ AtRest' /\ carrier' # None
  BY <1>1, <1>2, <1>5 DEF Calm, AtRest, Knows, Enabled, kernel, files, history
<1>7. FilterPhase'
  BY <1>2, <1>6 DEF Calm, Enabled, Finish, Behind, FilterPhase, FilterOn
<1>8. QED BY <1>3, <1>4, <1>7 DEF FilterInv

(* The rules are loaded, and remembered, on Linux and Windows. *)
LEMMA EnableKeeps ==
    ASSUME FilterInv, Enable, UNCHANGED <<events, os, hadPf>>
    PROVE  FilterInv'
<1>1. /\ Calm /\ os # "darwin" /\ Enables(todo)
      /\ AtRest /\ (rules # None => reenabled)
  BY WhereEnabling DEF Enable
<1>2. /\ Behind(Tail(todo)) /\ Tail(todo) \in Seq(Items)
      /\ Arg \in Tunnels /\ Arg # None
  BY <1>1, FirewallAssumption
     DEF FilterInv, FilterTypes, Enables, Reaches, Arg
<1>3. FilterTypes'
  BY <1>2 DEF FilterInv, FilterTypes, Maybe, Enable, Finish, files, history
<1>4. Recorded'
  BY <1>1 DEF FilterInv, Recorded, Misled, Enable, files, history
<1>5. Calm' /\ AtRest' /\ carrier' # None
  BY <1>1, <1>2 DEF FilterInv, FilterTypes, Calm, AtRest, Knows, Enable, files, history
<1>6. FilterPhase'
  BY <1>2, <1>5 DEF Calm, Enable, Finish, Behind, FilterPhase, FilterOn
<1>7. QED BY <1>3, <1>4, <1>6 DEF FilterInv

(* The rules are not loaded. *)
LEMMA EnableFailsKeeps ==
    ASSUME FilterInv, LoadFails \/ EnableFails, UNCHANGED <<os, hadPf>>
    PROVE  FilterInv'
<1>0. todo' = << >> /\ UNCHANGED <<kernel, files, alive, memory, history>>
  BY DEF LoadFails, EnableFails, Abandon
<1>1. Calm /\ AtRest
  BY WhereEnabling DEF LoadFails, EnableFails
<1>2. FilterTypes'
  BY <1>0 DEF FilterInv, FilterTypes, kernel, files, memory, history
<1>3. Recorded'
  BY <1>0 DEF FilterInv, Recorded, Misled, kernel, files, memory, history
<1>4. Calm' /\ AtRest' /\ Outer(todo')
  <2>1. Calm' /\ AtRest'
    BY <1>0, <1>1 DEF Calm, AtRest, AsItWas, Knows, RemembersWell, Misled, kernel,
                      files, memory, history
  <2>2. QED BY <1>0, <2>1, OuterEmpty
<1>5. FilterPhase'
  BY <1>4 DEF Calm, FilterPhase, FilterOn
<1>6. QED BY <1>2, <1>3, <1>5 DEF FilterInv

(* The rules are flushed, to disable them, to clean up or to restore. *)
LEMMA FlushKeeps ==
    ASSUME FilterInv, Flush, UNCHANGED <<events, os, hadPf>>
    PROVE  FilterInv'
<1>1. /\ os = "darwin" /\ todo # << >>
      /\ \/ Calm /\ Flushes(todo, pfWasEnabled) /\ RemembersWell
         \/ Booting /\ FirstFlushes(todo)
         \/ Booting /\ RestoreFlushes(todo, file = "on") /\ file # "none"
         \/ /\ alive = "stopping" /\ LastFlushes(todo, carrier # None, pfWasEnabled)
            /\ IF carrier = None THEN AsItWas ELSE RemembersWell
  BY WhereDisabling DEF Flush, Step
<1>2. FilterTypes'
  <2>1. Tail(todo) \in Seq(Items)
    BY <1>1 DEF FilterInv, FilterTypes
  <2>2. QED BY <2>1 DEF FilterInv, FilterTypes, Maybe, Flush, Finish, files, memory, history
<1>3. Recorded'
  BY DEF FilterInv, Recorded, Misled, Flush, files, memory, history
<1>4. /\ UNCHANGED <<os, hadPf, pf, blocks, file, alive, memory, torn, reenabled>>
      /\ todo' = Tail(todo) /\ rules' = None
  BY DEF Flush, Finish, files, history
<1>5. FilterPhase'
  <2>1. CASE Calm /\ Flushes(todo, pfWasEnabled) /\ RemembersWell
    <3>1. Forgets(todo', pfWasEnabled)
      BY <1>4, <2>1 DEF Flushes
    <3>2. Calm' /\ RemembersWell'
      BY <1>4, <2>1 DEF Calm, Knows, RemembersWell, Misled, memory
    <3>3. QED BY <1>1, <1>4, <3>1, <3>2 DEF Calm, FilterPhase, FilterOn, memory
  <2>2. CASE Booting /\ FirstFlushes(todo)
    <3>1. ThenCleaned(todo') /\ Booting'
      BY <1>1, <1>4, <2>2 DEF FirstFlushes, Booting, AsItWas, Misled, memory
    <3>2. QED BY <1>1, <1>4, <3>1 DEF Booting, FilterPhase, FilterStarting
  <2>3. CASE Booting /\ RestoreFlushes(todo, file = "on") /\ file # "none"
    <3>1. IF file = "on" THEN RestoreForgets(todo') ELSE RestoreTurnsOff(todo')
      BY <1>4, <2>3 DEF RestoreFlushes
    <3>2. Booting'
      BY <1>1, <1>4, <2>3 DEF Booting, AsItWas, Misled, memory
    <3>3. file = "on" => AsItWas'
      BY <1>1, <1>4, <2>3
         DEF FilterInv, FilterTypes, Recorded, AsItWas, Misled
    <3>4. file' = file /\ (file = "on" \/ file = "off")
      BY <1>4, <2>3 DEF FilterInv, FilterTypes
    <3>5. QED BY <1>1, <1>4, <3>1, <3>2, <3>3, <3>4 DEF Booting, FilterPhase, FilterStarting
  <2>4. CASE /\ alive = "stopping" /\ LastFlushes(todo, carrier # None, pfWasEnabled)
             /\ IF carrier = None THEN AsItWas ELSE RemembersWell
    <3>1. CASE carrier = None
      <4>1. LastCleaned(todo')
        BY <1>4, <2>4, <3>1 DEF LastFlushes
      <4>2. AsItWas' /\ (blocks = {})'
        BY <1>1, <1>4, <2>4, <3>1 DEF FilterInv, Recorded, AsItWas, Misled
      <4>3. QED BY <1>4, <2>4, <4>1, <4>2 DEF FilterPhase, FilterStopping
    <3>2. CASE carrier # None /\ pfWasEnabled
      <4>1. LastForgets(todo')
        BY <1>4, <2>4, <3>2 DEF LastFlushes
      <4>2. AsItWas'
        BY <1>1, <1>4, <2>4, <3>2
           DEF FilterInv, FilterTypes, Recorded, RemembersWell, AsItWas, Misled
      <4>3. QED BY <1>1, <1>4, <2>4, <4>1, <4>2 DEF FilterPhase, FilterStopping
    <3>3. CASE carrier # None /\ ~pfWasEnabled
      <4>1. LastTurnsOff(todo')
        BY <1>4, <2>4, <3>3 DEF LastFlushes
      <4>2. ~hadPf' \/ Misled'
        BY <1>4, <2>4, <3>3 DEF RemembersWell, Misled
      <4>3. QED BY <1>1, <1>4, <2>4, <4>1, <4>2 DEF FilterPhase, FilterStopping
    <3>4. QED BY <3>1, <3>2, <3>3
  <2>5. QED BY <1>1, <2>1, <2>2, <2>3, <2>4
<1>6. QED BY <1>2, <1>3, <1>5 DEF FilterInv

(* The file goes. *)
LEMMA ForgetKeeps ==
    ASSUME FilterInv, Forget, UNCHANGED <<events, os, hadPf>>
    PROVE  FilterInv'
<1>1. /\ os = "darwin" /\ rules = None /\ todo # << >>
      /\ \/ Calm /\ Forgets(todo, pfWasEnabled) /\ RemembersWell
         \/ Booting /\ RestoreForgets(todo) /\ AsItWas
         \/ alive = "stopping" /\ LastForgets(todo) /\ AsItWas
  BY WhereDisabling DEF Forget, Step
<1>2. FilterTypes'
  <2>1. Tail(todo) \in Seq(Items)
    BY <1>1 DEF FilterInv, FilterTypes
  <2>2. QED BY <2>1 DEF FilterInv, FilterTypes, Forget, Finish, kernel, memory, history
<1>3. Recorded'
  BY <1>1 DEF FilterInv, Recorded, Misled, Forget, kernel, memory, history
<1>4. /\ UNCHANGED <<os, hadPf, kernel, alive, memory, torn, reenabled>>
      /\ todo' = Tail(todo) /\ file' = "none"
  BY DEF Forget, Finish, history
<1>5. FilterPhase'
  <2>1. CASE Calm /\ Forgets(todo, pfWasEnabled) /\ RemembersWell
    <3>1. Calm' /\ RemembersWell'
      BY <1>4, <2>1 DEF Calm, Knows, RemembersWell, Misled, kernel, memory
    <3>2. CASE pfWasEnabled
      <4>1. Ends(todo')
        BY <1>4, <2>1, <3>2 DEF Forgets
      <4>2. AsItWas'
        BY <1>4, <2>1, <3>2
           DEF FilterInv, FilterTypes, Recorded, AsItWas, RemembersWell, Misled, kernel
      <4>3. QED BY <1>1, <1>4, <3>1, <4>1, <4>2 DEF Calm, FilterPhase, FilterOn, kernel
    <3>3. CASE ~pfWasEnabled
      <4>1. TurnsOff(todo')
        BY <1>4, <2>1, <3>3 DEF Forgets
      <4>2. ~hadPf' \/ Misled'
        BY <1>4, <2>1, <3>3 DEF RemembersWell, Misled
      <4>3. QED BY <1>1, <1>4, <3>1, <4>1, <4>2 DEF Calm, FilterPhase, FilterOn, kernel
    <3>4. QED BY <3>2, <3>3
  <2>2. CASE Booting /\ RestoreForgets(todo) /\ AsItWas
    <3>1. LastRestored(todo') /\ Booting'
      BY <1>1, <1>4, <2>2 DEF RestoreForgets, Booting, AsItWas, Misled, kernel, memory
    <3>2. QED BY <1>1, <1>4, <3>1 DEF Booting, FilterPhase, FilterStarting
  <2>3. CASE alive = "stopping" /\ LastForgets(todo) /\ AsItWas
    <3>1. LastCleaned(todo') /\ alive' = "stopping"
      BY <1>4, <2>3 DEF LastForgets
    <3>2. AsItWas' /\ (blocks = {})' /\ (rules = None)'
      BY <1>1, <1>4, <2>3 DEF FilterInv, Recorded, AsItWas, Misled, kernel
    <3>3. QED BY <3>1, <3>2 DEF FilterPhase, FilterStopping
  <2>4. QED BY <1>1, <2>1, <2>2, <2>3
<1>6. QED BY <1>2, <1>3, <1>5 DEF FilterInv

(* pf is turned off, as it was before. *)
LEMMA PfOffKeeps ==
    ASSUME FilterInv, PfOff, UNCHANGED <<events, os, hadPf>>
    PROVE  FilterInv'
<1>1. /\ os = "darwin" /\ rules = None /\ todo # << >>
      /\ \/ Calm /\ TurnsOff(todo) /\ (~hadPf \/ Misled)
         \/ Booting /\ RestoreTurnsOff(todo) /\ file = "off"
         \/ alive = "stopping" /\ LastTurnsOff(todo) /\ (~hadPf \/ Misled)
  BY WhereDisabling DEF PfOff, Step
<1>2. ~hadPf \/ Misled
  BY <1>1 DEF FilterInv, Recorded
<1>3. FilterTypes'
  <2>1. Tail(todo) \in Seq(Items)
    BY <1>1 DEF FilterInv, FilterTypes
  <2>2. QED BY <2>1 DEF FilterInv, FilterTypes, PfOff, Finish, files, memory, history
<1>4. Recorded' /\ AsItWas'
  BY <1>1, <1>2
     DEF FilterInv, FilterTypes, Recorded, AsItWas, Misled, PfOff, files, memory, history
<1>5. /\ UNCHANGED <<os, hadPf, rules, blocks, files, alive, memory, torn, reenabled>>
      /\ todo' = Tail(todo)
  BY DEF PfOff, Finish, history
<1>6. FilterPhase'
  <2>1. CASE Calm /\ TurnsOff(todo)
    <3>1. Calm' /\ Ends(todo')
      BY <1>5, <2>1 DEF TurnsOff, Calm, Knows, RemembersWell, Misled, memory
    <3>2. QED BY <1>1, <1>4, <1>5, <3>1 DEF Calm, FilterPhase, FilterOn
  <2>2. CASE Booting /\ RestoreTurnsOff(todo)
    <3>1. Booting' /\ RestoreForgets(todo')
      BY <1>4, <1>5, <2>2 DEF RestoreTurnsOff, Booting, files, memory
    <3>2. QED BY <1>1, <1>4, <1>5, <3>1 DEF Booting, FilterPhase, FilterStarting
  <2>3. CASE alive = "stopping" /\ LastTurnsOff(todo)
    <3>1. alive' = "stopping" /\ LastForgets(todo')
      BY <1>5, <2>3 DEF LastTurnsOff
    <3>2. QED BY <1>1, <1>4, <1>5, <3>1 DEF FilterPhase, FilterStopping
  <2>4. QED BY <1>1, <2>1, <2>2, <2>3
<1>7. QED BY <1>3, <1>4, <1>6 DEF FilterInv

(* The rules are forgotten, on macOS. *)
LEMMA DisabledKeeps ==
    ASSUME FilterInv, Disabled, UNCHANGED <<events, os, hadPf>>
    PROVE  FilterInv'
<1>1. Calm /\ os = "darwin" /\ Ends(todo) /\ AsItWas /\ rules = None
  BY WhereDisabling DEF Disabled
<1>2. Outer(Tail(todo))
  BY <1>1 DEF Ends
<1>3. FilterTypes'
  BY <1>2 DEF FilterInv, FilterTypes, Maybe, Outer, Disabled, Finish, kernel, files, history
<1>4. Recorded'
  BY DEF FilterInv, Recorded, Misled, Disabled, kernel, files, history
<1>5. Calm' /\ AtRest'
  BY <1>1 DEF Calm, AtRest, AsItWas, Knows, RemembersWell, Misled, Disabled, kernel, files,
              history
<1>6. FilterPhase'
  BY <1>2, <1>5 DEF Calm, Disabled, Finish, FilterPhase, FilterOn
<1>7. QED BY <1>3, <1>4, <1>6 DEF FilterInv

(* The rules are gone and forgotten, on Linux and Windows. *)
LEMMA DisableKeeps ==
    ASSUME FilterInv, Disable, UNCHANGED <<events, os, hadPf>>
    PROVE  FilterInv'
<1>1. /\ os # "darwin" /\ todo # << >>
      /\ \/ Calm /\ Disables(todo)
         \/ Booting /\ FirstDisables(todo)
         \/ alive = "stopping" /\ LastDisables(todo)
  BY WhereDisabling DEF Disable, Step
<1>2. FilterTypes'
  <2>1. Tail(todo) \in Seq(Items)
    BY <1>1 DEF FilterInv, FilterTypes
  <2>2. QED BY <2>1 DEF FilterInv, FilterTypes, Maybe, Disable, Finish, files, history
<1>3. Recorded'
  BY DEF FilterInv, Recorded, Misled, Disable, files, history
<1>4. /\ UNCHANGED <<os, hadPf, pf, file, alive, up, owner, pfWasEnabled, torn, reenabled>>
      /\ todo' = Tail(todo) /\ rules' = None /\ carrier' = None /\ blocks' = {}
  BY DEF Disable, Finish, files, history
<1>5. AsItWas' /\ AtRest' /\ os' # "darwin"
  BY <1>1, <1>4 DEF FilterInv, Recorded, AtRest, AsItWas, Misled
<1>6. FilterPhase'
  <2>1. CASE Calm /\ Disables(todo)
    <3>1. Calm' /\ Outer(todo')
      BY <1>1, <1>4, <2>1 DEF Disables, Calm, Knows
    <3>2. QED BY <1>5, <3>1 DEF Calm, FilterPhase, FilterOn
  <2>2. CASE Booting /\ FirstDisables(todo)
    <3>1. Booting' /\ ThenCleaned(todo')
      BY <1>4, <1>5, <2>2 DEF FirstDisables, Booting
    <3>2. QED BY <1>4, <3>1 DEF Booting, FilterPhase, FilterStarting
  <2>3. CASE alive = "stopping" /\ LastDisables(todo)
    <3>1. alive' = "stopping" /\ LastCleaned(todo')
      BY <1>4, <2>3 DEF LastDisables
    <3>2. QED BY <1>4, <1>5, <3>1 DEF FilterPhase, FilterStopping
  <2>4. QED BY <1>1, <2>1, <2>2, <2>3
<1>7. QED BY <1>2, <1>3, <1>6 DEF FilterInv

(* Cleanup ends. *)
LEMMA CleanedKeeps ==
    ASSUME FilterInv, Cleaned, UNCHANGED <<events, os, hadPf>>
    PROVE  FilterInv'
<1>1. /\ todo # << >>
      /\ \/ Booting /\ ThenCleaned(todo) /\ (os = "linux" => rules = None \/ torn)
         \/ /\ alive = "stopping" /\ LastCleaned(todo)
            /\ AsItWas /\ rules = None /\ blocks = {}
  BY WhereLaunching DEF Cleaned, Step
<1>2. FilterTypes'
  <2>1. Tail(todo) \in Seq(Items)
    BY <1>1 DEF FilterInv, FilterTypes
  <2>2. QED
    BY <2>1 DEF FilterInv, FilterTypes, Maybe, Cleaned, Finish, kernel, files, history
<1>3. Recorded'
  BY DEF FilterInv, Recorded, Misled, Cleaned, kernel, files, history
<1>4. /\ UNCHANGED <<os, hadPf, kernel, files, alive, up, owner, torn, reenabled>>
      /\ todo' = Tail(todo) /\ carrier' = None
  BY DEF Cleaned, Finish, history
<1>5. FilterPhase'
  <2>1. CASE Booting /\ ThenCleaned(todo) /\ (os = "linux" => rules = None \/ torn)
    <3>1. Booting' /\ ThenRecover(todo') /\ (os = "linux" => rules = None \/ torn)'
      BY <1>4, <2>1 DEF ThenCleaned, Booting, AsItWas, Misled, kernel, files
    <3>2. QED BY <3>1 DEF Booting, FilterPhase, FilterStarting
  <2>2. CASE /\ alive = "stopping" /\ LastCleaned(todo)
             /\ AsItWas /\ rules = None /\ blocks = {}
    <3>1. alive' = "stopping" /\ LastExit(todo')
      BY <1>4, <2>2 DEF LastCleaned
    <3>2. AsItWas' /\ rules' = None /\ blocks' = {}
      BY <1>4, <2>2 DEF AsItWas, Misled, kernel
    <3>3. QED BY <3>1, <3>2 DEF FilterPhase, FilterStopping
  <2>3. QED BY <1>1, <2>1, <2>2
<1>6. QED BY <1>2, <1>3, <1>5 DEF FilterInv

(* The tunnels' files are gone. *)
LEMMA RecoverKeeps ==
    ASSUME FilterInv, Recover, UNCHANGED <<events, os, hadPf>>
    PROVE  FilterInv'
<1>1. /\ todo # << >>
      /\ Booting /\ ThenRecover(todo) /\ (os = "linux" => rules = None \/ torn)
  BY WhereLaunching DEF Recover, Step
<1>2. FilterTypes'
  <2>1. Tail(todo) \in Seq(Items)
    BY <1>1 DEF FilterInv, FilterTypes
  <2>2. QED BY <2>1 DEF FilterInv, FilterTypes, Recover, Finish, kernel, memory, history
<1>3. Recorded'
  BY DEF FilterInv, Recorded, Misled, Recover, kernel, memory, history
<1>4. Booting' /\ LastRestored(todo') /\ (os = "linux" => rules = None \/ torn)'
  BY <1>1 DEF ThenRecover, Booting, AsItWas, Misled, Recover, Finish, kernel, memory,
              history
<1>5. FilterPhase'
  BY <1>4 DEF Booting, FilterPhase, FilterStarting
<1>6. QED BY <1>2, <1>3, <1>5 DEF FilterInv

(* A file of a process that died is found, or none is. *)
LEMMA RestoredKeeps ==
    ASSUME FilterInv, Restored, UNCHANGED <<events, os, hadPf>>
    PROVE  FilterInv'
<1>1. Booting /\ LastRestored(todo) /\ (os = "linux" => rules = None \/ torn)
  BY WhereLaunching DEF Restored
<1>2. Tail(todo) = << >> /\ todo # << >>
  BY <1>1 DEF LastRestored, Reaches
<1>3. Recorded'
  BY DEF FilterInv, Recorded, Misled, Restored, kernel, files, memory, history
<1>4. CASE file # "none"
  <2> DEFINE last == <<"restored", None>>
             rest == <<last>> \o << >>
  <2>1. last \in Items /\ << >> \in Seq(Items)
    BY DEF Items, Steps, Maybe
  <2>2. last[1] = "restored"
    OBVIOUS
  <2>3. file \in {"on", "off"} /\ os = "darwin"
    BY <1>4 DEF FilterInv, FilterTypes, Recorded
  <2>4. LastRestored(rest) /\ rest \in Seq(Items) /\ <<last>> \in Seq(Items)
    <3> HIDE DEF last
    <3>1. QED BY <2>1, <2>2, Concatenated, Written DEF LastRestored, Reaches
  <2>5. RecoverSteps # << >> /\ RecoverSteps \in Seq(Items)
    BY <2>3, <2>4, RecoverList
  <2>6. /\ todo' = (RecoverSteps \o <<last>>) \o << >>
        /\ alive' = alive
    BY <1>2, <2>5 DEF Restored, Expand
  <2>7. todo' = RecoverSteps \o rest
    BY <2>1, <2>4, <2>5, <2>6, Associative
  <2> HIDE DEF rest
  <2>8. todo' \in Seq(Items) /\ RestoreFlushes(todo', file = "on")
    BY <2>3, <2>4, <2>7, RecoverList
  <2>9. FilterTypes'
    BY <2>8 DEF FilterInv, FilterTypes, Restored, kernel, files, memory, history
  <2>10. Booting' /\ os' = "darwin" /\ file' = file
    BY <1>1, <2>3, <2>6
       DEF Booting, AsItWas, Misled, Restored, kernel, files, memory, history
  <2>11. FilterPhase'
    BY <1>4, <2>8, <2>10 DEF Booting, FilterPhase, FilterStarting
  <2>12. QED BY <1>3, <2>9, <2>11 DEF FilterInv
<1>5. CASE file = "none"
  <2>1. RecoverSteps = << >>
    BY <1>5 DEF RecoverSteps
  <2>2. todo' = << >> /\ alive' = "on"
    BY <1>2, <2>1 DEF Restored, Finish
  <2>3. FilterTypes'
    BY <2>2 DEF FilterInv, FilterTypes, Restored, kernel, files, memory, history
  <2>4. Outer(todo')
    BY <2>2, OuterEmpty
  <2>5. Calm' /\ AtRest'
    BY <1>1, <1>5, <2>2
       DEF FilterInv, FilterTypes, Recorded, Booting, Calm, AtRest, Knows, AsItWas, Misled,
           Restored, kernel, files, memory, history
  <2>6. FilterPhase'
    BY <2>4, <2>5 DEF Calm, FilterPhase, FilterOn
  <2>7. QED BY <1>3, <2>3, <2>6 DEF FilterInv
<1>6. QED BY <1>4, <1>5

(* The process ends. *)
LEMMA ExitKeeps ==
    ASSUME FilterInv, Exit, UNCHANGED <<events, os, hadPf>>
    PROVE  FilterInv'
<1>1. AsItWas /\ rules = None /\ blocks = {}
  BY WhereLaunching DEF Exit
<1>2. FilterTypes'
  <2>1. << >> \in Seq(Items)
    OBVIOUS
  <2>2. QED
    BY <2>1 DEF FilterInv, FilterTypes, Maybe, Exit, Reborn, kernel, files, history
<1>3. Recorded'
  BY DEF FilterInv, Recorded, Misled, Exit, kernel, files, history
<1>4. FilterPhase'
  BY <1>1 DEF FilterPhase, FilterOff, AsItWas, Misled, Exit, Reborn, kernel, files, history
<1>5. QED BY <1>2, <1>3, <1>4 DEF FilterInv

(* One outward step. *)
LEMMA OuterOne ==
    ASSUME NEW a \in Items, a[1] \in Outward \ {"protect"}, a[2] \in Tunnels
    PROVE  Outer(<<a>>)
<1>1. Outer(<<a>> \o << >>)
  BY OuterEmpty, OuterMore
<1>2. <<a>> \o << >> = <<a>>
  BY Written, Empty
<1>3. QED BY <1>1, <1>2

(* The tunnel comes up behind its loop protection, if it is a full one. *)
LEMMA OuterUp ==
    ASSUME NEW t \in Tunnels, NEW s, Outer(s), NEW guard \in BOOLEAN
    PROVE  Outer(((IF guard THEN <<<<"protect", t>>>> ELSE << >>) \o <<<<"up", t>>>>) \o s)
<1> DEFINE a == <<"protect", t>>
           b == <<"up", t>>
           r == <<b>> \o s
<1>1. a \in Items /\ b \in Items /\ s \in Seq(Items)
  BY DEF Items, Steps, Maybe, Outer
<1>2. /\ a[1] = "protect" /\ b[1] = "up" /\ a[2] = t /\ b[2] = t /\ b = <<"up", a[2]>>
      /\ a[1] \in Outward /\ b[1] \in Outward \ {"protect"}
  BY DEF Outward
<1> HIDE DEF a, b
<1>3. Outer(r) /\ r # << >> /\ Head(r) = b /\ r \in Seq(Items)
  BY <1>1, <1>2, OuterMore, Concatenated
<1>4. (<<a>> \o <<b>>) \o s = <<a>> \o r /\ (<< >> \o <<b>>) \o s = r
  <2>1. <<a>> \in Seq(Items) /\ <<b>> \in Seq(Items) /\ << >> \in Seq(Items)
    BY <1>1, Written
  <2>2. << >> \o <<b>> = <<b>>
    BY <2>1, Empty
  <2>3. QED BY <1>1, <2>1, <2>2, Associative
<1> HIDE DEF r
<1>5. Outer(<<a>> \o r)
  BY <1>1, <1>2, <1>3, OuterMore
<1>6. QED BY <1>3, <1>4, <1>5 DEF a, b

(* Between two operations. *)
LEMMA WhereSettled ==
    ASSUME FilterInv, Settled
    PROVE  Calm /\ AtRest /\ todo = << >>
BY DEF FilterInv, FilterPhase, FilterOn, Settled, Calm, Reaches, Owns, Persists, Loads,
       TurnsOn, Remembers, Flushes, Forgets, TurnsOff, Ends, Enables, Disables

(* An operation of outward steps begins. *)
LEMMA BeginsKeeps ==
    ASSUME FilterInv, Settled, Outer(todo'),
           UNCHANGED <<os, hadPf, kernel, files, alive, memory, history>>
    PROVE  FilterInv'
<1>1. Calm /\ AtRest
  BY WhereSettled
<1>2. FilterTypes'
  BY DEF FilterInv, FilterTypes, Outer, kernel, files, memory, history
<1>3. Recorded'
  BY DEF FilterInv, Recorded, Misled, kernel, files, history
<1>4. Calm' /\ AtRest'
  BY <1>1 DEF Calm, AtRest, AsItWas, Knows, RemembersWell, Misled, kernel, files, memory,
              history
<1>5. FilterPhase'
  BY <1>4 DEF Calm, FilterPhase, FilterOn
<1>6. QED BY <1>2, <1>3, <1>5 DEF FilterInv

(* A connect begins. *)
LEMMA ConnectKeeps ==
    ASSUME FilterInv, NEW t \in Tunnels, Connect(t)
    PROVE  FilterInv'
<1> DEFINE tail == IF t \in Claims THEN <<<<"apply", t>>>> ELSE << >>
<1>1. Outer(tail)
  <2> DEFINE a == <<"apply", t>>
  <2>1. a \in Items /\ a[1] \in Outward \ {"protect"} /\ a[2] \in Tunnels
    BY DEF Items, Steps, Maybe, Outward
  <2>2. Outer(<<a>>)
    <3> HIDE DEF a
    <3>1. QED BY <2>1, OuterOne
  <2>3. QED BY <2>2, OuterEmpty
<1>2. todo' = ((IF t \in Full THEN <<<<"protect", t>>>> ELSE << >>) \o <<<<"up", t>>>>)
              \o tail
  BY DEF Connect, Begin
<1> HIDE DEF tail
<1>3. Outer(todo')
  BY <1>1, <1>2, OuterUp
<1>4. QED BY <1>3, BeginsKeeps DEF Connect, Begin

(* A disconnect begins. *)
LEMMA DisconnectKeeps ==
    ASSUME FilterInv, NEW t \in Tunnels, Disconnect(t)
    PROVE  FilterInv'
<1> DEFINE a == <<"down", t>>
           b == <<"release", t>>
<1>1. /\ a \in Items /\ a[1] \in Outward \ {"protect"} /\ a[2] \in Tunnels
      /\ b \in Items /\ b[1] \in Outward \ {"protect"} /\ b[2] \in Tunnels
  BY DEF Items, Steps, Maybe, Outward
<1>2. todo' = <<a, b>>
  BY DEF Disconnect, Begin
<1> HIDE DEF a, b
<1>3. Outer(<<a>> \o <<b>>)
  BY <1>1, OuterOne, OuterMore
<1>4. Outer(todo')
  BY <1>1, <1>2, <1>3, Joined
<1>5. QED BY <1>4, BeginsKeeps DEF Disconnect, Begin

(* An attempt of the reconnect monitor begins. *)
LEMMA AttemptKeeps ==
    ASSUME FilterInv, NEW t \in Tunnels, NEW well \in BOOLEAN, Retry(t, well)
    PROVE  FilterInv'
<1> DEFINE a == <<"suspend", t>>
           b == <<"down", t>>
           c == <<"resume", t>>
           guarded == (IF t \in Full THEN <<<<"protect", t>>>> ELSE << >>)
                      \o <<<<"up", t>>>>
           middle == IF ~well THEN << >> ELSE guarded
           rest == middle \o <<c>>
<1>1. /\ a \in Items /\ a[1] \in Outward \ {"protect"} /\ a[2] \in Tunnels
      /\ b \in Items /\ b[1] \in Outward \ {"protect"} /\ b[2] \in Tunnels
      /\ c \in Items /\ c[1] \in Outward \ {"protect"} /\ c[2] \in Tunnels
  BY DEF Items, Steps, Maybe, Outward
<1>2. todo' = (<<a, b>> \o middle) \o <<c>>
  BY DEF Retry, Begin
<1>3. middle \in Seq(Items)
  <2>1. <<"protect", t>> \in Items /\ <<"up", t>> \in Items
    BY DEF Items, Steps, Maybe
  <2>2. QED BY <2>1
<1> HIDE DEF a, b, c
<1>4. Outer(<<c>>) /\ <<c>> \in Seq(Items)
  BY <1>1, OuterOne, Written
<1>5. Outer(rest)
  <2>1. Outer(guarded \o <<c>>)
    BY <1>4, OuterUp
  <2>2. << >> \o <<c>> = <<c>>
    BY <1>4, Empty
  <2>3. QED BY <1>4, <2>1, <2>2
<1>6. todo' = <<a>> \o (<<b>> \o rest)
  <2>1. <<a, b>> \in Seq(Items) /\ <<a>> \in Seq(Items) /\ <<b>> \in Seq(Items)
        /\ rest \in Seq(Items)
    BY <1>1, <1>5, Written DEF Outer
  <2> HIDE DEF middle
  <2>2. todo' = <<a, b>> \o rest
    BY <1>2, <1>3, <1>4, <2>1, Associative
  <2>3. <<a>> \o <<b>> = <<a, b>>
    BY <1>1, Joined
  <2> HIDE DEF rest
  <2>4. (<<a>> \o <<b>>) \o rest = <<a>> \o (<<b>> \o rest)
    BY <2>1, Associative
  <2>5. QED BY <2>2, <2>3, <2>4, ZenonT(60)
<1> HIDE DEF rest
<1>7. Outer(<<b>> \o rest)
  BY <1>1, <1>5, OuterMore
<1>8. Outer(todo')
  <2> DEFINE r == <<b>> \o rest
  <2>1. Outer(r) /\ todo' = <<a>> \o r
    BY <1>6, <1>7
  <2> HIDE DEF r
  <2>2. QED BY <1>1, <2>1, OuterMore
<1>9. QED BY <1>8, BeginsKeeps DEF Retry, Begin

(* The master switch is turned off. *)
LEMMA ClearEnforcementKeeps ==
    ASSUME FilterInv, ClearEnforcement, UNCHANGED hadPf
    PROVE  FilterInv'
<1>1. Calm /\ AtRest
  BY WhereSettled DEF ClearEnforcement, Begin
<1>2. todo' = DisableSteps \o << >>
  <2>1. DisableSteps \in Seq(Items)
    BY OuterEmpty, DisableList
  <2>2. QED BY <2>1, Empty DEF ClearEnforcement, Begin
<1>3. /\ todo' \in Seq(Items)
      /\ os = "darwin" => Flushes(todo', pfWasEnabled)
      /\ os # "darwin" => Disables(todo')
  BY <1>2, OuterEmpty, DisableList
<1>4. FilterTypes'
  BY <1>3 DEF FilterInv, FilterTypes, Maybe, ClearEnforcement, kernel, files, history
<1>5. Recorded'
  BY DEF FilterInv, Recorded, Misled, ClearEnforcement, kernel, files, history
<1>6. Calm' /\ (os = "darwin" => RemembersWell')
  BY <1>1 DEF Calm, Knows, RemembersWell, Misled, ClearEnforcement, kernel, files, history
<1>7. os' = os /\ pfWasEnabled' = pfWasEnabled
  BY DEF ClearEnforcement
<1>8. FilterPhase'
  BY <1>3, <1>6, <1>7 DEF Calm, FilterPhase, FilterOn
<1>9. QED BY <1>4, <1>5, <1>8 DEF FilterInv

(* The shutdown begins. *)
LEMMA ShutdownKeeps ==
    ASSUME FilterInv, Shutdown
    PROVE  FilterInv'
<1> DEFINE a == <<"downall", None>>
           b == <<"cleanup", None>>
           c == <<"exit", None>>
<1>1. a \in Items /\ b \in Items /\ c \in Items
  BY DEF Items, Steps, Maybe
<1>2. a[1] = "downall" /\ b[1] = "cleanup" /\ c[1] = "exit"
  OBVIOUS
<1>3. todo' = <<a, b, c>> /\ alive' = "stopping"
  BY DEF Shutdown
<1> HIDE DEF a, b, c
<1>4. todo' \in Seq(Items)
  BY <1>1, <1>3, Written
<1>5. ClosesAll(todo')
  <2>1. LastExit(<<c>>)
    BY <1>1, <1>2, Written DEF LastExit, Reaches
  <2>2. LastCleanup(<<b, c>>)
    BY <1>1, <1>2, <2>1, Written DEF LastCleanup, Reaches
  <2>3. QED BY <1>1, <1>2, <1>3, <2>2, Written DEF ClosesAll, Reaches
<1>6. FilterTypes'
  BY <1>4 DEF FilterInv, FilterTypes, Shutdown, kernel, files, memory, history
<1>7. Recorded'
  BY DEF FilterInv, Recorded, Misled, Shutdown, kernel, files, memory, history
<1>8. AtRest' /\ Knows'
  <2>1. AtRest /\ Knows
    BY WhereSettled DEF Shutdown, Calm
  <2>2. QED
    BY <2>1 DEF AtRest, AsItWas, Knows, RemembersWell, Misled, Shutdown, kernel, files,
                memory, history
<1>9. FilterPhase'
  BY <1>3, <1>5, <1>8 DEF FilterPhase, FilterStopping
<1>10. QED BY <1>6, <1>7, <1>9 DEF FilterInv

(* The launch begins. *)
LEMMA LaunchKeeps ==
    ASSUME FilterInv, Launch
    PROVE  FilterInv'
<1> DEFINE a == <<"cleanup", None>>
           b == <<"recover", None>>
           c == <<"restored", None>>
<1>1. a \in Items /\ b \in Items /\ c \in Items
  BY DEF Items, Steps, Maybe
<1>2. a[1] = "cleanup" /\ b[1] = "recover" /\ c[1] = "restored"
  OBVIOUS
<1>3. /\ journal # {} => todo' = <<a, b>> \o <<c>>
      /\ journal = {} => todo' = << >> \o <<c>>
      /\ alive = "off" /\ alive' = "starting"
  BY DEF Launch
<1> HIDE DEF a, b, c
<1>4. /\ journal # {} => todo' = <<a, b, c>>
      /\ journal = {} => todo' = <<c>>
  <2>1. <<a, b>> \o <<c>> = <<a, b, c>>
    BY <1>1, Joined
  <2>2. << >> \o <<c>> = <<c>>
    BY <1>1, Written, Empty
  <2>3. QED BY <1>3, <2>1, <2>2
<1>5. LastRestored(<<c>>)
  BY <1>1, <1>2, Written DEF LastRestored, Reaches
<1>6. FirstCleanup(<<a, b, c>>)
  <2>1. ThenRecover(<<b, c>>)
    BY <1>1, <1>2, <1>5, Written DEF ThenRecover, Reaches
  <2>2. QED BY <1>1, <1>2, <2>1, Written DEF FirstCleanup, Reaches
<1>7. FilterTypes'
  <2>1. todo' \in Seq(Items)
    <3>1. <<c>> \in Seq(Items) /\ <<a, b, c>> \in Seq(Items)
      BY <1>1, Written
    <3>2. QED BY <1>4, <3>1
  <2>2. QED BY <2>1 DEF FilterInv, FilterTypes, Launch, kernel, files, memory, history
<1>8. Recorded'
  BY DEF FilterInv, Recorded, Misled, Launch, kernel, files, memory, history
<1>9. FilterOff
  BY <1>3 DEF FilterInv, FilterPhase
<1>10. Booting'
  BY <1>3, <1>9
     DEF FilterOff, Booting, AsItWas, Misled, Launch, kernel, files, memory, history
<1>11. journal = {} => (os = "linux" => rules = None \/ torn)'
  BY <1>9 DEF FilterOff, Launch, kernel, history
<1>12. FilterPhase'
  BY <1>4, <1>5, <1>6, <1>10, <1>11 DEF Booting, FilterPhase, FilterStarting
<1>13. QED BY <1>7, <1>8, <1>12 DEF FilterInv

(* The process dies. *)
LEMMA CrashKeeps ==
    ASSUME FilterInv, Crash
    PROVE  FilterInv'
<1>1. << >> \in Seq(Items)
  OBVIOUS
<1>2. FilterTypes'
  BY <1>1
     DEF FilterInv, FilterTypes, Maybe, Crash, Event, Reborn, Unrecorded, files
<1>3. Recorded'
  BY DEF FilterInv, FilterTypes, Recorded, Misled, Crash, files
<1>4. FilterPhase'
  BY DEF FilterInv, FilterTypes, FilterPhase, FilterOff, AsItWas, Misled, Crash, Reborn,
         Unrecorded, Recorded, files
<1>5. QED BY <1>2, <1>3, <1>4 DEF FilterInv

(* The invariant holds at first. *)
LEMMA FiltersInitially == Init => FilterInv
<1> SUFFICES ASSUME Init PROVE FilterInv
  OBVIOUS
<1>1. os \in {"darwin", "linux", "windows"} /\ hadPf \in BOOLEAN /\ pf = hadPf
  BY FirewallAssumption DEF Init
<1>2. FilterTypes
  <2>1. << >> \in Seq(Items)
    OBVIOUS
  <2>2. QED BY <1>1, <2>1 DEF Init, FilterTypes, Maybe
<1>3. Recorded /\ FilterPhase
  BY <1>1 DEF Init, Recorded, FilterPhase, FilterOff, AsItWas, Misled
<1>4. QED BY <1>2, <1>3 DEF FilterInv

(* No step of the helper breaks it. *)
LEMMA FiltersKept ==
    ASSUME FilterInv, [Next]_vars
    PROVE  FilterInv'
<1>1. CASE Operation
  <2>1. CASE \E t \in Tunnels : Connect(t) \/ Disconnect(t)
    BY <2>1, ConnectKeeps, DisconnectKeeps
  <2>2. CASE \E t \in Tunnels, well \in BOOLEAN : Retry(t, well)
    BY <2>2, AttemptKeeps
  <2>3. CASE ClearEnforcement
    BY <2>3, ClearEnforcementKeeps DEF ClearEnforcement
  <2>4. CASE Shutdown
    BY <2>4, ShutdownKeeps
  <2>5. CASE Launch
    BY <2>5, LaunchKeeps
  <2>6. CASE Crash
    BY <2>6, CrashKeeps
  <2>7. QED BY <1>1, <2>1, <2>2, <2>3, <2>4, <2>5, <2>6 DEF Operation
<1>2. CASE TakeStep
  <2>1. UNCHANGED <<events, os, hadPf>>
    BY <1>2 DEF TakeStep
  <2>2. CASE Protect \/ Up \/ Down \/ DownAll \/ Apply \/ Own
    BY <2>1, <2>2, ProtectKeeps, UpKeeps, DownKeeps, DownAllKeeps, ApplyKeeps, OwnKeeps
  <2>3. CASE Release \/ Suspend \/ Resume
    BY <2>1, <2>3, ReleaseKeeps, SuspendKeeps, ResumeKeeps
  <2>4. CASE Persist \/ Load \/ PfOn \/ Enabled \/ Enable
    BY <2>1, <2>4, PersistKeeps, LoadKeeps, PfOnKeeps, EnabledKeeps, EnableKeeps
  <2>5. CASE Flush \/ Forget \/ PfOff \/ Disabled \/ Disable
    BY <2>1, <2>5, FlushKeeps, ForgetKeeps, PfOffKeeps, DisabledKeeps, DisableKeeps
  <2>6. CASE Cleanup \/ Cleaned \/ Recover \/ Restored \/ Exit
    BY <2>1, <2>6, CleanupKeeps, CleanedKeeps, RecoverKeeps, RestoredKeeps, ExitKeeps
  <2>7. QED BY <1>2, <2>2, <2>3, <2>4, <2>5, <2>6 DEF TakeStep
<1>3. CASE (LoadFails \/ EnableFails) /\ UNCHANGED <<os, hadPf>>
  BY <1>3, EnableFailsKeeps
<1>4. CASE UNCHANGED vars
  <2>1. /\ UNCHANGED <<os, hadPf, pf, rules, blocks, journal, file, alive, todo, up, cached,
                       owner, carrier, pfWasEnabled, torn, reenabled>>
    BY <1>4 DEF vars, kernel, files, memory, history
  <2>2. FilterTypes' /\ Recorded'
    BY <2>1 DEF FilterInv, FilterTypes, Recorded, Misled
  <2>3. FilterPhase'
    BY <2>1 DEF FilterInv, FilterPhase, FilterOff, FilterStarting, FilterOn,
                FilterStopping, AtRest, AsItWas, Knows, RemembersWell, Misled, Arg
  <2>4. QED BY <2>2, <2>3 DEF FilterInv
<1>5. QED BY <1>1, <1>2, <1>3, <1>4 DEF Next

-----------------------------------------------------------------------------

(* It is what the whole has of them, other parts' steps included. *)
LEMMA FiltersStay ==
    ASSUME FilterInv, [MCNext]_all
    PROVE  FilterInv'
<1>1. [Next]_vars
  BY DEF MCNext, SystemNext, all
<1>2. QED BY <1>1, FiltersKept

(* Between two operations of the helper the rules that enforce the DNS resolve *)
(* path are those of the interface last given, with pf on, if the helper       *)
(* believes that they are on, and if not no rule is left and pf is as the user *)
(* had it; no loop protection is left of a tunnel that is not up.  It is so    *)
(* after crashes between any two commands, failed commands, suspended rules    *)
(* and restarts, but where a crash came before any file told of the rules, or  *)
(* rules were loaded over rules.                                               *)
(* (firewall/darwin.go EnableDNSProtection, DisableDNSProtection, Cleanup,     *)
(* RecoverSavedRules; firewall/linux.go, firewall/windows.go)                  *)
THEOREM FiltersAreAsBelieved == MCSpec => []FiltersExact
<1>1. MCInit => FilterInv
  BY FiltersInitially DEF MCInit
<1>2. FilterInv /\ [MCNext]_all => FilterInv'
  BY FiltersStay
<1>3. FilterInv => FiltersExact
  <2>1. SUFFICES ASSUME FilterInv PROVE FiltersExact
    OBVIOUS
  <2>2. Settled => Calm /\ AtRest
    BY <2>1, WhereSettled
  <2>3. QED BY <2>2 DEF Calm, AtRest, AsItWas, Misled, InForce, NothingLeft, FiltersExact
<1>4. QED BY <1>1, <1>2, <1>3, PTL DEF MCSpec, all

-----------------------------------------------------------------------------
(* The user's parts. *)

(* The whole behaves, in the parts that are the user's, as MCUserState by      *)
(* itself: what is proved of it holds of the system.                           *)
(* (gui, storage, update: none of them touches what the helper leaves in the   *)
(* operating system but by a call to it)                                       *)
THEOREM UserPartsBehave == MCSpec => UserSpec
<1>1. MCInit => UserInit
  BY DEF MCInit
<1>2. [MCNext]_all => [UserNext]_<<part, userVars>>
  BY DEF MCNext, SystemNext, all
<1>3. QED BY <1>1, <1>2, PTL DEF MCSpec, UserSpec, all

=============================================================================
