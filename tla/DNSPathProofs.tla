---------------------------- MODULE DNSPathProofs ----------------------------
(***************************************************************************)
(* One connected tunnel carries the system's DNS, for any number of        *)
(* tunnels, connections and requests, as long as no connect passes another *)
(* between its look at the path and its end, and no waiver outlives the    *)
(* attempt it was given for.                                               *)
(*                                                                         *)
(* The look is taken without connectMu, and the firewall's rules go to     *)
(* whoever enables them last.  What makes the look last is that the switch *)
(* of a tunnel in use does not move, and that only a connect that has      *)
(* looked, too, adds a config to the cache.                                *)
(***************************************************************************)
EXTENDS DNSPath, SequenceTheorems, TLAPS

Requests == [op : {"connect", "disconnect", "disable", "cancel"},
             tunnel : Tunnels]

Labels == {"idle", "look", "parked", "go", "connect", "firewall", "enable",
           "disconnect", "clear", "disable", "forget"}

(* Where a call does not touch the path. *)
Outer == {"idle", "look", "parked", "disconnect"}

(* A call knows its tunnel; the engine alone tears down without the lock. *)
Named ==
    \A k \in Callers :
        /\ pc[k] # "idle" => name[k] \in Tunnels
        /\ pc[k] \in {"clear", "disable", "forget"} => k = Engine

(* From manager.Connect to the rules, under connectMu. *)
Locked ==
    /\ \A k \in Callers :
          pc[k] \in {"connect", "firewall", "enable"} => connectMu = k
    /\ \A j, k \in Passing : j = k
    /\ Tearing => Passing = {}

(* No waiver where a switch is on. *)
Fresh == \A t \in switch : ~WaiverPending(t)

(* A parked connect is let through by an answer only when its switch is off. *)
Answers ==
    \A k \in Callers :
        pc[k] = "parked" /\ answer[k] = "disable" => name[k] \notin switch

(* What a connect saw when it looked is still so. *)
PathClear(t) ==
    ~master \/ t \notin switch \/ (activeCfgs \cap switch) \ {t} = {}
WayClear == \A k \in Passing : PathClear(name[k])

(* A tunnel that is up, or is being connected, has its config in the cache. *)
Cached ==
    /\ up \subseteq activeCfgs
    /\ \A k \in Callers : pc[k] = "connect" => name[k] \in activeCfgs

(* A tunnel that has come up and has not got its rules yet. *)
Latest == {k \in Callers : pc[k] \in {"firewall", "enable"}}
LatestUp ==
    \A k \in Latest :
        /\ name[k] \in up
        /\ pc[k] = "enable" => master /\ name[k] \in switch

Carrier ==
    master => \A t \in up \cap switch :
                 rules = t \/ \E k \in Latest : name[k] = t

(* The rules are on record, for a tunnel that is up, but for what the engine's
   teardown has not come to. *)
Record ==
    /\ Tearing => name[Engine] \notin up
    /\ pc[Engine] = "disable" => owner = None /\ rules = name[Engine]
    /\ pc[Engine] # "disable" => rules = owner
    /\ pc[Engine] = "clear" => rules \in up \cup {None, name[Engine]}
    /\ pc[Engine] \notin {"clear", "disable"} => rules \in up \cup {None}

Path == Locked /\ WayClear /\ Cached /\ LatestUp /\ Carrier /\ Record

IInv == TypeOK /\ Named /\ Fresh /\ Answers /\ Path

-----------------------------------------------------------------------------
(* The requests of a queue, after one is added at its end or taken from its
   front. *)
LEMMA Queued ==
    ASSUME NEW R, NEW s \in Seq(R), NEW x \in R
    PROVE  /\ Append(s, x) \in Seq(R)
           /\ \A i \in DOMAIN Append(s, x) :
                 \/ Append(s, x)[i] = x
                 \/ \E j \in DOMAIN s : Append(s, x)[i] = s[j]
OBVIOUS

(* A queue without its first request is a queue of the requests behind it. *)
LEMMA Taken ==
    ASSUME NEW R, NEW s \in Seq(R), s # << >>
    PROVE  /\ Tail(s) \in Seq(R)
           /\ Head(s) \in R
           /\ 1 \in DOMAIN s /\ s[1] = Head(s)
           /\ \A i \in DOMAIN Tail(s) : \E j \in DOMAIN s : Tail(s)[i] = s[j]
OBVIOUS

(* A step outside the path keeps it. *)
LEMMA PathFrame ==
    ASSUME IInv,
           UNCHANGED <<master, switch, connectMu, activeCfgs, up, rules, owner>>,
           \A k \in Callers : \/ pc'[k] = pc[k] /\ name'[k] = name[k]
                              \/ pc[k] \in Outer /\ pc'[k] \in Outer
    PROVE  Path'
<1> USE DEF IInv, Path
<1>1. /\ Passing' = Passing /\ Latest' = Latest
      /\ \A k \in Passing : name'[k] = name[k] /\ pc'[k] = pc[k]
      /\ \A k \in Latest : name'[k] = name[k] /\ pc'[k] = pc[k]
      /\ \A k \in Callers :
            pc'[k] \in {"connect", "firewall", "enable"} => pc[k] = pc'[k]
  BY DEF Passing, Latest, Outer
<1>2. Engine \in Callers
  BY DEF Callers
<1>3. /\ Tearing' <=> Tearing
      /\ \A l \in {"clear", "disable", "forget"} :
            pc'[Engine] = l <=> pc[Engine] = l
      /\ Tearing => name'[Engine] = name[Engine]
  BY <1>2 DEF Tearing, Outer
<1>4. Locked'
  BY <1>1, <1>3 DEF Locked
<1>5. WayClear'
  BY <1>1 DEF WayClear, PathClear
<1>6. Cached' /\ LatestUp' /\ Carrier'
  BY <1>1 DEF Cached, LatestUp, Carrier, Passing
<1>7. Record'
  BY <1>3 DEF Record, Tearing
<1>8. QED
  BY <1>4, <1>5, <1>6, <1>7

(* A connect has seen the path clear. *)
LEMMA GoKeeps ==
    ASSUME IInv, NEW k \in Callers, pc[k] \in Outer, ~Tearing,
           pc' = [pc EXCEPT ![k] = "go"], PathClear(name[k]),
           UNCHANGED <<master, switch, connectMu, activeCfgs, up, rules, owner,
                       name>>,
           \A i, j \in Passing' : i = j
    PROVE  Path'
<1> USE DEF IInv, Path
<1>1. /\ pc'[k] = "go" /\ \A j \in Callers : j # k => pc'[j] = pc[j]
      /\ Engine \in Callers
  BY DEF TypeOK, Callers
<1>2. k \in Passing' /\ Passing' \subseteq Passing \cup {k}
  BY <1>1 DEF Passing
<1>3. Latest' = Latest /\ \A j \in Latest : pc'[j] = pc[j]
  BY <1>1 DEF Latest, Outer
<1>4. ~Tearing' /\ pc'[Engine] \notin {"clear", "disable"}
      /\ pc[Engine] \notin {"clear", "disable"}
  BY <1>1 DEF Tearing
<1>5. Locked'
  BY <1>1, <1>4 DEF Locked
<1>6. WayClear'
  BY <1>2 DEF WayClear, PathClear
<1>7. Cached' /\ LatestUp' /\ Carrier'
  BY <1>1, <1>3 DEF Cached, LatestUp, Carrier
<1>8. Record'
  BY <1>4 DEF Record
<1>9. QED
  BY <1>5, <1>6, <1>7, <1>8

-----------------------------------------------------------------------------
(* The IPC server reads a request: the path is left alone, and an answer that
   turns a claim off comes after the switch has been saved. *)
LEMMA TakeKeeps ==
    ASSUME IInv, NEW c \in Conns, Take(c)
    PROVE  /\ pc[c] = "idle" /\ Head(queue[c]) \in Requests
           /\ queue' \in [Conns -> Seq(Requests)]
           /\ \A d \in Conns : \A i \in DOMAIN queue'[d] :
                 \E j \in DOMAIN queue[d] : queue'[d][i] = queue[d][j]
           /\ \E j \in DOMAIN queue[c] : queue[c][j] = Head(queue[c])
<1>1. /\ queue \in [Conns -> Seq(Requests)] /\ queue[c] # << >>
      /\ queue[c] \in Seq(Requests) /\ pc[c] = "idle"
  BY DEF IInv, TypeOK, Requests, Take
<1>2. PICK s \in {Tail(queue[c]), << >>} : queue' = [queue EXCEPT ![c] = s]
  BY DEF Take
<1>3. /\ Tail(queue[c]) \in Seq(Requests) /\ Head(queue[c]) \in Requests
      /\ 1 \in DOMAIN queue[c] /\ queue[c][1] = Head(queue[c])
      /\ \A i \in DOMAIN Tail(queue[c]) :
            \E j \in DOMAIN queue[c] : Tail(queue[c])[i] = queue[c][j]
  BY <1>1, Taken
<1>4. /\ s \in Seq(Requests)
      /\ \A i \in DOMAIN s : \E j \in DOMAIN queue[c] : s[i] = queue[c][j]
  <2>1. CASE s = << >>
    BY <2>1
  <2>2. QED BY <1>2, <1>3, <2>1
<1>5. queue'[c] = s /\ \A d \in Conns : d # c => queue'[d] = queue[d]
  BY <1>1, <1>2
<1>6. QED
  BY <1>1, <1>2, <1>3, <1>4, <1>5

(* The server reads one request of a connection and begins to serve it: a
   caller that was idle is where the request puts it. *)
LEMMA ReadKeeps ==
    ASSUME IInv, NEW c \in Conns, Read(c)
    PROVE  IInv'
<1> USE DEF IInv
<1>1. /\ Take(c) /\ c \in Callers /\ c # Engine
      /\ UNCHANGED <<master, switch, client, dialog, waits, connectMu,
                     activeCfgs, up, rules, owner>>
  BY DNSPathAssumption DEF Read, ReadConnect, ReadDisconnect, ReadAnswer, Drop,
                           Callers, handlers
<1> DEFINE r == Head(queue[c])
<1>2. /\ pc[c] = "idle" /\ r \in Requests
      /\ queue' \in [Conns -> Seq(Requests)]
      /\ \A d \in Conns : \A i \in DOMAIN queue'[d] :
            \E j \in DOMAIN queue[d] : queue'[d][i] = queue[d][j]
      /\ \E j \in DOMAIN queue[c] : queue[c][j] = r
  BY <1>1, TakeKeeps
<1> HIDE DEF r
<1>3. r.tunnel \in Tunnels
  BY <1>2 DEF Requests
<1>4. CASE ReadConnect(c) \/ ReadDisconnect(c)
  <2>1. /\ \E l \in {"look", "disconnect"} : pc' = [pc EXCEPT ![c] = l]
        /\ name' = [name EXCEPT ![c] = r.tunnel]
        /\ waived' \in {waived, waived \ {r.tunnel}}
        /\ answer' = answer
    BY <1>4 DEF ReadConnect, ReadDisconnect, r
  <2>2. PICK l \in {"look", "disconnect"} : pc' = [pc EXCEPT ![c] = l]
    BY <2>1
  <2>3. /\ pc'[c] = l /\ name'[c] = r.tunnel
        /\ \A k \in Callers : k # c => pc'[k] = pc[k] /\ name'[k] = name[k]
    BY <1>1, <2>1, <2>2 DEF TypeOK
  <2>4. Path'
    BY <1>1, <1>2, <2>3, PathFrame DEF Outer
  <2>5. Named' /\ Answers'
    BY <1>1, <1>3, <2>1, <2>3 DEF Named, Answers
  <2>6. Fresh'
    BY <1>1, <1>2, <2>1 DEF Fresh, WaiverPending, Request
  <2>7. \A t \in Tunnels : waits[t] # None => /\ pc'[waits[t]] = "parked"
                                             /\ name'[waits[t]] = t
    BY <1>1, <1>2, <2>3, ZenonT(60) DEF TypeOK, Callers
  <2>8. TypeOK'
    <3>1. /\ pc' \in [Callers -> Labels]
          /\ name' \in [Callers -> Tunnels \cup {None}]
          /\ waived' \in SUBSET Tunnels
      BY <1>3, <2>1, <2>2 DEF TypeOK, Labels
    <3>2. QED
      BY <1>1, <1>2, <2>1, <2>7, <3>1, ZenonT(60) DEF TypeOK, Requests, Labels
  <2>9. QED
    BY <2>4, <2>5, <2>6, <2>8
<1>5. CASE ReadAnswer(c)
  <2> DEFINE k == waits[r.tunnel]
  <2>1. /\ r.op \in {"disable", "cancel"}
        /\ UNCHANGED <<pc, name>>
        /\ waived' = IF r.op = "disable" THEN waived \cup {r.tunnel} ELSE waived
        /\ answer' = answer \/ (k # None /\ answer' = [answer EXCEPT ![k] = r.op])
    BY <1>5 DEF ReadAnswer, r
  <2>2. k # None => k \in Callers /\ pc[k] = "parked" /\ name[k] = r.tunnel
    BY <1>3 DEF TypeOK, Callers
  <2>3. r.op = "disable" => r = Request("disable", r.tunnel)
    BY <1>2 DEF Requests, Request
  <2>4. r.op = "disable" => r.tunnel \notin switch
    BY <1>2, <2>3 DEF Fresh, WaiverPending
  <2> HIDE DEF k
  <2>5. Path'
    BY <1>1, <2>1, PathFrame
  <2>6. Named'
    BY <2>1 DEF Named
  <2>7. Answers'
    <3>1. \A j \in Callers : answer'[j] = answer[j] \/ (j = k /\ k # None /\ answer'[j] = r.op)
      BY <2>1, <2>2 DEF TypeOK
    <3>2. QED
      BY <1>1, <2>1, <2>2, <2>4, <3>1 DEF Answers
  <2>8. Fresh'
    BY <1>1, <1>2, <2>1, <2>4 DEF Fresh, WaiverPending, Request
  <2>9. answer' \in [Callers -> {None, "disable", "cancel"}]
    BY <2>1, <2>2 DEF TypeOK
  <2>10. TypeOK'
    BY <1>1, <1>2, <1>3, <2>1, <2>9, ZenonT(60) DEF TypeOK, Requests
  <2>11. QED
    BY <2>5, <2>6, <2>7, <2>8, <2>10
<1>6. CASE Drop(c)
  <2>1. UNCHANGED <<pc, name, answer, waived>>
    BY <1>6 DEF Drop, handlers
  <2>2. Path'
    BY <1>1, <2>1, PathFrame
  <2>3. Named' /\ Answers' /\ Fresh'
    BY <1>1, <1>2, <2>1 DEF Named, Answers, Fresh, WaiverPending, Request
  <2>4. TypeOK'
    BY <1>1, <1>2, <2>1 DEF TypeOK, Requests
  <2>5. QED
    BY <2>2, <2>3, <2>4
<1>7. QED
  BY <1>4, <1>5, <1>6 DEF Read

(* A connect looks at the path, parks, and is let through or sent back. *)
LEMMA LookKeeps ==
    ASSUME IInv, NEW k \in Callers, Look(k) \/ Parked(k), ~Tearing,
           \A i, j \in Passing' : i = j
    PROVE  IInv'
<1> USE DEF IInv
<1> DEFINE t == name[k]
<1>1. /\ pc[k] \in {"look", "parked"} /\ t \in Tunnels
      /\ UNCHANGED <<master, switch, queue, client, name, waived, connectMu,
                     activeCfgs, up, rules, owner>>
  BY DEF Look, Parked, Answered, PathFreed, Deadline, Unpark, ipc, Named
<1>2. \/ pc' = [pc EXCEPT ![k] = "idle"] /\ answer' = answer
      \/ pc' = [pc EXCEPT ![k] = "go"] /\ answer' = answer /\ PathClear(t)
      \/ /\ pc[k] = "look" /\ k # Engine
         /\ pc' = [pc EXCEPT ![k] = "parked"]
         /\ waits' = [waits EXCEPT ![t] = k]
         /\ answer' = [answer EXCEPT ![k] = None]
         /\ dialog' = t
  <2>1. CASE Look(k)
    <3>1. (~Claims(t) \/ Blockers(t) = {}) => PathClear(t)
      BY DEF Claims, Blockers, PathClear, Fresh, WaiverPending
    <3>2. QED
      BY <2>1, <3>1 DEF Look, Goto
  <2>2. CASE Answered(k)
    BY <2>2 DEF Answered, Unpark, Goto, Answers, PathClear
  <2>3. CASE PathFreed(k) \/ Deadline(k)
    BY <2>3 DEF PathFreed, Deadline, Unpark, Goto, Blockers, PathClear
  <2>4. QED
    BY <2>1, <2>2, <2>3 DEF Parked
<1>3. CASE pc[k] = "look" /\ k # Engine /\ pc' = [pc EXCEPT ![k] = "parked"]
           /\ waits' = [waits EXCEPT ![t] = k]
           /\ answer' = [answer EXCEPT ![k] = None] /\ dialog' = t
  <2>1. /\ pc'[k] = "parked" /\ answer'[k] = None
        /\ \A j \in Callers : j # k => pc'[j] = pc[j] /\ answer'[j] = answer[j]
        /\ k \in Conns
    BY <1>3 DEF TypeOK, Callers
  <2>2. Path'
    BY <1>1, <2>1, <1>3, PathFrame DEF Outer
  <2>3. None # "disable"
    BY DNSPathAssumption
  <2>4. Named' /\ Answers' /\ Fresh'
    BY <1>1, <2>1, <2>3 DEF Named, Answers, Fresh, WaiverPending
  <2>5. TypeOK'
    BY <1>1, <1>3, <2>1 DEF TypeOK, Callers
  <2>6. QED
    BY <2>2, <2>4, <2>5
<1>4. CASE \E l \in {"idle", "go"} :
              /\ pc' = [pc EXCEPT ![k] = l] /\ answer' = answer
              /\ l = "go" => PathClear(t)
  <2>1. PICK l \in {"idle", "go"} :
           /\ pc' = [pc EXCEPT ![k] = l] /\ answer' = answer
           /\ l = "go" => PathClear(t)
    BY <1>4
  <2>2. /\ pc'[k] = l /\ \A j \in Callers : j # k => pc'[j] = pc[j]
    BY <2>1 DEF TypeOK
  <2>3. Path'
    BY <1>1, <2>1, <2>2, PathFrame, GoKeeps DEF Outer
  <2>4. Named' /\ Answers' /\ Fresh'
    BY <1>1, <2>1, <2>2 DEF Named, Answers, Fresh, WaiverPending
  <2>5. /\ dialog' = dialog
        /\ pc[k] = "look" => waits' = waits
        /\ pc[k] = "parked" => waits' = [waits EXCEPT ![t] = None]
    BY <1>1, <2>1, <2>2 DEF Look, Goto, Parked, Answered, PathFreed, Deadline, Unpark, ipc
  <2>6. \A u \in Tunnels : waits'[u] # None => /\ waits'[u] \in Conns
                                              /\ pc'[waits'[u]] = "parked"
                                              /\ name[waits'[u]] = u
    <3>1. \A u \in Tunnels : waits'[u] = waits[u] \/ (u = t /\ waits'[u] = None)
      BY <1>1, <2>5 DEF TypeOK
    <3>2. \A u \in Tunnels : waits'[u] # None => waits'[u] = waits[u]
      BY <3>1
    <3>3. \A u \in Tunnels : waits'[u] # None =>
             waits[u] \in Conns /\ pc[waits[u]] = "parked" /\ name[waits[u]] = u
      BY <3>2 DEF TypeOK
    <3>4. \A u \in Tunnels : waits'[u] # None => waits[u] # k
      <4>1. CASE pc[k] = "look"
        BY <3>3, <4>1
      <4>2. CASE pc[k] = "parked"
        <5>1. waits'[t] = None
          BY <1>1, <2>5, <4>2 DEF TypeOK
        <5>2. QED BY <3>3, <5>1
      <4>3. QED BY <1>1, <4>1, <4>2
    <3>5. QED
      BY <2>2, <3>2, <3>3, <3>4 DEF Callers
  <2>7. TypeOK'
    <3>1. /\ pc' \in [Callers -> Labels]
          /\ waits' \in [Tunnels -> Conns \cup {None}]
      BY <1>1, <2>1, <2>5 DEF TypeOK, Labels
    <3>2. QED
      BY <1>1, <2>1, <2>5, <2>6, <3>1 DEF TypeOK, Labels
  <2>8. QED
    BY <2>3, <2>4, <2>7
<1>5. QED
  BY <1>2, <1>3, <1>4

-----------------------------------------------------------------------------
(* A call that is not parked goes on: the dialogs and the answers are left
   alone. *)
LEMMA Onward ==
    ASSUME IInv, NEW k \in Callers, pc[k] \notin {"idle", "parked"},
           NEW l \in Labels \ {"parked"}, pc' = [pc EXCEPT ![k] = l],
           l \in {"clear", "disable", "forget"} => k = Engine,
           UNCHANGED <<master, switch, queue, client, dialog, name, answer,
                       waits>>,
           waived' \subseteq waived, connectMu' \in Callers \cup {None},
           activeCfgs' \subseteq activeCfgs \cup {name[k]},
           up' \subseteq up \cup {name[k]},
           rules' \in {rules, name[k], None}, owner' \in {owner, name[k], None}
    PROVE  /\ TypeOK' /\ Named' /\ Fresh' /\ Answers'
           /\ pc'[k] = l
           /\ \A j \in Callers : j # k => pc'[j] = pc[j]
           /\ name[k] \in Tunnels /\ Engine \in Callers
<1> USE DEF IInv
<1>1. /\ pc'[k] = l /\ \A j \in Callers : j # k => pc'[j] = pc[j]
      /\ pc' \in [Callers -> Labels]
  BY DEF TypeOK, Labels
<1>2. name[k] \in Tunnels /\ Engine \in Callers
  BY DEF Named, Callers
<1>3. Named' /\ Answers'
  BY <1>1, <1>2 DEF Named, Answers
<1>4. Fresh'
  BY DEF Fresh, WaiverPending
<1>5. \A t \in Tunnels : waits[t] # None => /\ pc'[waits[t]] = "parked"
                                           /\ name[waits[t]] = t
  BY <1>1 DEF TypeOK, Callers
<1>6. /\ waived' \in SUBSET Tunnels /\ activeCfgs' \in SUBSET Tunnels
      /\ up' \in SUBSET Tunnels
      /\ rules' \in Tunnels \cup {None} /\ owner' \in Tunnels \cup {None}
  BY <1>2 DEF TypeOK
<1>7. TypeOK'
  BY <1>1, <1>5, <1>6, ZenonT(60) DEF TypeOK, Labels
<1>8. QED
  BY <1>1, <1>2, <1>3, <1>4, <1>7

(* The connect, from connectMu to the rules. *)
LEMMA ConnectKeeps ==
    ASSUME IInv, NEW k \in Callers, ~Tearing,
           Lock(k) \/ DoConnect(k) \/ Firewall(k) \/ Enable(k)
    PROVE  IInv'
<1> USE DEF IInv, Path
<1> DEFINE t == name[k]
<1>1. /\ k \in Passing /\ pc[k] \notin {"idle", "parked"}
      /\ \A j \in Passing : j = k
      /\ PathClear(t)
      /\ UNCHANGED <<master, switch, queue, client, dialog, name, answer, waits,
                     waived>>
  BY DEF Lock, DoConnect, Firewall, Enable, Passing, Locked, WayClear, ipc
<1>2. PICK l \in {"connect", "firewall", "enable", "idle"} :
         /\ pc' = [pc EXCEPT ![k] = l]
         /\ l \in {"connect", "firewall", "enable"} => connectMu' = k
         /\ connectMu' \in {k, None}
  BY DEF Lock, DoConnect, Firewall, Enable, Goto, Locked
<1>3. /\ activeCfgs' \subseteq activeCfgs \cup {t}
      /\ up' \subseteq up \cup {t} /\ up \subseteq up'
      /\ rules' \in {rules, t} /\ owner' \in {owner, t}
      /\ \A u \in up' : u # t => u \in up
  BY DEF Lock, DoConnect, Firewall, Enable
<1>4. /\ TypeOK' /\ Named' /\ Fresh' /\ Answers'
      /\ pc'[k] = l
      /\ \A j \in Callers : j # k => pc'[j] = pc[j]
      /\ t \in Tunnels /\ Engine \in Callers
  BY <1>1, <1>2, <1>3, Onward DEF Labels
<1>5. /\ Passing' \subseteq {k}
      /\ \A j \in Callers : j # k => pc[j] \notin {"go", "connect", "firewall",
                                                 "enable"}
      /\ Latest \subseteq {k} /\ Latest' \subseteq {k}
  BY <1>1, <1>4 DEF Passing, Latest
<1>6. /\ pc[Engine] \notin {"clear", "disable", "forget"}
      /\ pc'[Engine] \notin {"clear", "disable", "forget"}
  BY <1>4 DEF Tearing
<1>7. Locked'
  BY <1>2, <1>4, <1>5, <1>6 DEF Locked, Tearing
<1>8. WayClear'
  <2>1. PathClear(t)'
    BY <1>1, <1>3 DEF PathClear
  <2>2. QED
    BY <1>1, <1>5, <2>1 DEF WayClear, PathClear
<1>9. CASE Lock(k)
  <2>1. /\ pc[k] = "go" /\ l = "connect" /\ UNCHANGED <<up, rules, owner>>
        /\ activeCfgs \subseteq activeCfgs' /\ t \in activeCfgs'
    BY <1>4, <1>9 DEF Lock, Goto, TypeOK
  <2>2. Latest = {} /\ Latest' = {}
    BY <1>4, <1>5, <2>1 DEF Latest
  <2>3. Cached' /\ LatestUp' /\ Carrier' /\ Record'
    BY <1>1, <1>4, <1>5, <1>6, <2>1, <2>2 DEF Cached, LatestUp, Carrier, Record, Tearing
  <2>4. QED
    BY <1>4, <1>7, <1>8, <2>3
<1>10. CASE DoConnect(k)
  <2>1. pc[k] = "connect" /\ UNCHANGED <<rules, owner>>
    BY <1>10 DEF DoConnect
  <2>2. Latest = {}
    BY <1>5, <2>1 DEF Latest
  <2>3. CASE t \notin up /\ up' = up \cup {t} /\ pc' = [pc EXCEPT ![k] = "firewall"]
             /\ UNCHANGED activeCfgs
    <3>1. pc'[k] = "firewall" /\ Latest' = {k}
      BY <1>4, <1>5, <2>3 DEF Latest, TypeOK
    <3>2. t \in activeCfgs
      BY <2>1 DEF Cached
    <3>3. Cached' /\ LatestUp' /\ Carrier' /\ Record'
      BY <1>1, <1>4, <1>5, <1>6, <2>1, <2>2, <2>3, <3>1, <3>2
         DEF Cached, LatestUp, Carrier, Record, Tearing
    <3>4. QED
      BY <1>4, <1>7, <1>8, <3>3
  <2>4. CASE /\ activeCfgs' = IF t \in up THEN activeCfgs ELSE activeCfgs \ {t}
             /\ pc' = [pc EXCEPT ![k] = "idle"] /\ UNCHANGED up
    <3>1. pc'[k] = "idle" /\ Latest' = {}
      BY <1>4, <1>5, <2>4 DEF Latest, TypeOK
    <3>2. Cached' /\ LatestUp' /\ Carrier' /\ Record'
      BY <1>1, <1>4, <1>5, <1>6, <2>1, <2>2, <2>4, <3>1
         DEF Cached, LatestUp, Carrier, Record, Tearing
    <3>3. QED
      BY <1>4, <1>7, <1>8, <3>2
  <2>5. QED
    BY <1>10, <2>3, <2>4 DEF DoConnect, Goto
<1>11. CASE Firewall(k)
  <2>1. pc[k] = "firewall" /\ UNCHANGED <<activeCfgs, up, rules, owner>>
    BY <1>11 DEF Firewall
  <2>2. Latest = {k} /\ t \in up
    BY <1>5, <2>1 DEF Latest, LatestUp
  <2>3. CASE Claims(t) /\ pc' = [pc EXCEPT ![k] = "enable"]
    <3>1. pc'[k] = "enable" /\ Latest' = {k}
      BY <1>4, <1>5, <2>3 DEF Latest, TypeOK
    <3>2. Cached' /\ LatestUp' /\ Carrier' /\ Record'
      BY <1>1, <1>4, <1>5, <1>6, <2>1, <2>2, <2>3, <3>1
         DEF Cached, LatestUp, Carrier, Record, Tearing, Claims
    <3>3. QED
      BY <1>4, <1>7, <1>8, <3>2
  <2>4. CASE ~Claims(t) /\ pc' = [pc EXCEPT ![k] = "idle"]
    <3>1. pc'[k] = "idle" /\ Latest' = {}
      BY <1>4, <1>5, <2>4 DEF Latest, TypeOK
    <3>2. ~master \/ t \notin switch
      BY <2>4 DEF Claims, Fresh, WaiverPending
    <3>3. Cached' /\ LatestUp' /\ Carrier' /\ Record'
      BY <1>1, <1>4, <1>5, <1>6, <2>1, <2>2, <3>1, <3>2
         DEF Cached, LatestUp, Carrier, Record, Tearing
    <3>4. QED
      BY <1>4, <1>7, <1>8, <3>3
  <2>5. QED
    BY <1>11, <2>2, <2>3, <2>4 DEF Firewall, Goto
<1>12. CASE Enable(k)
  <2>1. /\ pc[k] = "enable" /\ rules' = t /\ owner' = t /\ l = "idle"
        /\ UNCHANGED <<activeCfgs, up>>
    BY <1>4, <1>12 DEF Enable, Goto, TypeOK
  <2>2. Latest = {k} /\ t \in up /\ master /\ t \in switch /\ Latest' = {}
    BY <1>4, <1>5, <2>1 DEF Latest, LatestUp
  <2>3. \A u \in up \cap switch : u = t
    BY <1>1, <2>2 DEF PathClear, Cached
  <2>4. Cached' /\ LatestUp' /\ Carrier' /\ Record'
    BY <1>1, <1>4, <1>5, <1>6, <2>1, <2>2, <2>3
       DEF Cached, LatestUp, Carrier, Record, Tearing
  <2>5. QED
    BY <1>4, <1>7, <1>8, <2>4
<1>13. QED
  BY <1>9, <1>10, <1>11, <1>12

-----------------------------------------------------------------------------
(* handleDisconnect waits for connectMu, so no connect is between its config
   and its rules, and takes the rules along when they are its tunnel's. *)
LEMMA DisconnectKeeps ==
    ASSUME IInv, NEW k \in Callers, ~Tearing, HandleDisconnect(k)
    PROVE  IInv'
<1> USE DEF IInv, Path
<1> DEFINE t == name[k]
<1>1. /\ pc[k] = "disconnect" /\ connectMu = None /\ connectMu' = None
      /\ pc' = [pc EXCEPT ![k] = "idle"]
      /\ \/ /\ up' = up \ {t} /\ activeCfgs' = activeCfgs \ {t}
            /\ waived' = waived \ {t}
            /\ owner' = IF owner = t THEN None ELSE owner
            /\ rules' = IF owner = t THEN None ELSE rules
         \/ UNCHANGED <<up, activeCfgs, waived, owner, rules>>
      /\ UNCHANGED <<master, switch, queue, client, dialog, name, answer, waits>>
  BY DEF HandleDisconnect, ClearIfOwner, Goto, ipc
<1>2. /\ TypeOK' /\ Named' /\ Fresh' /\ Answers'
      /\ pc'[k] = "idle"
      /\ \A j \in Callers : j # k => pc'[j] = pc[j]
      /\ t \in Tunnels /\ Engine \in Callers
  BY <1>1, Onward DEF Labels
<1>3. /\ \A j \in Callers : pc[j] \notin {"connect", "firewall", "enable"}
      /\ \A j \in Callers : pc'[j] \notin {"connect", "firewall", "enable"}
      /\ Latest = {} /\ Latest' = {}
  BY <1>1, <1>2, DNSPathAssumption DEF Locked, Latest
<1>4. Passing' = Passing
  BY <1>1, <1>2 DEF Passing
<1>5. /\ pc[Engine] \notin {"clear", "disable", "forget"}
      /\ pc'[Engine] \notin {"clear", "disable", "forget"}
  BY <1>2 DEF Tearing
<1>6. Locked'
  BY <1>3, <1>4, <1>5 DEF Locked, Tearing
<1>7. WayClear'
  BY <1>1, <1>4 DEF WayClear, PathClear
<1>8. Cached' /\ LatestUp'
  BY <1>1, <1>3 DEF Cached, LatestUp
<1>9. rules = owner /\ rules \in up \cup {None}
  BY <1>5 DEF Record
<1>10. Carrier'
  BY <1>1, <1>3, <1>9 DEF Carrier
<1>11. Record'
  BY <1>1, <1>5, <1>9 DEF Record, Tearing
<1>12. QED
  BY <1>2, <1>6, <1>7, <1>8, <1>10, <1>11

(* The engine's teardown, which does not take connectMu: the device has gone
   before the owner, the owner before the rules, the rules before the config. *)
LEMMA TeardownKeeps ==
    ASSUME IInv, EngineTeardown
    PROVE  IInv'
<1> USE DEF IInv, Path
<1> DEFINE t == name[Engine]
<1>1. /\ pc[Engine] \in {"clear", "disable", "forget"}
      /\ UNCHANGED <<master, switch, queue, client, dialog, name, answer, waits,
                     connectMu, up>>
      /\ waived' \subseteq waived /\ activeCfgs' \subseteq activeCfgs
      /\ rules' \in {rules, None} /\ owner' \in {owner, None}
  BY DEF EngineTeardown, EngineClear, EngineDisable, EngineForget, ipc
<1>2. PICK l \in {"disable", "forget", "idle"} : pc' = [pc EXCEPT ![Engine] = l]
  BY DEF EngineTeardown, EngineClear, EngineDisable, EngineForget, Goto
<1>3. Engine \in Callers /\ connectMu' \in Callers \cup {None}
  BY <1>1 DEF Callers, TypeOK
<1>4. /\ TypeOK' /\ Named' /\ Fresh' /\ Answers'
      /\ pc'[Engine] = l
      /\ \A j \in Callers : j # Engine => pc'[j] = pc[j]
  BY <1>1, <1>2, <1>3, Onward DEF Labels
<1>5. /\ Passing = {} /\ t \notin up
      /\ \A j \in Callers : pc[j] \notin {"go", "connect", "firewall", "enable"}
  BY <1>1 DEF Locked, Record, Tearing, Passing
<1>6. /\ \A j \in Callers : pc'[j] \notin {"go", "connect", "firewall", "enable"}
      /\ Passing' = {} /\ Latest = {} /\ Latest' = {}
  BY <1>4, <1>5 DEF Passing, Latest
<1>7. Locked' /\ WayClear' /\ LatestUp'
  BY <1>6 DEF Locked, WayClear, LatestUp
<1>8. CASE EngineClear
  <2>1. /\ pc[Engine] = "clear" /\ UNCHANGED <<activeCfgs, rules>>
        /\ owner' = IF owner = t THEN None ELSE owner
        /\ l = IF owner = t THEN "disable" ELSE "forget"
    BY <1>3, <1>4, <1>8 DEF EngineClear, Goto, TypeOK
  <2>2. Cached' /\ Carrier'
    BY <1>1, <1>6, <2>1 DEF Cached, Carrier
  <2>3. Record'
    BY <1>1, <1>4, <1>5, <2>1 DEF Record, Tearing
  <2>4. QED BY <1>4, <1>7, <2>2, <2>3
<1>9. CASE EngineDisable
  <2>1. /\ pc[Engine] = "disable" /\ UNCHANGED <<activeCfgs, owner>>
        /\ rules' = None /\ l = "forget"
    BY <1>3, <1>4, <1>9 DEF EngineDisable, Goto, TypeOK
  <2>2. Cached' /\ Carrier'
    BY <1>1, <1>5, <1>6, <2>1 DEF Cached, Carrier, Record
  <2>3. Record'
    BY <1>1, <1>4, <1>5, <2>1 DEF Record, Tearing
  <2>4. QED BY <1>4, <1>7, <2>2, <2>3
<1>10. CASE EngineForget
  <2>1. /\ pc[Engine] = "forget" /\ UNCHANGED <<rules, owner>>
        /\ activeCfgs' = activeCfgs \ {t} /\ l = "idle"
    BY <1>3, <1>4, <1>10 DEF EngineForget, Goto, TypeOK
  <2>2. Cached' /\ Carrier'
    BY <1>1, <1>5, <1>6, <2>1 DEF Cached, Carrier
  <2>3. Record'
    BY <1>1, <1>4, <1>5, <2>1 DEF Record, Tearing
  <2>4. QED BY <1>4, <1>7, <2>2, <2>3
<1>11. QED
  BY <1>8, <1>9, <1>10 DEF EngineTeardown

-----------------------------------------------------------------------------
(* While no call touches the path: the switches move and the rules stay in
   force for whoever claims it. *)
LEMMA QuietFrame ==
    ASSUME IInv, Passing = {}, ~Tearing,
           UNCHANGED <<pc, name, connectMu, activeCfgs, up>>,
           rules' = owner', rules' \in up \cup {None},
           master' => \A u \in up \cap switch' : rules' = u
    PROVE  Path'
<1> USE DEF IInv, Path
<1>1. /\ \A j \in Callers : pc[j] \notin {"go", "connect", "firewall", "enable"}
      /\ Passing' = {} /\ Latest' = {} /\ Tearing' = Tearing
  BY DEF Passing, Latest, Tearing
<1>2. Locked' /\ WayClear' /\ Cached' /\ LatestUp' /\ Carrier'
  BY <1>1 DEF Locked, WayClear, Cached, LatestUp, Carrier
<1>3. Record'
  BY <1>1 DEF Record, Tearing
<1>4. QED
  BY <1>2, <1>3

(* What a quiet path means. *)
LEMMA QuietPath ==
    ASSUME IInv, Passing = {}, ~Tearing
    PROVE  /\ rules = owner /\ rules \in up \cup {None}
           /\ master => \A u \in up \cap switch : rules = u
<1>1. Latest = {}
  BY DEF Latest, Passing
<1>2. pc[Engine] \notin {"clear", "disable"}
  BY DEF Tearing
<1>3. QED
  BY <1>1, <1>2 DEF IInv, Path, Record, Carrier

(* A request is sent. *)
LEMMA SendKeeps ==
    ASSUME IInv, NEW c \in Conns, NEW r \in Requests,
           \/ queue' = [queue EXCEPT ![c] = Append(@, r)]
           \/ queue' = [queue EXCEPT ![c] = <<r>>]
    PROVE  /\ queue' \in [Conns -> Seq(Requests)]
           /\ \A d \in Conns : \A i \in DOMAIN queue'[d] :
                 \/ queue'[d][i] = r
                 \/ \E j \in DOMAIN queue[d] : queue'[d][i] = queue[d][j]
<1>1. /\ queue \in [Conns -> Seq(Requests)] /\ queue[c] \in Seq(Requests)
  BY DEF IInv, TypeOK, Requests
<1>2. PICK s \in {Append(queue[c], r), <<r>>} : queue' = [queue EXCEPT ![c] = s]
  OBVIOUS
<1>3. /\ s \in Seq(Requests)
      /\ \A i \in DOMAIN s :
            s[i] = r \/ \E j \in DOMAIN queue[c] : s[i] = queue[c][j]
  <2>1. CASE s = <<r>>
    BY <2>1
  <2>2. CASE s = Append(queue[c], r)
    BY <1>1, <2>2, Queued
  <2>3. QED BY <2>1, <2>2
<1>4. queue'[c] = s /\ \A d \in Conns : d # c => queue'[d] = queue[d]
  BY <1>1, <1>2
<1>5. QED
  BY <1>1, <1>2, <1>3, <1>4

(* What the GUI and ctl send, the dialog's answer and a change of the GUI's
   connection touch queues only. *)
LEMMA GUIKeeps ==
    ASSUME IInv, Passing = {}, ~Tearing, GUISend \/ CtlSend \/ Answer \/ Swap
    PROVE  IInv'
<1> USE DEF IInv
<1>1. UNCHANGED <<master, pc, name, answer, waits, waived, connectMu, activeCfgs,
                  up, rules, owner>>
  BY DEF GUISend, CtlSend, Answer, Swap, handlers
<1>2. Named'
  BY <1>1 DEF Named
<1>3. client \in Conns /\ Ctl \in Conns
  BY DEF TypeOK, Conns
<1>4. CASE GUISend \/ CtlSend
  <2>1. PICK op \in {"connect", "disconnect"}, t \in Tunnels, c \in Conns :
           \/ queue' = [queue EXCEPT ![c] = Append(@, Request(op, t))]
           \/ queue' = [queue EXCEPT ![c] = <<Request(op, t)>>]
    BY <1>3, <1>4 DEF GUISend, CtlSend
  <2>2. UNCHANGED <<switch, client, dialog>>
    BY <1>4 DEF GUISend, CtlSend
  <2>3. Request(op, t) \in Requests /\ Request(op, t).op # "disable"
    BY DEF Request, Requests
  <2>4. /\ queue' \in [Conns -> Seq(Requests)]
        /\ \A d \in Conns : \A i \in DOMAIN queue'[d] :
              \/ queue'[d][i] = Request(op, t)
              \/ \E j \in DOMAIN queue[d] : queue'[d][i] = queue[d][j]
    BY <2>1, <2>3, SendKeeps
  <2>5. \A u \in Tunnels : Request(op, t) # Request("disable", u)
    BY DEF Request
  <2>6. Fresh'
    <3>1. switch \subseteq Tunnels
      BY DEF TypeOK
    <3>2. QED
      BY <1>1, <2>2, <2>4, <2>5, <3>1 DEF Fresh, WaiverPending
  <2>7. Path'
    BY <1>1, <2>2, PathFrame
  <2>8. TypeOK' /\ Answers'
    BY <1>1, <2>2, <2>4 DEF TypeOK, Answers, Requests
  <2>9. QED
    BY <1>2, <2>6, <2>7, <2>8
<1>5. CASE Answer
  <2>1. PICK op \in {"disable", "cancel"} :
           /\ queue' = [queue EXCEPT ![client] = Append(@, Request(op, dialog))]
           /\ switch' = IF op = "disable" THEN switch \ {dialog} ELSE switch
    BY <1>5 DEF Answer
  <2>2. client' = client /\ dialog' = None /\ dialog \in Tunnels
    BY <1>5 DEF Answer, TypeOK
  <2>3. Request(op, dialog) \in Requests
    BY <2>2 DEF Request, Requests
  <2>4. /\ queue' \in [Conns -> Seq(Requests)]
        /\ \A d \in Conns : \A i \in DOMAIN queue'[d] :
              \/ queue'[d][i] = Request(op, dialog)
              \/ \E j \in DOMAIN queue[d] : queue'[d][i] = queue[d][j]
    BY <1>3, <2>1, <2>3, SendKeeps
  <2>5. \A u : Request(op, dialog) = Request("disable", u) =>
                 op = "disable" /\ u = dialog
    BY DEF Request
  <2>6. Fresh'
    BY <1>1, <2>1, <2>4, <2>5 DEF Fresh, WaiverPending
  <2>7. switch' \subseteq switch
    BY <2>1
  <2>8. Path'
    BY <1>1, <2>7, QuietPath, QuietFrame
  <2>9. TypeOK' /\ Answers'
    BY <1>1, <2>2, <2>4, <2>7 DEF TypeOK, Answers, Requests
  <2>10. QED
    BY <1>2, <2>6, <2>8, <2>9
<1>6. CASE Swap
  <2>1. UNCHANGED <<switch, queue, dialog>> /\ client' \in GUIConns
    BY <1>6 DEF Swap
  <2>2. Path'
    BY <1>1, <2>1, PathFrame
  <2>3. Answers' /\ Fresh'
    BY <1>1, <2>1 DEF Answers, Fresh, WaiverPending
  <2>4. TypeOK'
    BY <1>1, <2>1 DEF TypeOK
  <2>5. QED
    BY <1>2, <2>2, <2>3, <2>4
<1>7. QED
  BY <1>4, <1>5, <1>6

(* The engine begins a connect, which has not looked yet, or takes a tunnel
   down: its config and its rules stay until the teardown comes to them. *)
LEMMA EngineKeeps ==
    ASSUME IInv, Passing = {}, ~Tearing, EngineConnect \/ EngineDisconnect
    PROVE  IInv'
<1> USE DEF IInv
<1>1. /\ UNCHANGED <<master, switch, queue, client, dialog, answer, waits, waived,
                     connectMu, activeCfgs, rules, owner>>
      /\ pc[Engine] = "idle" /\ Engine \in Callers
  BY DEF EngineConnect, EngineDisconnect, ipc, Callers
<1>2. PICK t \in Tunnels, l \in {"look", "clear"} :
         /\ name' = [name EXCEPT ![Engine] = t]
         /\ pc' = [pc EXCEPT ![Engine] = l]
         /\ l = "look" => up' = up
         /\ l = "clear" => t \in up /\ up' = up \ {t}
  <2>1. CASE EngineConnect
    <3>1. PICK t \in Tunnels : name' = [name EXCEPT ![Engine] = t]
      BY <2>1 DEF EngineConnect
    <3>2. QED
      BY <2>1, <3>1 DEF EngineConnect, Goto
  <2>2. CASE EngineDisconnect
    <3>1. PICK t \in up : name' = [name EXCEPT ![Engine] = t] /\ up' = up \ {t}
      BY <2>2 DEF EngineDisconnect
    <3>2. QED
      BY <2>2, <3>1 DEF EngineDisconnect, Goto, TypeOK
  <2>3. QED BY <2>1, <2>2
<1>3. /\ pc'[Engine] = l /\ name'[Engine] = t
      /\ \A k \in Callers : k # Engine => pc'[k] = pc[k] /\ name'[k] = name[k]
  BY <1>1, <1>2 DEF TypeOK
<1>4. Named' /\ Answers'
  BY <1>1, <1>3 DEF Named, Answers
<1>5. Fresh'
  BY <1>1 DEF Fresh, WaiverPending
<1>6. TypeOK'
  <2>1. /\ pc' \in [Callers -> Labels]
        /\ name' \in [Callers -> Tunnels \cup {None}]
        /\ up' \in SUBSET Tunnels
    BY <1>2 DEF TypeOK, Labels
  <2>2. \A u \in Tunnels : waits[u] # None => /\ pc'[waits[u]] = "parked"
                                             /\ name'[waits[u]] = u
    BY <1>1, <1>3 DEF TypeOK, Callers
  <2>3. QED
    BY <1>1, <2>1, <2>2 DEF TypeOK, Labels
<1>7. Path'
  <2>1. CASE l = "look"
    BY <1>1, <1>2, <1>3, <2>1, PathFrame DEF Outer
  <2>2. CASE l = "clear"
    <3>1. /\ t \in up /\ up' = up \ {t} /\ Tearing'
          /\ \A j \in Callers : /\ pc[j] \notin {"go", "connect", "firewall", "enable"}
                                /\ pc'[j] \notin {"go", "connect", "firewall", "enable"}
      BY <1>2, <1>3, <2>2 DEF Passing, Tearing
    <3>2. Passing' = {} /\ Latest' = {}
      BY <3>1 DEF Passing, Latest
    <3>3. Locked' /\ WayClear' /\ Cached' /\ LatestUp'
      BY <1>1, <3>1, <3>2 DEF Path, Locked, WayClear, Cached, LatestUp
    <3>4. /\ rules = owner /\ rules \in up \cup {None}
          /\ master => \A u \in up \cap switch : rules = u
      BY QuietPath
    <3>5. Carrier'
      BY <1>1, <3>1, <3>4 DEF Carrier
    <3>6. Record'
      BY <1>1, <1>3, <2>2, <3>1, <3>4 DEF Record, Tearing
    <3>7. QED
      BY <3>3, <3>5, <3>6 DEF Path
  <2>3. QED BY <2>1, <2>2
<1>8. QED
  BY <1>4, <1>5, <1>6, <1>7

(* The settings change: the master switch goes off and takes the rules along,
   or on while nothing is up; a tunnel's switch moves while the tunnel is not
   in use, and not before a waiver of it has gone. *)
LEMMA SettingsKeep ==
    ASSUME IInv, Passing = {}, ~Tearing, MasterOff \/ MasterOn \/ SwitchTunnel,
           \A t \in switch' \ switch : ~WaiverPending(t)
    PROVE  IInv'
<1> USE DEF IInv
<1>1. UNCHANGED <<queue, client, dialog, pc, name, answer, waits, waived,
                  connectMu, activeCfgs, up>>
  BY DEF MasterOff, MasterOn, SwitchTunnel, ipc, handlers
<1>2. Named'
  BY <1>1 DEF Named
<1>3. Fresh'
  BY <1>1 DEF Fresh, WaiverPending
<1>4. /\ rules = owner /\ rules \in up \cup {None}
      /\ master => \A u \in up \cap switch : rules = u
  BY QuietPath
<1>5. CASE MasterOff
  <2>1. /\ master' = FALSE /\ owner' = None /\ switch' = switch
        /\ rules' = IF owner # None THEN None ELSE rules
    BY <1>5 DEF MasterOff
  <2>2. Path'
    BY <1>1, <1>4, <2>1, QuietFrame
  <2>3. TypeOK' /\ Answers'
    BY <1>1, <2>1 DEF TypeOK, Answers
  <2>4. QED
    BY <1>2, <1>3, <2>2, <2>3
<1>6. CASE MasterOn
  <2>1. master' = TRUE /\ up = {} /\ UNCHANGED <<switch, rules, owner>>
    BY <1>6 DEF MasterOn, Unused, TypeOK
  <2>2. Path'
    BY <1>1, <1>4, <2>1, QuietFrame
  <2>3. TypeOK' /\ Answers'
    BY <1>1, <2>1 DEF TypeOK, Answers
  <2>4. QED
    BY <1>2, <1>3, <2>2, <2>3
<1>7. CASE SwitchTunnel
  <2>1. PICK t \in Tunnels :
           /\ t \notin up /\ \A k \in Callers : pc[k] # "idle" => name[k] # t
           /\ switch' = (switch \ {t}) \cup ({t} \ switch)
    BY <1>7 DEF SwitchTunnel, Unused
  <2>2. UNCHANGED <<master, rules, owner>>
    BY <1>7 DEF SwitchTunnel
  <2>3. Path'
    BY <1>1, <1>4, <2>1, <2>2, QuietFrame
  <2>4. Answers'
    BY <1>1, <2>1 DEF Answers
  <2>5. TypeOK'
    BY <1>1, <2>1, <2>2 DEF TypeOK
  <2>6. QED
    BY <1>2, <1>3, <2>3, <2>4, <2>5
<1>8. QED
  BY <1>5, <1>6, <1>7

-----------------------------------------------------------------------------
(* The helper starts with nobody on the path. *)
LEMMA InitPath == Init => IInv
<1> SUFFICES ASSUME Init PROVE IInv
  OBVIOUS
<1>1. \A k \in Callers : pc[k] = "idle" /\ name[k] = None /\ answer[k] = None
  BY DEF Init
<1>2. Passing = {} /\ Latest = {}
  BY <1>1 DEF Passing, Latest
<1>3. pc[Engine] = "idle" /\ ~Tearing
  BY <1>1 DEF Callers, Tearing
<1>4. \A c \in Conns : queue[c] = << >> /\ DOMAIN queue[c] = {}
  BY DEF Init
<1>5. queue \in [Conns -> Seq(Requests)]
  BY DEF Init
<1>6. TypeOK
  BY <1>5, EmptySeq DEF Init, TypeOK, Requests
<1>7. Named /\ Answers
  BY <1>1 DEF Named, Answers
<1>8. Fresh
  BY <1>4 DEF Fresh, WaiverPending, Init
<1>9. Path
  BY <1>1, <1>2, <1>3 DEF Path, Locked, WayClear, Cached, LatestUp, Carrier,
                          Record, Init
<1>10. QED
  BY <1>6, <1>7, <1>8, <1>9 DEF IInv

(* Every step of the serial system keeps the invariant. *)
LEMMA NextPath == IInv /\ [SerialNext]_vars => IInv'
<1> SUFFICES ASSUME IInv, [SerialNext]_vars PROVE IInv'
  OBVIOUS
<1>1. CASE SerialHelper
  <2>1. /\ Tearing => EngineTeardown
        /\ Helper
        /\ \A j, k \in Passing' : j = k
    BY <1>1 DEF SerialHelper
  <2>2. CASE EngineTeardown
    BY <2>2, TeardownKeeps
  <2>3. CASE ~EngineTeardown
    <3>1. ~Tearing
      BY <2>1, <2>3
    <3>2. CASE \E c \in Conns : Read(c)
      BY <3>2, ReadKeeps
    <3>3. ASSUME NEW k \in Callers, Step(k) PROVE IInv'
      <4>1. \/ Look(k) \/ Parked(k)
            \/ Lock(k) \/ DoConnect(k) \/ Firewall(k) \/ Enable(k)
            \/ HandleDisconnect(k)
        BY <3>3 DEF Step
      <4>2. CASE Look(k) \/ Parked(k)
        BY <2>1, <3>1, <4>2, LookKeeps
      <4>3. CASE Lock(k) \/ DoConnect(k) \/ Firewall(k) \/ Enable(k)
        BY <3>1, <4>3, ConnectKeeps
      <4>4. CASE HandleDisconnect(k)
        BY <3>1, <4>4, DisconnectKeeps
      <4>5. QED BY <4>1, <4>2, <4>3, <4>4
    <3>4. QED
      BY <2>1, <2>3, <3>2, <3>3 DEF Helper
  <2>4. QED BY <2>2, <2>3
<1>2. CASE SerialOutside
  <2>1. /\ ~Tearing /\ Passing = {} /\ Outside
        /\ \A t \in switch' \ switch : ~WaiverPending(t)
    BY <1>2 DEF SerialOutside
  <2>2. CASE GUISend \/ CtlSend \/ Answer \/ Swap
    BY <2>1, <2>2, GUIKeeps
  <2>3. CASE EngineConnect \/ EngineDisconnect
    BY <2>1, <2>3, EngineKeeps
  <2>4. CASE MasterOff \/ MasterOn \/ SwitchTunnel
    BY <2>1, <2>4, SettingsKeep
  <2>5. QED
    BY <2>1, <2>2, <2>3, <2>4 DEF Outside
<1>3. CASE UNCHANGED vars
  <2>1. UNCHANGED <<master, switch, queue, client, dialog, pc, name, answer, waits,
                    waived, connectMu, activeCfgs, up, rules, owner>>
    BY <1>3 DEF vars, ipc, handlers
  <2>2. Path'
    BY <2>1, PathFrame
  <2>3. Named' /\ Answers' /\ Fresh'
    BY <2>1 DEF IInv, Named, Answers, Fresh, WaiverPending
  <2>4. TypeOK'
    BY <2>1 DEF IInv, TypeOK
  <2>5. QED BY <2>2, <2>3, <2>4 DEF IInv
<1>4. QED
  BY <1>1, <1>2, <1>3 DEF SerialNext

(* One connected tunnel carries the system's DNS: between connects and
   teardowns, a tunnel that is up and claims the path is the one the firewall
   lets DNS through, and the rules are those of a tunnel that is up and on
   record; whatever the number of tunnels, connections and requests. *)
THEOREM OnePathCarrier == SerialSpec => []OneCarrier
<1>1. IInv => OneCarrier
  <2> SUFFICES ASSUME IInv, Quiet PROVE OneCarrier
    BY DEF OneCarrier
  <2>1. /\ rules = owner /\ rules \in up \cup {None}
        /\ master => \A u \in up \cap switch : rules = u
    BY QuietPath DEF Quiet
  <2>2. QED
    BY <2>1 DEF OneCarrier, Claims
<1>2. QED
  BY InitPath, NextPath, <1>1, PTL DEF SerialSpec

=============================================================================
