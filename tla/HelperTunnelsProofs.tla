------------------------- MODULE HelperTunnelsProofs -------------------------
(***************************************************************************)
(* Theorems of the tunnel manager, of the helper that drives it and of the *)
(* helper's life, for any number of tunnels, goroutines, sessions and      *)
(* connections, any network events and any crashes.                        *)
(*                                                                         *)
(* The manager: every transition of a tunnel has exactly one owner, and    *)
(* every resource belongs to an entry.  Type correctness and ownership are *)
(* one induction: a call dereferences ses[p] and tgt[p], which are only    *)
(* known to be a session and a tunnel while the call owns its entry; and   *)
(* CommitConnect leaves the type invariant exactly when ownership fails.   *)
(*                                                                         *)
(* The helper: two things that connectMu is for.  It keeps two full        *)
(* tunnels apart, the callers without the lock included, and the DNS       *)
(* configuration that the macOS tunnels share accounted for.               *)
(*                                                                         *)
(* ConnectWithContext checks the conflict once, when it claims its entry,  *)
(* against the tunnels that are connected then.  What makes the check      *)
(* last is that every connect runs under connectMu, so no other tunnel can *)
(* become connected between the claim and the commit.                      *)
(***************************************************************************)
EXTENDS HelperTunnels, MCHelperShutdown, SequenceTheorems, TLAPS

(* The engine of an entry: the branch of DisconnectTunnel that finds a
   connected tunnel without one (ErrStateCorrupt) is never taken. *)
EntryHasSession ==
    \A t \in Tunnels : state[t] # "disconnected" => cur[t] \in Sessions

(* A call that polls knows which tunnel it waits for. *)
WaitsForTunnel == \A p \in Callers : pc[p] = "waiting" => tgt[p] \in Tunnels

Inv == TypeOK /\ Ownership /\ EntryHasSession /\ WaitsForTunnel

OwnedPCs == ConnectPCs \cup DisconnectPCs

-----------------------------------------------------------------------------
(* The content of a captured configuration is a configuration. *)
LEMMA TheType ==
    ASSUME NEW S, NEW opt \in Optional(S), opt # {}
    PROVE  The(opt) \in S
BY DEF Optional, The

(* What a session looks like after a phase that touches its own fields. *)
LEMMA SessionFields ==
    ASSUME NEW r \in Session
    PROVE  /\ WithoutRoutes(r) \in Session
           /\ WithoutDNS(r) \in Session
           /\ r.saved \in DNSValue
           /\ r.last \in DNSValue
BY DEF Session, WithoutRoutes, WithoutDNS, DNSValue

(* A connect begins with a session that has installed nothing. *)
LEMMA NewSessionType == NewSession \in Session
BY DEF NewSession, Session, DNSValue

(* The union of the connected tunnels' servers is a set of servers. *)
LEMMA AllDNSType == AllDNSServers \in DNSValue
BY ConstantsAssumption DEF AllDNSServers, DNSValue, Connected

-----------------------------------------------------------------------------
(* A step inside a call keeps its kind of label, and touches no entry. *)
LEMMA SameOwner ==
    ASSUME TypeOK, Ownership,
           NEW p \in Callers, NEW l,
           Goto(p, l),
           \/ pc[p] \in ConnectPCs /\ l \in ConnectPCs
           \/ pc[p] \in DisconnectPCs /\ l \in DisconnectPCs
           \/ pc[p] \notin OwnedPCs /\ l \notin OwnedPCs,
           UNCHANGED <<state, cur, tgt, ses>>
    PROVE  Ownership'
<1>1. \A q \in Callers : q # p => pc'[q] = pc[q]
  BY DEF Goto, TypeOK
<1>2. pc'[p] = l
  BY DEF Goto, TypeOK
<1>3. \A q \in Callers : /\ pc'[q] \in ConnectPCs <=> pc[q] \in ConnectPCs
                         /\ pc'[q] \in DisconnectPCs <=> pc[q] \in DisconnectPCs
  <2>1. ConnectPCs \cap DisconnectPCs = {}
    BY DEF ConnectPCs, DisconnectPCs
  <2>2. QED BY <1>1, <1>2, <2>1 DEF OwnedPCs
<1>4. \A q \in Callers, t \in Tunnels : Owns(q, t)' <=> Owns(q, t)
  BY <1>3 DEF Owns
<1>5. QED
  BY <1>3, <1>4 DEF Ownership

-----------------------------------------------------------------------------
(* The steps inside a connect, before its commit. *)
ConnectPhase(p) ==
    \/ AbandonClaim(p) \/ CreateEngine(p) \/ BringUp(p) \/ AddRoutes(p)
    \/ Checkpoint(p) \/ FailPhase(p) \/ SnapshotDNS(p) \/ ApplyDNS(p)
    \/ CaptureAndJournal(p) \/ Rollback(p)

(* They keep every type. *)
LEMMA ConnectPhaseType ==
    ASSUME TypeOK, Ownership, NEW p \in Callers, ConnectPhase(p)
    PROVE  TypeOK'
<1>1. pc[p] \in ConnectPCs
  BY DEF ConnectPhase, ConnectPCs, AbandonClaim, CreateEngine, BringUp,
         AddRoutes, Checkpoint, FailPhase, SnapshotDNS, ApplyDNS,
         CaptureAndJournal, Rollback
<1>2. /\ tgt[p] \in Tunnels
      /\ ses[p] \in Sessions
      /\ sess[ses[p]] \in Session
  BY <1>1 DEF Ownership, TypeOK
<1>3. CASE AbandonClaim(p)
  BY <1>2, <1>3 DEF AbandonClaim, TypeOK, Goto, ConnectPCs, manager, machine,
                    locals, process
<1>4. CASE CreateEngine(p)
  BY <1>2, <1>4 DEF CreateEngine, TypeOK, Goto, ConnectPCs, Session, manager,
                    machine, locals, process
<1>5. CASE BringUp(p)
  <2> DEFINE b == tgt[p] \in Full
  <2>1. b \in BOOLEAN
    OBVIOUS
  <2>2. sess' = [sess EXCEPT ![ses[p]].guarded = b, ![ses[p]].engine = "started"]
    BY <1>5 DEF BringUp
  <2> HIDE DEF b
  <2>3. sess' \in [Sessions -> Session]
    BY <1>2, <2>1, <2>2 DEF TypeOK, Session
  <2>4. QED
    BY <1>5, <2>3 DEF BringUp, TypeOK, Goto, ConnectPCs, manager, machine,
                      locals, process
<1>6. CASE AddRoutes(p)
  BY <1>2, <1>6 DEF AddRoutes, TypeOK, Goto, ConnectPCs, Session, manager,
                    machine, locals, process
<1>7. CASE Checkpoint(p)
  <2>1. DNS[tgt[p]] \in DNSValue
    BY <1>2, ConstantsAssumption DEF DNSValue
  <2>2. DNS[tgt[p]] \cup AllDNSServers \in DNSValue /\ {} \in DNSValue
    BY <2>1, AllDNSType DEF DNSValue
  <2>3. [present |-> TRUE, pre |-> {}] \in JournalFile
    BY DEF JournalFile, Optional
  <2>4. QED
    BY <1>2, <1>7, <2>2, <2>3 DEF Checkpoint, TypeOK, Goto, ConnectPCs,
                                  manager, process
<1>8. CASE FailPhase(p)
  BY <1>2, <1>8 DEF FailPhase, TypeOK, Goto, ConnectPCs, manager, machine,
                    locals, process
<1>9. CASE SnapshotDNS(p)
  BY <1>2, <1>9, SMTT(40) DEF SnapshotDNS, TypeOK, Goto, ConnectPCs, Session, manager,
                    machine, locals, process
<1>10. CASE ApplyDNS(p)
  <2>1. val[p] \in DNSValue
    BY DEF TypeOK
  <2>2. sess' \in [Sessions -> Session]
    BY <1>2, <1>10, <2>1 DEF ApplyDNS, TypeOK, Session
  <2>3. QED
    BY <1>2, <1>10, <2>1, <2>2 DEF ApplyDNS, TypeOK, Goto, ConnectPCs, manager,
                             locals, process
<1>11. CASE CaptureAndJournal(p)
  <2>1. SavedDNSSnapshot(ses[p]) \in Optional(DNSValue)
    BY <1>2, SessionFields DEF SavedDNSSnapshot, Optional
  <2>2. [present |-> TRUE, pre |-> SavedDNSSnapshot(ses[p])] \in JournalFile
    BY <2>1 DEF JournalFile
  <2>3. QED
    BY <1>2, <1>11, <2>1, <2>2 DEF CaptureAndJournal, TypeOK, Goto, ConnectPCs,
                                   locals, process
<1>12. CASE Rollback(p)
  <2> DEFINE r == sess[ses[p]]
             r2 == WithoutDNS(WithoutRoutes(r))
  <2>1. r2 \in Session /\ r.saved \in DNSValue
    BY <1>2, SessionFields
  <2>2. [r2 EXCEPT !.guarded = FALSE, !.engine = "closed"] \in Session
    <3> HIDE DEF r2
    <3> QED BY <2>1 DEF Session
  <2>3. sess' \in [Sessions -> Session]
    BY <1>2, <1>12, <2>2 DEF Rollback, TypeOK
  <2>4. sysDNS' \in DNSValue
    BY <1>12, <2>1 DEF Rollback, TypeOK
  <2>5. QED
    BY <1>12, <2>3, <2>4 DEF Rollback, TypeOK, Goto, ConnectPCs, manager,
                             locals, process
<1>13. QED
  BY <1>3, <1>4, <1>5, <1>6, <1>7, <1>8, <1>9, <1>10, <1>11, <1>12
     DEF ConnectPhase

(* And they keep the entry with its owner. *)
LEMMA ConnectPhaseOwner ==
    ASSUME TypeOK, Ownership, NEW p \in Callers, ConnectPhase(p)
    PROVE  Ownership'
<1>1. /\ pc[p] \in ConnectPCs
      /\ \E l \in ConnectPCs : Goto(p, l)
      /\ UNCHANGED <<state, cur, tgt, ses>>
  BY DEF ConnectPhase, ConnectPCs, AbandonClaim, CreateEngine, BringUp,
         AddRoutes, Checkpoint, FailPhase, SnapshotDNS, ApplyDNS,
         CaptureAndJournal, Rollback, manager, locals
<1>2. QED
  BY <1>1, SameOwner
-----------------------------------------------------------------------------
(* The steps inside a disconnect, before its commit. *)
DisconnectPhase(p) ==
    \/ RemoveRoutes(p) \/ CloseEngine(p) \/ ReadRemaining(p)
    \/ ReadPreMod(p) \/ RestoreLast(p) \/ ClearPreMod(p)
    \/ PickRemaining(p) \/ ReapplyRemaining(p)

(* The phases of a disconnect after its claim keep the types. *)
LEMMA DisconnectPhaseType ==
    ASSUME TypeOK, Ownership, NEW p \in Callers, DisconnectPhase(p)
    PROVE  TypeOK'
<1>1. pc[p] \in DisconnectPCs
  BY DEF DisconnectPhase, DisconnectPCs, RemoveRoutes, CloseEngine,
         ReadRemaining, ReadPreMod, RestoreLast, ClearPreMod, PickRemaining,
         ReapplyRemaining
<1>2. /\ tgt[p] \in Tunnels
      /\ ses[p] \in Sessions
      /\ sess[ses[p]] \in Session
  BY <1>1 DEF Ownership, TypeOK
<1>3. CASE RemoveRoutes(p)
  <2>1. WithoutRoutes(sess[ses[p]]) \in Session
    BY <1>2, SessionFields
  <2>2. QED
    BY <1>2, <1>3, <2>1 DEF RemoveRoutes, TypeOK, Goto, DisconnectPCs, manager,
                            machine, locals, process
<1>4. CASE CloseEngine(p)
  <2>1. sess' \in [Sessions -> Session]
    BY <1>2, <1>4 DEF CloseEngine, TypeOK, Session
  <2>2. QED
    BY <1>4, <2>1 DEF CloseEngine, TypeOK, Goto, DisconnectPCs, manager,
                      machine, locals, process
<1>5. CASE ReadRemaining(p)
  BY <1>5, AllDNSType DEF ReadRemaining, TypeOK, Goto, DisconnectPCs, manager,
                          machine, process
<1>6. CASE ReadPreMod(p)
  BY <1>6 DEF ReadPreMod, TypeOK, Goto, DisconnectPCs, manager, machine,
              process
<1>7. CASE RestoreLast(p)
  <2> DEFINE r == sess[ses[p]]
  <2>1. /\ WithoutRoutes(r) \in Session
        /\ WithoutDNS(WithoutRoutes(r)) \in Session
        /\ r.saved \in DNSValue
    BY <1>2, SessionFields
  <2>2. snap[p] \in Optional(DNSValue)
    BY DEF TypeOK
  <2>3. snap[p] # {} => The(snap[p]) \in DNSValue
    BY <2>2, TheType
  <2>4. sysDNS' \in DNSValue
    BY <1>7, <2>1, <2>3 DEF RestoreLast, TypeOK
  <2>5. QED
    BY <1>2, <1>7, <2>1, <2>4 DEF RestoreLast, TypeOK, Goto, DisconnectPCs,
                                  manager, locals, process
<1>8. CASE ClearPreMod(p)
  BY <1>8 DEF ClearPreMod, TypeOK, Goto, DisconnectPCs, Optional, machine,
              locals, process
<1>9. CASE PickRemaining(p)
  <2>1. \A u \in Tunnels : cur[u] \in Sessions \cup {NoSession}
    BY DEF TypeOK
  <2>2. rem' \in [Callers -> Sessions \cup {NoSession}]
    <3>1. \/ rem' = rem
          \/ \E s \in {cur[u] : u \in Connected \ {tgt[p]}} :
                rem' = [rem EXCEPT ![p] = s]
      BY <1>9 DEF PickRemaining
    <3>2. \A s \in {cur[u] : u \in Connected \ {tgt[p]}} :
             s \in Sessions \cup {NoSession}
      BY <2>1 DEF Connected
    <3>3. QED
      BY <3>1, <3>2 DEF TypeOK
  <2>3. pc' \in [Callers -> {"idle", "waiting"} \cup ConnectPCs
                            \cup DisconnectPCs]
    BY <1>9, ZenonT(60) DEF PickRemaining, TypeOK, Goto, DisconnectPCs
  <2>4. QED
    BY <1>9, <2>2, <2>3 DEF PickRemaining, TypeOK, manager, machine, process
<1>10. CASE ReapplyRemaining(p)
  <2> DEFINE r == sess[rem[p]]
             r2 == [r EXCEPT !.saved = IF r.active THEN r.saved ELSE sysDNS,
                             !.active = TRUE, !.last = val[p]]
  <2>1. sess' = [sess EXCEPT ![rem[p]] = r2] /\ sysDNS' = val[p]
    BY <1>10 DEF ReapplyRemaining
  <2>2. ASSUME rem[p] \in Sessions PROVE r2 \in Session
    <3>1. r \in Session /\ sysDNS \in DNSValue /\ val[p] \in DNSValue
      BY <2>2 DEF TypeOK
    <3>2. (IF r.active THEN r.saved ELSE sysDNS) \in DNSValue
      BY <3>1, SessionFields
    <3> HIDE DEF r
    <3>3. QED
      BY <3>1, <3>2 DEF Session
  <2> HIDE DEF r2
  <2>3. sess' \in [Sessions -> Session]
    BY <2>1, <2>2 DEF TypeOK
  <2>4. QED
    BY <1>10, <2>1, <2>3 DEF ReapplyRemaining, TypeOK, Goto, DisconnectPCs,
                             manager, locals, process
<1>11. QED
  BY <1>3, <1>4, <1>5, <1>6, <1>7, <1>8, <1>9, <1>10 DEF DisconnectPhase

(* The phases of a disconnect after its claim leave the owner of every
   transition as it is. *)
LEMMA DisconnectPhaseOwner ==
    ASSUME TypeOK, Ownership, NEW p \in Callers, DisconnectPhase(p)
    PROVE  Ownership'
<1>1. /\ pc[p] \in DisconnectPCs
      /\ \E l \in DisconnectPCs : Goto(p, l)
      /\ UNCHANGED <<state, cur, tgt, ses>>
  BY DEF DisconnectPhase, DisconnectPCs, RemoveRoutes, CloseEngine,
         ReadRemaining, ReadPreMod, RestoreLast, ClearPreMod, PickRemaining,
         ReapplyRemaining, manager, locals
<1>2. QED
  BY <1>1, SameOwner
-----------------------------------------------------------------------------
(* Claims and commits: the steps that move an entry. *)

(* Return puts the call back among the idle ones. *)
LEMMA ReturnType ==
    ASSUME TypeOK, NEW p \in Callers, NEW result \in {"ok", "err"},
           Return(p, result)
    PROVE  /\ pc' \in [Callers -> {"idle", "waiting"} \cup ConnectPCs
                                  \cup DisconnectPCs]
           /\ tgt' \in [Callers -> Tunnels \cup {NoTunnel}]
           /\ ses' \in [Callers -> Sessions \cup {NoSession}]
           /\ rem' \in [Callers -> Sessions \cup {NoSession}]
           /\ val' \in [Callers -> DNSValue]
           /\ snap' \in [Callers -> Optional(DNSValue)]
           /\ ret' \in [Callers -> {"ok", "err"}]
<1>1. {} \in DNSValue /\ {} \in Optional(DNSValue)
  BY DEF DNSValue, Optional
<1>2. QED
  BY <1>1 DEF Return, Goto, TypeOK

(* RemoveEntry keeps the types of the entry map. *)
LEMMA RemoveEntryType ==
    ASSUME TypeOK, NEW t, RemoveEntry(t)
    PROVE  /\ state' \in [Tunnels -> {"disconnected", "connecting",
                                      "connected", "disconnecting"}]
           /\ cur' \in [Tunnels -> Sessions \cup {NoSession}]
BY DEF RemoveEntry, TypeOK

(* A collected session is a new one. *)
LEMMA CollectType ==
    ASSUME TypeOK, CollectSessions
    PROVE  sess' \in [Sessions -> Session]
<1>1. \A s \in Sessions : sess'[s] = sess[s] \/ sess'[s] = NewSession
  BY DEF CollectSessions
<1>2. \A s \in Sessions : sess'[s] \in Session
  BY <1>1, NewSessionType DEF TypeOK
<1>3. QED
  BY <1>2 DEF CollectSessions

(* Every claim and commit keeps the types; CommitConnect does because its
   entry is still connecting. *)
LEMMA ClaimCommitType ==
    ASSUME TypeOK, Ownership, WaitsForTunnel, NEW p \in Callers,
           \/ \E t \in Tunnels : BeginConnect(p, t) \/ CallDisconnect(p, t)
           \/ CommitConnect(p) \/ FailConnect(p)
           \/ BeginDisconnect(p) \/ DisconnectedMeanwhile(p)
           \/ DisconnectTimeout(p) \/ FinishDisconnect(p)
    PROVE  TypeOK'
<1>1. ASSUME NEW t \in Tunnels, BeginConnect(p, t) PROVE TypeOK'
  <2>1. PICK s \in Sessions : /\ cur' = [cur EXCEPT ![t] = s]
                              /\ ses' = [ses EXCEPT ![p] = s]
                              /\ sess' = [sess EXCEPT ![s] = NewSession]
    BY <1>1 DEF BeginConnect
  <2>2. sess' \in [Sessions -> Session]
    BY <2>1, NewSessionType DEF TypeOK
  <2>3. QED
    BY <1>1, <2>1, <2>2 DEF BeginConnect, TypeOK, Goto, ConnectPCs, machine,
                            process
<1>2. ASSUME NEW t \in Tunnels, CallDisconnect(p, t) PROVE TypeOK'
  BY <1>2 DEF CallDisconnect, TypeOK, Goto, manager, machine, process
<1>3. CASE CommitConnect(p)
  <2>1. state[tgt[p]] = "connecting"
    BY <1>3 DEF CommitConnect, Ownership, ConnectPCs
  <2>2. /\ state' = [state EXCEPT ![tgt[p]] = "connected"]
        /\ Return(p, "ok")
    BY <1>3, <2>1 DEF CommitConnect
  <2>3. QED
    BY <1>3, <2>2, ReturnType DEF CommitConnect, TypeOK, machine, process
<1>4. CASE FailConnect(p)
  BY <1>4, ReturnType, RemoveEntryType, CollectType
     DEF FailConnect, TypeOK, machine, process
<1>5. CASE BeginDisconnect(p)
  <2>1. cur[tgt[p]] \in Sessions \cup {NoSession}
    BY <1>5 DEF BeginDisconnect, TypeOK, WaitsForTunnel
  <2>2. QED
    BY <1>5, <2>1 DEF BeginDisconnect, TypeOK, Goto, DisconnectPCs, machine,
                      process
<1>6. CASE DisconnectedMeanwhile(p)
  BY <1>6, ReturnType DEF DisconnectedMeanwhile, TypeOK, manager, machine,
                          process
<1>7. CASE DisconnectTimeout(p)
  BY <1>7, ReturnType DEF DisconnectTimeout, TypeOK, manager, machine, process
<1>8. CASE FinishDisconnect(p)
  <2>1. NoFile \in JournalFile
    BY DEF NoFile, JournalFile, Optional
  <2>2. journal' \in [Tunnels -> JournalFile]
    BY <1>8, <2>1 DEF FinishDisconnect, TypeOK
  <2>3. QED
    BY <1>8, <2>2, ReturnType, RemoveEntryType, CollectType
       DEF FinishDisconnect, TypeOK, process
<1>9. QED
  BY <1>1, <1>2, <1>3, <1>4, <1>5, <1>6, <1>7, <1>8
(* A step that gives entry t to call p, or takes it from it. *)
LEMMA Moves ==
    ASSUME TypeOK, Ownership, NEW p \in Callers, NEW t \in Tunnels,
           NEW l \in {"idle", "claimed", "down"}, NEW st,
           state' = [state EXCEPT ![t] = st],
           pc' = [pc EXCEPT ![p] = l],
           \A q \in Callers : q # p => ses'[q] = ses[q] /\ tgt'[q] = tgt[q],
           \A u \in Tunnels : u # t => cur'[u] = cur[u],
           \A q \in Callers : q # p => ~Owns(q, t),
           \/ /\ l \in {"claimed", "down"}
              /\ pc[p] \notin OwnedPCs
              /\ tgt'[p] = t
              /\ ses'[p] = cur'[t]
              /\ cur'[t] \in Sessions
              /\ l = "claimed" => st = "connecting"
              /\ l = "down" => st = "disconnecting"
           \/ /\ l = "idle"
              /\ Owns(p, t)
              /\ st \notin {"connecting", "disconnecting"}
    PROVE  Ownership'
<1>1. ConnectPCs \cap DisconnectPCs = {}
  BY DEF ConnectPCs, DisconnectPCs
<1>2. /\ "idle" \notin OwnedPCs
      /\ "claimed" \in ConnectPCs
      /\ "down" \in DisconnectPCs
  BY DEF OwnedPCs, ConnectPCs, DisconnectPCs
<1>3. /\ pc'[p] = l
      /\ \A q \in Callers : q # p => pc'[q] = pc[q]
      /\ state'[t] = st
      /\ \A u \in Tunnels : u # t => state'[u] = state[u]
  BY DEF TypeOK
<1>4. \A q \in Callers, u \in Tunnels : q # p => (Owns(q, u)' <=> Owns(q, u))
  BY <1>3 DEF Owns
<1>5. \A u \in Tunnels : u # t => ~Owns(p, u) /\ ~Owns(p, u)'
  BY <1>2, <1>3 DEF Owns, OwnedPCs
<1>6. ASSUME NEW q \in Callers, pc'[q] \in ConnectPCs
      PROVE  /\ tgt'[q] \in Tunnels
             /\ state'[tgt'[q]] = "connecting"
             /\ cur'[tgt'[q]] = ses'[q]
             /\ ses'[q] \in Sessions
  <2>1. CASE q = p
    BY <1>1, <1>2, <1>3, <1>6, <2>1 DEF OwnedPCs
  <2>2. CASE q # p
    BY <1>3, <1>6, <2>2 DEF Ownership, Owns
  <2>3. QED BY <2>1, <2>2
<1>7. ASSUME NEW q \in Callers, pc'[q] \in DisconnectPCs
      PROVE  /\ tgt'[q] \in Tunnels
             /\ state'[tgt'[q]] = "disconnecting"
             /\ cur'[tgt'[q]] = ses'[q]
             /\ ses'[q] \in Sessions
  <2>1. CASE q = p
    BY <1>1, <1>2, <1>3, <1>7, <2>1 DEF OwnedPCs
  <2>2. CASE q # p
    BY <1>3, <1>7, <2>2 DEF Ownership, Owns
  <2>3. QED BY <2>1, <2>2
<1>8. ASSUME NEW u \in Tunnels, NEW q \in Callers, NEW r \in Callers,
             Owns(q, u)', Owns(r, u)'
      PROVE  q = r
  BY <1>4, <1>5, <1>8 DEF Ownership
<1>9. ASSUME NEW u \in Tunnels, state'[u] \in {"connecting", "disconnecting"}
      PROVE  \E q \in Callers : Owns(q, u)'
  <2>1. CASE u = t
    BY <1>2, <1>3, <1>9, <2>1 DEF Owns
  <2>2. CASE u # t
    BY <1>3, <1>4, <1>5, <1>9, <2>2 DEF Ownership
  <2>3. QED BY <2>1, <2>2
<1>10. QED
  BY <1>6, <1>7, <1>8, <1>9 DEF Ownership
(* A call returns without owning anything: nobody's entry moves. *)
LEMMA IdleReturnOwner ==
    ASSUME TypeOK, Ownership, NEW p \in Callers, NEW l \in {"idle", "waiting"},
           pc[p] \notin OwnedPCs,
           pc' = [pc EXCEPT ![p] = l],
           \A q \in Callers : q # p => ses'[q] = ses[q] /\ tgt'[q] = tgt[q],
           UNCHANGED <<state, cur>>
    PROVE  Ownership'
<1>1. {"idle", "waiting"} \cap OwnedPCs = {}
  BY DEF OwnedPCs, ConnectPCs, DisconnectPCs
<1>2. /\ pc'[p] \notin OwnedPCs
      /\ \A q \in Callers : q # p => pc'[q] = pc[q]
  BY <1>1 DEF TypeOK
<1>3. \A q \in Callers, t \in Tunnels : Owns(q, t)' <=> Owns(q, t)
  BY <1>2 DEF Owns, OwnedPCs
<1>4. QED
  BY <1>2, <1>3 DEF Ownership, OwnedPCs

(* The claims find an entry nobody owns; the commits give one back. *)
LEMMA ClaimCommitOwner ==
    ASSUME TypeOK, Ownership, EntryHasSession, WaitsForTunnel, NEW p \in Callers,
           \/ \E t \in Tunnels : BeginConnect(p, t) \/ CallDisconnect(p, t)
           \/ CommitConnect(p) \/ FailConnect(p)
           \/ BeginDisconnect(p) \/ DisconnectedMeanwhile(p)
           \/ DisconnectTimeout(p) \/ FinishDisconnect(p)
    PROVE  Ownership'
<1> USE DEF TypeOK
<1>1. {"idle", "waiting"} \cap OwnedPCs = {}
  BY DEF OwnedPCs, ConnectPCs, DisconnectPCs
<1>2. \A q \in Callers, t \in Tunnels :
         state[t] \in {"disconnected", "connected"} => ~Owns(q, t)
  BY DEF Ownership, Owns
<1>3. ASSUME NEW t \in Tunnels, BeginConnect(p, t) PROVE Ownership'
  <2>1. PICK s \in Sessions : /\ cur' = [cur EXCEPT ![t] = s]
                              /\ ses' = [ses EXCEPT ![p] = s]
    BY <1>3 DEF BeginConnect
  <2>2. /\ state' = [state EXCEPT ![t] = "connecting"]
        /\ pc' = [pc EXCEPT ![p] = "claimed"]
        /\ tgt' = [tgt EXCEPT ![p] = t]
        /\ pc[p] \notin OwnedPCs
        /\ \A q \in Callers : ~Owns(q, t)
    BY <1>1, <1>2, <1>3 DEF BeginConnect, Goto
  <2>3. QED
    BY <2>1, <2>2, Moves
<1>4. ASSUME NEW t \in Tunnels, CallDisconnect(p, t) PROVE Ownership'
  <2>1. /\ pc[p] \notin OwnedPCs
        /\ pc' = [pc EXCEPT ![p] = "waiting"]
        /\ tgt' = [tgt EXCEPT ![p] = t]
        /\ UNCHANGED <<state, cur, ses>>
    BY <1>1, <1>4 DEF CallDisconnect, Goto, manager
  <2>2. QED
    BY <2>1, IdleReturnOwner
<1>5. ASSUME pc[p] \in OwnedPCs
      PROVE  /\ tgt[p] \in Tunnels
             /\ Owns(p, tgt[p])
             /\ \A q \in Callers : q # p => ~Owns(q, tgt[p])
  BY <1>5 DEF Ownership, Owns, OwnedPCs
<1>6. ASSUME NEW st \in {"connected", "disconnected"}, NEW result,
             pc[p] \in OwnedPCs,
             state' = [state EXCEPT ![tgt[p]] = st],
             \A u \in Tunnels : u # tgt[p] => cur'[u] = cur[u],
             Return(p, result)
      PROVE  Ownership'
  <2>1. /\ pc' = [pc EXCEPT ![p] = "idle"]
        /\ \A q \in Callers : q # p => ses'[q] = ses[q] /\ tgt'[q] = tgt[q]
    BY <1>6 DEF Return, Goto
  <2>2. st \notin {"connecting", "disconnecting"}
    OBVIOUS
  <2>3. QED
    BY <1>5, <1>6, <2>1, <2>2, Moves
<1>7. CASE CommitConnect(p)
  <2>1. pc[p] \in ConnectPCs
    BY <1>7 DEF CommitConnect, ConnectPCs
  <2>2. state[tgt[p]] = "connecting"
    BY <2>1 DEF Ownership
  <2>3. /\ state' = [state EXCEPT ![tgt[p]] = "connected"]
        /\ Return(p, "ok")
        /\ cur' = cur
    BY <1>7, <2>2 DEF CommitConnect
  <2>4. QED
    BY <1>6, <2>1, <2>3 DEF OwnedPCs
<1>8. CASE FailConnect(p)
  <2>1. pc[p] \in OwnedPCs /\ tgt[p] \in Tunnels
    BY <1>8, <1>5 DEF FailConnect, OwnedPCs, ConnectPCs
  <2>2. /\ state' = [state EXCEPT ![tgt[p]] = "disconnected"]
        /\ cur' = [cur EXCEPT ![tgt[p]] = NoSession]
        /\ Return(p, "err")
    BY <1>8 DEF FailConnect, RemoveEntry
  <2>3. QED
    BY <1>6, <2>1, <2>2
<1>9. CASE FinishDisconnect(p)
  <2>1. pc[p] \in OwnedPCs /\ tgt[p] \in Tunnels
    BY <1>9, <1>5 DEF FinishDisconnect, OwnedPCs, DisconnectPCs
  <2>2. /\ state' = [state EXCEPT ![tgt[p]] = "disconnected"]
        /\ cur' = [cur EXCEPT ![tgt[p]] = NoSession]
        /\ Return(p, "ok")
    BY <1>9 DEF FinishDisconnect, RemoveEntry
  <2>3. QED
    BY <1>6, <2>1, <2>2
<1>10. CASE BeginDisconnect(p)
  <2>1. /\ pc[p] \notin OwnedPCs
        /\ tgt[p] \in Tunnels
        /\ state[tgt[p]] = "connected"
    BY <1>1, <1>10 DEF BeginDisconnect, WaitsForTunnel
  <2>2. cur[tgt[p]] \in Sessions
    BY <2>1 DEF EntryHasSession
  <2>3. \A q \in Callers : ~Owns(q, tgt[p])
    BY <1>2, <2>1
  <2>4. /\ state' = [state EXCEPT ![tgt[p]] = "disconnecting"]
        /\ ses' = [ses EXCEPT ![p] = cur[tgt[p]]]
        /\ pc' = [pc EXCEPT ![p] = "down"]
        /\ UNCHANGED <<cur, tgt>>
    BY <1>10 DEF BeginDisconnect, Goto
  <2>5. /\ tgt'[p] = tgt[p]
        /\ ses'[p] = cur'[tgt[p]]
        /\ cur'[tgt[p]] \in Sessions
        /\ \A q \in Callers : q # p => ses'[q] = ses[q] /\ tgt'[q] = tgt[q]
        /\ \A u \in Tunnels : u # tgt[p] => cur'[u] = cur[u]
    BY <2>2, <2>4
  <2>6. QED
    BY <2>1, <2>3, <2>4, <2>5, Moves
<1>11. CASE DisconnectedMeanwhile(p) \/ DisconnectTimeout(p)
  <2>1. /\ pc[p] \notin OwnedPCs
        /\ pc' = [pc EXCEPT ![p] = "idle"]
        /\ \A q \in Callers : q # p => ses'[q] = ses[q] /\ tgt'[q] = tgt[q]
        /\ UNCHANGED <<state, cur>>
    BY <1>1, <1>11 DEF DisconnectedMeanwhile, DisconnectTimeout, Return, Goto,
                       manager
  <2>2. QED
    BY <2>1, IdleReturnOwner
<1>12. QED
  BY <1>3, <1>4, <1>7, <1>8, <1>9, <1>10, <1>11
-----------------------------------------------------------------------------
(* The network, the crashes and the recovery. *)
MachineStep ==
    \/ \E s \in Sessions : RouteEvent(s)
    \/ Crash \/ ForceShutdown \/ Recovery

(* A dead process has no entries, no calls and no sessions. *)
LEMMA LoseMemoryInv ==
    ASSUME LoseMemory, TypeOK, sysDNS' \in DNSValue,
           journal' \in [Tunnels -> JournalFile]
    PROVE  Inv'
<1>1. {} \in DNSValue /\ {} \in Optional(DNSValue)
  BY DEF DNSValue, Optional
<1>2. TypeOK'
  BY <1>1, NewSessionType DEF LoseMemory, TypeOK
<1>3. \A q \in Callers : pc'[q] \notin OwnedPCs \cup {"waiting"}
  BY DEF LoseMemory, OwnedPCs, ConnectPCs, DisconnectPCs
<1>4. \A t \in Tunnels : state'[t] = "disconnected"
  BY DEF LoseMemory
<1>5. \A t \in Tunnels, q \in Callers : ~Owns(q, t)'
  BY <1>3 DEF Owns, OwnedPCs
<1>6. Ownership'
  BY <1>3, <1>4, <1>5 DEF Ownership, OwnedPCs
<1>7. EntryHasSession' /\ WaitsForTunnel'
  BY <1>3, <1>4 DEF EntryHasSession, WaitsForTunnel
<1>8. QED
  BY <1>2, <1>6, <1>7 DEF Inv

(* A route event, a death, a start and recovery keep the manager's invariant. *)
LEMMA MachineStepInv ==
    ASSUME Inv, MachineStep
    PROVE  Inv'
<1> USE DEF Inv
<1>1. ASSUME UNCHANGED <<state, cur, pc, tgt, ses>>
      PROVE  Ownership' /\ EntryHasSession' /\ WaitsForTunnel'
  <2>1. \A q \in Callers, t \in Tunnels : Owns(q, t)' <=> Owns(q, t)
    BY <1>1 DEF Owns
  <2>2. Ownership'
    BY <1>1, <2>1 DEF Ownership
  <2>3. QED
    BY <1>1, <2>2 DEF EntryHasSession, WaitsForTunnel
<1>2. ASSUME NEW s \in Sessions, RouteEvent(s) PROVE Inv'
  <2>1. sess[s].last \in DNSValue
    BY SessionFields DEF TypeOK
  <2>2. TypeOK'
    BY <1>2, <2>1 DEF RouteEvent, TypeOK, manager, locals, process
  <2>3. QED
    BY <1>1, <1>2, <2>2 DEF RouteEvent, manager, locals
<1>3. CASE Crash
  BY <1>3, LoseMemoryInv DEF Crash, machine, TypeOK
<1>4. CASE ForceShutdown
  <2>1. preMod # {} => The(preMod) \in DNSValue
    BY TheType DEF TypeOK
  <2>2. sysDNS' \in DNSValue /\ journal' \in [Tunnels -> JournalFile]
    BY <1>4, <2>1 DEF ForceShutdown, TypeOK
  <2>3. QED
    BY <1>4, <2>2, LoseMemoryInv DEF ForceShutdown
<1>5. ASSUME NEW t \in Tunnels, RecoverTunnel(t) PROVE Inv'
  <2>1. journal[t].pre # {} => The(journal[t].pre) \in DNSValue
    BY TheType DEF TypeOK, JournalFile
  <2>2. sysDNS' \in DNSValue
    BY <1>5, <2>1 DEF RecoverTunnel, DNSValue
  <2>3. TypeOK'
    BY <1>5, <2>2 DEF RecoverTunnel, TypeOK, manager, locals
  <2>4. QED
    BY <1>1, <1>5, <2>3 DEF RecoverTunnel, manager, locals
<1>6. CASE FinishRecovery
  <2>1. NoFile \in JournalFile
    BY DEF NoFile, JournalFile, Optional
  <2>2. journal' \in [Tunnels -> JournalFile]
    BY <1>6, <2>1 DEF FinishRecovery, TypeOK
  <2>3. TypeOK'
    BY <1>6, <2>2 DEF FinishRecovery, TypeOK, manager, locals
  <2>4. QED
    BY <1>1, <1>6, <2>3 DEF FinishRecovery, manager, locals
<1>7. QED
  BY <1>2, <1>3, <1>4, <1>5, <1>6 DEF MachineStep, Recovery

-----------------------------------------------------------------------------
(* The steps of the calls: an entry has its session from the claim on, and a
   call that polls has its tunnel. *)
LEMMA CallerStepEntries ==
    ASSUME Inv, NEW p \in Callers, Call(p) \/ CallerStep(p)
    PROVE  EntryHasSession' /\ WaitsForTunnel'
<1> USE DEF Inv, TypeOK
<1>1. ASSUME UNCHANGED <<state, cur, tgt>>, NEW l, l # "waiting",
             pc' = [pc EXCEPT ![p] = l]
      PROVE  EntryHasSession' /\ WaitsForTunnel'
  BY <1>1 DEF EntryHasSession, WaitsForTunnel
<1>2. CASE ConnectPhase(p) \/ DisconnectPhase(p)
  <2>1. /\ UNCHANGED <<state, cur, tgt>>
        /\ \E l \in OwnedPCs : pc' = [pc EXCEPT ![p] = l]
    BY <1>2 DEF ConnectPhase, AbandonClaim, CreateEngine, BringUp, AddRoutes,
                Checkpoint, FailPhase, SnapshotDNS, ApplyDNS,
                CaptureAndJournal, Rollback, DisconnectPhase, RemoveRoutes,
                CloseEngine, ReadRemaining, ReadPreMod, RestoreLast,
                ClearPreMod, PickRemaining, ReapplyRemaining, manager, locals,
                Goto, OwnedPCs, ConnectPCs, DisconnectPCs
  <2>2. QED
    BY <1>1, <2>1 DEF OwnedPCs, ConnectPCs, DisconnectPCs
<1>3. ASSUME NEW t \in Tunnels, BeginConnect(p, t)
      PROVE  EntryHasSession' /\ WaitsForTunnel'
  BY <1>3 DEF BeginConnect, Goto, EntryHasSession, WaitsForTunnel
<1>4. ASSUME NEW t \in Tunnels, CallDisconnect(p, t)
      PROVE  EntryHasSession' /\ WaitsForTunnel'
  BY <1>4 DEF CallDisconnect, Goto, manager, EntryHasSession, WaitsForTunnel
<1>5. ASSUME NEW result, Return(p, result)
      PROVE  WaitsForTunnel'
  BY <1>5 DEF Return, Goto, WaitsForTunnel
<1>6. CASE CommitConnect(p)
  <2>1. state[tgt[p]] = "connecting" /\ tgt[p] \in Tunnels
    BY <1>6 DEF CommitConnect, Ownership, ConnectPCs
  <2>2. /\ state' = [state EXCEPT ![tgt[p]] = "connected"]
        /\ Return(p, "ok")
        /\ cur' = cur
    BY <1>6, <2>1 DEF CommitConnect
  <2>3. QED
    BY <1>5, <2>1, <2>2 DEF EntryHasSession
<1>7. CASE FailConnect(p)
  BY <1>5, <1>7 DEF FailConnect, RemoveEntry, EntryHasSession
<1>8. CASE BeginDisconnect(p)
  BY <1>8 DEF BeginDisconnect, Goto, EntryHasSession, WaitsForTunnel
<1>9. CASE DisconnectedMeanwhile(p)
  BY <1>5, <1>9 DEF DisconnectedMeanwhile, manager, EntryHasSession
<1>10. CASE DisconnectTimeout(p)
  BY <1>5, <1>10 DEF DisconnectTimeout, manager, EntryHasSession
<1>11. CASE FinishDisconnect(p)
  BY <1>5, <1>11 DEF FinishDisconnect, RemoveEntry, EntryHasSession
<1>12. QED
  BY <1>2, <1>3, <1>4, <1>6, <1>7, <1>8, <1>9, <1>10, <1>11
     DEF Call, CallerStep, ConnectStep, DisconnectStep, ConnectPhase,
         DisconnectPhase
-----------------------------------------------------------------------------
(* The manager starts without an entry. *)
LEMMA InitInv == Init => Inv
<1> SUFFICES ASSUME Init PROVE Inv
  OBVIOUS
<1>1. {} \in DNSValue /\ {} \in Optional(DNSValue) /\ NoFile \in JournalFile
  BY DEF DNSValue, Optional, NoFile, JournalFile
<1>2. TypeOK
  BY <1>1, NewSessionType, ConstantsAssumption DEF Init, TypeOK, DNSValue
<1>3. \A p \in Callers : pc[p] \notin OwnedPCs /\ pc[p] # "waiting"
  BY DEF Init, OwnedPCs, ConnectPCs, DisconnectPCs
<1>4. Ownership
  BY <1>3 DEF Init, Ownership, Owns, OwnedPCs
<1>5. QED
  BY <1>2, <1>3, <1>4 DEF Inv, Init, EntryHasSession, WaitsForTunnel

(* Every action keeps the manager's invariant. *)
LEMMA NextInv == Inv /\ [Next]_vars => Inv'
<1> SUFFICES ASSUME Inv, [Next]_vars PROVE Inv'
  OBVIOUS
<1>1. ASSUME NEW p \in Callers, Call(p) \/ CallerStep(p) PROVE Inv'
  <2>1. \/ ConnectPhase(p) \/ DisconnectPhase(p)
        \/ \E t \in Tunnels : BeginConnect(p, t) \/ CallDisconnect(p, t)
        \/ CommitConnect(p) \/ FailConnect(p)
        \/ BeginDisconnect(p) \/ DisconnectedMeanwhile(p)
        \/ DisconnectTimeout(p) \/ FinishDisconnect(p)
    BY <1>1 DEF Call, CallerStep, ConnectStep, DisconnectStep, ConnectPhase,
                DisconnectPhase
  <2>2. TypeOK' /\ Ownership'
    BY <2>1, ConnectPhaseType, ConnectPhaseOwner, DisconnectPhaseType,
       DisconnectPhaseOwner, ClaimCommitType, ClaimCommitOwner DEF Inv
  <2>3. EntryHasSession' /\ WaitsForTunnel'
    BY <1>1, CallerStepEntries
  <2>4. QED
    BY <2>2, <2>3 DEF Inv
<1>2. CASE MachineStep
  BY <1>2, MachineStepInv
<1>3. CASE UNCHANGED vars
  <2>1. \A q \in Callers, t \in Tunnels : Owns(q, t)' <=> Owns(q, t)
    BY <1>3 DEF vars, Owns, locals
  <2>2. Ownership'
    BY <1>3, <2>1 DEF Inv, vars, manager, locals, Ownership
  <2>3. QED
    BY <1>3, <2>2 DEF Inv, vars, manager, machine, locals, process, TypeOK,
                      EntryHasSession, WaitsForTunnel
<1>4. QED
  BY <1>1, <1>2, <1>3 DEF Next, MachineStep

(* The inductive invariant holds of the manager, its crashes and its
   recovery. *)
THEOREM Invariant == Spec => []Inv
BY InitInv, NextInv, PTL DEF Spec

(* Every variable of the manager keeps its type; in particular no call ever
   reaches the ErrStateCorrupt branch of ConnectWithContext. *)
THEOREM TypeCorrect == Spec => []TypeOK
<1>1. Inv => TypeOK
  BY DEF Inv
<1>2. QED
  BY <1>1, Invariant, PTL

(* ConnectWithContext and DisconnectTunnel: a transition of a tunnel belongs to
   exactly one call from its claim to its commit. *)
THEOREM TransitionsOwned == Spec => []Ownership
<1>1. Inv => Ownership
  BY DEF Inv
<1>2. QED
  BY <1>1, Invariant, PTL

-----------------------------------------------------------------------------
(* Devices and routes.  ResourcesInv speaks of entries; what makes it last is
   what the call that owns an entry has installed so far, phase by phase, and
   that no two entries share a session. *)

Undressed == {"claimed", "failed", "closed", "last", "restore", "clear",
              "others", "reapply", "finish"}
Dressed == {"routed", "checkpointed", "snapped", "dnsset", "journaled"}

(* What the owner of an entry in this phase finds in its session. *)
Equipped(p) ==
    LET r == sess[ses[p]]
    IN /\ pc[p] \in Undressed => ~HasDevice(r)
       /\ pc[p] \in {"engine", "unrouted"} => ~r.routes
       /\ pc[p] = "up" =>
             r.engine = "started" /\ (tgt[p] \in Full => r.guarded)
       /\ pc[p] \in Dressed => r.engine = "started" /\ r.routes

SessionsApart ==
    \A t, u \in Tunnels : cur[t] \in Sessions /\ cur[t] = cur[u] => t = u

(* An entry that is gone has no engine. *)
GoneEntries ==
    \A t \in Tunnels : state[t] = "disconnected" => cur[t] = NoSession

AllEquipped == \A p \in Callers : Equipped(p)

RInv == ResourcesInv /\ SessionsApart /\ GoneEntries /\ AllEquipped

(* Two values of a session have the same engine, routes and protection. *)
SameDevice(r1, r2) ==
    r1.engine = r2.engine /\ r1.routes = r2.routes /\ r1.guarded = r2.guarded

(* Nobody else's resources are in the session of a call that owns an entry. *)
LEMMA OwnSession ==
    ASSUME Inv, SessionsApart, NEW p \in Callers, pc[p] \in OwnedPCs
    PROVE  /\ ses[p] \in Sessions /\ tgt[p] \in Tunnels
           /\ cur[tgt[p]] = ses[p]
           /\ state[tgt[p]] \in {"connecting", "disconnecting"}
           /\ \A u \in Tunnels : u # tgt[p] => cur[u] # ses[p]
           /\ \A q \in Callers :
                 q # p /\ pc[q] \in OwnedPCs =>
                     ses[q] \in Sessions /\ ses[q] # ses[p]
<1> USE DEF Inv
<1>1. \A q \in Callers : pc[q] \in OwnedPCs =>
         /\ ses[q] \in Sessions /\ tgt[q] \in Tunnels
         /\ cur[tgt[q]] = ses[q]
         /\ state[tgt[q]] \in {"connecting", "disconnecting"}
         /\ Owns(q, tgt[q])
  BY DEF Ownership, OwnedPCs, Owns
<1>2. \A q \in Callers : q # p /\ pc[q] \in OwnedPCs => tgt[q] # tgt[p]
  BY <1>1 DEF Ownership
<1>3. QED
  BY <1>1, <1>2 DEF SessionsApart

(* A phase of p changes what is installed in p's session only. *)
LEMMA PhaseResources ==
    ASSUME Inv, RInv, NEW p \in Callers, pc[p] \in OwnedPCs,
           NEW l \in OwnedPCs, pc' = [pc EXCEPT ![p] = l],
           UNCHANGED <<state, cur, tgt, ses>>,
           \A s \in Sessions : s # ses[p] => SameDevice(sess'[s], sess[s]),
           Equipped(p)',
           tgt[p] \in Full /\ sess'[ses[p]].routes => sess'[ses[p]].guarded
    PROVE  RInv'
<1> USE DEF RInv
<1>1. /\ ses[p] \in Sessions /\ tgt[p] \in Tunnels
      /\ cur[tgt[p]] = ses[p]
      /\ state[tgt[p]] # "connected"
      /\ \A u \in Tunnels : u # tgt[p] => cur[u] # ses[p]
      /\ \A q \in Callers : q # p /\ pc[q] \in OwnedPCs =>
            ses[q] \in Sessions /\ ses[q] # ses[p]
  BY OwnSession
<1>2. \A q \in Callers : q # p => pc'[q] = pc[q]
  BY DEF Inv, TypeOK
<1>3. SessionsApart' /\ GoneEntries'
  BY DEF SessionsApart, GoneEntries
<1>4. DeviceInv'
  BY <1>1 DEF ResourcesInv, DeviceInv, SameDevice, HasDevice, Connected
<1>5. LoopProtection'
  BY <1>1, ConstantsAssumption
     DEF ResourcesInv, LoopProtection, SameDevice
<1>6. ASSUME NEW q \in Callers, q # p PROVE Equipped(q)'
  <2>1. Equipped(q)
    BY DEF AllEquipped
  <2>2. CASE pc[q] \in OwnedPCs
    <3>1. SameDevice(sess'[ses'[q]], sess[ses[q]])
      BY <1>1, <1>6, <2>2
    <3>2. QED
      BY <1>2, <1>6, <2>1, <3>1 DEF Equipped, SameDevice, HasDevice
  <2>3. CASE pc[q] \notin OwnedPCs
    BY <1>2, <1>6, <2>3 DEF Equipped, OwnedPCs, ConnectPCs, DisconnectPCs,
                            Undressed, Dressed
  <2>4. QED BY <2>2, <2>3
<1>7. QED
  BY <1>3, <1>4, <1>5, <1>6 DEF ResourcesInv, AllEquipped

(* The phases of a connect: the device is there before the routes, its
   protection with it, and a rollback takes everything away. *)
LEMMA ConnectPhaseResources ==
    ASSUME Inv, RInv, NEW p \in Callers, ConnectPhase(p)
    PROVE  RInv'
<1> USE DEF SameDevice
<1>1. /\ pc[p] \in OwnedPCs
      /\ UNCHANGED <<state, cur, tgt, ses>>
  BY DEF ConnectPhase, OwnedPCs, ConnectPCs, AbandonClaim, CreateEngine,
         BringUp, AddRoutes, Checkpoint, FailPhase, SnapshotDNS, ApplyDNS,
         CaptureAndJournal, Rollback, manager, locals
<1>2. /\ ses[p] \in Sessions
      /\ sess[ses[p]] \in Session
      /\ cur[tgt[p]] = ses[p]
      /\ tgt[p] \in Tunnels
      /\ Equipped(p)
      /\ sess \in [Sessions -> Session]
      /\ pc \in [Callers -> {"idle", "waiting"} \cup OwnedPCs]
  BY <1>1, OwnSession DEF Inv, TypeOK, RInv, AllEquipped, OwnedPCs
<1>3. tgt[p] \in Full /\ sess[ses[p]].routes => sess[ses[p]].guarded
  BY <1>2 DEF RInv, ResourcesInv, LoopProtection
<1> DEFINE r == sess[ses[p]]
           r2 == sess'[ses[p]]
<1>4. ASSUME NEW l \in OwnedPCs, pc' = [pc EXCEPT ![p] = l],
             \A s \in Sessions : s # ses[p] => SameDevice(sess'[s], sess[s]),
             /\ l \in Undressed => ~HasDevice(r2)
             /\ l \in {"engine", "unrouted"} => ~r2.routes
             /\ l = "up" => r2.engine = "started" /\ (tgt[p] \in Full => r2.guarded)
             /\ l \in Dressed => r2.engine = "started" /\ r2.routes,
             tgt[p] \in Full /\ r2.routes => r2.guarded
      PROVE  RInv'
  <2>1. Equipped(p)'
    BY <1>1, <1>2, <1>4 DEF Equipped
  <2>2. QED
    BY <1>1, <1>4, <2>1, PhaseResources
<1>5. CASE AbandonClaim(p) \/ Checkpoint(p) \/ FailPhase(p)
           \/ CaptureAndJournal(p)
  <2>1. sess' = sess /\ \E l \in {"failed", "checkpointed", "rollback",
                                  "journaled"} :
           /\ pc' = [pc EXCEPT ![p] = l]
           /\ l = "failed" => pc[p] = "claimed"
           /\ l \in Dressed => pc[p] \in Dressed
    BY <1>5 DEF AbandonClaim, Checkpoint, FailPhase, CaptureAndJournal, Goto,
                Dressed
  <2>2. QED
    BY <1>2, <1>3, <1>4, <2>1 DEF Equipped, Undressed, Dressed, OwnedPCs, ConnectPCs
<1>6. CASE CreateEngine(p)
  BY <1>2, <1>3, <1>4, <1>6 DEF CreateEngine, Equipped, Undressed, Dressed, OwnedPCs,
                                ConnectPCs, Goto, HasDevice, Session
<1>7. CASE BringUp(p)
  <2> DEFINE b == tgt[p] \in Full
  <2>1. b \in BOOLEAN /\ (tgt[p] \in Full <=> b)
    OBVIOUS
  <2>2. /\ sess' = [sess EXCEPT ![ses[p]].guarded = b,
                                ![ses[p]].engine = "started"]
        /\ pc[p] = "engine" /\ pc' = [pc EXCEPT ![p] = "up"]
    BY <1>7 DEF BringUp, Goto
  <2> HIDE DEF b
  <2>3. QED
    BY <1>2, <1>3, <1>4, <2>1, <2>2 DEF Equipped, Undressed, Dressed, OwnedPCs,
                                        ConnectPCs, HasDevice, Session
<1>8. CASE AddRoutes(p)
  <2>1. PICK w : /\ sess' = [sess EXCEPT ![ses[p]].routes = TRUE,
                                        ![ses[p]].watch = w]
                 /\ pc[p] = "up" /\ pc' = [pc EXCEPT ![p] = "routed"]
    BY <1>8 DEF AddRoutes, Goto
  <2>2. QED
    BY <1>2, <1>3, <1>4, <2>1 DEF Equipped, Undressed, Dressed, OwnedPCs,
                                  ConnectPCs, HasDevice, Session
<1>9. CASE SnapshotDNS(p) \/ ApplyDNS(p)
  <2>1. /\ \A s \in Sessions : SameDevice(sess'[s], sess[s])
        /\ pc[p] \in Dressed
        /\ \E l \in {"dnsset", "snapped", "rollback"} : pc' = [pc EXCEPT ![p] = l]
    BY <1>2, <1>9 DEF SnapshotDNS, ApplyDNS, Goto, Dressed, Session
  <2>2. QED
    BY <1>2, <1>3, <1>4, <2>1 DEF Equipped, Undressed, Dressed, OwnedPCs,
                                  ConnectPCs
<1>10. CASE Rollback(p)
  <2>1. /\ \A s \in Sessions : s # ses[p] => sess'[s] = sess[s]
        /\ r2.engine = "closed" /\ r2.routes = FALSE
        /\ pc' = [pc EXCEPT ![p] = "failed"]
    BY <1>2, <1>10 DEF Rollback, Goto, WithoutDNS, WithoutRoutes, Session
  <2>2. QED
    BY <1>2, <1>4, <2>1 DEF Undressed, Dressed, OwnedPCs, ConnectPCs, HasDevice
<1>11. QED
  BY <1>5, <1>6, <1>7, <1>8, <1>9, <1>10 DEF ConnectPhase

(* The phases of a disconnect: the routes go first, then the protection with
   the device; SetDNS on a remaining tunnel's network manager installs
   nothing. *)
LEMMA DisconnectPhaseResources ==
    ASSUME Inv, RInv, NEW p \in Callers, DisconnectPhase(p)
    PROVE  RInv'
<1> USE DEF SameDevice
<1>1. /\ pc[p] \in DisconnectPCs
      /\ UNCHANGED <<state, cur, tgt, ses>>
  BY DEF DisconnectPhase, DisconnectPCs, RemoveRoutes, CloseEngine,
         ReadRemaining, ReadPreMod, RestoreLast, ClearPreMod, PickRemaining,
         ReapplyRemaining, manager, locals
<1>2. /\ ses[p] \in Sessions
      /\ sess[ses[p]] \in Session
      /\ cur[tgt[p]] = ses[p]
      /\ tgt[p] \in Tunnels
      /\ Equipped(p)
      /\ sess \in [Sessions -> Session]
      /\ pc \in [Callers -> {"idle", "waiting"} \cup OwnedPCs]
  BY <1>1, OwnSession DEF Inv, TypeOK, RInv, AllEquipped, OwnedPCs
<1>3. tgt[p] \in Full /\ sess[ses[p]].routes => sess[ses[p]].guarded
  BY <1>2 DEF RInv, ResourcesInv, LoopProtection
<1> DEFINE r2 == sess'[ses[p]]
<1>4. ASSUME NEW l \in DisconnectPCs \ {"down"}, pc' = [pc EXCEPT ![p] = l],
             \A s \in Sessions : s # ses[p] => SameDevice(sess'[s], sess[s]),
             ~r2.routes, l # "unrouted" => ~HasDevice(r2)
      PROVE  RInv'
  <2>1. Equipped(p)'
    BY <1>1, <1>2, <1>4 DEF Equipped, Undressed, Dressed, DisconnectPCs
  <2>2. QED
    BY <1>1, <1>4, <2>1, PhaseResources DEF OwnedPCs
<1>5. CASE RemoveRoutes(p)
  BY <1>2, <1>4, <1>5 DEF RemoveRoutes, Goto, WithoutRoutes, DisconnectPCs,
                          Session
<1>6. CASE CloseEngine(p)
  BY <1>2, <1>4, <1>6 DEF CloseEngine, Goto, DisconnectPCs, Session, Equipped,
                          HasDevice
<1>7. CASE ReadRemaining(p) \/ ReadPreMod(p) \/ ClearPreMod(p)
           \/ PickRemaining(p)
  <2>1. /\ sess' = sess /\ pc[p] \in Undressed
        /\ \E l \in DisconnectPCs \ {"down", "unrouted"} :
              pc' = [pc EXCEPT ![p] = l]
    BY <1>7 DEF ReadRemaining, ReadPreMod, ClearPreMod, PickRemaining, Goto,
                DisconnectPCs, Undressed
  <2>2. QED
    BY <1>2, <1>4, <2>1 DEF Equipped, HasDevice
<1>8. CASE RestoreLast(p)
  <2>1. /\ \A s \in Sessions : s # ses[p] => sess'[s] = sess[s]
        /\ r2.engine = sess[ses[p]].engine /\ r2.routes = FALSE
        /\ pc[p] = "restore" /\ pc' = [pc EXCEPT ![p] = "clear"]
    BY <1>2, <1>8 DEF RestoreLast, Goto, WithoutDNS, WithoutRoutes, Session
  <2>2. QED
    BY <1>2, <1>4, <2>1 DEF Equipped, Undressed, HasDevice, DisconnectPCs
<1>9. CASE ReapplyRemaining(p)
  <2>1. /\ \A s \in Sessions : SameDevice(sess'[s], sess[s])
        /\ pc[p] = "reapply" /\ pc' = [pc EXCEPT ![p] = "finish"]
    BY <1>2, <1>9 DEF ReapplyRemaining, Goto, Session
  <2>2. QED
    BY <1>2, <1>4, <2>1 DEF Equipped, Undressed, HasDevice, DisconnectPCs
<1>10. QED
  BY <1>5, <1>6, <1>7, <1>8, <1>9 DEF DisconnectPhase

(* Nothing that an entry or a call refers to is collected, and nothing that is
   collected is installed. *)
LEMMA Collected ==
    ASSUME CollectSessions, NEW s \in Sessions
    PROVE  \/ sess'[s] = sess[s]
           \/ /\ sess'[s] = NewSession
              /\ ~HasDevice(sess[s])
              /\ \A t \in Tunnels : cur'[t] # s
              /\ \A q \in Callers : ses'[q] # s
BY DEF CollectSessions

(* A call gives its entry up, when nothing is installed any more. *)
LEMMA ReleaseResources ==
    ASSUME Inv, RInv, NEW p \in Callers, pc[p] \in Undressed,
           NEW result, RemoveEntry(tgt[p]), Return(p, result), CollectSessions
    PROVE  RInv'
<1> USE DEF RInv
<1>1. /\ ses[p] \in Sessions /\ tgt[p] \in Tunnels
      /\ cur[tgt[p]] = ses[p]
      /\ \A q \in Callers : q # p /\ pc[q] \in OwnedPCs =>
            ses[q] \in Sessions /\ ses[q] # ses[p]
  BY OwnSession DEF Undressed, OwnedPCs, ConnectPCs, DisconnectPCs
<1>2. ~HasDevice(sess[ses[p]])
  BY DEF AllEquipped, Equipped
<1>3. /\ state'[tgt[p]] = "disconnected" /\ cur'[tgt[p]] = NoSession
      /\ \A u \in Tunnels : u # tgt[p] => /\ state'[u] = state[u]
                                         /\ cur'[u] = cur[u]
  BY <1>1 DEF RemoveEntry, Inv, TypeOK
<1>4. /\ pc'[p] = "idle"
      /\ \A q \in Callers : q # p => /\ pc'[q] = pc[q] /\ tgt'[q] = tgt[q]
                                     /\ ses'[q] = ses[q]
  BY DEF Return, Goto, Inv, TypeOK
<1>5. ~HasDevice(NewSession)
  BY DEF HasDevice, NewSession
<1>6. SessionsApart' /\ GoneEntries'
  BY <1>3, ConstantsAssumption DEF SessionsApart, GoneEntries
<1>7. DeviceInv'
  <2>1. ASSUME NEW u \in Connected'
        PROVE  cur'[u] \in Sessions /\ sess'[cur'[u]].engine = "started"
                                    /\ sess'[cur'[u]].routes
    <3>1. u # tgt[p] /\ u \in Connected
      BY <1>3, <2>1 DEF Connected
    <3>2. /\ cur[u] \in Sessions /\ cur'[u] = cur[u]
          /\ sess[cur[u]].engine = "started" /\ sess[cur[u]].routes
      BY <1>3, <3>1 DEF ResourcesInv, DeviceInv, Connected
    <3>3. QED
      BY <3>1, <3>2, Collected DEF HasDevice
  <2>2. ASSUME NEW s \in Sessions, HasDevice(sess'[s])
        PROVE  \E u \in Tunnels : cur'[u] = s
    <3>1. sess'[s] = sess[s]
      BY <1>5, <2>2, Collected
    <3>2. PICK u \in Tunnels : cur[u] = s
      BY <2>2, <3>1 DEF ResourcesInv, DeviceInv
    <3>3. u # tgt[p]
      BY <1>1, <1>2, <2>2, <3>1, <3>2
    <3>4. QED
      BY <1>3, <3>2, <3>3
  <2>3. QED
    BY <2>1, <2>2 DEF DeviceInv, HasDevice
<1>8. LoopProtection'
  <2>1. ASSUME NEW u \in Full, cur'[u] \in Sessions, sess'[cur'[u]].routes
        PROVE  sess'[cur'[u]].guarded
    <3>1. u \in Tunnels /\ u # tgt[p] /\ cur'[u] = cur[u]
      BY <1>3, <2>1, ConstantsAssumption
    <3>2. sess'[cur[u]] = sess[cur[u]]
      BY <2>1, <3>1, Collected
    <3>3. QED
      BY <2>1, <3>1, <3>2 DEF ResourcesInv, LoopProtection
  <2>2. QED
    BY <2>1 DEF LoopProtection
<1>9. ASSUME NEW q \in Callers PROVE Equipped(q)'
  <2>1. CASE pc'[q] \in OwnedPCs
    <3>1. q # p
      BY <1>4, <2>1 DEF OwnedPCs, ConnectPCs, DisconnectPCs
    <3>2. /\ ses'[q] = ses[q] /\ tgt'[q] = tgt[q] /\ pc'[q] = pc[q]
          /\ ses[q] \in Sessions
      BY <1>1, <1>4, <2>1, <3>1
    <3>3. sess'[ses[q]] = sess[ses[q]]
      BY <3>2, Collected
    <3>4. QED
      BY <3>2, <3>3 DEF AllEquipped, Equipped, HasDevice
  <2>2. CASE pc'[q] \notin OwnedPCs
    BY <2>2 DEF Equipped, OwnedPCs, ConnectPCs, DisconnectPCs, Undressed,
                Dressed
  <2>3. QED BY <2>1, <2>2
<1>10. QED
  BY <1>6, <1>7, <1>8, <1>9 DEF ResourcesInv, AllEquipped

(* A step that moves no entry and no session: what a call that is inside
   nothing does to its own locals does not matter. *)
LEMMA IdleResources ==
    ASSUME Inv, RInv, NEW p \in Callers, pc[p] \notin OwnedPCs,
           NEW l \in {"idle", "waiting"}, pc' = [pc EXCEPT ![p] = l],
           \A q \in Callers : q # p => ses'[q] = ses[q] /\ tgt'[q] = tgt[q],
           UNCHANGED <<state, cur, sess>>
    PROVE  RInv'
<1> USE DEF RInv
<1>1. \A q \in Callers : q # p => pc'[q] = pc[q]
  BY DEF Inv, TypeOK
<1>2. pc'[p] \notin OwnedPCs
  BY DEF Inv, TypeOK, OwnedPCs, ConnectPCs, DisconnectPCs
<1>3. ASSUME NEW q \in Callers PROVE Equipped(q)'
  <2>1. CASE q = p
    BY <1>2, <2>1 DEF Equipped, OwnedPCs, ConnectPCs, DisconnectPCs, Undressed,
                      Dressed
  <2>2. CASE q # p
    BY <1>1, <2>2 DEF AllEquipped, Equipped, HasDevice
  <2>3. QED BY <2>1, <2>2
<1>4. ResourcesInv' /\ SessionsApart' /\ GoneEntries'
  BY DEF ResourcesInv, DeviceInv, LoopProtection, SessionsApart, GoneEntries,
         HasDevice, Connected
<1>5. QED
  BY <1>3, <1>4 DEF AllEquipped

(* The claims and the commits. *)
LEMMA ClaimCommitResources ==
    ASSUME Inv, RInv, NEW p \in Callers,
           \/ \E t \in Tunnels : BeginConnect(p, t) \/ CallDisconnect(p, t)
           \/ CommitConnect(p) \/ FailConnect(p)
           \/ BeginDisconnect(p) \/ DisconnectedMeanwhile(p)
           \/ DisconnectTimeout(p) \/ FinishDisconnect(p)
    PROVE  RInv'
<1> USE DEF RInv
<1>1. ASSUME NEW t \in Tunnels, BeginConnect(p, t) PROVE RInv'
  <2>1. PICK s \in Sessions : /\ Unreferenced(s)
                              /\ cur' = [cur EXCEPT ![t] = s]
                              /\ ses' = [ses EXCEPT ![p] = s]
                              /\ sess' = [sess EXCEPT ![s] = NewSession]
    BY <1>1 DEF BeginConnect
  <2>2. /\ state[t] = "disconnected" /\ cur[t] = NoSession
        /\ state' = [state EXCEPT ![t] = "connecting"]
        /\ pc' = [pc EXCEPT ![p] = "claimed"]
        /\ tgt' = [tgt EXCEPT ![p] = t]
    BY <1>1 DEF BeginConnect, Goto, GoneEntries
  <2>3. /\ \A u \in Tunnels : cur[u] # s
        /\ \A q \in Callers : ses[q] # s
        /\ cur'[t] = s /\ sess'[s] = NewSession
        /\ \A u \in Tunnels : u # t => cur'[u] = cur[u] /\ state'[u] = state[u]
        /\ \A x \in Sessions : x # s => sess'[x] = sess[x]
        /\ state'[t] = "connecting"
    BY <2>1, <2>2 DEF Unreferenced, Inv, TypeOK
  <2>4. ~HasDevice(NewSession) /\ ~NewSession.routes
    BY DEF HasDevice, NewSession
  <2>5. SessionsApart' /\ GoneEntries'
    BY <2>3 DEF SessionsApart, GoneEntries
  <2>6. DeviceInv'
    <3>1. ASSUME NEW u \in Connected'
          PROVE  cur'[u] \in Sessions /\ sess'[cur'[u]].engine = "started"
                                      /\ sess'[cur'[u]].routes
      BY <2>3, <3>1 DEF ResourcesInv, DeviceInv, Connected
    <3>2. ASSUME NEW x \in Sessions, HasDevice(sess'[x])
          PROVE  \E u \in Tunnels : cur'[u] = x
      <4>1. x # s /\ sess'[x] = sess[x]
        BY <2>3, <2>4, <3>2
      <4>2. PICK u \in Tunnels : cur[u] = x
        BY <3>2, <4>1 DEF ResourcesInv, DeviceInv
      <4>3. u # t
        BY <2>2, <4>2, ConstantsAssumption
      <4>4. QED
        BY <2>3, <4>2, <4>3
    <3>3. QED
      BY <3>1, <3>2 DEF DeviceInv, HasDevice
  <2>7. LoopProtection'
    <3>1. ASSUME NEW u \in Full, cur'[u] \in Sessions, sess'[cur'[u]].routes
          PROVE  sess'[cur'[u]].guarded
      BY <2>3, <2>4, <3>1, ConstantsAssumption DEF ResourcesInv, LoopProtection
    <3>2. QED
      BY <3>1 DEF LoopProtection
  <2>8. ASSUME NEW q \in Callers PROVE Equipped(q)'
    <3>1. CASE q = p
      <4>1. pc'[q] = "claimed" /\ sess'[ses'[q]] = NewSession
        BY <2>1, <2>2, <2>3, <3>1 DEF Inv, TypeOK
      <4>2. QED
        BY <2>4, <4>1 DEF Equipped, Undressed, Dressed, HasDevice
    <3>2. CASE q # p /\ pc[q] \in OwnedPCs
      <4>1. ses'[q] = ses[q] /\ pc'[q] = pc[q] /\ tgt'[q] = tgt[q]
        BY <2>1, <2>2, <3>2 DEF Inv, TypeOK
      <4>2. ses[q] \in Sessions /\ ses[q] # s
        BY <2>3, <3>2, OwnSession
      <4>3. QED
        BY <2>3, <4>1, <4>2 DEF AllEquipped, Equipped, HasDevice
    <3>3. CASE q # p /\ pc[q] \notin OwnedPCs
      <4>1. pc'[q] \notin OwnedPCs
        BY <2>2, <3>3 DEF Inv, TypeOK
      <4>2. QED
        BY <4>1 DEF Equipped, OwnedPCs, ConnectPCs, DisconnectPCs, Undressed,
                    Dressed
    <3>4. QED BY <3>1, <3>2, <3>3
  <2>9. QED
    BY <2>5, <2>6, <2>7, <2>8 DEF ResourcesInv, AllEquipped
<1>2. ASSUME NEW t \in Tunnels, CallDisconnect(p, t) PROVE RInv'
  <2>1. /\ pc[p] \notin OwnedPCs /\ pc' = [pc EXCEPT ![p] = "waiting"]
        /\ \A q \in Callers : q # p => ses'[q] = ses[q] /\ tgt'[q] = tgt[q]
        /\ UNCHANGED <<state, cur, sess>>
    BY <1>2 DEF CallDisconnect, Goto, manager, OwnedPCs, ConnectPCs,
                DisconnectPCs, Inv, TypeOK
  <2>2. QED
    BY <2>1, IdleResources
<1>3. CASE DisconnectedMeanwhile(p) \/ DisconnectTimeout(p)
  <2>1. /\ pc[p] \notin OwnedPCs /\ pc' = [pc EXCEPT ![p] = "idle"]
        /\ \A q \in Callers : q # p => ses'[q] = ses[q] /\ tgt'[q] = tgt[q]
        /\ UNCHANGED <<state, cur, sess>>
    BY <1>3 DEF DisconnectedMeanwhile, DisconnectTimeout, Return, Goto,
                manager, OwnedPCs, ConnectPCs, DisconnectPCs, Inv, TypeOK
  <2>2. QED
    BY <2>1, IdleResources
<1>4. CASE FailConnect(p)
  BY <1>4, ReleaseResources DEF FailConnect, Undressed
<1>5. CASE FinishDisconnect(p)
  BY <1>5, ReleaseResources DEF FinishDisconnect, Undressed
<1>6. CASE CommitConnect(p)
  <2>1. /\ pc[p] = "journaled" /\ pc[p] \in OwnedPCs
        /\ state[tgt[p]] = "connecting" /\ tgt[p] \in Tunnels
        /\ cur[tgt[p]] = ses[p] /\ ses[p] \in Sessions
    BY <1>6 DEF CommitConnect, OwnedPCs, ConnectPCs, Inv, Ownership
  <2>2. /\ state' = [state EXCEPT ![tgt[p]] = "connected"]
        /\ Return(p, "ok")
        /\ UNCHANGED <<cur, sess>>
    BY <1>6, <2>1 DEF CommitConnect
  <2>3. sess[ses[p]].engine = "started" /\ sess[ses[p]].routes
    BY <2>1 DEF AllEquipped, Equipped, Dressed
  <2>4. DeviceInv'
    <3>1. \A u \in Tunnels : u # tgt[p] => state'[u] = state[u]
      BY <2>2 DEF Inv, TypeOK
    <3>2. QED
      BY <2>1, <2>2, <2>3, <3>1 DEF ResourcesInv, DeviceInv, Connected,
                                    HasDevice
  <2>5. LoopProtection' /\ SessionsApart' /\ GoneEntries'
    BY <2>2 DEF ResourcesInv, LoopProtection, SessionsApart, GoneEntries, Inv,
                TypeOK
  <2>6. ASSUME NEW q \in Callers PROVE Equipped(q)'
    <3>1. CASE q = p
      <4>1. pc'[q] = "idle"
        BY <2>2, <3>1 DEF Return, Goto, Inv, TypeOK
      <4>2. QED
        BY <4>1 DEF Equipped, Undressed, Dressed
    <3>2. CASE q # p
      <4>1. pc'[q] = pc[q] /\ ses'[q] = ses[q] /\ tgt'[q] = tgt[q]
        BY <2>2, <3>2 DEF Return, Goto
      <4>2. QED
        BY <2>2, <4>1 DEF AllEquipped, Equipped, HasDevice
    <3>3. QED BY <3>1, <3>2
  <2>7. QED
    BY <2>4, <2>5, <2>6 DEF ResourcesInv, AllEquipped
<1>7. CASE BeginDisconnect(p)
  <2>1. /\ pc[p] = "waiting" /\ tgt[p] \in Tunnels
        /\ state[tgt[p]] = "connected"
        /\ state' = [state EXCEPT ![tgt[p]] = "disconnecting"]
        /\ pc' = [pc EXCEPT ![p] = "down"]
        /\ ses' = [ses EXCEPT ![p] = cur[tgt[p]]]
        /\ UNCHANGED <<cur, sess, tgt>>
    BY <1>7 DEF BeginDisconnect, Goto, Inv, WaitsForTunnel
  <2>2. DeviceInv'
    BY <2>1 DEF ResourcesInv, DeviceInv, Connected, HasDevice, Inv, TypeOK
  <2>3. LoopProtection' /\ SessionsApart' /\ GoneEntries'
    BY <2>1 DEF ResourcesInv, LoopProtection, SessionsApart, GoneEntries, Inv,
                TypeOK
  <2>4. ASSUME NEW q \in Callers PROVE Equipped(q)'
    <3>1. CASE q = p
      <4>1. pc'[q] = "down"
        BY <2>1, <3>1 DEF Inv, TypeOK
      <4>2. QED
        BY <4>1 DEF Equipped, Undressed, Dressed
    <3>2. CASE q # p
      <4>1. pc'[q] = pc[q] /\ ses'[q] = ses[q] /\ tgt'[q] = tgt[q]
        BY <2>1, <3>2 DEF Inv, TypeOK
      <4>2. QED
        BY <2>1, <4>1 DEF AllEquipped, Equipped, HasDevice
    <3>3. QED BY <3>1, <3>2
  <2>5. QED
    BY <2>2, <2>3, <2>4 DEF ResourcesInv, AllEquipped
<1>8. QED
  BY <1>1, <1>2, <1>3, <1>4, <1>5, <1>6, <1>7

(* A dead process leaves no entries; the device and the routes of its sessions
   went with it. *)
LEMMA LoseMemoryResources ==
    ASSUME LoseMemory
    PROVE  RInv'
<1>1. /\ \A t \in Tunnels : state'[t] = "disconnected" /\ cur'[t] = NoSession
      /\ \A s \in Sessions : sess'[s] = NewSession
      /\ \A p \in Callers : pc'[p] = "idle"
  BY DEF LoseMemory
<1>2. ResourcesInv'
  BY <1>1, ConstantsAssumption DEF ResourcesInv, DeviceInv, LoopProtection,
     Connected, HasDevice, NewSession
<1>3. SessionsApart' /\ GoneEntries'
  BY <1>1, ConstantsAssumption DEF SessionsApart, GoneEntries
<1>4. AllEquipped'
  BY <1>1 DEF AllEquipped, Equipped, Undressed, Dressed
<1>5. QED
  BY <1>2, <1>3, <1>4 DEF RInv

(* The manager starts without a device or a route. *)
LEMMA ResourcesInit == Init => RInv
<1> SUFFICES ASSUME Init PROVE RInv
  OBVIOUS
<1>1. /\ \A t \in Tunnels : state[t] = "disconnected" /\ cur[t] = NoSession
      /\ \A s \in Sessions : sess[s] = NewSession
      /\ \A p \in Callers : pc[p] = "idle"
  BY DEF Init
<1>2. ResourcesInv
  BY <1>1, ConstantsAssumption DEF ResourcesInv, DeviceInv, LoopProtection,
     Connected, HasDevice, NewSession
<1>3. SessionsApart /\ GoneEntries /\ AllEquipped
  BY <1>1, ConstantsAssumption DEF SessionsApart, GoneEntries, AllEquipped,
     Equipped, Undressed, Dressed
<1>4. QED
  BY <1>2, <1>3 DEF RInv

(* Every action keeps devices and routes with their entries. *)
LEMMA ResourcesNext == Inv /\ RInv /\ [Next]_vars => RInv'
<1> SUFFICES ASSUME Inv, RInv, [Next]_vars PROVE RInv'
  OBVIOUS
<1>1. ASSUME NEW p \in Callers, Call(p) \/ CallerStep(p) PROVE RInv'
  <2>1. \/ ConnectPhase(p) \/ DisconnectPhase(p)
        \/ \E t \in Tunnels : BeginConnect(p, t) \/ CallDisconnect(p, t)
        \/ CommitConnect(p) \/ FailConnect(p)
        \/ BeginDisconnect(p) \/ DisconnectedMeanwhile(p)
        \/ DisconnectTimeout(p) \/ FinishDisconnect(p)
    BY <1>1 DEF Call, CallerStep, ConnectStep, DisconnectStep, ConnectPhase,
                DisconnectPhase
  <2>2. QED
    BY <2>1, ConnectPhaseResources, DisconnectPhaseResources,
       ClaimCommitResources
<1>2. CASE UNCHANGED <<state, cur, sess, pc, tgt, ses>>
  <2>1. ResourcesInv' /\ SessionsApart' /\ GoneEntries'
    BY <1>2 DEF RInv, ResourcesInv, DeviceInv, LoopProtection, SessionsApart,
                GoneEntries, HasDevice, Connected
  <2>2. \A p \in Callers : Equipped(p)'
    BY <1>2 DEF RInv, AllEquipped, Equipped, HasDevice
  <2>3. QED
    BY <2>1, <2>2 DEF RInv, AllEquipped
<1>3. CASE MachineStep
  <2>1. LoseMemory \/ UNCHANGED <<state, cur, sess, pc, tgt, ses>>
    BY <1>3 DEF MachineStep, RouteEvent, Crash, ForceShutdown, Recovery,
                RecoverTunnel, FinishRecovery, manager, locals
  <2>2. QED
    BY <1>2, <2>1, LoseMemoryResources
<1>4. CASE UNCHANGED vars
  BY <1>2, <1>4 DEF vars, manager, locals
<1>5. QED
  BY <1>1, <1>3, <1>4 DEF Next, MachineStep

(* connectPhases, rollback and disconnectPhases: whichever phase fails and
   whoever tears down, a device and its routes belong to an entry, a connected
   tunnel has both, and a full tunnel's routes are never there without its
   endpoint's loop protection. *)
THEOREM ResourcesBelong == Spec => []ResourcesInv
<1>1. Init => Inv /\ RInv
  BY InitInv, ResourcesInit
<1>2. (Inv /\ RInv) /\ [Next]_vars => (Inv /\ RInv)'
  BY NextInv, ResourcesNext
<1>3. Inv /\ RInv => ResourcesInv
  BY DEF RInv
<1>4. QED
  BY <1>1, <1>2, <1>3, PTL DEF Spec

-----------------------------------------------------------------------------
(* The helper. *)

(* Whoever runs a locked operation is the holder of connectMu. *)
LockHeld == \A p \in Callers : op[p] \in LockedOps => connectMu = p

(* Only the connecting operations are inside a connect. *)
ConnectsAreLocked ==
    \A p \in Callers : pc[p] \in ConnectPCs => op[p] \in LockedOps

(* The conflict check of a connect still holds at its commit. *)
ConflictChecked ==
    \A p \in Callers :
        pc[p] \in ConnectPCs /\ tgt[p] \in Full =>
            \A u \in Full : u # tgt[p] => state[u] # "connected"

HelperPart ==
    /\ connectMu \in Callers \cup {NoCaller}
    /\ op \in [Callers -> Ops]
    /\ LockHeld
    /\ ConnectsAreLocked
    /\ ConflictChecked
    /\ OneFullTunnel

HInv == Inv /\ HelperPart

-----------------------------------------------------------------------------
(* The helper does to the manager nothing but what the manager's own
   specification allows. *)
LEMMA HelperStep == HelperNext => [Next]_vars
<1> SUFFICES ASSUME HelperNext PROVE [Next]_vars
  OBVIOUS
<1>1. ASSUME NEW p \in Callers, Operation(p) PROVE [Next]_vars
  <2>1. PICK t \in Tunnels :
           \/ HandleConnect(p, t) \/ Reconnect(p, t) \/ HandleDisconnect(p, t)
           \/ Teardown(p, t) \/ AutoDisconnect(p, t)
    BY <1>1 DEF Operation
  <2>2. helper = "running"
    BY <2>1 DEF HandleConnect, Reconnect, HandleDisconnect, Teardown,
                AutoDisconnect, Enter
  <2>3. BeginConnect(p, t) \/ CallDisconnect(p, t) \/ UNCHANGED vars
    BY <2>1 DEF HandleConnect, Reconnect, HandleDisconnect, Teardown,
                AutoDisconnect
  <2>4. QED
    BY <2>2, <2>3 DEF Next, Call
<1>2. ASSUME NEW p \in Callers, Progress(p) PROVE [Next]_vars
  BY <1>2 DEF Progress, ManagerStep, Finish, Next
<1>3. CASE NetworkChange
  BY <1>3 DEF NetworkChange, Next
<1>4. CASE HelperDies
  BY <1>4 DEF HelperDies, Next
<1>5. CASE Launch
  BY <1>5 DEF Launch, Next
<1>6. QED
  BY <1>1, <1>2, <1>3, <1>4, <1>5 DEF HelperNext

(* helper.go drives tunnel.Manager through its methods only: every behaviour
   of the helper is a behaviour of the manager's specification. *)
THEOREM HelperImplementsManager == HelperSpec => Spec
<1>1. HelperInit => Init
  BY DEF HelperInit
<1>2. [HelperNext]_allVars => [Next]_vars
  BY HelperStep DEF allVars
<1>3. QED
  BY <1>1, <1>2, PTL DEF HelperSpec, Spec
-----------------------------------------------------------------------------
(* One tunnel at a time is between its claim and its commit. *)
LEMMA OneConnect ==
    ASSUME HInv, NEW p \in Callers, NEW q \in Callers,
           pc[p] \in ConnectPCs, pc[q] \in ConnectPCs
    PROVE  p = q
BY DEF HInv, HelperPart, ConnectsAreLocked, LockHeld

(* What the manager does inside a call of p, as far as the connects and the
   connected tunnels are concerned. *)
LEMMA ManagerStepEffect ==
    ASSUME Inv, NEW p \in Callers, CallerStep(p)
    PROVE  /\ \A q \in Callers : q # p => pc'[q] = pc[q] /\ tgt'[q] = tgt[q]
           /\ pc'[p] \in ConnectPCs => pc[p] \in ConnectPCs /\ tgt'[p] = tgt[p]
           /\ \/ \A u \in Tunnels : state'[u] = "connected" => state[u] = "connected"
              \/ /\ pc[p] \in ConnectPCs
                 /\ pc'[p] \notin ConnectPCs
                 /\ tgt[p] \in Tunnels
                 /\ state' = [state EXCEPT ![tgt[p]] = "connected"]
<1> USE DEF Inv, TypeOK
<1>1. ConnectPCs \cap DisconnectPCs = {} /\ "idle" \notin ConnectPCs
  BY DEF ConnectPCs, DisconnectPCs
<1>2. CASE ConnectPhase(p)
  <2>1. /\ UNCHANGED <<state, tgt>>
        /\ pc[p] \in ConnectPCs
        /\ \E l \in ConnectPCs : pc' = [pc EXCEPT ![p] = l]
    BY <1>2 DEF ConnectPhase, AbandonClaim, CreateEngine, BringUp, AddRoutes,
                Checkpoint, FailPhase, SnapshotDNS, ApplyDNS,
                CaptureAndJournal, Rollback, manager, locals, Goto, ConnectPCs
  <2>2. QED
    BY <2>1
<1>3. CASE DisconnectPhase(p)
  <2>1. /\ UNCHANGED <<state, tgt>>
        /\ \E l \in DisconnectPCs : pc' = [pc EXCEPT ![p] = l]
    BY <1>3 DEF DisconnectPhase, RemoveRoutes, CloseEngine, ReadRemaining,
                ReadPreMod, RestoreLast, ClearPreMod, PickRemaining,
                ReapplyRemaining, manager, locals, Goto, DisconnectPCs
  <2>2. QED
    BY <1>1, <2>1
<1>4. ASSUME NEW result, Return(p, result)
      PROVE  /\ \A q \in Callers : q # p => pc'[q] = pc[q] /\ tgt'[q] = tgt[q]
             /\ pc'[p] \notin ConnectPCs
  BY <1>1, <1>4 DEF Return, Goto
<1>5. CASE CommitConnect(p)
  <2>1. pc[p] \in ConnectPCs
    BY <1>5 DEF CommitConnect, ConnectPCs
  <2>2. state[tgt[p]] = "connecting" /\ tgt[p] \in Tunnels
    BY <2>1 DEF Ownership
  <2>3. QED
    BY <1>4, <1>5, <2>1, <2>2 DEF CommitConnect
<1>6. CASE FailConnect(p)
  <2>1. \A u \in Tunnels : state'[u] = "connected" => state[u] = "connected"
    BY <1>6 DEF FailConnect, RemoveEntry
  <2>2. QED
    BY <1>4, <1>6, <2>1 DEF FailConnect
<1>7. CASE BeginDisconnect(p)
  BY <1>1, <1>7 DEF BeginDisconnect, Goto, DisconnectPCs
<1>8. CASE DisconnectedMeanwhile(p) \/ DisconnectTimeout(p)
  BY <1>4, <1>8 DEF DisconnectedMeanwhile, DisconnectTimeout, manager
<1>9. CASE FinishDisconnect(p)
  <2>1. \A u \in Tunnels : state'[u] = "connected" => state[u] = "connected"
    BY <1>9 DEF FinishDisconnect, RemoveEntry
  <2>2. QED
    BY <1>4, <1>9, <2>1 DEF FinishDisconnect
<1>10. QED
  BY <1>2, <1>3, <1>5, <1>6, <1>7, <1>8, <1>9
     DEF CallerStep, ConnectStep, DisconnectStep, ConnectPhase, DisconnectPhase
-----------------------------------------------------------------------------
(* An operation starts: a connect under the lock, with its conflict check, or
   a disconnect. *)
LEMMA OperationKeeps ==
    ASSUME HInv, NEW p \in Callers, Operation(p)
    PROVE  HelperPart'
<1> USE HelperAssumption DEF HInv, HelperPart
<1>1. PICK t \in Tunnels :
         \/ HandleConnect(p, t) \/ Reconnect(p, t) \/ HandleDisconnect(p, t)
         \/ Teardown(p, t) \/ AutoDisconnect(p, t)
  BY DEF Operation
<1>2. /\ op[p] = "none"
      /\ "none" \notin LockedOps
      /\ pc[p] \notin ConnectPCs
  BY <1>1 DEF HandleConnect, Reconnect, HandleDisconnect, Teardown,
              AutoDisconnect, Enter, ConnectsAreLocked, LockedOps, Connects
<1>3. PICK o \in Ops : op' = [op EXCEPT ![p] = o]
  BY <1>1 DEF HandleConnect, Reconnect, HandleDisconnect, Teardown,
              AutoDisconnect, Enter, Ops, LockedOps, Connects, FreeOps
<1>4. CASE HandleConnect(p, t) \/ Reconnect(p, t)
  <2>1. /\ connectMu = NoCaller
        /\ connectMu' = p
        /\ BeginConnect(p, t)
        /\ o \in LockedOps
    BY <1>3, <1>4 DEF HandleConnect, Reconnect, Lock, Enter, LockedOps, Connects
  <2>2. \A q \in Callers : op[q] \notin LockedOps /\ pc[q] \notin ConnectPCs
    BY <2>1 DEF LockHeld, ConnectsAreLocked
  <2>3. /\ state' = [state EXCEPT ![t] = "connecting"]
        /\ tgt' = [tgt EXCEPT ![p] = t]
        /\ pc' = [pc EXCEPT ![p] = "claimed"]
        /\ t \in Full => \A u \in Full : u # t => state[u] # "connected"
    BY <2>1 DEF BeginConnect, Goto, FullTunnelConflict
  <2>4. \A u \in Tunnels : state'[u] = "connected" => state[u] = "connected" /\ u # t
    BY <2>3 DEF Inv, TypeOK
  <2>5. Full \subseteq Tunnels
    BY ConstantsAssumption
  <2>6. LockHeld' /\ ConnectsAreLocked'
    BY <1>3, <2>1, <2>2, <2>3 DEF LockHeld, ConnectsAreLocked, Inv, TypeOK
  <2>7. ConflictChecked'
    BY <2>2, <2>3, <2>4, <2>5 DEF ConflictChecked, Inv, TypeOK
  <2>8. OneFullTunnel'
    BY <2>4, <2>5 DEF OneFullTunnel
  <2>9. QED
    BY <1>3, <2>1, <2>6, <2>7, <2>8
<1>5. CASE HandleDisconnect(p, t) \/ Teardown(p, t) \/ AutoDisconnect(p, t)
  <2>1. /\ CallDisconnect(p, t) \/ UNCHANGED vars
        /\ \/ connectMu = NoCaller /\ connectMu' = p
           \/ connectMu' = connectMu /\ o \notin LockedOps
    BY <1>3, <1>5 DEF HandleDisconnect, Teardown, AutoDisconnect, Lock, Enter,
                      LockedOps, Connects
  <2>2. /\ state' = state
        /\ \A q \in Callers : /\ pc'[q] \in ConnectPCs <=> pc[q] \in ConnectPCs
                              /\ q # p => tgt'[q] = tgt[q]
        /\ pc'[p] \notin ConnectPCs
    BY <1>2, <2>1 DEF CallDisconnect, Goto, manager, vars, locals, ConnectPCs,
                      Inv, TypeOK
  <2>3. LockHeld'
    BY <1>3, <2>1 DEF LockHeld
  <2>4. ConnectsAreLocked'
    BY <1>2, <1>3, <2>2 DEF ConnectsAreLocked
  <2>5. ConflictChecked' /\ OneFullTunnel'
    BY <2>2 DEF ConflictChecked, OneFullTunnel
  <2>6. QED
    BY <1>3, <2>1, <2>3, <2>4, <2>5
<1>6. QED
  BY <1>1, <1>4, <1>5

(* An operation goes on, or finishes and unlocks. *)
LEMMA ProgressKeeps ==
    ASSUME HInv, NEW p \in Callers, Progress(p)
    PROVE  HelperPart'
<1> USE HelperAssumption DEF HInv, HelperPart
<1>1. CASE ManagerStep(p)
  <2>1. CallerStep(p) /\ UNCHANGED <<connectMu, op>>
    BY <1>1 DEF ManagerStep, helperVars, opVars
  <2>2. \A q \in Callers : pc'[q] \in ConnectPCs =>
           pc[q] \in ConnectPCs /\ tgt'[q] = tgt[q]
    BY <2>1, ManagerStepEffect
  <2>3. LockHeld' /\ ConnectsAreLocked'
    BY <2>1, <2>2 DEF LockHeld, ConnectsAreLocked
  <2>4. Full \subseteq Tunnels
    BY ConstantsAssumption
  <2>5. CASE \A u \in Tunnels : state'[u] = "connected" => state[u] = "connected"
    <3>1. ConflictChecked' /\ OneFullTunnel'
      BY <2>2, <2>4, <2>5 DEF ConflictChecked, OneFullTunnel
    <3>2. QED
      BY <2>1, <2>3, <3>1
  <2>6. CASE /\ pc[p] \in ConnectPCs
             /\ pc'[p] \notin ConnectPCs
             /\ tgt[p] \in Tunnels
             /\ state' = [state EXCEPT ![tgt[p]] = "connected"]
    <3>1. \A q \in Callers : pc'[q] \notin ConnectPCs
      BY <2>2, <2>6, OneConnect
    <3>2. \A u \in Tunnels : u # tgt[p] => state'[u] = state[u]
      BY <2>6 DEF Inv, TypeOK
    <3>3. tgt[p] \in Full => \A u \in Full : u # tgt[p] => state'[u] # "connected"
      BY <2>4, <2>6, <3>2 DEF ConflictChecked
    <3>4. OneFullTunnel'
      BY <2>4, <3>2, <3>3 DEF OneFullTunnel
    <3>5. ConflictChecked'
      BY <3>1 DEF ConflictChecked
    <3>6. QED
      BY <2>1, <2>3, <3>4, <3>5
  <2>7. QED
    BY <2>1, <2>5, <2>6, ManagerStepEffect
<1>2. CASE Finish(p)
  <2>1. /\ UNCHANGED <<state, pc, tgt>>
        /\ pc[p] \notin ConnectPCs
        /\ op' = [op EXCEPT ![p] = "none"]
        /\ connectMu' = IF connectMu = p THEN NoCaller ELSE connectMu
    BY <1>2 DEF Finish, vars, manager, locals, ConnectPCs
  <2>2. "none" \notin LockedOps /\ "none" \in Ops
    BY DEF LockedOps, Connects, Ops
  <2>3. LockHeld' /\ ConnectsAreLocked'
    BY <2>1, <2>2 DEF LockHeld, ConnectsAreLocked
  <2>4. ConflictChecked' /\ OneFullTunnel'
    BY <2>1 DEF ConflictChecked, OneFullTunnel
  <2>5. QED
    BY <2>1, <2>2, <2>3, <2>4
<1>3. QED
  BY <1>1, <1>2 DEF Progress
(* The process dies, the network changes, the next launch recovers: none of
   them connects a tunnel. *)
LEMMA OutsideKeeps ==
    ASSUME HInv, HelperDies \/ NetworkChange \/ Launch \/ UNCHANGED allVars
    PROVE  HelperPart'
<1> USE DEF HInv, HelperPart
<1>1. CASE HelperDies
  <2>1. LoseMemory
    BY <1>1 DEF HelperDies, Crash, ForceShutdown
  <2>2. /\ \A q \in Callers : pc'[q] \notin ConnectPCs
        /\ \A t \in Tunnels : state'[t] = "disconnected"
    BY <2>1 DEF LoseMemory, ConnectPCs
  <2>3. /\ op' = [q \in Callers |-> "none"]
        /\ connectMu' = NoCaller
        /\ "none" \in Ops \ LockedOps
    BY <1>1 DEF HelperDies, Ops, LockedOps, Connects
  <2>4. LockHeld' /\ ConnectsAreLocked' /\ ConflictChecked'
    BY <2>2, <2>3 DEF LockHeld, ConnectsAreLocked, ConflictChecked
  <2>5. OneFullTunnel'
    BY <2>2, ConstantsAssumption DEF OneFullTunnel
  <2>6. QED
    BY <2>3, <2>4, <2>5
<1>2. CASE NetworkChange \/ Launch \/ UNCHANGED allVars
  <2>1. UNCHANGED <<state, pc, tgt, connectMu, op>>
    BY <1>2 DEF NetworkChange, RouteEvent, Launch, Recovery, RecoverTunnel,
                FinishRecovery, allVars, vars, helperVars, opVars, manager,
                locals
  <2>2. QED
    BY <2>1 DEF LockHeld, ConnectsAreLocked, ConflictChecked, OneFullTunnel
<1>3. QED
  BY <1>1, <1>2

(* No operation, no lock and no tunnel at the start. *)
LEMMA HelperInitInv == HelperInit => HInv
<1> SUFFICES ASSUME HelperInit PROVE HInv
  OBVIOUS
<1>1. Inv
  BY InitInv DEF HelperInit
<1>2. /\ \A p \in Callers : op[p] = "none" /\ pc[p] = "idle"
      /\ \A t \in Tunnels : state[t] = "disconnected"
      /\ "none" \in Ops \ LockedOps
      /\ "idle" \notin ConnectPCs
  BY DEF HelperInit, Init, Ops, LockedOps, Connects, ConnectPCs
<1>3. LockHeld /\ ConnectsAreLocked /\ ConflictChecked
  BY <1>2 DEF LockHeld, ConnectsAreLocked, ConflictChecked
<1>4. OneFullTunnel
  BY <1>2, ConstantsAssumption DEF OneFullTunnel
<1>5. QED
  BY <1>1, <1>2, <1>3, <1>4 DEF HInv, HelperPart, HelperInit

(* Every action of the helper keeps the invariant. *)
LEMMA HelperNextInv == HInv /\ [HelperNext]_allVars => HInv'
<1> SUFFICES ASSUME HInv, [HelperNext]_allVars PROVE HInv'
  OBVIOUS
<1>1. Inv'
  BY HelperStep, NextInv DEF HInv, allVars
<1>2. HelperPart'
  BY OperationKeeps, ProgressKeeps, OutsideKeeps DEF HelperNext
<1>3. QED
  BY <1>1, <1>2 DEF HInv

(* The full-tunnel check of ConnectWithContext together with Helper.connectMu:
   two connected tunnels never both route 0.0.0.0/0. *)
THEOREM FullTunnelsExclusive == HelperSpec => []OneFullTunnel
<1>1. HelperSpec => []HInv
  BY HelperInitInv, HelperNextInv, PTL DEF HelperSpec
<1>2. HInv => OneFullTunnel
  BY DEF HInv, HelperPart
<1>3. QED
  BY <1>1, <1>2, PTL

(* The helper inherits what is proved of the manager it drives: every
   transition of a tunnel has one owner, whichever operation started it. *)
THEOREM HelperTransitionsOwned == HelperSpec => []Ownership
BY HelperImplementsManager, TransitionsOwned, PTL

(* ... and installs nothing that does not belong to an entry. *)
THEOREM HelperResourcesBelong == HelperSpec => []ResourcesInv
BY HelperImplementsManager, ResourcesBelong, PTL

-----------------------------------------------------------------------------
(* The lifecycle of the comment of tunnel.Manager, step by step.  What ends a
   transition under fairness stays with TLC. *)

(* A call claims an entry that is disconnected, next to no full tunnel. *)
LEMMA ClaimIsConnect ==
    ASSUME NEW p \in Callers, NEW t \in Tunnels, BeginConnect(p, t)
    PROVE  Lifecycle!Connect(t)
BY DEF BeginConnect, FullTunnelConflict, Lifecycle!Connect, Lifecycle!Move,
       Lifecycle!OtherFullConnected

(* A step inside a call moves its own entry along the diagram, or none; the
   conflict check of a connect still holds when it commits. *)
LEMMA CallerStepIsMove ==
    ASSUME HInv, NEW p \in Callers, CallerStep(p)
    PROVE  Lifecycle!Next \/ UNCHANGED state
<1> USE DEF HInv, Lifecycle!Move
<1>1. CASE ConnectPhase(p) \/ DisconnectPhase(p)
  BY <1>1 DEF ConnectPhase, AbandonClaim, CreateEngine, BringUp, AddRoutes,
              Checkpoint, FailPhase, SnapshotDNS, ApplyDNS, CaptureAndJournal,
              Rollback, DisconnectPhase, RemoveRoutes, CloseEngine,
              ReadRemaining, ReadPreMod, RestoreLast, ClearPreMod,
              PickRemaining, ReapplyRemaining, manager
<1>2. CASE CommitConnect(p)
  <2>1. pc[p] \in ConnectPCs
    BY <1>2 DEF CommitConnect, ConnectPCs
  <2>2. state[tgt[p]] = "connecting" /\ tgt[p] \in Tunnels
    BY <2>1 DEF Inv, Ownership
  <2>3. ~Lifecycle!OtherFullConnected(tgt[p])
    BY <2>1 DEF HelperPart, ConflictChecked, Lifecycle!OtherFullConnected
  <2>4. Lifecycle!Connected(tgt[p])
    BY <1>2, <2>2, <2>3 DEF CommitConnect, Lifecycle!Connected
  <2>5. QED
    BY <2>2, <2>4 DEF Lifecycle!Next, Lifecycle!Settle
<1>3. CASE FailConnect(p)
  <2>1. state[tgt[p]] = "connecting" /\ tgt[p] \in Tunnels
    BY <1>3 DEF FailConnect, ConnectPCs, Inv, Ownership
  <2>2. Lifecycle!ConnectFailed(tgt[p])
    BY <1>3, <2>1 DEF FailConnect, RemoveEntry, Lifecycle!ConnectFailed
  <2>3. QED
    BY <2>1, <2>2 DEF Lifecycle!Next, Lifecycle!Settle
<1>4. CASE BeginDisconnect(p)
  <2>1. state[tgt[p]] = "connected" /\ tgt[p] \in Tunnels
    BY <1>4 DEF BeginDisconnect, Inv, WaitsForTunnel
  <2>2. Lifecycle!Disconnect(tgt[p])
    BY <1>4, <2>1 DEF BeginDisconnect, Lifecycle!Disconnect
  <2>3. QED
    BY <2>1, <2>2 DEF Lifecycle!Next
<1>5. CASE DisconnectedMeanwhile(p) \/ DisconnectTimeout(p)
  BY <1>5 DEF DisconnectedMeanwhile, DisconnectTimeout, manager
<1>6. CASE FinishDisconnect(p)
  <2>1. state[tgt[p]] = "disconnecting" /\ tgt[p] \in Tunnels
    BY <1>6 DEF FinishDisconnect, DisconnectPCs, Inv, Ownership
  <2>2. Lifecycle!Disconnected(tgt[p])
    BY <1>6, <2>1 DEF FinishDisconnect, RemoveEntry, Lifecycle!Disconnected
  <2>3. QED
    BY <2>1, <2>2 DEF Lifecycle!Next, Lifecycle!Settle
<1>7. QED
  BY <1>1, <1>2, <1>3, <1>4, <1>5, <1>6
     DEF CallerStep, ConnectStep, DisconnectStep, ConnectPhase, DisconnectPhase

(* Every step of the helper is a step of the lifecycle or moves no tunnel. *)
LEMMA LifecycleStep == HInv /\ [HelperNext]_allVars => [Lifecycle!Next]_state
<1> SUFFICES ASSUME HInv, [HelperNext]_allVars
             PROVE  Lifecycle!Next \/ UNCHANGED state
  OBVIOUS
<1>1. ASSUME NEW p \in Callers, Operation(p)
      PROVE  Lifecycle!Next \/ UNCHANGED state
  <2>1. PICK t \in Tunnels :
           \/ HandleConnect(p, t) \/ Reconnect(p, t) \/ HandleDisconnect(p, t)
           \/ Teardown(p, t) \/ AutoDisconnect(p, t)
    BY <1>1 DEF Operation
  <2>2. \/ BeginConnect(p, t)
        \/ UNCHANGED state
    BY <2>1 DEF HandleConnect, Reconnect, HandleDisconnect, Teardown,
                AutoDisconnect, CallDisconnect, vars, manager
  <2>3. QED
    BY <2>2, ClaimIsConnect DEF Lifecycle!Next
<1>2. ASSUME NEW p \in Callers, Progress(p)
      PROVE  Lifecycle!Next \/ UNCHANGED state
  BY <1>2, CallerStepIsMove DEF Progress, ManagerStep, Finish, vars, manager
<1>3. CASE HelperDies
  BY <1>3 DEF HelperDies, Crash, ForceShutdown, LoseMemory, Lifecycle!Next,
              Lifecycle!Exit
<1>4. CASE NetworkChange \/ Launch \/ UNCHANGED allVars
  BY <1>4 DEF NetworkChange, RouteEvent, Launch, Recovery, RecoverTunnel,
              FinishRecovery, allVars, vars, manager
<1>5. QED
  BY <1>1, <1>2, <1>3, <1>4 DEF HelperNext

(* tunnel.Manager under the helper implements the diagram of its comment, for
   any number of tunnels and goroutines: every tunnel goes round it one arrow
   at a time, a full tunnel never connects next to another one, and only the
   exit of the process leaves the diagram. *)
THEOREM LifecycleSafety ==
    HelperSpec => Lifecycle!Init /\ [][Lifecycle!Next]_state
<1>1. HelperSpec => []HInv
  BY HelperInitInv, HelperNextInv, PTL DEF HelperSpec
<1>2. HelperInit => Lifecycle!Init
  BY DEF HelperInit, Init, Lifecycle!Init
<1>3. QED
  BY <1>1, <1>2, LifecycleStep, PTL DEF HelperSpec

-----------------------------------------------------------------------------
(***************************************************************************)
(* The DNS configuration that the macOS tunnels share, for any number of   *)
(* tunnels, goroutines and process deaths, under any network events: while *)
(* every call holds connectMu, and but for the two steps DNSSpec excludes, *)
(* the services carry what the connected tunnels call for, and what the    *)
(* user had once none of them does.                                        *)
(*                                                                         *)
(* The property speaks of moments when nothing is under way.  In between,  *)
(* the configuration that fits is in the services, or in the session a     *)
(* rollback restores it from, or in the Manager's capture a disconnect     *)
(* restores it from, or on the disk where the next launch finds it.        *)
(***************************************************************************)

(* What the user had, or DHCP's servers. *)
Clean == {OriginalDNS, {}}

(* The connected tunnels that have DNS servers. *)
Resolvers == {t \in Connected : DNS[t] # {}}

(* What the route monitor may write over the services on their behalf. *)
Reapplied == {sess[cur[t]].last : t \in {u \in Resolvers : sess[cur[u]].watch}}

(* The configurations the connected tunnels call for. *)
Fitting == IF AllDNSServers = {} THEN Clean
           ELSE {AllDNSServers} \cup Reapplied

(* The owner of an entry is here between two phases that leave the services
   to the connected tunnels: its own servers are not there, or do not count. *)
Quiescent == {"idle", "waiting", "claimed", "engine", "up", "routed",
              "checkpointed", "snapped", "failed", "clear", "finish"}
OwnCounts == {"dnsset", "journaled", "down", "unrouted", "closed", "last",
              "restore"}
Calm(p) ==
    \/ pc[p] \in Quiescent
    \/ pc[p] = "rollback" /\ ~sess[ses[p]].active
    \/ pc[p] \in OwnCounts /\ DNS[tgt[p]] = {}

(* Where the configuration that fits is, phase by phase. *)
DNSPhase(p) ==
    LET r == sess[ses[p]]
        own == DNS[tgt[p]]
    IN /\ pc[p] \in {"claimed", "engine", "up", "routed", "checkpointed",
                     "snapped", "failed"} => ~r.active /\ r.last = {}
       /\ pc[p] = "checkpointed" =>
             val[p] = IF own = {} THEN {} ELSE own \cup AllDNSServers
       /\ pc[p] = "snapped" =>
             own # {} /\ val[p] = own \cup AllDNSServers /\ r.saved \in Fitting
       /\ pc[p] \in {"dnsset", "journaled"} =>
             IF own = {} THEN ~r.active /\ r.last = {}
             ELSE /\ r.active /\ r.saved \in Fitting
                  /\ r.last = own \cup AllDNSServers
                  /\ sysDNS \in {own \cup AllDNSServers} \cup Reapplied
       /\ pc[p] = "journaled" => own = {} \/ preMod # {}
       /\ pc[p] = "rollback" =>
             IF r.active THEN r.saved \in Fitting ELSE r.last = {}
       /\ pc[p] \in {"down", "unrouted", "closed", "last", "restore"} =>
             IF own = {} THEN ~r.active /\ r.last = {} ELSE preMod # {}
       /\ pc[p] \in DisconnectPCs \ {"down"} => r.last = {}
       /\ pc[p] \in {"last", "restore", "clear"} => AllDNSServers = {}
       /\ pc[p] = "restore" => snap[p] = preMod
       /\ pc[p] \in {"others", "reapply"} =>
             AllDNSServers # {} /\ val[p] = AllDNSServers
       /\ pc[p] = "reapply" => \E t \in Resolvers : cur[t] = rem[p]

(* The phases in which the tunnel has its file in tunnel-states. *)
FileWritten(p) ==
    \/ pc[p] \in {"checkpointed", "snapped", "dnsset", "journaled"}
                 \cup DisconnectPCs
    \/ pc[p] = "rollback" /\ sess[ses[p]].active

(* Every call runs under connectMu, and none while a launch recovers. *)
Serial ==
    /\ \A p \in Callers : op[p] # "none" => connectMu = p
    /\ \A p \in Callers : pc[p] # "idle" => op[p] # "none" /\ helper = "running"

(* Only a tunnel with DNS servers, and a call that is under way, have servers
   in their session. *)
Carriers ==
    /\ \A t \in Connected : DNS[t] = {} => /\ ~sess[cur[t]].active
                                          /\ sess[cur[t]].last = {}
    /\ \A s \in Sessions : sess[s].last # {} =>
          \/ \E t \in Resolvers : cur[t] = s
          \/ \E p \in Callers : pc[p] \in OwnedPCs /\ ses[p] = s

(* The Manager's capture is the user's, and is there when it is needed. *)
Captured == preMod \subseteq Clean /\ (AllDNSServers # {} => preMod # {})

Files ==
    /\ \A t \in Connected : journal[t].present
    /\ \A p \in Callers : FileWritten(p) => journal[tgt[p]].present

(* A launch finds a file whenever the services carry a dead tunnel's
   servers. *)
Recovering ==
    helper = "recovering" =>
        /\ \A t \in Tunnels : state[t] = "disconnected"
        /\ \A t \in Tunnels : journal[t].pre \subseteq Clean
        /\ \A t \in todo : journal[t].present
        /\ sysDNS \in Clean \/ todo # {}

Settled ==
    helper = "running" /\ (\A p \in Callers : Calm(p)) => sysDNS \in Fitting

DInv ==
    /\ Serial
    /\ Carriers
    /\ Captured
    /\ Files
    /\ Recovering
    /\ Settled
    /\ \A p \in Callers : DNSPhase(p)

(* A call has picked a tunnel to set the servers through, or none. *)
OnlyPicked ==
    \A p \in Callers : rem[p] # NoSession => pc[p] \in {"reapply", "finish"}

Known == Inv /\ RInv /\ OnlyPicked /\ deaths \in Nat /\ DInv

-----------------------------------------------------------------------------
(* A configuration of tunnels without DNS servers is the user's. *)
LEMMA NoResolvers == AllDNSServers = {} <=> Resolvers = {}
BY DEF AllDNSServers, Resolvers

(* What fits depends on the connected tunnels and their sessions only. *)
LEMMA Frame ==
    ASSUME Connected' = Connected,
           \A t \in Connected : /\ cur'[t] = cur[t]
                                /\ sess'[cur[t]].watch = sess[cur[t]].watch
                                /\ sess'[cur[t]].last = sess[cur[t]].last
    PROVE  /\ AllDNSServers' = AllDNSServers
           /\ Resolvers' = Resolvers
           /\ Reapplied' = Reapplied
           /\ Fitting' = Fitting
<1>1. AllDNSServers' = AllDNSServers /\ Resolvers' = Resolvers
  BY DEF AllDNSServers, Resolvers
<1>2. Reapplied' = Reapplied
  BY <1>1 DEF Reapplied, Resolvers
<1>3. QED
  BY <1>1, <1>2 DEF Fitting

(* A call that is under way is alone. *)
LEMMA Alone ==
    ASSUME Known, NEW p \in Callers, pc[p] # "idle"
    PROVE  /\ op[p] # "none" /\ helper = "running" /\ connectMu = p
           /\ \A q \in Callers : q # p => pc[q] = "idle" /\ Calm(q)
BY DEF Known, DInv, Serial, Calm, Quiescent

(* An idle call knows nothing of the DNS servers. *)
LEMMA IdlePhase ==
    ASSUME NEW p \in Callers, pc[p] \in {"idle", "waiting"}
    PROVE  DNSPhase(p) /\ ~FileWritten(p) /\ Calm(p)
BY DEF DNSPhase, FileWritten, DisconnectPCs, Calm, Quiescent

(* A call owns its entry: its session is no connected tunnel's. *)
LEMMA OwnerApart ==
    ASSUME Known, NEW p \in Callers, pc[p] \in OwnedPCs
    PROVE  /\ ses[p] \in Sessions /\ sess[ses[p]] \in Session
           /\ sess \in [Sessions -> Session]
           /\ tgt[p] \in Tunnels /\ tgt[p] \notin Connected
           /\ cur[tgt[p]] = ses[p]
           /\ \A t \in Connected : cur[t] \in Sessions /\ cur[t] # ses[p]
           /\ pc[p] # "idle"
<1>1. /\ ses[p] \in Sessions /\ tgt[p] \in Tunnels
      /\ cur[tgt[p]] = ses[p]
      /\ state[tgt[p]] \in {"connecting", "disconnecting"}
      /\ \A u \in Tunnels : u # tgt[p] => cur[u] # ses[p]
  BY OwnSession DEF Known, RInv
<1>2. \A t \in Connected : t \in Tunnels /\ cur[t] \in Sessions /\ t # tgt[p]
  BY <1>1 DEF Connected, Known, Inv, EntryHasSession
<1>3. QED
  BY <1>1, <1>2 DEF Known, Inv, TypeOK, Connected, OwnedPCs, ConnectPCs,
                    DisconnectPCs

-----------------------------------------------------------------------------
(* A phase of p that touches p's session only keeps everything, if what it
   leaves behind is accounted for. *)
LEMMA PhaseKeeps ==
    ASSUME Known, NEW p \in Callers, pc[p] \in OwnedPCs,
           NEW l \in OwnedPCs, pc' = [pc EXCEPT ![p] = l],
           UNCHANGED <<state, cur, tgt, ses, helper, op, connectMu>>,
           \A s \in Sessions : s # ses[p] => sess'[s] = sess[s],
           \A t \in Connected : journal'[t].present,
           FileWritten(p)' => journal'[tgt[p]].present,
           preMod' \subseteq Clean, AllDNSServers # {} => preMod' # {},
           DNSPhase(p)',
           Calm(p)' => sysDNS' \in Fitting
    PROVE  DInv'
<1> USE DEF Known, DInv
<1>1. /\ ses[p] \in Sessions /\ tgt[p] \in Tunnels
      /\ \A t \in Connected : cur[t] \in Sessions /\ cur[t] # ses[p]
      /\ pc[p] # "idle" /\ l # "idle" /\ helper = "running"
      /\ op[p] # "none" /\ connectMu = p
  BY OwnerApart, Alone DEF OwnedPCs, ConnectPCs, DisconnectPCs
<1>2. /\ pc'[p] = l
      /\ \A q \in Callers : q # p => pc'[q] = "idle"
  BY Alone, <1>1 DEF Inv, TypeOK
<1>3. Connected' = Connected
  BY DEF Connected
<1>4. /\ AllDNSServers' = AllDNSServers /\ Resolvers' = Resolvers
      /\ Fitting' = Fitting
  BY <1>1, <1>3, Frame
<1>5. Serial'
  BY <1>1, <1>2 DEF Serial
<1>6. Carriers'
  <2>1. \A t \in Connected : sess'[cur[t]] = sess[cur[t]]
    BY <1>1
  <2>2. ASSUME NEW s \in Sessions, sess'[s].last # {}
        PROVE  \/ \E t \in Resolvers : cur[t] = s
               \/ \E q \in Callers : pc'[q] \in OwnedPCs /\ ses[q] = s
    <3>1. CASE s = ses[p]
      BY <1>2, <3>1
    <3>2. CASE s # ses[p]
      <4>1. sess[s].last # {}
        BY <2>2, <3>2
      <4>2. \A q \in Callers : pc[q] \in OwnedPCs => q = p
        BY Alone, <1>1 DEF OwnedPCs, ConnectPCs, DisconnectPCs
      <4>3. QED
        BY <3>2, <4>1, <4>2 DEF Carriers
    <3>3. QED BY <3>1, <3>2
  <2>3. QED
    BY <1>3, <1>4, <2>1, <2>2 DEF Carriers
<1>7. Captured'
  BY <1>4 DEF Captured, Clean
<1>8. \A q \in Callers : q # p => DNSPhase(q)' /\ ~FileWritten(q)' /\ Calm(q)'
  BY <1>2 DEF DNSPhase, FileWritten, DisconnectPCs, Calm, Quiescent
<1>9. Files'
  BY <1>3, <1>8 DEF Files
<1>10. Recovering'
  BY <1>1 DEF Recovering
<1>11. Settled'
  BY <1>4 DEF Settled
<1>12. QED
  BY <1>5, <1>6, <1>7, <1>8, <1>9, <1>10, <1>11

(* What a phase of p may read of the world. *)
LEMMA PhaseWorld ==
    ASSUME Known, NEW p \in Callers, pc[p] \in OwnedPCs,
           NEW l, pc' = [pc EXCEPT ![p] = l],
           UNCHANGED <<state, cur>>,
           \A s \in Sessions : s # ses[p] => sess'[s] = sess[s]
    PROVE  /\ pc'[p] = l
           /\ DNSPhase(p)
           /\ AllDNSServers' = AllDNSServers
           /\ Resolvers' = Resolvers
           /\ Reapplied' = Reapplied
           /\ Fitting' = Fitting
           /\ preMod \subseteq Clean
           /\ AllDNSServers # {} => preMod # {}
           /\ \A t \in Connected : journal[t].present
           /\ FileWritten(p) => journal[tgt[p]].present
           /\ Calm(p) => sysDNS \in Fitting
           /\ journal \in [Tunnels -> JournalFile]
<1>1. \A t \in Connected : cur[t] \in Sessions /\ cur[t] # ses[p]
  BY OwnerApart
<1>2. Connected' = Connected
  BY DEF Connected
<1>3. /\ AllDNSServers' = AllDNSServers /\ Resolvers' = Resolvers
      /\ Reapplied' = Reapplied /\ Fitting' = Fitting
  BY <1>1, <1>2, Frame
<1>4. Calm(p) => sysDNS \in Fitting
  BY Alone, OwnerApart DEF Known, DInv, Settled
<1>5. QED
  BY <1>3, <1>4 DEF Known, DInv, Captured, Files, Inv, TypeOK

(* The phases of a connect.  SetDNS saves what fits before it overwrites it,
   with the file already on the disk; what is captured is that. *)
LEMMA ConnectPhaseDNS ==
    ASSUME Known, NEW p \in Callers, ConnectPhase(p),
           UNCHANGED <<op, connectMu>>
    PROVE  DInv'
<1>1. /\ pc[p] \in ConnectPCs /\ pc[p] \in OwnedPCs
      /\ UNCHANGED <<state, cur, tgt, ses, helper>>
  BY DEF ConnectPhase, OwnedPCs, ConnectPCs, AbandonClaim, CreateEngine,
         BringUp, AddRoutes, Checkpoint, FailPhase, SnapshotDNS, ApplyDNS,
         CaptureAndJournal, Rollback, manager, locals, process
<1>2. /\ ses[p] \in Sessions /\ sess[ses[p]] \in Session
      /\ sess \in [Sessions -> Session]
      /\ tgt[p] \in Tunnels /\ tgt[p] \notin Connected
      /\ tgt'[p] = tgt[p] /\ ses'[p] = ses[p]
  BY <1>1, OwnerApart
<1>3. ConnectPCs \subseteq OwnedPCs
  BY DEF OwnedPCs
<1>4. CASE AbandonClaim(p) \/ FailPhase(p)
  <2>1. PICK l \in {"failed", "rollback"} :
           /\ pc' = [pc EXCEPT ![p] = l]
           /\ l = "failed" => pc[p] = "claimed"
           /\ l = "rollback" => pc[p] \in {"engine", "up", "routed", "checkpointed"}
           /\ UNCHANGED <<sess, journal, preMod, sysDNS>>
    BY <1>4 DEF AbandonClaim, FailPhase, Goto, manager, machine
  <2>2. DNSPhase(p)' /\ Calm(p)' /\ ~FileWritten(p)' /\ Calm(p)
    BY <1>1, <1>2, <2>1, PhaseWorld
       DEF DNSPhase, Calm, Quiescent, FileWritten, DisconnectPCs
  <2>3. QED
    BY <1>1, <1>2, <1>3, <2>1, <2>2, PhaseWorld, PhaseKeeps DEF ConnectPCs
<1>5. CASE CreateEngine(p) \/ BringUp(p) \/ AddRoutes(p)
  <2>1. PICK l \in {"engine", "up", "routed"} : pc' = [pc EXCEPT ![p] = l]
    BY <1>5 DEF CreateEngine, BringUp, AddRoutes, Goto
  <2>2. /\ UNCHANGED <<journal, preMod, sysDNS>>
        /\ pc[p] \in {"claimed", "engine", "up"}
        /\ \A s \in Sessions : s # ses[p] => sess'[s] = sess[s]
        /\ sess'[ses[p]].active = sess[ses[p]].active
        /\ sess'[ses[p]].last = sess[ses[p]].last
    BY <1>2, <1>5 DEF CreateEngine, BringUp, AddRoutes, manager, machine, Session
  <2>3. DNSPhase(p)' /\ Calm(p)' /\ ~FileWritten(p)' /\ Calm(p)
    BY <1>1, <1>2, <2>1, <2>2, PhaseWorld
       DEF DNSPhase, Calm, Quiescent, FileWritten, DisconnectPCs
  <2>4. QED
    BY <1>1, <1>2, <1>3, <2>1, <2>2, <2>3, PhaseWorld, PhaseKeeps DEF ConnectPCs
<1>6. CASE Checkpoint(p)
  <2>1. /\ pc' = [pc EXCEPT ![p] = "checkpointed"] /\ pc[p] = "routed"
        /\ UNCHANGED <<sess, preMod, sysDNS>>
        /\ val'[p] = IF DNS[tgt[p]] = {} THEN {}
                     ELSE DNS[tgt[p]] \cup AllDNSServers
        /\ journal' = [journal EXCEPT ![tgt[p]] = [present |-> TRUE, pre |-> {}]]
    BY <1>6 DEF Checkpoint, Goto, manager, Known, Inv, TypeOK
  <2>w. /\ pc'[p] = "checkpointed" /\ DNSPhase(p)
        /\ AllDNSServers' = AllDNSServers
        /\ Reapplied' = Reapplied /\ Fitting' = Fitting
        /\ Calm(p) => sysDNS \in Fitting
    BY <1>1, <2>1, PhaseWorld
  <2>2. DNSPhase(p)' /\ Calm(p)' /\ Calm(p)
    BY <1>2, <2>1, <2>w DEF DNSPhase, Calm, Quiescent, DisconnectPCs
  <2>3. /\ \A t \in Connected : journal'[t].present
        /\ journal'[tgt[p]].present
    BY <1>1, <1>2, <2>1, PhaseWorld DEF Connected
  <2>4. QED
    BY <1>1, <1>2, <1>3, <2>1, <2>2, <2>3, PhaseWorld, PhaseKeeps DEF ConnectPCs
<1>7. CASE SnapshotDNS(p)
  <2>1. /\ pc[p] = "checkpointed"
        /\ UNCHANGED <<preMod, sysDNS, journal, val>>
    BY <1>7 DEF SnapshotDNS, manager, machine, locals
  <2>2. Calm(p) /\ FileWritten(p)
    BY <2>1 DEF Calm, Quiescent, FileWritten
  <2>3. CASE val[p] = {}
    <3>1. pc' = [pc EXCEPT ![p] = "dnsset"] /\ sess' = sess
      BY <1>7, <2>3 DEF SnapshotDNS, Goto
    <3>w. /\ pc'[p] = "dnsset" /\ DNSPhase(p)
          /\ AllDNSServers' = AllDNSServers
          /\ Reapplied' = Reapplied /\ Fitting' = Fitting
          /\ Calm(p) => sysDNS \in Fitting
      BY <1>1, <3>1, PhaseWorld
    <3>2. DNSPhase(p)'
      BY <1>2, <2>1, <2>3, <3>1, <3>w DEF DNSPhase, DisconnectPCs
    <3>3. QED
      BY <1>1, <1>2, <1>3, <2>1, <2>2, <3>1, <3>2, PhaseWorld, PhaseKeeps
         DEF ConnectPCs
  <2>4. CASE val[p] # {}
    <3>1. /\ pc' = [pc EXCEPT ![p] = "snapped"]
          /\ sess' = [sess EXCEPT ![ses[p]].saved = sysDNS]
      BY <1>7, <2>4 DEF SnapshotDNS, Goto
    <3>2. /\ \A s \in Sessions : s # ses[p] => sess'[s] = sess[s]
          /\ sess'[ses[p]].saved = sysDNS
          /\ sess'[ses[p]].active = sess[ses[p]].active
          /\ sess'[ses[p]].last = sess[ses[p]].last
      BY <1>2, <3>1 DEF Session
    <3>w. /\ pc'[p] = "snapped" /\ DNSPhase(p)
          /\ AllDNSServers' = AllDNSServers
          /\ Reapplied' = Reapplied /\ Fitting' = Fitting
          /\ Calm(p) => sysDNS \in Fitting
      BY <1>1, <3>1, <3>2, PhaseWorld
    <3>3. DNSPhase(p)' /\ Calm(p)'
      BY <1>2, <2>1, <2>2, <2>4, <3>2, <3>w
         DEF DNSPhase, DisconnectPCs, Calm, Quiescent
    <3>4. QED
      BY <1>1, <1>2, <1>3, <2>1, <2>2, <3>1, <3>2, <3>3, PhaseWorld, PhaseKeeps
         DEF ConnectPCs
  <2>5. QED BY <2>3, <2>4
<1>8. CASE ApplyDNS(p)
  <2>1. PICK l \in {"dnsset", "rollback"} : pc' = [pc EXCEPT ![p] = l]
    BY <1>8 DEF ApplyDNS, Goto
  <2>2. /\ pc[p] = "snapped"
        /\ UNCHANGED <<preMod, journal, val>>
        /\ sysDNS' = val[p]
        /\ sess' = [sess EXCEPT ![ses[p]].active = TRUE, ![ses[p]].last = val[p]]
    BY <1>8 DEF ApplyDNS, manager, locals
  <2>3. /\ \A s \in Sessions : s # ses[p] => sess'[s] = sess[s]
        /\ sess'[ses[p]].saved = sess[ses[p]].saved
        /\ sess'[ses[p]].active = TRUE
        /\ sess'[ses[p]].last = val[p]
    BY <1>2, <2>2 DEF Session
  <2>w. /\ pc'[p] = l /\ DNSPhase(p)
        /\ AllDNSServers' = AllDNSServers
        /\ Reapplied' = Reapplied /\ Fitting' = Fitting
        /\ Calm(p) => sysDNS \in Fitting
    BY <1>1, <2>1, <2>3, PhaseWorld
  <2>4. DNSPhase(p)' /\ ~Calm(p)' /\ FileWritten(p)
    BY <1>2, <2>1, <2>2, <2>3, <2>w
       DEF DNSPhase, DisconnectPCs, Calm, Quiescent, OwnCounts, FileWritten
  <2>5. QED
    BY <1>1, <1>2, <1>3, <2>1, <2>2, <2>3, <2>4, PhaseWorld, PhaseKeeps
       DEF ConnectPCs
<1>9. CASE CaptureAndJournal(p)
  <2>1. /\ pc[p] = "dnsset" /\ pc' = [pc EXCEPT ![p] = "journaled"]
        /\ UNCHANGED <<sess, sysDNS, val>>
        /\ preMod' = IF preMod = {} THEN SavedDNSSnapshot(ses[p]) ELSE preMod
        /\ journal' = [journal EXCEPT ![tgt[p]] =
                          [present |-> TRUE, pre |-> SavedDNSSnapshot(ses[p])]]
    BY <1>9 DEF CaptureAndJournal, Goto, locals
  <2>2. /\ DNS[tgt[p]] = {} => preMod' = preMod
        /\ DNS[tgt[p]] # {} => /\ preMod' # {}
                               /\ preMod' \in {preMod, {sess[ses[p]].saved}}
                               /\ preMod # {} => preMod' = preMod
                               /\ sess[ses[p]].saved \in Fitting
    BY <1>1, <1>2, <2>1, PhaseWorld DEF DNSPhase, SavedDNSSnapshot
  <2>3. preMod' \subseteq Clean /\ (AllDNSServers # {} => preMod' # {})
    <3>1. AllDNSServers = {} => Fitting = Clean
      BY DEF Fitting
    <3>2. QED
      BY <1>1, <1>2, <2>1, <2>2, <3>1, PhaseWorld
  <2>w. /\ pc'[p] = "journaled" /\ DNSPhase(p)
        /\ AllDNSServers' = AllDNSServers
        /\ Reapplied' = Reapplied /\ Fitting' = Fitting
        /\ Calm(p) => sysDNS \in Fitting
    BY <1>1, <2>1, PhaseWorld
  <2>4. DNSPhase(p)' /\ (Calm(p)' => Calm(p))
    BY <1>2, <2>1, <2>2, <2>w
       DEF DNSPhase, DisconnectPCs, Calm, Quiescent, OwnCounts
  <2>5. /\ \A t \in Connected : journal'[t].present
        /\ journal'[tgt[p]].present
    BY <1>1, <1>2, <2>1, PhaseWorld DEF Connected
  <2>6. QED
    BY <1>1, <1>2, <1>3, <2>1, <2>3, <2>4, <2>5, PhaseWorld, PhaseKeeps
       DEF ConnectPCs
<1>10. CASE Rollback(p)
  <2>1. /\ pc[p] = "rollback" /\ pc' = [pc EXCEPT ![p] = "failed"]
        /\ UNCHANGED <<preMod, journal>>
        /\ sysDNS' = IF sess[ses[p]].active THEN sess[ses[p]].saved ELSE sysDNS
        /\ \A s \in Sessions : s # ses[p] => sess'[s] = sess[s]
        /\ ~sess'[ses[p]].active
        /\ sess'[ses[p]].last = {}
    BY <1>2, <1>10 DEF Rollback, Goto, manager, WithoutDNS, WithoutRoutes,
                       Session
  <2>w. /\ pc'[p] = "failed" /\ DNSPhase(p)
        /\ AllDNSServers' = AllDNSServers
        /\ Reapplied' = Reapplied /\ Fitting' = Fitting
        /\ Calm(p) => sysDNS \in Fitting
    BY <1>1, <2>1, PhaseWorld
  <2>2. DNSPhase(p)' /\ ~FileWritten(p)' /\ sysDNS' \in Fitting
    BY <1>2, <2>1, <2>w
       DEF DNSPhase, DisconnectPCs, Calm, FileWritten
  <2>3. QED
    BY <1>1, <1>2, <1>3, <2>1, <2>2, PhaseWorld, PhaseKeeps DEF ConnectPCs
<1>11. QED
  BY <1>4, <1>5, <1>6, <1>7, <1>8, <1>9, <1>10 DEF ConnectPhase

(* The phases of a disconnect.  The last tunnel with servers gives back what
   the first one captured; before that, the servers that remain are set
   through a tunnel that has some. *)
LEMMA DisconnectPhaseDNS ==
    ASSUME Known, NEW p \in Callers, DisconnectPhase(p),
           ReappliesThroughItsOwn, ~ReapplyRemaining(p),
           UNCHANGED <<op, connectMu>>
    PROVE  DInv'
<1>1. /\ pc[p] \in DisconnectPCs /\ pc[p] \in OwnedPCs
      /\ UNCHANGED <<state, cur, tgt, ses, helper>>
  BY DEF DisconnectPhase, OwnedPCs, DisconnectPCs, RemoveRoutes, CloseEngine,
         ReadRemaining, ReadPreMod, RestoreLast, ClearPreMod, PickRemaining,
         ReapplyRemaining, manager, locals, process
<1>2. /\ ses[p] \in Sessions /\ sess[ses[p]] \in Session
      /\ sess \in [Sessions -> Session]
      /\ tgt[p] \in Tunnels /\ tgt[p] \notin Connected
      /\ tgt'[p] = tgt[p] /\ ses'[p] = ses[p]
  BY <1>1, OwnerApart
<1>3. DisconnectPCs \subseteq OwnedPCs
  BY DEF OwnedPCs
<1>4. FileWritten(p)
  BY <1>1 DEF FileWritten
<1>5. CASE RemoveRoutes(p) \/ CloseEngine(p)
  <2>1. PICK l \in {"unrouted", "closed"} : pc' = [pc EXCEPT ![p] = l]
    BY <1>5 DEF RemoveRoutes, CloseEngine, Goto
  <2>2. /\ UNCHANGED <<journal, preMod, sysDNS>>
        /\ pc[p] \in {"down", "unrouted"}
        /\ pc[p] = "unrouted" => sess'[ses[p]].last = sess[ses[p]].last
        /\ pc[p] = "down" => sess'[ses[p]].last = {}
        /\ \A s \in Sessions : s # ses[p] => sess'[s] = sess[s]
        /\ sess'[ses[p]].active = sess[ses[p]].active
    <3>1. CASE RemoveRoutes(p)
      BY <1>2, <3>1 DEF RemoveRoutes, WithoutRoutes, manager, machine, Session
    <3>2. CASE CloseEngine(p)
      BY <1>2, <3>2 DEF CloseEngine, manager, machine, Session
    <3>3. QED BY <1>5, <3>1, <3>2
  <2>w. /\ pc'[p] = l /\ DNSPhase(p)
        /\ AllDNSServers' = AllDNSServers
        /\ Calm(p) => sysDNS \in Fitting
    BY <1>1, <2>1, <2>2, PhaseWorld
  <2>3. DNSPhase(p)' /\ (Calm(p)' => Calm(p))
    BY <1>2, <2>1, <2>2, <2>w
       DEF DNSPhase, Calm, Quiescent, OwnCounts, DisconnectPCs
  <2>4. QED
    BY <1>1, <1>2, <1>3, <1>4, <2>1, <2>2, <2>3, PhaseWorld, PhaseKeeps
       DEF DisconnectPCs
<1>6. CASE ReadRemaining(p)
  <2>1. PICK l \in {"last", "others"} :
           /\ pc' = [pc EXCEPT ![p] = l]
           /\ l = "last" <=> AllDNSServers = {}
    BY <1>6 DEF ReadRemaining, Goto
  <2>2. /\ UNCHANGED <<sess, journal, preMod, sysDNS>>
        /\ pc[p] = "closed" /\ val'[p] = AllDNSServers
    BY <1>6 DEF ReadRemaining, manager, machine, Known, Inv, TypeOK
  <2>w. /\ pc'[p] = l /\ DNSPhase(p)
        /\ AllDNSServers' = AllDNSServers
        /\ Calm(p) => sysDNS \in Fitting
    BY <1>1, <2>1, <2>2, PhaseWorld
  <2>3. DNSPhase(p)' /\ (Calm(p)' => Calm(p))
    BY <1>2, <2>1, <2>2, <2>w
       DEF DNSPhase, Calm, Quiescent, OwnCounts, DisconnectPCs
  <2>4. QED
    BY <1>1, <1>2, <1>3, <1>4, <2>1, <2>2, <2>3, PhaseWorld, PhaseKeeps
       DEF DisconnectPCs
<1>7. CASE ReadPreMod(p)
  <2>1. /\ pc' = [pc EXCEPT ![p] = "restore"] /\ pc[p] = "last"
        /\ UNCHANGED <<sess, journal, preMod, sysDNS>>
        /\ snap'[p] = preMod
    BY <1>7 DEF ReadPreMod, Goto, manager, machine, Known, Inv, TypeOK
  <2>w. /\ pc'[p] = "restore" /\ DNSPhase(p)
        /\ AllDNSServers' = AllDNSServers
        /\ Calm(p) => sysDNS \in Fitting
    BY <1>1, <2>1, PhaseWorld
  <2>2. DNSPhase(p)' /\ (Calm(p)' => Calm(p))
    BY <1>2, <2>1, <2>w
       DEF DNSPhase, Calm, Quiescent, OwnCounts, DisconnectPCs
  <2>3. QED
    BY <1>1, <1>2, <1>3, <1>4, <2>1, <2>2, PhaseWorld, PhaseKeeps
       DEF DisconnectPCs
<1>8. CASE RestoreLast(p)
  <2>1. /\ pc' = [pc EXCEPT ![p] = "clear"] /\ pc[p] = "restore"
        /\ UNCHANGED <<journal, preMod>>
        /\ sysDNS' = IF snap[p] # {} THEN The(snap[p])
                     ELSE IF sess[ses[p]].active THEN sess[ses[p]].saved
                     ELSE sysDNS
        /\ \A s \in Sessions : s # ses[p] => sess'[s] = sess[s]
        /\ sess'[ses[p]].last = {}
    BY <1>2, <1>8 DEF RestoreLast, Goto, manager, WithoutDNS, WithoutRoutes,
                      Session
  <2>w. /\ pc'[p] = "clear" /\ DNSPhase(p)
        /\ AllDNSServers' = AllDNSServers
        /\ preMod \subseteq Clean
        /\ Calm(p) => sysDNS \in Fitting
    BY <1>1, <2>1, PhaseWorld
  <2>2. /\ AllDNSServers = {} /\ snap[p] = preMod
        /\ IF DNS[tgt[p]] = {} THEN ~sess[ses[p]].active /\ Calm(p)
           ELSE preMod # {}
    BY <2>1, <2>w DEF DNSPhase, Calm, OwnCounts
  <2>3. preMod # {} => The(preMod) \in Clean
    BY <2>w DEF The
  <2>4. sysDNS' \in Fitting
    BY <2>1, <2>2, <2>3, <2>w DEF Fitting
  <2>5. DNSPhase(p)'
    BY <2>1, <2>2, <2>w, <1>2 DEF DNSPhase, DisconnectPCs
  <2>6. QED
    BY <1>1, <1>2, <1>3, <1>4, <2>1, <2>4, <2>5, PhaseWorld, PhaseKeeps
       DEF DisconnectPCs
<1>9. CASE ClearPreMod(p)
  <2>1. /\ pc' = [pc EXCEPT ![p] = "finish"] /\ pc[p] = "clear"
        /\ UNCHANGED <<sess, journal, sysDNS>>
        /\ preMod' = {}
    BY <1>9 DEF ClearPreMod, Goto, machine
  <2>w. /\ pc'[p] = "finish" /\ DNSPhase(p)
        /\ AllDNSServers' = AllDNSServers
        /\ Calm(p) => sysDNS \in Fitting
    BY <1>1, <2>1, PhaseWorld
  <2>2. DNSPhase(p)' /\ Calm(p) /\ AllDNSServers = {}
    BY <1>2, <2>1, <2>w DEF DNSPhase, Calm, Quiescent, DisconnectPCs
  <2>3. QED
    BY <1>1, <1>2, <1>3, <1>4, <2>1, <2>2, PhaseWorld, PhaseKeeps
       DEF DisconnectPCs
<1>10. CASE PickRemaining(p)
  <2>1. pc[p] = "others" /\ UNCHANGED <<sess, journal, sysDNS, preMod, val>>
    BY <1>10 DEF PickRemaining, manager, machine
  <2>2. AllDNSServers # {} /\ val[p] = AllDNSServers /\ sess[ses[p]].last = {}
    BY <2>1 DEF Known, DInv, DNSPhase, DisconnectPCs
  <2>3. \E u \in Connected \ {tgt[p]} : TRUE
    BY <1>2, <2>2 DEF AllDNSServers
  <2>4. PICK u \in Connected \ {tgt[p]} :
           /\ rem' = [rem EXCEPT ![p] = cur[u]]
           /\ pc' = [pc EXCEPT ![p] = "reapply"]
    <3> DEFINE others == {cur[u] : u \in Connected \ {tgt[p]}}
    <3>1. others # {}
      BY <2>3
    <3>2. /\ \E s \in others : rem' = [rem EXCEPT ![p] = s]
          /\ pc' = [pc EXCEPT ![p] = "reapply"]
      BY <1>10, <3>1 DEF PickRemaining, Goto
    <3>3. QED BY <3>2
  <2>5. rem[p] = NoSession /\ rem'[p] = cur[u] /\ cur[u] # NoSession
    BY <2>1, <2>4, OwnerApart, <1>1, ConstantsAssumption
       DEF Known, OnlyPicked, Inv, TypeOK
  <2>6. \E t \in Resolvers : cur[t] = rem'[p]
    BY <2>5 DEF ReappliesThroughItsOwn, Resolvers
  <2>w. /\ pc'[p] = "reapply" /\ Resolvers' = Resolvers
        /\ AllDNSServers' = AllDNSServers
    BY <1>1, <2>1, <2>4, PhaseWorld
  <2>7. DNSPhase(p)' /\ ~Calm(p)'
    BY <1>1, <1>2, <2>1, <2>2, <2>6, <2>w
       DEF DNSPhase, Calm, Quiescent, OwnCounts, DisconnectPCs
  <2>8. QED
    BY <1>1, <1>2, <1>3, <1>4, <2>1, <2>4, <2>7, PhaseWorld, PhaseKeeps
       DEF DisconnectPCs
<1>11. QED
  BY <1>5, <1>6, <1>7, <1>8, <1>9, <1>10 DEF DisconnectPhase

(* SetDNS on the tunnel that was picked: the services carry the union of what
   remains, and that tunnel remembers it. *)
LEMMA ReapplyDNS ==
    ASSUME Known, NEW p \in Callers, ReapplyRemaining(p),
           UNCHANGED <<op, connectMu>>
    PROVE  DInv'
<1> USE DEF Known, DInv
<1>1. /\ pc[p] = "reapply" /\ pc' = [pc EXCEPT ![p] = "finish"]
      /\ UNCHANGED <<state, cur, tgt, ses, helper, preMod, journal, todo>>
      /\ sysDNS' = val[p]
  BY DEF ReapplyRemaining, Goto, manager, locals, process
<1>2. pc[p] \in OwnedPCs /\ pc[p] \in DisconnectPCs /\ FileWritten(p)
  BY <1>1 DEF OwnedPCs, DisconnectPCs, FileWritten
<1>3. /\ ses[p] \in Sessions /\ tgt[p] \in Tunnels
      /\ sess \in [Sessions -> Session]
      /\ \A t \in Connected : cur[t] \in Sessions /\ cur[t] # ses[p]
      /\ helper = "running" /\ op[p] # "none" /\ connectMu = p
      /\ \A q \in Callers : q # p => pc[q] = "idle"
  BY <1>1, <1>2, OwnerApart, Alone
<1>4. /\ AllDNSServers # {} /\ val[p] = AllDNSServers /\ sess[ses[p]].last = {}
      /\ \E t \in Resolvers : cur[t] = rem[p]
  BY <1>1, <1>2 DEF DNSPhase
<1>5. PICK u \in Resolvers : cur[u] = rem[p]
  BY <1>4
<1>6. /\ u \in Connected /\ cur[u] \in Sessions /\ DNS[u] # {}
      /\ \A t \in Connected : t # u => cur[t] # cur[u]
  BY <1>3, <1>5 DEF Resolvers, RInv, SessionsApart, Connected
<1>7. /\ \A s \in Sessions : s # cur[u] => sess'[s] = sess[s]
      /\ sess'[cur[u]].last = val[p]
  BY <1>3, <1>5, <1>6 DEF ReapplyRemaining, Session
<1>8. /\ pc'[p] = "finish"
      /\ \A q \in Callers : q # p => pc'[q] = "idle"
  BY <1>1, <1>3 DEF Inv, TypeOK
<1>9. /\ Connected' = Connected /\ AllDNSServers' = AllDNSServers
      /\ Resolvers' = Resolvers
  BY <1>1 DEF Connected, AllDNSServers, Resolvers
<1>10. Serial'
  BY <1>1, <1>3, <1>8 DEF Serial
<1>11. Carriers'
  <2>1. ASSUME NEW t \in Connected, DNS[t] = {}
        PROVE  ~sess'[cur[t]].active /\ sess'[cur[t]].last = {}
    BY <1>3, <1>6, <1>7, <2>1 DEF Carriers
  <2>2. ASSUME NEW s \in Sessions, sess'[s].last # {}
        PROVE  \/ \E t \in Resolvers : cur[t] = s
               \/ \E q \in Callers : pc'[q] \in OwnedPCs /\ ses[q] = s
    <3>1. CASE s = cur[u]
      BY <1>5, <3>1
    <3>2. CASE s # cur[u]
      <4>1. sess[s].last # {}
        BY <1>7, <2>2, <3>2
      <4>2. \A q \in Callers : pc[q] \in OwnedPCs => pc'[q] \in OwnedPCs
        BY <1>3, <1>8 DEF OwnedPCs, ConnectPCs, DisconnectPCs
      <4>3. QED
        BY <4>1, <4>2 DEF Carriers
    <3>3. QED BY <3>1, <3>2
  <2>3. QED
    BY <1>1, <1>9, <2>1, <2>2 DEF Carriers
<1>12. Captured'
  BY <1>1, <1>9 DEF Captured, Clean
<1>13. \A q \in Callers : q # p => DNSPhase(q)' /\ ~FileWritten(q)'
  BY <1>8 DEF DNSPhase, FileWritten, DisconnectPCs
<1>14. Files'
  BY <1>1, <1>2, <1>9, <1>13 DEF Files
<1>15. Recovering'
  BY <1>1, <1>3 DEF Recovering
<1>16. Settled'
  BY <1>1, <1>4, <1>9 DEF Settled, Fitting
<1>17. DNSPhase(p)'
  <2>1. ses'[p] = ses[p] /\ sess'[ses[p]] = sess[ses[p]]
    BY <1>1, <1>3, <1>6, <1>7
  <2>2. QED
    BY <1>4, <1>8, <2>1 DEF DNSPhase, DisconnectPCs
<1>18. QED
  BY <1>10, <1>11, <1>12, <1>13, <1>14, <1>15, <1>16, <1>17

(* The tunnel joins the connected ones: what SetDNS pushed is what they call
   for now. *)
LEMMA CommitDNS ==
    ASSUME Known, NEW p \in Callers, CommitConnect(p),
           UNCHANGED <<op, connectMu>>
    PROVE  DInv'
<1> USE DEF Known, DInv
<1> DEFINE t == tgt[p]
<1>1. pc[p] = "journaled" /\ pc[p] \in OwnedPCs /\ pc[p] \in ConnectPCs
      /\ FileWritten(p)
  BY DEF CommitConnect, OwnedPCs, ConnectPCs, FileWritten
<1>2. /\ ses[p] \in Sessions /\ t \in Tunnels /\ cur[t] = ses[p]
      /\ sess \in [Sessions -> Session]
      /\ helper = "running" /\ op[p] # "none" /\ connectMu = p
      /\ \A q \in Callers : q # p => pc[q] = "idle"
      /\ state[t] = "connecting"
  BY <1>1, OwnerApart, Alone DEF Inv, Ownership
<1>3. /\ state' = [state EXCEPT ![t] = "connected"]
      /\ UNCHANGED <<cur, sess, sysDNS, journal, preMod, helper, todo>>
      /\ \A q \in Callers : pc'[q] = "idle"
  BY <1>2 DEF CommitConnect, Return, Goto, machine, process, Inv, TypeOK
<1>4. Connected' = Connected \cup {t}
  BY <1>2, <1>3 DEF Connected, Inv, TypeOK
<1>5. AllDNSServers' = AllDNSServers \cup DNS[t]
  BY <1>4 DEF AllDNSServers
<1>6. Resolvers \subseteq Resolvers' /\ (DNS[t] # {} => t \in Resolvers')
  BY <1>4 DEF Resolvers
<1>7. DNS[t] = {} => Resolvers' = Resolvers
  BY <1>4 DEF Resolvers
<1>8. /\ Reapplied \subseteq Reapplied'
      /\ DNS[t] = {} => Reapplied' = Reapplied
  BY <1>3, <1>6, <1>7 DEF Reapplied
<1>9. /\ DNS[t] = {} => ~sess[ses[p]].active /\ sess[ses[p]].last = {}
      /\ DNS[t] # {} => sysDNS \in {DNS[t] \cup AllDNSServers} \cup Reapplied
      /\ DNS[t] # {} => preMod # {}
  BY <1>1 DEF DNSPhase
<1>10. Serial'
  BY <1>3 DEF Serial
<1>11. Carriers'
  <2>1. ASSUME NEW s \in Sessions, sess[s].last # {}
        PROVE  \E v \in Resolvers' : cur[v] = s
    <3>1. CASE s = ses[p]
      BY <1>2, <1>6, <1>9, <2>1, <3>1
    <3>2. CASE s # ses[p]
      <4>1. \A q \in Callers : pc[q] \in OwnedPCs => q = p
        BY <1>2 DEF OwnedPCs, ConnectPCs, DisconnectPCs
      <4>2. QED
        BY <1>6, <2>1, <3>2, <4>1 DEF Carriers
    <3>3. QED BY <3>1, <3>2
  <2>2. QED
    BY <1>2, <1>3, <1>4, <1>9, <2>1 DEF Carriers
<1>12. Captured'
  BY <1>3, <1>5, <1>9 DEF Captured, Clean
<1>13. \A q \in Callers : DNSPhase(q)' /\ ~FileWritten(q)'
  BY <1>3 DEF DNSPhase, FileWritten, DisconnectPCs
<1>14. Files'
  BY <1>1, <1>3, <1>4, <1>13 DEF Files
<1>15. Recovering'
  BY <1>2, <1>3 DEF Recovering
<1>16. sysDNS \in Fitting'
  <2>1. CASE DNS[t] = {}
    <3>1. Calm(p)
      BY <1>1, <2>1 DEF Calm, OwnCounts
    <3>2. sysDNS \in Fitting
      BY <1>2, <3>1, Alone, <1>1 DEF Settled
    <3>3. AllDNSServers' = AllDNSServers /\ Reapplied' = Reapplied
      BY <1>5, <1>8, <2>1
    <3>4. QED
      BY <3>2, <3>3 DEF Fitting
  <2>2. CASE DNS[t] # {}
    BY <1>5, <1>8, <1>9, <2>2 DEF Fitting
  <2>3. QED BY <2>1, <2>2
<1>17. Settled'
  BY <1>3, <1>16 DEF Settled
<1>18. QED
  BY <1>10, <1>11, <1>12, <1>13, <1>14, <1>15, <1>17

(* A call gives its entry up, with the services as the connected tunnels call
   for. *)
LEMMA ReleaseDNS ==
    ASSUME Known, NEW p \in Callers, FailConnect(p) \/ FinishDisconnect(p),
           UNCHANGED <<op, connectMu>>
    PROVE  DInv'
<1> USE DEF Known, DInv
<1> DEFINE t == tgt[p]
<1>1. pc[p] \in {"failed", "finish"} /\ pc[p] \in OwnedPCs
  BY DEF FailConnect, FinishDisconnect, OwnedPCs, ConnectPCs, DisconnectPCs
<1>2. /\ ses[p] \in Sessions /\ t \in Tunnels /\ t \notin Connected
      /\ cur[t] = ses[p]
      /\ \A u \in Connected : cur[u] \in Sessions /\ cur[u] # ses[p]
      /\ helper = "running"
      /\ \A q \in Callers : q # p => pc[q] = "idle" /\ Calm(q)
  BY <1>1, OwnerApart, Alone
<1>3. /\ RemoveEntry(t) /\ CollectSessions
      /\ \A q \in Callers : pc'[q] = "idle"
      /\ UNCHANGED <<sysDNS, preMod, helper, todo>>
      /\ \A u \in Tunnels : u # t => journal'[u] = journal[u]
  BY <1>2 DEF FailConnect, FinishDisconnect, Return, Goto, machine, process,
              Inv, TypeOK
<1>4. /\ \A u \in Tunnels : u # t => state'[u] = state[u] /\ cur'[u] = cur[u]
      /\ state'[t] = "disconnected"
  BY <1>2, <1>3 DEF RemoveEntry, Inv, TypeOK
<1>5. Connected' = Connected
  BY <1>2, <1>4 DEF Connected
<1>6. \A u \in Connected : cur'[u] = cur[u] /\ sess'[cur[u]] = sess[cur[u]]
  BY <1>2, <1>3, <1>4, Collected DEF Connected
<1>7. /\ AllDNSServers' = AllDNSServers /\ Resolvers' = Resolvers
      /\ Fitting' = Fitting
  BY <1>5, <1>6, Frame
<1>8. sess[ses[p]].last = {} /\ Calm(p)
  BY <1>1 DEF DNSPhase, DisconnectPCs, Calm, Quiescent
<1>9. Serial'
  BY <1>3 DEF Serial
<1>10. Carriers'
  <2>1. ASSUME NEW s \in Sessions, sess'[s].last # {}
        PROVE  \E u \in Resolvers : cur[u] = s
    <3>1. sess'[s] = sess[s]
      BY <1>3, <2>1, Collected DEF NewSession
    <3>2. s # ses[p]
      BY <1>8, <2>1, <3>1
    <3>3. \A q \in Callers : pc[q] \in OwnedPCs => q = p
      BY <1>2 DEF OwnedPCs, ConnectPCs, DisconnectPCs
    <3>4. QED
      BY <2>1, <3>1, <3>2, <3>3 DEF Carriers
  <2>2. Resolvers \subseteq Connected
    BY DEF Resolvers
  <2>3. QED
    BY <1>5, <1>6, <1>7, <2>1, <2>2 DEF Carriers
<1>11. Captured'
  BY <1>3, <1>7 DEF Captured, Clean
<1>12. \A q \in Callers : DNSPhase(q)' /\ ~FileWritten(q)'
  BY <1>3 DEF DNSPhase, FileWritten, DisconnectPCs
<1>13. Files'
  BY <1>2, <1>3, <1>5, <1>12 DEF Files, Connected
<1>14. Recovering'
  BY <1>2, <1>3 DEF Recovering
<1>15. Settled'
  BY <1>2, <1>3, <1>7, <1>8 DEF Settled
<1>16. QED
  BY <1>9, <1>10, <1>11, <1>12, <1>13, <1>14, <1>15

(* The tunnel leaves the connected ones: its servers are still in the services,
   and the Manager's capture is there. *)
LEMMA BeginDisconnectDNS ==
    ASSUME Known, NEW p \in Callers, BeginDisconnect(p),
           UNCHANGED <<op, connectMu>>
    PROVE  DInv'
<1> USE DEF Known, DInv
<1> DEFINE t == tgt[p]
<1>1. /\ pc[p] = "waiting" /\ pc' = [pc EXCEPT ![p] = "down"]
      /\ state[t] = "connected" /\ state' = [state EXCEPT ![t] = "disconnecting"]
      /\ ses' = [ses EXCEPT ![p] = cur[t]]
      /\ UNCHANGED <<cur, sess, sysDNS, journal, preMod, tgt, helper, todo>>
  BY DEF BeginDisconnect, Goto, machine, process
<1>2. /\ t \in Tunnels /\ t \in Connected /\ cur[t] \in Sessions
      /\ helper = "running" /\ op[p] # "none" /\ connectMu = p
      /\ \A q \in Callers : q # p => pc[q] = "idle" /\ Calm(q)
      /\ Calm(p)
  BY <1>1, Alone
     DEF Inv, WaitsForTunnel, EntryHasSession, Connected, Calm, Quiescent
<1>3. /\ pc'[p] = "down" /\ ses'[p] = cur[t]
      /\ \A q \in Callers : q # p => pc'[q] = "idle"
  BY <1>1, <1>2 DEF Inv, TypeOK
<1>4. Connected' = Connected \ {t}
  BY <1>1, <1>2 DEF Connected, Inv, TypeOK
<1>5. /\ AllDNSServers' \subseteq AllDNSServers
      /\ DNS[t] = {} => AllDNSServers' = AllDNSServers
      /\ DNS[t] # {} => AllDNSServers # {}
  BY <1>2, <1>4 DEF AllDNSServers
<1>6. /\ Resolvers' = Resolvers \ {t}
      /\ DNS[t] = {} => Resolvers' = Resolvers
  BY <1>4 DEF Resolvers
<1>7. DNS[t] = {} => Fitting' = Fitting
  <2>1. DNS[t] = {} => Reapplied' = Reapplied
    BY <1>1, <1>6 DEF Reapplied
  <2>2. QED
    BY <1>5, <2>1 DEF Fitting
<1>8. Serial'
  BY <1>1, <1>2, <1>3 DEF Serial
<1>9. Carriers'
  <2>1. ASSUME NEW s \in Sessions, sess[s].last # {}
        PROVE  \/ \E u \in Resolvers' : cur[u] = s
               \/ \E q \in Callers : pc'[q] \in OwnedPCs /\ ses'[q] = s
    <3>1. \A q \in Callers : pc[q] \notin OwnedPCs
      BY <1>1, <1>2 DEF OwnedPCs, ConnectPCs, DisconnectPCs
    <3>2. PICK u \in Resolvers : cur[u] = s
      BY <2>1, <3>1 DEF Carriers
    <3>3. CASE u = t
      BY <1>3, <3>2, <3>3 DEF OwnedPCs, DisconnectPCs
    <3>4. CASE u # t
      BY <1>6, <3>2, <3>4
    <3>5. QED BY <3>3, <3>4
  <2>2. QED
    BY <1>1, <1>4, <2>1 DEF Carriers
<1>10. Captured'
  BY <1>1, <1>5 DEF Captured, Clean
<1>11. \A q \in Callers : q # p => DNSPhase(q)' /\ ~FileWritten(q)'
  BY <1>3 DEF DNSPhase, FileWritten, DisconnectPCs
<1>12. Files'
  BY <1>1, <1>2, <1>4, <1>11 DEF Files
<1>13. Recovering'
  BY <1>1, <1>2 DEF Recovering
<1>14. Settled'
  <2>1. sysDNS \in Fitting
    BY <1>2 DEF Settled
  <2>2. Calm(p)' => DNS[t] = {}
    BY <1>1, <1>3 DEF Calm, Quiescent, OwnCounts
  <2>3. QED
    BY <1>1, <1>7, <2>1, <2>2 DEF Settled
<1>15. DNSPhase(p)'
  <2>1. IF DNS[t] = {} THEN ~sess[cur[t]].active /\ sess[cur[t]].last = {}
        ELSE preMod # {}
    BY <1>2, <1>5 DEF Carriers, Captured
  <2>2. QED
    BY <1>1, <1>3, <2>1 DEF DNSPhase, DisconnectPCs
<1>16. QED
  BY <1>8, <1>9, <1>10, <1>11, <1>12, <1>13, <1>14, <1>15

(* A call starts waiting, gives up, or ends: nothing the tunnels share
   changes. *)
LEMMA StillDNS ==
    ASSUME Known, UNCHANGED <<manager, sess, machine, process>>, Serial',
           \A q \in Callers : pc[q] \in {"idle", "waiting"}
                              /\ pc'[q] \in {"idle", "waiting"}
    PROVE  DInv'
<1> USE DEF Known, DInv
<1>1. UNCHANGED <<state, cur, preMod, sess, sysDNS, journal, helper, todo>>
  BY DEF manager, machine, process
<1>2. Connected' = Connected
  BY <1>1 DEF Connected
<1>3. /\ AllDNSServers' = AllDNSServers /\ Resolvers' = Resolvers
      /\ Fitting' = Fitting
  BY <1>1, <1>2, Frame
<1>4. \A q \in Callers : DNSPhase(q)' /\ ~FileWritten(q)' /\ Calm(q)
  BY DEF DNSPhase, FileWritten, DisconnectPCs, Calm, Quiescent
<1>5. Carriers'
  <2>1. \A q \in Callers : pc[q] \notin OwnedPCs
    BY DEF OwnedPCs, ConnectPCs, DisconnectPCs
  <2>2. QED
    BY <1>1, <1>2, <1>3, <2>1 DEF Carriers
<1>6. Captured' /\ Recovering'
  BY <1>1, <1>3 DEF Captured, Clean, Recovering
<1>7. Files'
  BY <1>1, <1>2, <1>4 DEF Files
<1>8. Settled'
  BY <1>1, <1>3, <1>4 DEF Settled
<1>9. QED
  BY <1>4, <1>5, <1>6, <1>7, <1>8

(* A connect claims its entry: its session is a new one. *)
LEMMA ClaimDNS ==
    ASSUME Known, NEW p \in Callers, NEW t \in Tunnels, BeginConnect(p, t),
           Serial', \A q \in Callers : pc[q] = "idle"
    PROVE  DInv'
<1> USE DEF Known, DInv
<1>1. PICK s \in Sessions :
         /\ Unreferenced(s)
         /\ cur' = [cur EXCEPT ![t] = s]
         /\ ses' = [ses EXCEPT ![p] = s]
         /\ sess' = [sess EXCEPT ![s] = NewSession]
  BY DEF BeginConnect
<1>2. /\ state[t] = "disconnected"
      /\ state' = [state EXCEPT ![t] = "connecting"]
      /\ pc' = [pc EXCEPT ![p] = "claimed"]
      /\ UNCHANGED <<preMod, sysDNS, journal, helper, todo>>
  BY DEF BeginConnect, Goto, machine, process
<1>3. /\ sess'[s] = NewSession /\ ses'[p] = s
      /\ \A x \in Sessions : x # s => sess'[x] = sess[x]
      /\ pc'[p] = "claimed"
      /\ \A q \in Callers : q # p => pc'[q] = "idle"
  BY <1>1, <1>2 DEF Inv, TypeOK
<1>4. Connected' = Connected
  BY <1>2 DEF Connected, Inv, TypeOK
<1>5. \A u \in Connected : /\ cur[u] \in Sessions /\ cur[u] # s
                           /\ cur'[u] = cur[u] /\ sess'[cur[u]] = sess[cur[u]]
  <2>1. \A u \in Connected : u \in Tunnels /\ u # t /\ cur[u] \in Sessions
    BY <1>2 DEF Connected, Inv, EntryHasSession
  <2>2. QED
    BY <1>1, <1>3, <2>1 DEF Unreferenced, Inv, TypeOK
<1>6. /\ AllDNSServers' = AllDNSServers /\ Resolvers' = Resolvers
      /\ Fitting' = Fitting
  BY <1>4, <1>5, Frame
<1>7. NewSession.last = {} /\ NewSession.active = FALSE
  BY DEF NewSession
<1>8. Carriers'
  <2>1. \A q \in Callers : pc[q] \notin OwnedPCs
    BY DEF OwnedPCs, ConnectPCs, DisconnectPCs
  <2>2. ASSUME NEW x \in Sessions, sess'[x].last # {}
        PROVE  \E u \in Resolvers : cur'[u] = x
    <3>1. x # s /\ sess[x].last # {}
      BY <1>3, <1>7, <2>2
    <3>2. PICK u \in Resolvers : cur[u] = x
      BY <2>1, <3>1 DEF Carriers
    <3>3. u \in Connected
      BY DEF Resolvers
    <3>4. QED
      BY <1>5, <3>2, <3>3
  <2>3. QED
    BY <1>4, <1>5, <1>6, <2>2 DEF Carriers
<1>9. Captured'
  BY <1>2, <1>6 DEF Captured, Clean
<1>10. \A q \in Callers : q # p => DNSPhase(q)' /\ ~FileWritten(q)'
  BY <1>3 DEF DNSPhase, FileWritten, DisconnectPCs
<1>11. DNSPhase(p)' /\ ~FileWritten(p)'
  BY <1>3, <1>7 DEF DNSPhase, FileWritten, DisconnectPCs
<1>12. Files'
  BY <1>2, <1>4, <1>10, <1>11 DEF Files
<1>13. Recovering'
  BY <1>2, <1>3 DEF Serial, Recovering
<1>14. Settled'
  <2>1. \A q \in Callers : Calm(q)
    BY DEF Calm, Quiescent
  <2>2. QED
    BY <1>2, <1>6, <2>1 DEF Settled
<1>15. QED
  BY <1>8, <1>9, <1>10, <1>11, <1>12, <1>13, <1>14

(* An operation starts under connectMu, with no other one under way. *)
LEMMA OperationDNS ==
    ASSUME Known, ~FreeTeardown, NEW p \in Callers, Operation(p),
           HInv
    PROVE  DInv'
<1> USE DEF Known, DInv, HInv, HelperPart
<1>1. PICK t \in Tunnels :
         HandleConnect(p, t) \/ Reconnect(p, t) \/ HandleDisconnect(p, t)
  BY DEF Operation, Teardown, AutoDisconnect
<1>2. /\ helper = "running" /\ connectMu = NoCaller /\ connectMu' = p
      /\ \E o \in Ops \ {"none"} : op' = [op EXCEPT ![p] = o]
      /\ BeginConnect(p, t) \/ CallDisconnect(p, t)
  BY <1>1 DEF HandleConnect, Reconnect, HandleDisconnect, Enter, Lock, Ops,
              LockedOps, Connects
<1>3. \A q \in Callers : op[q] = "none" /\ pc[q] = "idle"
  BY <1>2, HelperAssumption DEF Serial
<1>4. /\ helper' = "running" /\ op'[p] # "none"
      /\ \A q \in Callers : q # p => op'[q] = "none"
  BY <1>2, <1>3 DEF BeginConnect, CallDisconnect, process
<1>5. \A q \in Callers : q # p => pc'[q] = "idle"
  BY <1>2, <1>3 DEF BeginConnect, CallDisconnect, Goto, Inv, TypeOK
<1>6. Serial'
  BY <1>2, <1>4, <1>5 DEF Serial
<1>7. CASE BeginConnect(p, t)
  BY <1>3, <1>6, <1>7, ClaimDNS
<1>8. CASE CallDisconnect(p, t)
  <2>1. /\ UNCHANGED <<manager, sess, machine, process>>
        /\ pc'[p] = "waiting"
    BY <1>8 DEF CallDisconnect, Goto, Inv, TypeOK
  <2>2. QED
    BY <1>3, <1>5, <1>6, <2>1, StillDNS
<1>9. QED BY <1>2, <1>7, <1>8

(* An operation goes on, or ends and unlocks. *)
LEMMA ProgressDNS ==
    ASSUME Known, HInv, NEW p \in Callers, Progress(p), ReappliesThroughItsOwn
    PROVE  DInv'
<1>1. CASE ManagerStep(p)
  <2>1. CallerStep(p) /\ UNCHANGED <<op, connectMu>>
    BY <1>1 DEF ManagerStep, helperVars, opVars
  <2>2. CASE DisconnectedMeanwhile(p) \/ DisconnectTimeout(p)
    <3>1. /\ pc[p] = "waiting" /\ UNCHANGED <<manager, sess, machine, process>>
          /\ pc' = [pc EXCEPT ![p] = "idle"]
      BY <2>2 DEF DisconnectedMeanwhile, DisconnectTimeout, Return, Goto
    <3>2. \A q \in Callers : q # p => pc[q] = "idle"
      BY <3>1, Alone
    <3>3. \A q \in Callers : pc'[q] = "idle"
      BY <3>1, <3>2 DEF Known, Inv, TypeOK
    <3>4. Serial'
      BY <2>1, <3>3 DEF Serial, Known, DInv
    <3>5. QED
      BY <3>1, <3>2, <3>3, <3>4, StillDNS
  <2>3. QED
    BY <2>1, <2>2, ConnectPhaseDNS, DisconnectPhaseDNS, ReapplyDNS, CommitDNS,
       ReleaseDNS, BeginDisconnectDNS
       DEF CallerStep, ConnectStep, DisconnectStep, ConnectPhase,
           DisconnectPhase
<1>2. CASE Finish(p)
  <2>1. /\ op[p] # "none" /\ pc[p] = "idle"
        /\ op' = [op EXCEPT ![p] = "none"]
        /\ UNCHANGED <<manager, sess, machine, process, pc>>
    BY <1>2 DEF Finish, vars
  <2>2. \A q \in Callers : q # p => op[q] = "none" /\ pc[q] = "idle"
    BY <2>1 DEF Known, DInv, Serial
  <2>3. \A q \in Callers : op'[q] = "none" /\ pc'[q] = "idle"
    BY <2>1, <2>2 DEF HInv, HelperPart
  <2>4. Serial'
    BY <2>3 DEF Serial
  <2>5. QED
    BY <2>1, <2>2, <2>3, <2>4, StillDNS
<1>3. QED BY <1>1, <1>2 DEF Progress

(* reapply rewrites what the connected tunnels call for, or what the call that
   is under way has set. *)
LEMMA NetworkChangeDNS ==
    ASSUME Known, NetworkChange
    PROVE  DInv'
<1> USE DEF Known, DInv
<1>1. PICK s \in Sessions : RouteEvent(s)
  BY DEF NetworkChange
<1>2. /\ sess[s].watch /\ sess[s].last # {} /\ sysDNS' = sess[s].last
      /\ UNCHANGED <<state, cur, preMod, sess, journal, pc, tgt, ses, rem, val,
                     snap, helper, todo, op, connectMu>>
  BY <1>1 DEF RouteEvent, NetworkChange, manager, locals, process, helperVars,
              opVars
<1>3. Connected' = Connected
  BY <1>2 DEF Connected
<1>4. /\ AllDNSServers' = AllDNSServers /\ Resolvers' = Resolvers
      /\ Reapplied' = Reapplied /\ Fitting' = Fitting
  BY <1>2, <1>3, Frame
<1>5. Serial' /\ Carriers' /\ Captured' /\ Files'
  BY <1>2, <1>3, <1>4 DEF Serial, Carriers, Captured, Clean, Files, FileWritten
<1>6. \A q \in Callers : Calm(q)' <=> Calm(q)
  BY <1>2 DEF Calm
<1>7. CASE \E t \in Resolvers : cur[t] = s
  <2>1. PICK t \in Resolvers : cur[t] = s
    BY <1>7
  <2>2. sysDNS' \in Reapplied
    BY <1>2, <2>1 DEF Reapplied
  <2>3. sysDNS' \in Fitting
    BY <2>1, <2>2, NoResolvers DEF Fitting
  <2>4. helper # "recovering"
    BY <2>1 DEF Recovering, Resolvers, Connected
  <2>5. Recovering' /\ Settled'
    BY <1>2, <1>4, <2>3, <2>4 DEF Recovering, Settled
  <2>6. ASSUME NEW q \in Callers PROVE DNSPhase(q)'
    <3>1. DNSPhase(q)
      OBVIOUS
    <3>2. QED
      BY <1>2, <1>4, <2>2, <3>1 DEF DNSPhase
  <2>7. QED
    BY <1>5, <2>5, <2>6
<1>8. CASE \E q \in Callers : pc[q] \in OwnedPCs /\ ses[q] = s
  <2>1. PICK p \in Callers : pc[p] \in OwnedPCs /\ ses[p] = s
    BY <1>8
  <2>2. /\ DNSPhase(p) /\ pc[p] # "idle" /\ helper = "running"
        /\ \A q \in Callers : q # p => pc[q] = "idle"
    BY <2>1, OwnerApart, Alone
  <2>3. /\ pc[p] \in {"dnsset", "journaled", "rollback", "down"}
        /\ pc[p] = "rollback" => sess[s].active
        /\ pc[p] # "rollback" => DNS[tgt[p]] # {}
        /\ pc[p] \in {"dnsset", "journaled"} =>
              sess[s].last = DNS[tgt[p]] \cup AllDNSServers
    BY <1>2, <2>1, <2>2
       DEF DNSPhase, OwnedPCs, ConnectPCs, DisconnectPCs
  <2>4. ~Calm(p)
    BY <2>1, <2>3 DEF Calm, Quiescent, OwnCounts
  <2>5. Recovering' /\ Settled'
    BY <1>2, <1>6, <2>2, <2>4 DEF Recovering, Settled
  <2>6. DNSPhase(p)'
    BY <1>2, <1>4, <2>1, <2>2, <2>3 DEF DNSPhase
  <2>7. \A q \in Callers : q # p => DNSPhase(q)'
    BY <1>2, <2>2 DEF DNSPhase, DisconnectPCs
  <2>8. QED
    BY <1>5, <2>5, <2>6, <2>7
<1>9. QED
  BY <1>2, <1>7, <1>8 DEF Carriers

(* The process dies: a file is on the disk if a tunnel's servers are in the
   services, and the files that are there hold what the user had. *)
LEMMA DeathDNS ==
    ASSUME Known, HelperDies, DiesWithOwnPast
    PROVE  DInv'
<1> USE DEF Known, DInv
<1>1. /\ LoseMemory /\ deaths' # deaths
      /\ op' = [p \in Callers |-> "none"]
      /\ journal' = journal
      /\ \/ sysDNS' = sysDNS
         \/ /\ helper = "running" /\ preMod # {}
            /\ sysDNS' = The(preMod)
  BY DEF HelperDies, Crash, ForceShutdown, machine
<1>2. /\ \A t \in Tunnels : state'[t] = "disconnected"
      /\ \A p \in Callers : pc'[p] = "idle" /\ op'[p] = "none"
      /\ \A s \in Sessions : sess'[s] = NewSession
      /\ preMod' = {} /\ helper' = "recovering"
      /\ todo' = {t \in Tunnels : journal[t].present}
  BY <1>1 DEF LoseMemory
<1>3. Connected' = {} /\ AllDNSServers' = {}
  BY <1>2 DEF Connected, AllDNSServers
<1>4. \A t \in Tunnels : journal'[t].pre \subseteq Clean
  BY <1>1 DEF DiesWithOwnPast, Clean
<1>5. sysDNS \in Clean \/ todo' # {}
  <2>1. CASE helper = "recovering"
    BY <1>2, <2>1 DEF Recovering, Inv, TypeOK
  <2>2. CASE helper = "running" /\ Connected # {}
    BY <1>2, <2>2 DEF Files, Connected
  <2>3. CASE helper = "running" /\ \E p \in Callers : FileWritten(p)
    <3>1. PICK p \in Callers : FileWritten(p)
      BY <2>3
    <3>2. pc[p] \in OwnedPCs
      BY <3>1 DEF FileWritten, OwnedPCs, ConnectPCs, DisconnectPCs
    <3>3. tgt[p] \in Tunnels
      BY <3>2, OwnerApart
    <3>4. QED
      BY <1>2, <3>1, <3>3 DEF Files
  <2>4. CASE /\ helper = "running" /\ Connected = {}
             /\ \A p \in Callers : ~FileWritten(p)
    <3>1. Fitting = Clean
      BY <2>4 DEF Fitting, AllDNSServers
    <3>2. ASSUME NEW p \in Callers PROVE Calm(p)
      <4>1. pc[p] \in {"idle", "waiting"} \cup ConnectPCs \cup DisconnectPCs
        BY DEF Inv, TypeOK
      <4>2. QED
        BY <2>4, <4>1 DEF FileWritten, Calm, Quiescent, ConnectPCs
    <3>3. QED
      BY <2>4, <3>1, <3>2 DEF Settled
  <2>5. QED
    BY <2>1, <2>2, <2>3, <2>4 DEF Inv, TypeOK
<1>6. sysDNS' \in Clean \/ todo' # {}
  <2>1. preMod # {} => The(preMod) \in Clean
    BY DEF Captured, The
  <2>2. QED
    BY <1>1, <1>5, <2>1
<1>7. Recovering'
  BY <1>1, <1>2, <1>4, <1>6 DEF Recovering, Clean
<1>8. Serial' /\ Settled' /\ Captured'
  BY <1>2, <1>3 DEF Serial, Settled, Captured
<1>9. Carriers'
  BY <1>2, <1>3 DEF Carriers, NewSession
<1>10. \A p \in Callers : DNSPhase(p)' /\ ~FileWritten(p)'
  BY <1>2 DEF DNSPhase, FileWritten, DisconnectPCs
<1>11. Files'
  BY <1>3, <1>10 DEF Files
<1>12. QED
  BY <1>7, <1>8, <1>9, <1>10, <1>11

(* RecoverFromCrash leaves what the last file it reads holds, or DHCP's
   servers. *)
LEMMA LaunchDNS ==
    ASSUME Known, Launch
    PROVE  DInv'
<1> USE DEF Known, DInv
<1>1. /\ helper = "recovering"
      /\ UNCHANGED <<state, cur, preMod, sess, pc, ses, tgt, op, connectMu>>
  BY DEF Launch, Recovery, FinishRecovery, RecoverTunnel, manager, locals,
         helperVars, opVars
<1>2. /\ \A t \in Tunnels : state[t] = "disconnected"
      /\ \A t \in Tunnels : journal[t].pre \subseteq Clean
      /\ \A t \in todo : journal[t].present
      /\ sysDNS \in Clean \/ todo # {}
  BY <1>1 DEF Recovering
<1>3. \A p \in Callers : pc'[p] = "idle" /\ pc[p] = "idle"
  BY <1>1 DEF Serial
<1>4. /\ Connected' = {} /\ Connected = {}
      /\ AllDNSServers' = {} /\ AllDNSServers = {} /\ Fitting' = Clean
  BY <1>1, <1>2 DEF Connected, AllDNSServers, Fitting, Clean
<1>5. \A p \in Callers : DNSPhase(p)' /\ ~FileWritten(p)' /\ Calm(p)'
  BY <1>3 DEF DNSPhase, FileWritten, DisconnectPCs, Calm, Quiescent
<1>6. Serial'
  BY <1>1, <1>3 DEF Serial
<1>7. Carriers'
  BY <1>1, <1>3, <1>4 DEF Carriers, OwnedPCs, ConnectPCs, DisconnectPCs,
                          Resolvers
<1>8. Captured' /\ Files'
  BY <1>1, <1>4, <1>5 DEF Captured, Clean, Files
<1>9. CASE FinishRecovery
  <2>1. helper' = "running" /\ sysDNS' = sysDNS /\ todo = {}
    BY <1>9 DEF FinishRecovery
  <2>2. Recovering' /\ Settled'
    BY <1>2, <1>4, <2>1 DEF Recovering, Settled
  <2>3. QED
    BY <1>5, <1>6, <1>7, <1>8, <2>2
<1>10. CASE \E t \in Tunnels : RecoverTunnel(t)
  <2>1. PICK t \in Tunnels : RecoverTunnel(t)
    BY <1>10
  <2>2. /\ helper' = "recovering" /\ journal' = journal /\ todo' = todo \ {t}
        /\ sysDNS' = IF journal[t].pre = {} THEN {} ELSE The(journal[t].pre)
    BY <1>1, <2>1 DEF RecoverTunnel
  <2>3. journal[t].pre # {} => The(journal[t].pre) \in Clean
    BY <1>2 DEF The
  <2>4. sysDNS' \in Clean
    BY <2>2, <2>3 DEF Clean
  <2>5. Recovering' /\ Settled'
    BY <1>1, <1>2, <2>2, <2>4 DEF Recovering, Settled, Clean
  <2>6. QED
    BY <1>5, <1>6, <1>7, <1>8, <2>5
<1>11. QED BY <1>9, <1>10 DEF Launch, Recovery

(* Only the branch of disconnectPhases that finds other tunnels picks one, and
   a call that returns forgets it. *)
LEMMA PickedNext ==
    ASSUME TypeOK, OnlyPicked, [Next]_vars
    PROVE  OnlyPicked'
<1> USE DEF TypeOK, OnlyPicked, Goto
<1>1. ASSUME NEW p \in Callers, Call(p) PROVE OnlyPicked'
  BY <1>1 DEF Call, BeginConnect, CallDisconnect
<1>2. ASSUME NEW p \in Callers, ConnectPhase(p) \/ BeginDisconnect(p)
      PROVE  OnlyPicked'
  <2>1. /\ rem' = rem /\ pc[p] \notin {"reapply", "finish"}
        /\ \E l : pc' = [pc EXCEPT ![p] = l]
    BY <1>2 DEF BeginDisconnect, ConnectPhase, AbandonClaim, CreateEngine,
                BringUp, AddRoutes, Checkpoint, FailPhase, SnapshotDNS,
                ApplyDNS, CaptureAndJournal, Rollback, locals
  <2>2. QED BY <2>1
<1>3. ASSUME NEW p \in Callers,
             \/ RemoveRoutes(p) \/ CloseEngine(p) \/ ReadRemaining(p)
             \/ ReadPreMod(p) \/ RestoreLast(p) \/ ClearPreMod(p)
      PROVE  OnlyPicked'
  <2>1. /\ rem' = rem /\ pc[p] \notin {"reapply", "finish"}
        /\ \E l : pc' = [pc EXCEPT ![p] = l]
    BY <1>3 DEF RemoveRoutes, CloseEngine, ReadRemaining, ReadPreMod,
                RestoreLast, ClearPreMod, locals
  <2>2. QED BY <2>1
<1>4. ASSUME NEW p \in Callers, PickRemaining(p) PROVE OnlyPicked'
  <2>1. \E l \in {"reapply", "finish"} : pc' = [pc EXCEPT ![p] = l]
    BY <1>4 DEF PickRemaining
  <2>2. \A q \in Callers : q # p => rem'[q] = rem[q]
    BY <1>4 DEF PickRemaining
  <2>3. QED BY <2>1, <2>2
<1>5. ASSUME NEW p \in Callers, ReapplyRemaining(p) PROVE OnlyPicked'
  BY <1>5 DEF ReapplyRemaining, locals
<1>6. ASSUME NEW p \in Callers, NEW result, Return(p, result)
      PROVE  OnlyPicked'
  BY <1>6 DEF Return
<1>7. ASSUME NEW p \in Callers, CommitConnect(p) PROVE OnlyPicked'
  <2>1. CASE UNCHANGED locals
    <3>1. /\ rem' = rem /\ pc[p] = "journaled"
          /\ \E l : pc' = [pc EXCEPT ![p] = l]
      BY <1>7, <2>1 DEF CommitConnect, Return, locals
    <3>2. QED BY <3>1
  <2>2. QED BY <1>6, <1>7, <2>1 DEF CommitConnect
<1>8. ASSUME NEW p \in Callers, CallerStep(p) PROVE OnlyPicked'
  <2>1. ASSUME \/ FailConnect(p) \/ DisconnectedMeanwhile(p)
               \/ DisconnectTimeout(p) \/ FinishDisconnect(p)
        PROVE  OnlyPicked'
    BY <1>6, <2>1 DEF FailConnect, DisconnectedMeanwhile, DisconnectTimeout,
                      FinishDisconnect
  <2>2. QED
    BY <1>2, <1>3, <1>4, <1>5, <1>7, <1>8, <2>1
       DEF CallerStep, ConnectStep, DisconnectStep, ConnectPhase
<1>9. CASE \/ \E s \in Sessions : RouteEvent(s)
           \/ Recovery \/ UNCHANGED vars
  <2>1. UNCHANGED <<rem, pc>>
    BY <1>9 DEF RouteEvent, Recovery, RecoverTunnel, FinishRecovery, vars,
                locals
  <2>2. QED BY <2>1
<1>10. CASE Crash \/ ForceShutdown
  BY <1>10 DEF Crash, ForceShutdown, LoseMemory
<1>11. QED
  BY <1>1, <1>8, <1>9, <1>10 DEF Next

(* At the first start the services carry the user's servers and there is no
   journal. *)
LEMMA InitDNS == HelperInit => Known
<1> SUFFICES ASSUME HelperInit PROVE Known
  OBVIOUS
<1> USE DEF HelperInit, Init
<1>1. Inv /\ RInv
  BY InitInv, ResourcesInit
<1>2. OnlyPicked /\ deaths \in Nat
  BY DEF OnlyPicked
<1>3. Connected = {} /\ AllDNSServers = {}
  BY DEF Connected, AllDNSServers
<1>4. \A p \in Callers : DNSPhase(p) /\ ~FileWritten(p)
  BY DEF DNSPhase, FileWritten, DisconnectPCs
<1>5. Carriers
  BY <1>3 DEF Carriers, NewSession
<1>6. Serial /\ Captured /\ Recovering
  BY <1>3 DEF Serial, Captured, Recovering
<1>7. Files
  BY <1>3, <1>4 DEF Files
<1>8. Settled
  BY <1>3 DEF Settled, Fitting, Clean
<1>9. QED
  BY <1>1, <1>2, <1>4, <1>5, <1>6, <1>7, <1>8 DEF Known, DInv

(* The helper without the two steps takes steps of the helper. *)
LEMMA DNSNextIsHelperNext == DNSNext => HelperNext
BY DEF DNSNext, HelperNext

(* With the automation, the watchdog and the reconnect monitor quiet, every
   step of the helper but the two keeps the configuration accounted for. *)
LEMMA NextDNS ==
    ASSUME ~FreeTeardown, HInv, Known, [DNSNext]_allVars
    PROVE  Known'
<1>0. HelperNext \/ UNCHANGED allVars
  BY DNSNextIsHelperNext
<1>1. [Next]_vars
  BY <1>0, HelperStep DEF allVars
<1>2. Inv' /\ RInv' /\ OnlyPicked'
  BY <1>1, NextInv, ResourcesNext, PickedNext DEF Known, Inv
<1>3. deaths' \in Nat
  <2>1. deaths' = deaths \/ deaths' = deaths + 1
    BY <1>0 DEF HelperNext, Operation, HandleConnect, Reconnect, HandleDisconnect,
           Teardown, AutoDisconnect, Enter, Progress, ManagerStep, Finish,
           NetworkChange, HelperDies, Launch, allVars, helperVars
  <2>2. QED BY <2>1 DEF Known
<1>4. CASE UNCHANGED allVars
  <2>1. UNCHANGED <<state, cur, preMod, sess, sysDNS, journal, pc, tgt, ses,
                    rem, val, snap, helper, todo, op, connectMu>>
    BY <1>4 DEF allVars, vars, helperVars, opVars, manager, machine, locals,
                process
  <2>2. Connected' = Connected
    BY <2>1 DEF Connected
  <2>3. /\ AllDNSServers' = AllDNSServers /\ Resolvers' = Resolvers
        /\ Reapplied' = Reapplied /\ Fitting' = Fitting
    BY <2>1, <2>2, Frame
  <2>4. \A p \in Callers : DNSPhase(p)' <=> DNSPhase(p)
    BY <2>1, <2>3 DEF DNSPhase
  <2>5. \A p \in Callers : Calm(p)' <=> Calm(p)
    BY <2>1 DEF Calm
  <2>6. Serial' /\ Carriers' /\ Captured' /\ Files' /\ Recovering' /\ Settled'
    BY <2>1, <2>2, <2>3, <2>5
       DEF Known, DInv, Serial, Carriers, Captured, Clean, Files, FileWritten,
           Recovering, Settled
  <2>7. QED
    BY <1>2, <1>3, <2>4, <2>6 DEF Known, DInv
<1>5. CASE DNSNext
  <2>1. DInv'
    BY <1>5, OperationDNS, ProgressDNS, NetworkChangeDNS, DeathDNS, LaunchDNS
       DEF DNSNext
  <2>2. QED
    BY <1>2, <1>3, <2>1 DEF Known
<1>6. QED BY <1>4, <1>5

-----------------------------------------------------------------------------
(* Between two operations every call is at rest, so the services carry what
   the connected tunnels call for. *)
LEMMA RestFits ==
    ASSUME Known, Quiet
    PROVE  sysDNS \in Fitting
<1>1. \A p \in Callers : Calm(p)
  BY DEF Known, DInv, Serial, Quiet, Calm, Quiescent
<1>2. QED
  BY <1>1 DEF Known, DInv, Settled, Quiet

(* The configuration stays accounted for. *)
LEMMA DNSInvariant == ~FreeTeardown /\ DNSSpec => []Known
<1>1. ASSUME ~FreeTeardown, HInv /\ Known, [DNSNext]_allVars
      PROVE  HInv' /\ Known'
  BY <1>1, NextDNS, HelperNextInv, DNSNextIsHelperNext
<1>2. CASE FreeTeardown
  BY <1>2
<1>3. CASE ~FreeTeardown
  <2>1. HInv /\ Known /\ [DNSNext]_allVars => HInv' /\ Known'
    BY <1>1, <1>3
  <2>2. HelperInit => HInv /\ Known
    BY HelperInitInv, InitDNS
  <2>3. QED
    BY <2>1, <2>2, PTL DEF DNSSpec
<1>4. QED BY <1>2, <1>3

(* darwin.go SetDNS and RestoreDNS under disconnectPhases and RecoverFromCrash:
   once no tunnel with DNS servers is up, the services carry what the user had
   or DHCP's servers, however the tunnels came, went and crashed. *)
THEOREM DNSGivenBack == ~FreeTeardown /\ DNSSpec => []NoTunnelDNSLeft
<1>1. Known => NoTunnelDNSLeft
  BY RestFits DEF NoTunnelDNSLeft, Fitting, Clean
<1>2. QED
  BY <1>1, DNSInvariant, PTL

(* CapturePreModDNS: what the Manager keeps to give back at the end was the
   user's, never the servers of a tunnel. *)
THEOREM CaptureIsTheUsers == ~FreeTeardown /\ DNSSpec => []PreModIsOriginal
<1>1. Known => PreModIsOriginal
  BY DEF Known, DInv, Captured, Clean, PreModIsOriginal
<1>2. QED
  BY <1>1, DNSInvariant, PTL

(* connect_phases.go merges the servers of the tunnels and reapplies what
   remains: with tunnels up the services carry their union, or what the route
   monitor put back for one of them. *)
THEOREM UnionOfServers == ~FreeTeardown /\ DNSSpec => []UnionUnlessReapplied
<1>1. ASSUME Known PROVE UnionUnlessReapplied
  <2>1. CASE Quiet /\ AllDNSServers # {} /\ sysDNS # AllDNSServers
    <3>1. sysDNS \in Reapplied
      BY <1>1, <2>1, RestFits DEF Fitting
    <3>2. QED
      BY <3>1 DEF Reapplied, Resolvers, Connected, UnionUnlessReapplied
  <2>2. QED
    BY <2>1 DEF UnionUnlessReapplied, UnionInForce
<1>2. QED
  BY <1>1, DNSInvariant, PTL

-----------------------------------------------------------------------------
(***************************************************************************)
(* The helper's life: the grace window closes the server only when nobody  *)
(* needs the helper, for any number of control connections and of timers   *)
(* ever armed, as long as no check of the helper is overtaken.             *)
(*                                                                         *)
(* Stop does not call back a callback that runs, so a timer that has been  *)
(* stopped may still fire.  What makes the callback harmless is its first  *)
(* question, whether it is still the current timer: a connection that is   *)
(* attached has left no timer current, and whoever arms one has seen that  *)
(* no connection is there.                                                 *)
(***************************************************************************)
TimerStates == {"armed", "stopped", "started", "current", "shut", "done"}

(* Whoever is about to arm the timer has seen that nobody is connected. *)
ArmsAlone ==
    \A g \in Grace!Goroutines : steps[g] \in {"read", "active", "inactive"} =>
        Grace!Registered = {}

(* So has a callback that goes on, and then that no tunnel is active. *)
FiresAlone ==
    \A i \in DOMAIN timers :
        /\ timers[i] \in {"current", "shut"} => Grace!Registered = {}
        /\ timers[i] = "shut" => ~Grace!Active

(* A connection that is attached has stopped the timer. *)
AttachedStops == (\E c \in Conns : conn[c] = "on") => current = 0

GraceTypes ==
    /\ timers \in Seq(TimerStates)
    /\ conn \in [Conns -> {"off", "new", "on", "gone"}]
    /\ steps \in [Grace!Goroutines -> {"idle", "check", "read", "active", "inactive"}]

GraceInv == GraceTypes /\ ArmsAlone /\ FiresAlone /\ AttachedStops

-----------------------------------------------------------------------------
(* Stopping a timer starts no callback. *)
LEMMA StoppedTimers ==
    ASSUME timers \in Seq(TimerStates)
    PROVE  /\ Grace!Stopped \in Seq(TimerStates)
           /\ DOMAIN Grace!Stopped = DOMAIN timers
           /\ Len(Grace!Stopped) = Len(timers)
           /\ \A i \in DOMAIN timers :
                 Grace!Stopped[i] = timers[i] \/ Grace!Stopped[i] = "stopped"
<1>1. DOMAIN timers = 1 .. Len(timers) /\ Len(timers) \in Nat
  OBVIOUS
<1>2. DOMAIN Grace!Stopped = 1 .. Len(timers)
  BY <1>1 DEF Grace!Stopped
<1>3. \A i \in DOMAIN timers :
         /\ Grace!Stopped[i] = timers[i] \/ Grace!Stopped[i] = "stopped"
         /\ Grace!Stopped[i] \in TimerStates
  BY DEF Grace!Stopped, TimerStates
<1>4. Grace!Stopped \in Seq(TimerStates)
  <2>1. Grace!Stopped = [i \in 1 .. Len(timers) |-> Grace!Stopped[i]]
    BY <1>1 DEF Grace!Stopped
  <2>2. QED
    BY <1>1, <1>2, <1>3, <2>1
<1>5. QED
  BY <1>1, <1>2, <1>3, <1>4

(* A callback takes one step. *)
LEMMA CallbackStep ==
    ASSUME timers \in Seq(TimerStates), NEW i \in DOMAIN timers,
           NEW x \in TimerStates, timers' = [timers EXCEPT ![i] = x]
    PROVE  /\ timers' \in Seq(TimerStates)
           /\ DOMAIN timers' = DOMAIN timers
           /\ timers'[i] = x
           /\ \A j \in DOMAIN timers : j # i => timers'[j] = timers[j]
BY DEF TimerStates

(* The steps that stand between a check and what is done upon it: while one of
   them is due, nobody connects. *)
LEMMA InternalKeeps ==
    ASSUME GraceInv, Grace!Internal
    PROVE  GraceInv'
<1> USE DEF GraceInv, GraceTypes
<1>1. ASSUME NEW c \in Conns, Grace!Attached(c) PROVE GraceInv'
  <2>1. /\ conn[c] = "new" /\ conn' = [conn EXCEPT ![c] = "on"]
        /\ timers' = Grace!Stopped /\ current' = 0
        /\ UNCHANGED <<steps, tunnel>>
    BY <1>1 DEF Grace!Attached
  <2>2. c \in Grace!Registered
    BY <2>1 DEF Grace!Registered
  <2>3. /\ \A g \in Grace!Goroutines : steps[g] \notin {"read", "active", "inactive"}
        /\ \A i \in DOMAIN timers : timers[i] \notin {"current", "shut"}
    BY <2>2 DEF ArmsAlone, FiresAlone
  <2>4. FiresAlone'
    BY <2>1, <2>3, StoppedTimers DEF FiresAlone
  <2>5. QED
    BY <2>1, <2>3, <2>4, StoppedTimers DEF ArmsAlone, AttachedStops
<1>2. ASSUME Grace!CheckControlConn PROVE GraceInv'
  BY <1>2 DEF Grace!CheckControlConn, ArmsAlone, FiresAlone, AttachedStops,
              Grace!Registered, Grace!Active, Grace!Goroutines
<1>3. ASSUME NEW g \in Grace!Goroutines, Grace!ReadActive(g) PROVE GraceInv'
  BY <1>3 DEF Grace!ReadActive, ArmsAlone, FiresAlone, AttachedStops, Grace!Registered,
              Grace!Active
<1>4. ASSUME NEW g \in Grace!Goroutines, Grace!Arm(g) PROVE GraceInv'
  <2>1. /\ steps[g] \in {"active", "inactive"}
        /\ steps' = [steps EXCEPT ![g] = "idle"]
        /\ conn' = [c \in Conns |-> IF c = g THEN "off" ELSE conn[c]]
        /\ tunnel' = tunnel
    BY <1>4 DEF Grace!Arm, Grace!Armed
  <2>2. Grace!Registered = {}
    BY <2>1 DEF ArmsAlone
  <2>3. Grace!Registered' = {} /\ ~\E c \in Conns : conn'[c] = "on"
    BY <2>1, <2>2 DEF Grace!Registered
  <2>4. conn' \in [Conns -> {"off", "new", "on", "gone"}]
    BY <2>1
  <2>5. timers' = Grace!Stopped \/ timers' = Append(Grace!Stopped, "armed")
    BY <1>4 DEF Grace!Arm
  <2>6. /\ timers' \in Seq(TimerStates)
        /\ \A i \in DOMAIN timers' :
              \/ i \in DOMAIN timers /\ timers'[i] = timers[i]
              \/ timers'[i] \in {"armed", "stopped"}
    <3>1. "armed" \in TimerStates
      BY DEF TimerStates
    <3>2. Append(Grace!Stopped, "armed") \in Seq(TimerStates)
      BY <3>1, StoppedTimers
    <3>3. \A i \in DOMAIN Append(Grace!Stopped, "armed") :
             \/ /\ i \in DOMAIN timers
                /\ Append(Grace!Stopped, "armed")[i] = Grace!Stopped[i]
             \/ Append(Grace!Stopped, "armed")[i] = "armed"
      BY StoppedTimers, <3>1, AppendProperties
    <3>4. QED
      BY <2>5, <3>2, <3>3, StoppedTimers
  <2>7. FiresAlone'
    BY <2>1, <2>3, <2>6 DEF FiresAlone, Grace!Active
  <2>8. QED
    BY <2>1, <2>3, <2>4, <2>6, <2>7 DEF ArmsAlone, AttachedStops
<1>5. ASSUME NEW i \in DOMAIN timers, Grace!CheckTunnel(i) PROVE GraceInv'
  <2>1. /\ timers[i] = "current"
        /\ timers' = [timers EXCEPT ![i] = IF Grace!Active THEN "done" ELSE "shut"]
        /\ UNCHANGED <<conn, steps, tunnel, current>>
    BY <1>5 DEF Grace!CheckTunnel
  <2>2. PICK x \in {"done", "shut"} :
           /\ timers' = [timers EXCEPT ![i] = x]
           /\ x = "shut" => ~Grace!Active
    BY <2>1
  <2>3. FiresAlone'
    BY <2>1, <2>2, CallbackStep
       DEF FiresAlone, TimerStates, Grace!Registered, Grace!Active
  <2>4. QED
    BY <2>1, <2>2, <2>3, CallbackStep
       DEF ArmsAlone, AttachedStops, Grace!Registered, TimerStates
<1>6. ASSUME NEW i \in DOMAIN timers, Grace!TimerShutdown(i) PROVE GraceInv'
  <2>1. /\ timers' = [timers EXCEPT ![i] = "done"]
        /\ UNCHANGED <<conn, steps, tunnel, current>>
    BY <1>6 DEF Grace!TimerShutdown
  <2>2. FiresAlone'
    BY <2>1, CallbackStep DEF FiresAlone, TimerStates, Grace!Registered, Grace!Active
  <2>3. QED
    BY <2>1, <2>2, CallbackStep
       DEF ArmsAlone, AttachedStops, Grace!Registered, TimerStates
<1>7. QED
  BY <1>1, <1>2, <1>3, <1>4, <1>5, <1>6 DEF Grace!Internal

(* While no check is overtaken, nobody is about to arm, no callback has asked
   its first question, and every connection is attached. *)
LEMMA AtRest ==
    ASSUME ~Grace!Overtaken
    PROVE  /\ \A g \in Grace!Goroutines : steps[g] = "idle"
           /\ \A i \in DOMAIN timers : timers[i] \notin {"current", "shut"}
           /\ \A c \in Conns : conn[c] # "new"
BY DEF Grace!Overtaken

(* Then whoever connects, and whatever becomes of the tunnel, is seen by the
   checks that follow. *)
LEMMA RestKeeps ==
    ASSUME GraceInv, ~Grace!Overtaken,
           conn' \in [Conns -> {"off", "new", "on", "gone"}],
           \A c \in Conns : conn'[c] = "on" => conn[c] = "on",
           steps' = steps, timers' = timers, current' = current
    PROVE  GraceInv'
BY AtRest DEF GraceInv, GraceTypes, ArmsAlone, FiresAlone, AttachedStops

(* A process that starts, or has ended, serves nobody yet. *)
LEMMA FreshKeeps ==
    ASSUME GraceInv, NEW c, Grace!Fresh(c) \/ Grace!Exited
    PROVE  GraceInv'
<1>1. /\ conn' \in [Conns -> {"off", "new", "on", "gone"}]
      /\ \A x \in Conns : conn'[x] # "on"
      /\ steps' = [g \in Grace!Goroutines |-> "idle"]
  BY DEF Grace!Fresh, Grace!Exited
<1>2. /\ timers' \in Seq(TimerStates)
      /\ \A i \in DOMAIN timers' : timers'[i] = "armed"
  <2>1. timers' = <<"armed">> \/ timers' = << >>
    BY DEF Grace!Fresh, Grace!Exited
  <2>2. "armed" \in TimerStates
    BY DEF TimerStates
  <2>3. CASE timers' = <<"armed">>
    BY <2>2, <2>3
  <2>4. CASE timers' = << >>
    BY <2>4, EmptySeq
  <2>5. QED BY <2>1, <2>3, <2>4
<1>3. QED
  BY <1>1, <1>2 DEF GraceInv, GraceTypes, ArmsAlone, FiresAlone, AttachedStops

(* A connection goes; the last one looks at the timer, alone. *)
LEMMA DropKeeps ==
    ASSUME GraceInv, ~Grace!Overtaken, NEW c \in Conns, conn[c] = "on",
           conn' = Grace!Dropped(c, conn),
           steps' = IF conn'[c] = "gone" THEN [steps EXCEPT ![c] = "read"] ELSE steps,
           UNCHANGED <<tunnel, timers, current>>
    PROVE  GraceInv'
<1> USE DEF GraceInv, GraceTypes
<1>1. PICK x \in {"off", "gone"} :
         /\ conn' = [conn EXCEPT ![c] = x]
         /\ x = "gone" => \A y \in Conns \ {c} : conn[y] \notin {"new", "on"}
  BY DEF Grace!Dropped
<1>2. conn'[c] = x /\ \A y \in Conns : y # c => conn'[y] = conn[y]
  BY <1>1
<1>3. x = "gone" => Grace!Registered' = {}
  BY <1>1, <1>2 DEF Grace!Registered
<1>4. steps' \in [Grace!Goroutines -> {"idle", "check", "read", "active", "inactive"}]
  BY DEF Grace!Goroutines
<1>5. ArmsAlone'
  BY <1>2, <1>3, AtRest DEF ArmsAlone, Grace!Goroutines
<1>6. FiresAlone' /\ AttachedStops'
  BY <1>1, <1>2, AtRest DEF FiresAlone, AttachedStops
<1>7. QED
  BY <1>1, <1>4, <1>5, <1>6

(* The GUI holds a control connection or none. *)
ClientKnown == client \in Conns \cup {NoConn}

(* Every step leaves the GUI with a connection of the server's or with none. *)
LEMMA ClientNext ==
    ASSUME ClientKnown, [Grace!Next]_(Grace!vars)
    PROVE  ClientKnown'
<1>1. \/ client' = client \/ client' = NoConn \/ \E c \in Conns : client' = c
  BY DEF Grace!Next, Grace!Internal, Grace!Background, Grace!Outside, Grace!Attached,
         Grace!CheckControlConn, Grace!ReadActive, Grace!Arm, Grace!Armed,
         Grace!CheckTunnel, Grace!TimerShutdown, Grace!Fire, Grace!CheckCurrent,
         Grace!Cleanup, Grace!Exit, Grace!ConnectReturns, Grace!Disconnected,
         Grace!Detach, Grace!Adopt, Grace!Recover, Grace!Approve, Grace!Deny,
         Grace!QuitDisconnect, Grace!QuitDone, Grace!CtlStop, Grace!Die, Grace!Connect,
         Grace!Disconnect, Grace!GuiStart, Grace!Swap, Grace!Stall, Grace!Quit,
         Grace!GuiDies, Grace!guiVars, Grace!vars, Grace!Free
<1>2. QED
  BY <1>1 DEF ClientKnown

(* The timer fires; the callback's first question is answered yes only when no
   connection is attached. *)
LEMMA CallbackKeeps ==
    ASSUME GraceInv, ~Grace!Overtaken, NEW i \in DOMAIN timers,
           Grace!Fire(i) \/ Grace!CheckCurrent(i)
    PROVE  GraceInv'
<1> USE DEF GraceInv, GraceTypes
<1>1. /\ UNCHANGED <<conn, steps, tunnel, current>>
      /\ \E x \in {"started", "current", "done"} :
            /\ timers' = [timers EXCEPT ![i] = x]
            /\ x = "current" => current = i
  BY DEF Grace!Fire, Grace!CheckCurrent
<1>2. PICK x \in {"started", "current", "done"} :
         /\ timers' = [timers EXCEPT ![i] = x]
         /\ x = "current" => current = i
  BY <1>1
<1>3. /\ timers' \in Seq(TimerStates) /\ DOMAIN timers' = DOMAIN timers
      /\ timers'[i] = x
      /\ \A j \in DOMAIN timers : j # i => timers'[j] = timers[j]
  BY <1>2, CallbackStep DEF TimerStates
<1>4. x = "current" => Grace!Registered' = {}
  <2>1. i # 0
    OBVIOUS
  <2>2. x = "current" => \A c \in Conns : conn[c] \notin {"new", "on"}
    BY <1>2, <2>1, AtRest DEF AttachedStops
  <2>3. QED
    BY <1>1, <2>2 DEF Grace!Registered
<1>5. FiresAlone'
  BY <1>1, <1>3, <1>4, AtRest DEF FiresAlone
<1>6. ArmsAlone' /\ AttachedStops'
  BY <1>1, AtRest DEF ArmsAlone, AttachedStops
<1>7. QED
  BY <1>1, <1>3, <1>5, <1>6

(* What the helper, its timer and the GUI's health monitor do by themselves
   keeps the invariant. *)
LEMMA BackgroundKeeps ==
    ASSUME GraceInv, ~Grace!Overtaken, Grace!Background
    PROVE  GraceInv'
<1> USE DEF GraceInv, GraceTypes
<1>1. CASE Grace!Cleanup
  <2>1. timers' = Grace!Stopped /\ current' = 0 /\ UNCHANGED <<conn, steps>>
    BY <1>1 DEF Grace!Cleanup
  <2>2. FiresAlone'
    BY <2>1, AtRest, StoppedTimers DEF FiresAlone
  <2>3. QED
    BY <2>1, <2>2, AtRest, StoppedTimers DEF ArmsAlone, AttachedStops
<1>2. CASE Grace!Exit
  BY <1>2, FreshKeeps DEF Grace!Exit
<1>3. CASE \/ Grace!ConnectReturns \/ Grace!Recover \/ Grace!Deny
           \/ Grace!QuitDisconnect \/ Grace!QuitDone
  <2>1. UNCHANGED <<conn, steps, timers, current>>
    BY <1>3 DEF Grace!ConnectReturns, Grace!Recover, Grace!Deny, Grace!QuitDisconnect,
                Grace!QuitDone, Grace!process
  <2>2. QED
    BY <2>1, RestKeeps
<1>4. CASE Grace!Disconnected
  <2>1. /\ UNCHANGED <<conn, timers, current>>
        /\ steps' = [steps EXCEPT ![Grace!Teardown] = "check"] \/ steps' = steps
    BY <1>4 DEF Grace!Disconnected
  <2>2. ArmsAlone'
    BY <2>1, AtRest DEF ArmsAlone
  <2>3. steps' \in [Grace!Goroutines -> {"idle", "check", "read", "active", "inactive"}]
    BY <2>1
  <2>4. QED
    BY <2>1, <2>2, <2>3, AtRest DEF FiresAlone, AttachedStops
<1>5. ASSUME NEW c \in Conns, Grace!Detach(c) PROVE GraceInv'
  BY <1>5, DropKeeps DEF Grace!Detach
<1>6. CASE Grace!Adopt
  BY <1>6, RestKeeps DEF Grace!Adopt
<1>7. CASE Grace!Approve
  <2>1. \/ \E c : Grace!Fresh(c)
        \/ UNCHANGED <<conn, steps, timers, current>>
    BY <1>7 DEF Grace!Approve, Grace!process
  <2>2. QED
    BY <2>1, FreshKeeps, RestKeeps
<1>8. QED
  BY <1>1, <1>2, <1>3, <1>4, <1>5, <1>6, <1>7, CallbackKeeps DEF Grace!Background

(* The user and the network act only while no callback is past its check; then
   they keep the invariant. *)
LEMMA ShutdownOutsideKeeps ==
    ASSUME GraceInv, ClientKnown, ~Grace!Overtaken, Grace!Outside
    PROVE  GraceInv'
<1> USE DEF GraceInv, GraceTypes
<1>1. CASE \/ Grace!CtlStop \/ Grace!Connect \/ Grace!Disconnect
           \/ Grace!Quit \/ Grace!GuiDies
  <2>1. UNCHANGED <<conn, steps, timers, current>>
    BY <1>1 DEF Grace!CtlStop, Grace!Connect, Grace!Disconnect, Grace!Quit,
                Grace!GuiDies, Grace!process
  <2>2. QED
    BY <2>1, RestKeeps
<1>2. CASE Grace!Die
  BY <1>2, FreshKeeps DEF Grace!Die
<1>3. CASE Grace!GuiStart \/ Grace!Swap
  <2>1. /\ UNCHANGED <<steps, timers, current>>
        /\ \/ \E c \in Conns : conn' = [conn EXCEPT ![c] = "new"]
           \/ conn' = conn
    BY <1>3 DEF Grace!GuiStart, Grace!Swap, Grace!Free
  <2>2. QED
    BY <2>1, RestKeeps
<1>4. CASE Grace!Stall
  <2>1. client \in Conns
    <3>1. conn[client] = "on" /\ client # NoConn
      BY <1>4 DEF Grace!Stall
    <3>2. QED
      BY <3>1 DEF ClientKnown
  <2>2. QED
    BY <1>4, <2>1, DropKeeps DEF Grace!Stall
<1>5. QED
  BY <1>1, <1>2, <1>3, <1>4 DEF Grace!Outside

-----------------------------------------------------------------------------
(* helper.go armShutdownTimer and its callback: the grace window closes the
   server only while no tunnel is active and no GUI is connected, however
   connections, teardowns and stopped timers' late callbacks follow each
   other. *)
THEOREM GraceIsForTheIdle == GraceSpec => ShutdownOnlyWhenIdle
<1>1. Grace!Init => GraceInv /\ ClientKnown
  BY DEF Grace!Init, GraceInv, GraceTypes, ArmsAlone, FiresAlone, AttachedStops,
         TimerStates, ClientKnown
<1>2. GraceInv /\ ClientKnown /\ [Grace!SerialNext]_(Grace!vars)
         => GraceInv' /\ ClientKnown'
  <2> SUFFICES ASSUME GraceInv, ClientKnown, [Grace!SerialNext]_(Grace!vars)
               PROVE  GraceInv' /\ ClientKnown'
    OBVIOUS
  <2>1. CASE UNCHANGED Grace!vars
    BY <2>1 DEF Grace!vars, Grace!process, Grace!guiVars, GraceInv, GraceTypes,
                ArmsAlone, FiresAlone, AttachedStops, Grace!Registered, Grace!Active,
                ClientKnown
  <2>2. ClientKnown'
    BY ClientNext DEF Grace!SerialNext, Grace!Next
  <2>3. QED
    BY <2>1, <2>2, InternalKeeps, BackgroundKeeps, ShutdownOutsideKeeps
       DEF Grace!SerialNext
<1>3. GraceInv => \A i \in DOMAIN timers :
                 Grace!TimerShutdown(i) => ~Grace!Active /\ Grace!Registered = {}
  BY DEF GraceInv, FiresAlone, Grace!TimerShutdown
<1>4. QED
  BY <1>1, <1>2, <1>3, PTL DEF GraceSpec, ShutdownOnlyWhenIdle, Grace!SerialSpec,
                                  Grace!ShutdownOnlyWhenIdle

=============================================================================
