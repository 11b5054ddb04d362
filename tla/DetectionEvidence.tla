-------------------------- MODULE DetectionEvidence --------------------------
(***************************************************************************)
(* What an alert stands on.  EvidenceInv follows the evidence: a request   *)
(* in the journal, what it left in the window, the verdict a hook carries  *)
(* from the window to the insert, and the stored alert.  The journal only  *)
(* grows, so what once stood on it stands on it for ever, also after the   *)
(* window has closed.  MaximumKeptUnlessOverlapped needs that a hook about *)
(* to write its score has read a smaller one (the last part of             *)
(* HookBacked).                                                            *)
(***************************************************************************)
EXTENDS DetectionProofs

WindowBacked(u) ==
    /\ win[u].denied > 0 \/ win[u].allowed > 0 => Refusals(u) # {}
    /\ win[u].owners # {} => Breadth(u) # {}
    /\ win[u].score > 0 => \E r \in Anomalies(u) : r.score >= win[u].score

HookBacked(h) ==
    /\ ~At(h, "idle") => hook[h].req \in Recorded(hook[h].req.user)
    /\ hook[h].at \in Judged => Backed(hook[h].verdict) /\ Fits(hook[h].verdict)
    /\ At(h, "behaviorSet") => hook[h].held < hook[h].req.score

EvidenceInv ==
    /\ \A u \in User : WindowBacked(u)
    /\ \A h \in Hook : HookBacked(h)
    /\ \A a \in alerts : Backed(a) /\ Fits(a)

(* What one read of a backed window may raise is backed.                   *)
LEMMA ReadBacked ==
    ASSUME TypeOK, NEW u \in User, WindowBacked(u), Alert(Signals(u))
    PROVE  Backed(AlertFor(u)) /\ Fits(AlertFor(u))
<1> DEFINE s == Signals(u)
           a == AlertFor(u)
<1>1. s \in LayerSignals
  BY SignalsTyped
<1>2. win[u] \in Window
  BY DEF TypeOK, DataTyped
<1>3. /\ s.denied = win[u].denied /\ s.allowed = win[u].allowed /\ s.score = win[u].score
      /\ s.mass = win[u].mass /\ s.owners = Cardinality(win[u].owners)
  BY <1>2 DEF Signals, Window
<1>4. /\ a.user = u /\ a.layer = LayerOf(s) /\ a.severity = Severity(s) /\ a.mass = s.mass
  BY DEF AlertFor
<1>5. Fits(a)
  BY <1>1, <1>4, AlertSeverity DEF Fits
<1>6. BroadScope(s.owners) => Breadth(u) # {}
  <2>1. win[u].owners = {} => s.owners = 0
    BY <1>3, FS_EmptySet
  <2> QED
    BY <2>1, WeightsAssumption DEF BroadScope, WindowBacked
<1>7. s.denied \in Nat /\ s.allowed \in Nat /\ s.score \in 0..100 /\ s.mass \in BOOLEAN
  BY <1>1 DEF LayerSignals
<1>8. CASE LayerOf(s) = "AUTHORIZATION"
  <2>1. ~BehaviorSpeaks(s)
    BY <1>8 DEF LayerOf
  <2>2. ~s.mass /\ s.score = 0
    BY <1>7, <2>1 DEF BehaviorSpeaks
  <2>3. ~(s.denied = 0 /\ s.allowed = 0)
    BY <1>1, <2>2, ScopeAloneIsSilent
  <2>4. Refusals(u) # {}
    BY <1>3, <1>7, <2>3 DEF WindowBacked
  <2> QED
    BY <1>4, <1>5, <1>8, <2>4 DEF Backed
<1>9. CASE LayerOf(s) = "CORRELATED"
  <2>1. AuthzSpeaks(s) /\ BehaviorSpeaks(s)
    BY <1>9 DEF LayerOf
  <2>2. Refusals(u) # {} \/ Breadth(u) # {}
    BY <1>3, <1>6, <2>1 DEF AuthzSpeaks, WindowBacked
  <2>3. ~s.mass => Anomalies(u) # {}
    BY <1>3, <2>1 DEF BehaviorSpeaks, WindowBacked
  <2> QED
    BY <1>4, <1>5, <1>9, <2>2, <2>3 DEF Backed
<1>10. CASE LayerOf(s) = "BEHAVIOR"
  <2>1. ~s.mass => s.score >= Single
    BY <1>1, <1>10, LoneBehaviorNeedsScore
  <2>2. ~s.mass => \E r \in Anomalies(u) : r.score >= s.score
    BY <1>3, <1>7, <2>1, WeightsAssumption DEF WindowBacked
  <2>3. \A r \in Anomalies(u) : r.score \in 0..100
    <3>1. \A r \in Anomalies(u) : r \in Request
      BY DEF Anomalies, Recorded, TypeOK, DataTyped
    <3> QED
      BY <3>1, RequestFields
  <2>4. ~s.mass => \E r \in Anomalies(u) : r.score >= Single
    BY <1>7, <2>1, <2>2, <2>3, WeightsAssumption
  <2> QED
    BY <1>4, <1>5, <1>10, <2>4 DEF Backed
<1>11. LayerOf(s) \in {"AUTHORIZATION", "CORRELATED", "BEHAVIOR"}
  BY <1>1, AlertSeverity DEF Layer
<1> QED
  BY <1>8, <1>9, <1>10, <1>11

(* The journal only grows, and with it what may stand on it.               *)
JournalGrows == journal \subseteq journal' /\ unlogged \subseteq unlogged'

LEMMA StepGrowsJournal == [Next]_vars => JournalGrows
<1> SUFFICES ASSUME [Next]_vars PROVE JournalGrows
  OBVIOUS
<1>1. ASSUME NEW h \in Hook, NEW r \in Request, Receive(h, r) PROVE JournalGrows
  BY <1>1 DEF Receive, JournalGrows
<1>2. ASSUME NEW h \in Hook, HookStep(h) PROVE JournalGrows
  BY <1>2 DEF JournalGrows, HookStep, Inspect, RecordMassAccess, RecordBehaviorGet,
              RecordBehaviorSet, ScopeAdd, ScopeCard, ScopeExpire, AuthzIncr, AuthzExpire,
              Read, CoolGet, CoolSet, Persist, Announce, storeVars, histVars
<1>3. ASSUME NEW h \in Hook, CallFails(h) PROVE JournalGrows
  BY <1>3 DEF JournalGrows, CallFails, storeVars
<1>4. ASSUME NEW H \in SUBSET Hook, InstanceStops(H) PROVE JournalGrows
  BY <1>4 DEF JournalGrows, InstanceStops, storeVars
<1>5. ASSUME NEW u \in User, Clock(u) PROVE JournalGrows
  BY <1>5 DEF JournalGrows, Clock, WindowCloses, SignalFades, CooldownEnds, HourTurns, storeVars
<1>6. ASSUME UNCHANGED vars PROVE JournalGrows
  BY <1>6 DEF JournalGrows, vars, storeVars, histVars
<1> QED
  BY <1>1, <1>2, <1>3, <1>4, <1>5, <1>6 DEF Next

LEMMA EvidenceLasts ==
    ASSUME JournalGrows, NEW u
    PROVE  /\ Recorded(u) \subseteq Recorded(u)'
           /\ Refusals(u) \subseteq Refusals(u)'
           /\ Breadth(u) \subseteq Breadth(u)'
           /\ Anomalies(u) \subseteq Anomalies(u)'
  BY DEF JournalGrows, Recorded, Refusals, Breadth, Anomalies

LEMMA BackingLasts ==
    ASSUME JournalGrows, NEW a, Backed(a)
    PROVE  Backed(a)'
  BY EvidenceLasts DEF Backed

(* A window that a step only empties, or leaves, stays backed.             *)
LEMMA WindowLasts ==
    ASSUME TypeOK, JournalGrows, NEW u \in User, WindowBacked(u), win'[u] \in Window,
           win'[u].denied \in {0, win[u].denied}, win'[u].allowed \in {0, win[u].allowed},
           win'[u].score \in {0, win[u].score}, win'[u].owners \in {{}, win[u].owners}
    PROVE  WindowBacked(u)'
  BY EvidenceLasts DEF WindowBacked

(* The one field a recording step changes is backed by its own request.    *)
LEMMA RecordingBacked ==
    ASSUME TypeOK, TypeOK', EvidenceInv, JournalGrows, NEW h \in Hook, HookStep(h), NEW u \in User
    PROVE  WindowBacked(u)'
<1>0. PICK r : r = hook[h].req
  OBVIOUS
<1>1. /\ win \in [User -> Window] /\ win' \in [User -> Window] /\ WindowBacked(u)
      /\ HookBacked(h)
  BY DEF TypeOK, DataTyped, EvidenceInv
<1>2. hook[h].at # "idle" => /\ r \in Request /\ r.user \in User /\ HookTyped(h)
                             /\ hook[h] \in HookState
  BY <1>0, BusyHook
<1>3. hook[h].at # "idle" => r \in Recorded(r.user)'
  BY <1>0, <1>1, EvidenceLasts DEF HookBacked, At
<1>4. CASE u # r.user \/ win' = win
  <2>1. win'[u] = win[u]
    BY <1>0, <1>1, <1>4
       DEF HookStep, Inspect, RecordMassAccess, RecordBehaviorGet, RecordBehaviorSet,
           ScopeAdd, ScopeCard, ScopeExpire, AuthzIncr, AuthzExpire, Read, CoolGet,
           CoolSet, Persist, Announce, redisVars
  <2> QED
    BY <1>1, <2>1, WindowLasts
<1>5. CASE AuthzIncr(h) /\ u = r.user
  <2>1. Outcome(r) \in {"denied", "allowed"} /\ r \in Recorded(r.user)'
    BY <1>0, <1>2, <1>3, <1>5, RequestFields DEF AuthzIncr, At, HookTyped
  <2>2. r \in Refusals(u)'
    BY <1>5, <2>1 DEF Refusals
  <2>3. win'[u].score = win[u].score /\ win'[u].owners = win[u].owners
    <3>1. win'[u] = [win[u] EXCEPT ![Outcome(r)] = win[u][Outcome(r)] + 1]
      BY <1>0, <1>1, <1>5 DEF AuthzIncr
    <3> QED
      BY <1>1, <2>1, <3>1 DEF Window
  <2> QED
    BY <1>1, <2>2, <2>3, EvidenceLasts DEF WindowBacked
<1>6. CASE ScopeAdd(h) /\ u = r.user
  <2>1. r \in Recorded(r.user)' /\ WidensScope(r, r.user)
    BY <1>0, <1>2, <1>3, <1>6 DEF ScopeAdd, At, HookTyped
  <2>2. r \in Breadth(u)'
    BY <1>6, <2>1 DEF Breadth
  <2>3. /\ win'[u].score = win[u].score /\ win'[u].denied = win[u].denied
        /\ win'[u].allowed = win[u].allowed
    BY <1>0, <1>1, <1>6 DEF ScopeAdd, Window
  <2> QED
    BY <1>1, <2>2, <2>3, EvidenceLasts DEF WindowBacked
<1>7. CASE RecordBehaviorSet(h) /\ u = r.user
  <2>1. /\ r \in Recorded(r.user)' /\ hook[h].held < r.score /\ hook[h].held \in 0..100
        /\ r.score \in 0..100
    BY <1>0, <1>1, <1>2, <1>3, <1>7, RequestFields DEF RecordBehaviorSet, At, HookBacked, HookState
  <2>2. r \in Anomalies(u)' /\ r.score >= r.score
    BY <1>7, <2>1 DEF Anomalies
  <2>3. /\ win'[u].score = r.score /\ win'[u].denied = win[u].denied
        /\ win'[u].allowed = win[u].allowed /\ win'[u].owners = win[u].owners
    BY <1>0, <1>1, <1>7 DEF RecordBehaviorSet, Window
  <2> QED
    BY <1>1, <2>2, <2>3, EvidenceLasts DEF WindowBacked
<1>8. CASE RecordMassAccess(h) /\ u = r.user
  <2>1. /\ win'[u].score = win[u].score /\ win'[u].denied = win[u].denied
        /\ win'[u].allowed = win[u].allowed /\ win'[u].owners = win[u].owners
    BY <1>0, <1>1, <1>8 DEF RecordMassAccess, Window
  <2> QED
    BY <1>1, <2>1, WindowLasts
<1> QED
  BY <1>4, <1>5, <1>6, <1>7, <1>8
     DEF HookStep, Inspect, RecordBehaviorGet, ScopeCard, ScopeExpire, AuthzExpire, Read,
         CoolGet, CoolSet, Persist, Announce, redisVars

(* Where a hook may come from when it moves.                               *)
LEMMA HookMoves ==
    ASSUME TypeOK, NEW h \in Hook, HookStep(h) \/ CallFails(h), ~Read(h), ~RecordBehaviorGet(h)
    PROVE  \/ hook'[h] = Idle
           \/ /\ hook[h].at # "idle" /\ hook'[h].at # "behaviorSet"
              /\ hook'[h].req = hook[h].req /\ hook'[h].verdict = hook[h].verdict
              /\ hook'[h].at \in Judged => hook[h].at \in Judged
<1>1. hook[h].at # "idle" /\ hook[h].req \in Request
  BY BusyHook DEF HookStep, Inspect, RecordMassAccess, RecordBehaviorSet, ScopeAdd, ScopeCard,
         ScopeExpire, AuthzIncr, AuthzExpire, CoolGet, CoolSet, Persist, Announce, CallFails, At
<1>2. /\ AfterScope(hook[h].req) \in {"read", "authzIncr"}
      /\ AfterInspect(hook[h].req) \in {"read", "authzIncr", "scopeAdd"}
  BY <1>1, Routing
<1>3. PICK label \in {"mass", "behaviorGet", "scopeAdd", "scopeCard", "scopeExpire", "authzIncr",
                      "authzExpire", "read", "coolSet", "persist", "announce", "idle"} :
        Goto(h, label) /\ (label \in Judged => hook[h].at \in Judged)
  BY <1>2 DEF HookStep, Inspect, RecordMassAccess, RecordBehaviorSet, ScopeAdd, ScopeCard,
         ScopeExpire, AuthzIncr, AuthzExpire, CoolGet, CoolSet, Persist, Announce, CallFails,
         At, Judged
<1>4. CASE label = "idle"
  BY <1>3, <1>4, GotoIdleFrame
<1>5. CASE label # "idle"
  BY <1>1, <1>3, <1>5, GotoFrame
<1> QED
  BY <1>4, <1>5

LEMMA HookLasts ==
    ASSUME JournalGrows, NEW h \in Hook, HookBacked(h), hook'[h].at # "behaviorSet",
           hook'[h].req = hook[h].req, hook'[h].verdict = hook[h].verdict, hook[h].at # "idle",
           hook'[h].at \in Judged => hook[h].at \in Judged
    PROVE  HookBacked(h)'
  BY EvidenceLasts, BackingLasts DEF HookBacked, At, Fits

LEMMA HookStays ==
    ASSUME JournalGrows, NEW h \in Hook, HookBacked(h), hook'[h] = hook[h]
    PROVE  HookBacked(h)'
  BY EvidenceLasts, BackingLasts DEF HookBacked, At, Fits

LEMMA IdleBacked ==
    ASSUME NEW h \in Hook, hook'[h] = Idle
    PROVE  HookBacked(h)'
  BY IdleTyped DEF HookBacked, At, Judged

LEMMA MovingHookBacked ==
    ASSUME TypeOK, EvidenceInv, JournalGrows, NEW h \in Hook, HookStep(h) \/ CallFails(h)
    PROVE  HookBacked(h)'
<1>1. HookBacked(h) /\ hook \in [Hook -> HookState]
  BY DEF EvidenceInv, TypeOK, HooksTyped
<1>2. CASE ~Read(h) /\ ~RecordBehaviorGet(h)
  BY <1>1, <1>2, HookMoves, HookLasts, IdleBacked
<1>3. CASE Read(h)
  <2>0. PICK u : u = hook[h].req.user
    OBVIOUS
  <2>1. u \in User /\ WindowBacked(u) /\ hook[h].at # "idle"
    BY <1>3, <2>0, BusyHook DEF Read, At, EvidenceInv
  <2>2. CASE Alert(Signals(u))
    <3>1. /\ hook'[h].req = hook[h].req /\ hook'[h].at = "coolGet"
          /\ hook'[h].verdict = AlertFor(u)
      BY <1>1, <1>3, <2>0, <2>2 DEF Read, HookState
    <3>2. Backed(AlertFor(u)) /\ Fits(AlertFor(u))
      BY <2>1, <2>2, ReadBacked
    <3>3. Backed(hook'[h].verdict) /\ Fits(hook'[h].verdict)
      BY <3>1, <3>2
    <3>4. hook'[h].req \in Recorded(u)' /\ hook'[h].req.user = u
      <4>1. hook[h].req \in Recorded(u)
        BY <1>1, <2>0, <2>1 DEF HookBacked, At
      <4>2. hook[h].req \in Recorded(u)'
        BY <4>1, EvidenceLasts
      <4> QED
        BY <2>0, <3>1, <4>2
    <3>5. ASSUME NEW a, Backed(a) /\ Fits(a) PROVE Backed(a)' /\ Fits(a)'
      BY <3>5, BackingLasts DEF Fits
    <3>6. (Backed(hook[h].verdict) /\ Fits(hook[h].verdict))'
      BY <3>3, BackingLasts DEF Backed, Fits, Refusals, Breadth, Anomalies, Recorded,
                                JournalGrows
    <3> QED
      BY <3>1, <3>4, <3>6 DEF HookBacked, At
  <2>3. CASE ~Alert(Signals(u))
    BY <1>3, <2>0, <2>3, GotoIdleFrame, IdleBacked DEF Read
  <2> QED
    BY <2>2, <2>3
<1>4. CASE RecordBehaviorGet(h)
  <2>0. PICK r, prev : r = hook[h].req /\ prev = win[r.user].score
    OBVIOUS
  <2>1. r \in Request /\ r.user \in User /\ hook[h].at # "idle" /\ r.score \in 0..100
        /\ prev \in 0..100
    BY <1>4, <2>0, BusyHook, RequestFields DEF RecordBehaviorGet, At, TypeOK, DataTyped, Window
  <2>2. CASE r.score <= prev
    <3>1. Goto(h, AfterInspect(r)) /\ AfterInspect(r) \in {"read", "authzIncr", "scopeAdd"}
      BY <1>4, <2>0, <2>1, <2>2, Routing DEF RecordBehaviorGet
    <3>2. /\ hook'[h].at = AfterInspect(r) /\ hook'[h].req = r
          /\ hook'[h].verdict = hook[h].verdict
      BY <2>0, <2>1, <3>1, GotoFrame
    <3> QED
      BY <1>1, <2>0, <2>1, <3>1, <3>2, HookLasts DEF Judged
  <2>3. CASE r.score > prev
    <3>1. /\ hook'[h].req = r /\ hook'[h].at = "behaviorSet" /\ hook'[h].held = prev
      <4>1. ~(r.score <= prev) /\ hook[h] \in HookState
        BY <1>1, <2>1, <2>3
      <4>2. hook'[h] = [hook[h] EXCEPT !.at = "behaviorSet", !.held = prev]
        BY <1>1, <1>4, <2>0, <4>1 DEF RecordBehaviorGet
      <4> QED
        BY <2>0, <4>1, <4>2 DEF HookState
    <3>2. r \in Recorded(r.user)'
      BY <1>1, <2>0, <2>1, EvidenceLasts DEF HookBacked, At
    <3> QED
      BY <2>3, <3>1, <3>2 DEF HookBacked, At, Judged
  <2> QED
    BY <2>1, <2>2, <2>3
<1> QED
  BY <1>2, <1>3, <1>4

LEMMA EvidenceInit == Init => EvidenceInv
<1> SUFFICES ASSUME Init PROVE EvidenceInv
  OBVIOUS
<1>1. ASSUME NEW u \in User PROVE WindowBacked(u)
  BY DEF Init, WindowBacked, EmptyWindow
<1>2. ASSUME NEW h \in Hook PROVE HookBacked(h)
  BY IdleTyped DEF Init, HookBacked, At, Judged
<1> QED
  BY <1>1, <1>2 DEF Init, EvidenceInv

LEMMA EvidenceNext == TypeOK /\ TypeOK' /\ EvidenceInv /\ [Next]_vars => EvidenceInv'
<1> SUFFICES ASSUME TypeOK, TypeOK', EvidenceInv, [Next]_vars PROVE EvidenceInv'
  OBVIOUS
<1>1. JournalGrows
  BY StepGrowsJournal
<1>2. /\ win \in [User -> Window] /\ win' \in [User -> Window]
      /\ \A u \in User : WindowBacked(u)
      /\ \A h \in Hook : HookBacked(h)
      /\ \A a \in alerts : Backed(a) /\ Fits(a)
  BY DEF EvidenceInv, TypeOK, DataTyped
<1>3. ASSUME win' = win PROVE \A u \in User : WindowBacked(u)'
  BY <1>1, <1>2, <1>3, WindowLasts
<1>4. ASSUME alerts' = alerts PROVE \A a \in alerts' : (Backed(a) /\ Fits(a))'
  BY <1>1, <1>2, <1>4, BackingLasts DEF Fits
<1>5. ASSUME NEW h \in Hook, NEW r \in Request, Receive(h, r) PROVE EvidenceInv'
  <2>1. \A g \in Hook \ {h} : HookBacked(g)'
    BY <1>1, <1>2, <1>5, OthersStay, HookStays
  <2>2. HookBacked(h)'
    <3>1. CASE r.user = Nobody
      BY <1>1, <1>2, <1>5, <3>1, HookStays DEF Receive
    <3>2. CASE r.user # Nobody
      <4>1. hook'[h].req = r /\ hook'[h].at = "inspect"
        BY <1>5, <3>2, IdleTyped DEF Receive, TypeOK, HooksTyped, HookState
      <4>2. r \in Recorded(r.user)'
        BY <1>5 DEF Receive, Recorded
      <4> QED
        BY <4>1, <4>2 DEF HookBacked, At, Judged
    <3> QED
      BY <3>1, <3>2
  <2>3. win' = win /\ alerts' = alerts
    BY <1>5 DEF Receive, redisVars
  <2> QED
    BY <1>3, <1>4, <2>1, <2>2, <2>3 DEF EvidenceInv
<1>6. ASSUME NEW h \in Hook, HookStep(h) PROVE EvidenceInv'
  <2>1. \A g \in Hook : HookBacked(g)'
    BY <1>1, <1>2, <1>6, OthersStay, HookStays, MovingHookBacked
  <2>2. \A u \in User : WindowBacked(u)'
    BY <1>1, <1>6, RecordingBacked
  <2>3. CASE Persist(h)
    <3>1. PICK b : b = hook[h].verdict
      OBVIOUS
    <3>2. alerts' = alerts \union {b} /\ Backed(b) /\ Fits(b)
      BY <1>2, <2>3, <3>1 DEF Persist, HookBacked, At, Judged
    <3>3. ASSUME NEW a \in alerts' PROVE (Backed(a) /\ Fits(a))'
      BY <1>1, <1>2, <3>2, <3>3, BackingLasts DEF Fits
    <3> QED
      BY <2>1, <2>2, <3>3 DEF EvidenceInv
  <2>4. CASE ~Persist(h)
    <3>1. alerts' = alerts
      BY <1>6, <2>4 DEF HookStep, Inspect, RecordMassAccess, RecordBehaviorGet,
         RecordBehaviorSet, ScopeAdd, ScopeCard, ScopeExpire, AuthzIncr, AuthzExpire,
         Read, CoolGet, CoolSet, Announce, storeVars
    <3> QED
      BY <1>4, <2>1, <2>2, <3>1 DEF EvidenceInv
  <2> QED
    BY <2>3, <2>4
<1>7. ASSUME NEW h \in Hook, CallFails(h) PROVE EvidenceInv'
  <2>1. \A g \in Hook : HookBacked(g)'
    BY <1>1, <1>2, <1>7, OthersStay, HookStays, MovingHookBacked
  <2>2. win' = win /\ alerts' = alerts
    BY <1>7 DEF CallFails, redisVars, storeVars
  <2> QED
    BY <1>3, <1>4, <2>1, <2>2 DEF EvidenceInv
<1>8. ASSUME NEW H \in SUBSET Hook, InstanceStops(H) PROVE EvidenceInv'
  <2>1. \A g \in Hook : hook'[g] = hook[g] \/ hook'[g] = Idle
    BY <1>8 DEF InstanceStops
  <2>2. \A g \in Hook : HookBacked(g)'
    BY <1>1, <1>2, <2>1, HookStays, IdleBacked
  <2>3. win' = win /\ alerts' = alerts
    BY <1>8 DEF InstanceStops, redisVars, storeVars
  <2> QED
    BY <1>3, <1>4, <2>2, <2>3 DEF EvidenceInv
<1>9. ASSUME NEW v \in User, Clock(v) PROVE EvidenceInv'
  <2>1. hook' = hook /\ alerts' = alerts
    BY <1>9 DEF Clock, WindowCloses, SignalFades, CooldownEnds, HourTurns, storeVars
  <2>2. \A g \in Hook : HookBacked(g)'
    BY <1>1, <1>2, <2>1, HookStays
  <2>3. CASE win' = win
    BY <1>3, <1>4, <2>1, <2>2, <2>3 DEF EvidenceInv
  <2>4. CASE win' # win
    <3>1. PICK k \in {"denied", "allowed", "owners", "score", "mass"} :
             win' = [win EXCEPT ![v][k] = EmptyWindow[k]]
      BY <1>9, <2>4
         DEF Clock, WindowCloses, SignalFades, CooldownEnds, HourTurns, CountedKey
    <3>2. ASSUME NEW u \in User
          PROVE  /\ win'[u].denied \in {0, win[u].denied}
                 /\ win'[u].allowed \in {0, win[u].allowed}
                 /\ win'[u].score \in {0, win[u].score}
                 /\ win'[u].owners \in {{}, win[u].owners}
      <4>1. CASE u # v
        BY <1>2, <3>1, <4>1
      <4>2. CASE u = v
        <5>1. win'[u] = [win[u] EXCEPT ![k] = EmptyWindow[k]] /\ win[u] \in Window
          BY <1>2, <3>1, <4>2
        <5> QED
          BY <5>1 DEF Window, EmptyWindow
      <4> QED
        BY <4>1, <4>2
    <3>3. \A u \in User : WindowBacked(u)'
      BY <1>1, <1>2, <3>2, WindowLasts
    <3> QED
      BY <1>4, <2>1, <2>2, <3>3 DEF EvidenceInv
  <2> QED
    BY <2>3, <2>4
<1>10. ASSUME UNCHANGED vars PROVE EvidenceInv'
  <2>1. win' = win /\ alerts' = alerts /\ hook' = hook
    BY <1>10 DEF vars, redisVars, storeVars
  <2>2. \A g \in Hook : HookBacked(g)'
    BY <1>1, <1>2, <2>1, HookStays
  <2> QED
    BY <1>3, <1>4, <2>1, <2>2 DEF EvidenceInv
<1> QED
  BY <1>5, <1>6, <1>7, <1>8, <1>9, <1>10 DEF Next

LEMMA EvidenceInvariant == Spec => []EvidenceInv
  BY EvidenceInit, EvidenceNext, TypeCorrect, PTL DEF Spec

(* Every alert stands on recorded requests of the user it names, whatever  *)
(* the other users and the other hooks did in between; none is LOW, and a  *)
(* lone layer's is at least HIGH.                                          *)
THEOREM AlertsAreBacked == Spec => []AlertBackedByOwnEvidence
<1>1. EvidenceInv => AlertBackedByOwnEvidence
  BY DEF EvidenceInv, AlertBackedByOwnEvidence
<1> QED
  BY <1>1, EvidenceInvariant, PTL

LEMMA MaximumStep == TypeOK /\ EvidenceInv /\ [Next]_vars => KeepsMaximum
<1> SUFFICES ASSUME TypeOK, EvidenceInv, [Next]_vars, NEW u \in User,
                    win'[u].score \in 1..(win[u].score - 1)
             PROVE  OverwrittenUnseen(u)
  BY DEF KeepsMaximum
<1>1. win \in [User -> Window] /\ win[u] \in Window /\ win[u].score \in 0..100
  BY DEF TypeOK, DataTyped, Window
<1>2. win'[u].score # win[u].score /\ win'[u].score # 0
  BY <1>1
<1>3. ASSUME NEW h \in Hook, HookStep(h) PROVE OverwrittenUnseen(u)
  <2>1. CASE RecordBehaviorSet(h)
    <3>1. hook[h].req.user = u /\ win'[u].score = hook[h].req.score
      BY <1>1, <1>2, <2>1 DEF RecordBehaviorSet, Window
    <3>2. hook[h].held < hook[h].req.score /\ hook[h].held \in 0..100
          /\ hook[h].req.score \in 0..100
      BY <2>1, BusyHook, RequestFields DEF RecordBehaviorSet, At, EvidenceInv, HookBacked, HookState
    <3>3. hook[h].held # win[u].score
      BY <1>1, <3>1, <3>2
    <3> QED
      BY <2>1, <3>1, <3>3 DEF RecordBehaviorSet, OverwrittenUnseen
  <2>2. CASE AuthzIncr(h)
    <3>1. PICK v, k : v = hook[h].req.user /\ k = Outcome(hook[h].req)
      OBVIOUS
    <3>2. k \in {"denied", "allowed"} /\ win' = [win EXCEPT ![v][k] = win[v][k] + 1]
      BY <2>2, <3>1, BusyHook, RequestFields DEF AuthzIncr, At, HookTyped
    <3>3. win'[u].score = win[u].score
      BY <1>1, <3>2 DEF Window
    <3> QED
      BY <1>2, <3>3
  <2>3. CASE RecordMassAccess(h) \/ ScopeAdd(h)
    <3>1. win'[u].score = win[u].score
      BY <1>1, <2>3 DEF RecordMassAccess, ScopeAdd, Window
    <3> QED
      BY <1>2, <3>1
  <2>4. CASE ~(RecordBehaviorSet(h) \/ AuthzIncr(h) \/ RecordMassAccess(h) \/ ScopeAdd(h))
    <3>1. win' = win
      BY <1>3, <2>4 DEF HookStep, Inspect, RecordBehaviorGet, ScopeCard, ScopeExpire,
         AuthzExpire, Read, CoolGet, CoolSet, Persist, Announce, redisVars
    <3> QED
      BY <1>2, <3>1
  <2> QED
    BY <2>1, <2>2, <2>3, <2>4
<1>4. ASSUME win' = win PROVE FALSE
  BY <1>2, <1>4
<1>5. ASSUME NEW v \in User, Clock(v) PROVE FALSE
  <2>1. PICK k \in {"denied", "allowed", "owners", "score", "mass"} :
           win' = win \/ win' = [win EXCEPT ![v][k] = EmptyWindow[k]]
    BY <1>5 DEF Clock, WindowCloses, SignalFades, CooldownEnds, HourTurns, CountedKey
  <2>2. win'[u].score \in {0, win[u].score}
    <3>1. CASE u # v \/ win' = win
      BY <1>1, <2>1, <3>1
    <3>2. CASE u = v /\ win' # win
      <4>1. win'[u] = [win[u] EXCEPT ![k] = EmptyWindow[k]]
        BY <1>1, <2>1, <3>2
      <4> QED
        BY <1>1, <4>1 DEF Window, EmptyWindow
    <3> QED
      BY <3>1, <3>2
  <2> QED
    BY <1>2, <2>2
<1>6. ASSUME \/ \E h \in Hook, r \in Request : Receive(h, r)
             \/ \E h \in Hook : CallFails(h)
             \/ \E H \in (SUBSET Hook) \ {{}} : InstanceStops(H)
             \/ UNCHANGED vars
      PROVE  FALSE
  BY <1>4, <1>6 DEF Receive, CallFails, InstanceStops, vars, redisVars
<1> QED
  BY <1>3, <1>5, <1>6 DEF Next

(* The behaviour score of an open window is lost to a lower one only by a  *)
(* write over a value its writer has not read.                             *)
THEOREM MaximumKept == Spec => MaximumKeptUnlessOverlapped
  BY MaximumStep, TypeCorrect, EvidenceInvariant, PTL DEF Spec, MaximumKeptUnlessOverlapped

=============================================================================
