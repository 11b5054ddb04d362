--------------------------- MODULE DetectionProofs ---------------------------
(***************************************************************************)
(* The invariants of the detector, for every set of users, of hooks and of *)
(* requests and for every value of the bounds.                             *)
(*                                                                         *)
(* TypeOK is inductive: beside the types it says what a hook knows by the  *)
(* await it has reached (HookTyped), and the two counter actions and the   *)
(* scope actions are typed only because of that.  The safety properties    *)
(* stand on it:                                                            *)
(*   CounterWindowCloses and CooldownHasItsAlert are inductive beside      *)
(*     TypeOK as they stand;                                               *)
(*   AlertsPerCooldownBounded needs CooldownBudget, which also counts the  *)
(*     hooks that have passed the GET and not yet made the SETEX.          *)
(* What the alerts themselves stand on is in DetectionEvidence.            *)
(***************************************************************************)
EXTENDS Detection, CorrelationProofs, FiniteSetTheorems, TLAPS

(* Two small facts about the routing of a request through recordRequest.   *)
LEMMA RequestFields ==
    ASSUME NEW r \in Request
    PROVE  /\ r \in RequestType
           /\ r.score \in 0..100
           /\ r.user \in User \union {Nobody}
           /\ Outcome(r) \in {"denied", "allowed", "none"}
           /\ WidensScope(r, r.user) => r.owner \in User
<1>1. r \in RequestType
  BY RequestAssumption
<1>2. r.score \in 0..100 /\ r.user \in User \union {Nobody} /\ r.owner \in User \union {Nobody}
  BY <1>1 DEF RequestType
<1>3. Outcome(r) \in {"denied", "allowed", "none"}
  BY DEF Outcome, AuthzOutcome
<1>4. WidensScope(r, r.user) => r.owner \in User
  BY <1>2 DEF WidensScope
<1> QED
  BY <1>1, <1>2, <1>3, <1>4

LEMMA Routing ==
    ASSUME NEW r \in Request
    PROVE  /\ AfterScope(r) \in {"read", "authzIncr"}
           /\ AfterScope(r) = "authzIncr" => Outcome(r) # "none"
           /\ AfterInspect(r) \in {"read", "authzIncr", "scopeAdd"}
           /\ AfterInspect(r) = "authzIncr" => Outcome(r) # "none"
           /\ AfterInspect(r) = "scopeAdd" => WidensScope(r, r.user)
  BY DEF AfterScope, AfterInspect

LEMMA IdleTyped == Idle \in HookState /\ Idle.at = "idle"
<1>1. (CHOOSE r \in Request : TRUE) \in Request
  BY RequestAssumption
<1>2. NoAlert \in AlertRecord
  BY DEF NoAlert, AlertRecord, Severities, AlertTypes
<1> QED
  BY <1>1, <1>2 DEF Idle, HookState, Label

(* A hook that moves on stays typed if it is entitled to the await it      *)
(* moves to, and the other hooks are not disturbed.                        *)
LEMMA GotoTyped ==
    ASSUME TypeOK, NEW h \in Hook, NEW label \in Label, Goto(h, label),
           alerts \subseteq alerts',
           label # "idle" => hook[h].req.user \in User,
           label \in {"authzIncr", "authzExpire"} => Outcome(hook[h].req) # "none",
           label \in {"scopeAdd", "scopeCard", "scopeExpire"}
               => WidensScope(hook[h].req, hook[h].req.user),
           label \in Judged
               => hook[h].verdict.user = hook[h].req.user /\ hook[h].verdict.layer \in Layer,
           label = "announce" => hook[h].verdict \in alerts'
    PROVE  /\ hook' \in [Hook -> HookState]
           /\ \A g \in Hook : HookTyped(g)'
<1>1. hook \in [Hook -> HookState] /\ \A g \in Hook : HookTyped(g)
  BY DEF TypeOK, HooksTyped
<1>2. ASSUME NEW g \in Hook, g # h
      PROVE  hook'[g] = hook[g]
  BY <1>1, <1>2 DEF Goto
<1>3. hook'[h] = IF label = "idle" THEN Idle ELSE [hook[h] EXCEPT !.at = label]
  BY <1>1 DEF Goto
<1>4. hook'[h] \in HookState /\ hook'[h].at = label
  <2>1. CASE label = "idle"
    BY <1>3, <2>1, IdleTyped
  <2>2. CASE label # "idle"
    BY <1>1, <1>3, <2>2 DEF HookState
  <2> QED
    BY <2>1, <2>2
<1>5. label # "idle" => hook'[h].req = hook[h].req /\ hook'[h].verdict = hook[h].verdict
  BY <1>1, <1>3 DEF HookState
<1>6. hook' \in [Hook -> HookState]
  <2>1. DOMAIN hook' = Hook /\ hook' = [g \in Hook |-> hook'[g]]
    BY <1>1 DEF Goto
  <2> QED
    BY <1>1, <1>2, <1>4, <2>1
<1>7. HookTyped(h)'
  BY <1>4, <1>5 DEF HookTyped, At, Judged
<1>8. ASSUME NEW g \in Hook, g # h
      PROVE  HookTyped(g)'
  BY <1>1, <1>2, <1>8 DEF HookTyped, At
<1> QED
  BY <1>6, <1>7, <1>8

LEMMA InitTyped == Init => TypeOK
<1> SUFFICES ASSUME Init PROVE TypeOK
  OBVIOUS
<1>1. hook \in [Hook -> HookState] /\ \A h \in Hook : HookTyped(h)
  BY IdleTyped DEF Init, HookTyped, At, Judged
<1>2. win \in [User -> Window]
  BY DEF Init, EmptyWindow, Window
<1>3. raised \in [User -> [Layer -> Nat]]
  BY DEF Init
<1>4. hourly \in [User -> 0..MassLimit]
  BY RequestAssumption DEF Init
<1> QED
  BY <1>1, <1>2, <1>3, <1>4 DEF Init, TypeOK, DataTyped, HooksTyped

LEMMA SignalsTyped ==
    ASSUME TypeOK, NEW u \in User
    PROVE  Signals(u) \in LayerSignals
<1>1. win[u] \in Window
  BY DEF TypeOK, DataTyped, Window
<1>2. IsFiniteSet(win[u].owners)
  BY <1>1, FS_Subset, RequestAssumption DEF Window
<1>3. Cardinality(win[u].owners) \in Nat
  BY <1>2, FS_CardinalityType
<1> QED
  BY <1>1, <1>3 DEF Signals, LayerSignals, Window

(* What the read of a window may raise is a well-formed alert.             *)
LEMMA AlertForTyped ==
    ASSUME TypeOK, NEW u \in User, Alert(Signals(u))
    PROVE  AlertFor(u) \in AlertRecord /\ AlertFor(u).user = u /\ AlertFor(u).layer \in Layer
<1>1. Signals(u) \in LayerSignals
  BY SignalsTyped
<1>2. Signals(u).mass \in BOOLEAN
  BY <1>1 DEF LayerSignals
<1>3. AlertType(Signals(u)) \in AlertTypes
  BY DEF AlertType, AlertTypes
<1>4. LayerOf(Signals(u)) \in Layer /\ Severity(Signals(u)) \in Severities
  BY <1>1, AlertSeverity
<1> QED
  BY <1>2, <1>3, <1>4 DEF AlertFor, AlertRecord

(* A busy hook records a request of an authenticated user.                 *)
LEMMA BusyHook ==
    ASSUME TypeOK, NEW h \in Hook, hook[h].at # "idle"
    PROVE  /\ hook[h] \in HookState /\ HookTyped(h)
           /\ hook[h].req \in Request /\ hook[h].req.user \in User
  BY DEF TypeOK, HooksTyped, HookTyped, HookState, At

LEMMA MassTyped ==
    ASSUME win \in [User -> Window], NEW u \in User, NEW b \in BOOLEAN
    PROVE  [win EXCEPT ![u].mass = b] \in [User -> Window]
  BY DEF Window

LEMMA WindowTyped ==
    ASSUME TypeOK, NEW u \in User, NEW k \in {"denied", "allowed", "score", "mass", "owners"}
    PROVE  /\ [win EXCEPT ![u][k] = EmptyWindow[k]] \in [User -> Window]
           /\ k \in {"denied", "allowed"} => [win EXCEPT ![u][k] = @ + 1] \in [User -> Window]
<1>1. win \in [User -> Window]
  BY DEF TypeOK, DataTyped, Window
<1>2. CASE k = "denied"
  BY <1>1, <1>2 DEF Window, EmptyWindow
<1>3. CASE k = "allowed"
  BY <1>1, <1>3 DEF Window, EmptyWindow
<1>4. CASE k = "score"
  BY <1>1, <1>4 DEF Window, EmptyWindow
<1>5. CASE k = "mass"
  <2>1. EmptyWindow[k] \in BOOLEAN
    BY <1>5 DEF EmptyWindow
  <2> QED
    BY <1>1, <1>5, <2>1, MassTyped
<1>6. CASE k = "owners"
  BY <1>1, <1>6 DEF Window, EmptyWindow
<1> QED
  BY <1>2, <1>3, <1>4, <1>5, <1>6

(* A hook that reads Redis and remembers what it saw.                      *)
LEMMA HookUpdated ==
    ASSUME HooksTyped, NEW h \in Hook, NEW rec \in HookState,
           hook' = [hook EXCEPT ![h] = rec], alerts' = alerts, HookTyped(h)'
    PROVE  HooksTyped'
<1>1. hook' \in [Hook -> HookState]
  BY DEF HooksTyped
<1>2. ASSUME NEW g \in Hook, g # h
      PROVE  HookTyped(g)'
  BY <1>2 DEF HooksTyped, HookTyped, At
<1> QED
  BY <1>1, <1>2 DEF HooksTyped

(* The steps of recordRequest keep every type.                             *)
LEMMA ReceiveTyped ==
    ASSUME TypeOK, NEW h \in Hook, NEW r \in Request, Receive(h, r)
    PROVE  TypeOK'
<1>1. DataTyped /\ HooksTyped
  BY DEF TypeOK
<1>2. DataTyped'
  BY <1>1 DEF Receive, DataTyped, redisVars
<1>3. CASE r.user = Nobody
  BY <1>1, <1>2, <1>3 DEF TypeOK, Receive, HooksTyped, HookTyped, At
<1>4. CASE r.user # Nobody
  <2> DEFINE rec == [Idle EXCEPT !.at = "inspect", !.req = r]
  <2>1. rec \in HookState /\ rec.at = "inspect" /\ rec.req = r
    BY IdleTyped DEF HookState, Label
  <2>2. hook' = [hook EXCEPT ![h] = rec] /\ alerts' = alerts
    BY <1>4 DEF Receive
  <2>3. hook'[h] = rec
    BY <1>1, <2>2 DEF HooksTyped
  <2>4. HookTyped(h)'
    BY <1>4, <2>1, <2>3, RequestFields DEF HookTyped, At, Judged
  <2> HIDE DEF rec
  <2>5. HooksTyped'
    BY <1>1, <2>1, <2>2, <2>4, HookUpdated
  <2> QED
    BY <1>2, <2>5 DEF TypeOK
<1> QED
  BY <1>3, <1>4

LEMMA BehaviorTyped ==
    ASSUME TypeOK, NEW h \in Hook,
           Inspect(h) \/ RecordMassAccess(h) \/ RecordBehaviorGet(h) \/ RecordBehaviorSet(h)
    PROVE  TypeOK'
<1> DEFINE r == hook[h].req
<1>1. DataTyped /\ HooksTyped
  BY DEF TypeOK
<1>2. r \in Request /\ r.user \in User /\ r.score \in 0..100 /\ hook[h] \in HookState
  BY BusyHook, RequestFields
     DEF Inspect, RecordMassAccess, RecordBehaviorGet, RecordBehaviorSet, At
<1>3. /\ AfterInspect(r) \in {"read", "authzIncr", "scopeAdd"}
      /\ AfterInspect(r) = "authzIncr" => Outcome(r) # "none"
      /\ AfterInspect(r) = "scopeAdd" => WidensScope(r, r.user)
  BY <1>2, Routing
<1>4. ASSUME NEW label \in {"mass", "behaviorGet", AfterInspect(r)}, Goto(h, label),
             alerts' = alerts
      PROVE  HooksTyped'
  <2>1. label \in Label /\ label \notin Judged
    BY <1>3, <1>4 DEF Label, Judged
  <2> QED
    BY <1>2, <1>3, <1>4, <2>1, GotoTyped DEF HooksTyped, Judged
<1>5. CASE Inspect(h)
  <2>1. Least(hourly[r.user] + 1, MassLimit) \in 0..MassLimit
    BY <1>1, <1>2, RequestAssumption DEF DataTyped, Least
  <2>2. DataTyped'
    BY <1>1, <1>2, <1>5, <2>1 DEF Inspect, DataTyped, storeVars, histVars
  <2>3. HooksTyped'
    BY <1>4, <1>5 DEF Inspect, storeVars
  <2> QED
    BY <2>2, <2>3 DEF TypeOK
<1>6. CASE RecordMassAccess(h)
  <2>1. win' \in [User -> Window]
    BY <1>1, <1>2, <1>6, MassTyped DEF RecordMassAccess, DataTyped
  <2>2. DataTyped'
    BY <1>1, <1>6, <2>1 DEF RecordMassAccess, DataTyped, storeVars, histVars
  <2>3. HooksTyped'
    BY <1>4, <1>6 DEF RecordMassAccess, storeVars
  <2> QED
    BY <2>2, <2>3 DEF TypeOK
<1>7. CASE RecordBehaviorGet(h)
  <2>1. DataTyped'
    BY <1>1, <1>7 DEF RecordBehaviorGet, DataTyped, redisVars, storeVars, histVars
  <2>2. CASE r.score <= win[r.user].score
    <3>1. Goto(h, AfterInspect(r)) /\ alerts' = alerts
      BY <1>7, <2>2 DEF RecordBehaviorGet, storeVars
    <3>2. HooksTyped'
      BY <1>4, <3>1
    <3> QED
      BY <2>1, <3>2 DEF TypeOK
  <2>3. CASE ~(r.score <= win[r.user].score)
    <3> DEFINE rec == [hook[h] EXCEPT !.at = "behaviorSet", !.held = win[r.user].score]
    <3>1. win[r.user].score \in 0..100
      BY <1>1, <1>2 DEF DataTyped, Window
    <3>2. rec \in HookState /\ rec.at = "behaviorSet" /\ rec.req = r
      BY <1>2, <3>1 DEF HookState, Label
    <3>3. hook' = [hook EXCEPT ![h] = rec] /\ alerts' = alerts
      BY <1>1, <1>7, <2>3 DEF RecordBehaviorGet, HooksTyped, storeVars
    <3>4. hook'[h] = rec
      BY <1>1, <3>3 DEF HooksTyped
    <3>5. HookTyped(h)'
      BY <1>2, <3>2, <3>4 DEF HookTyped, At, Judged
    <3> HIDE DEF rec
    <3>6. HooksTyped'
      BY <1>1, <3>2, <3>3, <3>5, HookUpdated
    <3> QED
      BY <2>1, <3>6 DEF TypeOK
  <2> QED
    BY <2>2, <2>3
<1>8. CASE RecordBehaviorSet(h)
  <2>1. win' \in [User -> Window]
    <3>1. win[r.user] \in Window
      BY <1>1, <1>2 DEF DataTyped
    <3>2. [win[r.user] EXCEPT !.score = r.score] \in Window
      BY <1>2, <3>1 DEF Window
    <3> QED
      BY <1>1, <1>2, <1>8, <3>2 DEF RecordBehaviorSet, DataTyped
  <2>2. DataTyped'
    BY <1>1, <1>8, <2>1 DEF RecordBehaviorSet, DataTyped, storeVars, histVars
  <2>3. HooksTyped'
    BY <1>4, <1>8 DEF RecordBehaviorSet, storeVars
  <2> QED
    BY <2>2, <2>3 DEF TypeOK
<1> QED
  BY <1>5, <1>6, <1>7, <1>8

LEMMA ScopeTyped ==
    ASSUME TypeOK, NEW h \in Hook, ScopeAdd(h) \/ ScopeCard(h) \/ ScopeExpire(h)
    PROVE  TypeOK'
<1> DEFINE r == hook[h].req
<1>1. DataTyped /\ HooksTyped
  BY DEF TypeOK
<1>2. r \in Request /\ r.user \in User /\ WidensScope(r, r.user) /\ r.owner \in User
  BY BusyHook, RequestFields DEF ScopeAdd, ScopeCard, ScopeExpire, At, HookTyped
<1>3. /\ AfterScope(r) \in {"read", "authzIncr"}
      /\ AfterScope(r) = "authzIncr" => Outcome(r) # "none"
  BY <1>2, Routing
<1>4. ASSUME NEW label \in {"scopeCard", "scopeExpire", AfterScope(r)}, Goto(h, label),
             alerts' = alerts
      PROVE  HooksTyped'
  <2>1. label \in Label /\ label \notin Judged
    BY <1>3, <1>4 DEF Label, Judged
  <2> QED
    BY <1>2, <1>3, <1>4, <2>1, GotoTyped DEF HooksTyped, Judged
<1>5. CASE ScopeAdd(h)
  <2>1. win' \in [User -> Window]
    <3>1. win[r.user] \in Window
      BY <1>1, <1>2 DEF DataTyped
    <3>2. win[r.user].owners \union {r.owner} \in SUBSET User
      BY <1>2, <3>1 DEF Window
    <3>3. [win[r.user] EXCEPT !.owners = @ \union {r.owner}] \in Window
      BY <3>1, <3>2 DEF Window
    <3> QED
      BY <1>1, <1>2, <1>5, <3>3 DEF ScopeAdd, DataTyped
  <2>2. DataTyped'
    BY <1>1, <1>5, <2>1 DEF ScopeAdd, DataTyped, storeVars, histVars
  <2>3. HooksTyped'
    BY <1>4, <1>5 DEF ScopeAdd, storeVars
  <2> QED
    BY <2>2, <2>3 DEF TypeOK
<1>6. CASE ScopeCard(h)
  <2>1. DataTyped'
    BY <1>1, <1>6 DEF ScopeCard, DataTyped, redisVars, storeVars, histVars
  <2>2. HooksTyped'
    BY <1>4, <1>6 DEF ScopeCard, storeVars
  <2> QED
    BY <2>1, <2>2 DEF TypeOK
<1>7. CASE ScopeExpire(h)
  <2>1. closing' \in [User -> SUBSET CountedKey]
    BY <1>1, <1>2, <1>7 DEF ScopeExpire, SetDeadline, DataTyped, CountedKey
  <2>2. DataTyped'
    BY <1>1, <1>7, <2>1 DEF ScopeExpire, DataTyped, storeVars, histVars
  <2>3. HooksTyped'
    BY <1>4, <1>7 DEF ScopeExpire, storeVars
  <2> QED
    BY <2>2, <2>3 DEF TypeOK
<1> QED
  BY <1>5, <1>6, <1>7

LEMMA AuthzTyped ==
    ASSUME TypeOK, NEW h \in Hook, AuthzIncr(h) \/ AuthzExpire(h)
    PROVE  TypeOK'
<1> DEFINE r == hook[h].req
<1>1. DataTyped /\ HooksTyped
  BY DEF TypeOK
<1>2. r \in Request /\ r.user \in User /\ Outcome(r) \in {"denied", "allowed"}
  BY BusyHook, RequestFields DEF AuthzIncr, AuthzExpire, At, HookTyped
<1>3. ASSUME NEW label \in {"authzExpire", "read"}, Goto(h, label), alerts' = alerts
      PROVE  HooksTyped'
  <2>1. label \in Label /\ label \notin Judged
    BY <1>3 DEF Label, Judged
  <2> QED
    BY <1>2, <1>3, <2>1, GotoTyped DEF HooksTyped, Judged
<1>4. CASE AuthzIncr(h)
  <2>1. win' = [win EXCEPT ![r.user][Outcome(r)] = @ + 1]
    BY <1>4 DEF AuthzIncr
  <2>2. win' \in [User -> Window]
    BY <1>2, <2>1, WindowTyped
  <2>3. DataTyped'
    BY <1>1, <1>4, <2>2 DEF AuthzIncr, DataTyped, storeVars, histVars
  <2>4. HooksTyped'
    BY <1>3, <1>4 DEF AuthzIncr, storeVars
  <2> QED
    BY <2>3, <2>4 DEF TypeOK
<1>5. CASE AuthzExpire(h)
  <2>1. closing' \in [User -> SUBSET CountedKey]
    BY <1>1, <1>2, <1>5 DEF AuthzExpire, SetDeadline, DataTyped, CountedKey
  <2>2. DataTyped'
    BY <1>1, <1>5, <2>1 DEF AuthzExpire, DataTyped, storeVars, histVars
  <2>3. HooksTyped'
    BY <1>3, <1>5 DEF AuthzExpire, storeVars
  <2> QED
    BY <2>2, <2>3 DEF TypeOK
<1> QED
  BY <1>4, <1>5

LEMMA EvaluateTyped ==
    ASSUME TypeOK, NEW h \in Hook,
           Read(h) \/ CoolGet(h) \/ CoolSet(h) \/ Persist(h) \/ Announce(h)
    PROVE  TypeOK'
<1> DEFINE r == hook[h].req
           a == hook[h].verdict
<1>1. DataTyped /\ HooksTyped
  BY DEF TypeOK
<1>2. hook[h] \in HookState /\ HookTyped(h) /\ r \in Request /\ r.user \in User
  BY BusyHook DEF Read, CoolGet, CoolSet, Persist, Announce, At
<1>3. CASE Read(h)
  <2>1. DataTyped'
    BY <1>1, <1>3 DEF Read, DataTyped, redisVars, storeVars, histVars
  <2>2. CASE Alert(Signals(r.user))
    <3> DEFINE rec == [hook[h] EXCEPT !.at = "coolGet", !.verdict = AlertFor(r.user)]
    <3>1. /\ AlertFor(r.user) \in AlertRecord /\ AlertFor(r.user).user = r.user
          /\ AlertFor(r.user).layer \in Layer
      BY <1>2, <2>2, AlertForTyped
    <3>2. rec \in HookState /\ rec.at = "coolGet" /\ rec.req = r /\ rec.verdict = AlertFor(r.user)
      BY <1>2, <3>1 DEF HookState, Label
    <3>3. hook' = [hook EXCEPT ![h] = rec] /\ alerts' = alerts
      BY <1>1, <1>3, <2>2 DEF Read, HooksTyped, storeVars
    <3>4. hook'[h] = rec
      BY <1>1, <3>3 DEF HooksTyped
    <3>5. HookTyped(h)'
      BY <1>2, <3>1, <3>2, <3>4 DEF HookTyped, At, Judged
    <3> HIDE DEF rec
    <3>6. HooksTyped'
      BY <1>1, <3>2, <3>3, <3>5, HookUpdated
    <3> QED
      BY <2>1, <3>6 DEF TypeOK
  <2>3. CASE ~Alert(Signals(r.user))
    <3>1. Goto(h, "idle") /\ alerts' = alerts
      BY <1>3, <2>3 DEF Read, storeVars
    <3>2. HooksTyped'
      BY <3>1, GotoTyped DEF HooksTyped, Label, Judged
    <3> QED
      BY <2>1, <3>2 DEF TypeOK
  <2> QED
    BY <2>2, <2>3
<1>4. ASSUME hook[h].at \in Judged
      PROVE  a \in AlertRecord /\ a.user = r.user /\ a.layer \in Layer
  BY <1>2, <1>4 DEF HookTyped, HookState
<1>5. CASE CoolGet(h)
  <2>1. DataTyped'
    BY <1>1, <1>5 DEF CoolGet, DataTyped, redisVars, storeVars, histVars
  <2>2. PICK label \in {"idle", "coolSet"} : Goto(h, label)
    BY <1>5 DEF CoolGet
  <2>3. label \in Label /\ alerts' = alerts
    BY <1>5 DEF Label, CoolGet, storeVars
  <2>4. HooksTyped'
    BY <1>2, <1>4, <1>5, <2>2, <2>3, GotoTyped DEF HooksTyped, CoolGet, At, Judged
  <2> QED
    BY <2>1, <2>4 DEF TypeOK
<1>6. CASE CoolSet(h)
  <2>1. a.user \in User /\ a.layer \in Layer
    BY <1>2, <1>4, <1>6 DEF CoolSet, At, Judged
  <2>2. DataTyped'
    BY <1>1, <1>6, <2>1 DEF CoolSet, DataTyped, storeVars
  <2>3. Goto(h, "persist") /\ alerts' = alerts
    BY <1>6 DEF CoolSet, storeVars
  <2>4. HooksTyped'
    BY <1>2, <1>4, <1>6, <2>3, GotoTyped DEF HooksTyped, Label, CoolSet, At, Judged
  <2> QED
    BY <2>2, <2>4 DEF TypeOK
<1>7. CASE Persist(h)
  <2>1. a \in AlertRecord /\ a.user \in User /\ a.layer \in Layer
    BY <1>2, <1>4, <1>7 DEF Persist, At, Judged
  <2>2. DataTyped'
    BY <1>1, <1>7, <2>1 DEF Persist, DataTyped, redisVars
  <2>3. Goto(h, "announce") /\ alerts \subseteq alerts' /\ a \in alerts'
    BY <1>7 DEF Persist
  <2>4. HooksTyped'
    BY <1>2, <1>4, <1>7, <2>3, GotoTyped DEF HooksTyped, Label, Persist, At, Judged
  <2> QED
    BY <2>2, <2>4 DEF TypeOK
<1>8. CASE Announce(h)
  <2>1. a \in alerts
    BY <1>2, <1>8 DEF Announce, HookTyped
  <2>2. DataTyped'
    BY <1>1, <1>8, <2>1 DEF Announce, DataTyped, redisVars, histVars
  <2>3. Goto(h, "idle") /\ alerts' = alerts
    BY <1>8 DEF Announce
  <2>4. HooksTyped'
    BY <2>3, GotoTyped DEF HooksTyped, Label, Judged
  <2> QED
    BY <2>2, <2>4 DEF TypeOK
<1> QED
  BY <1>3, <1>5, <1>6, <1>7, <1>8

LEMMA FailureTyped ==
    ASSUME TypeOK,
           \/ \E h \in Hook : CallFails(h)
           \/ \E H \in (SUBSET Hook) \ {{}} : InstanceStops(H)
    PROVE  TypeOK'
<1>1. DataTyped /\ HooksTyped
  BY DEF TypeOK
<1>2. ASSUME NEW H \in SUBSET Hook
      PROVE  TornBy(H) \subseteq User \X CountedKey /\ SilencedBy(H) \subseteq User \X Layer
  <2>1. ASSUME NEW h \in H, At(h, "authzExpire")
        PROVE  <<hook[h].req.user, Outcome(hook[h].req)>> \in User \X CountedKey
    <3>1. hook[h].req.user \in User /\ Outcome(hook[h].req) \in {"denied", "allowed"}
      BY <2>1, BusyHook, RequestFields DEF At, HookTyped
    <3> QED
      BY <3>1 DEF CountedKey
  <2>2. ASSUME NEW h \in H, hook[h].at \in {"scopeCard", "scopeExpire"}
        PROVE  <<hook[h].req.user, "owners">> \in User \X CountedKey
    BY <2>2, BusyHook DEF CountedKey
  <2>3. ASSUME NEW h \in H, hook[h].at \in {"persist", "announce"}
        PROVE  <<hook[h].verdict.user, hook[h].verdict.layer>> \in User \X Layer
    <3>1. hook[h].verdict.user \in User /\ hook[h].verdict.layer \in Layer
      BY <2>3, BusyHook DEF HookTyped, Judged
    <3> QED
      BY <3>1
  <2> QED
    BY <2>1, <2>2, <2>3 DEF TornBy, SilencedBy
<1>3. ASSUME NEW h \in Hook, CallFails(h)
      PROVE  TypeOK'
  <2> DEFINE r == hook[h].req
  <2>1. r \in Request /\ r.user \in User
    BY <1>3, BusyHook DEF CallFails
  <2>2. DataTyped'
    BY <1>1, <1>2, <1>3 DEF CallFails, DataTyped, redisVars, storeVars
  <2>3. PICK label \in {"idle", AfterInspect(r)} : Goto(h, label)
    BY <1>3 DEF CallFails
  <2>4. /\ label \in Label /\ label \notin Judged
        /\ label \in {"idle", "read", "authzIncr", "scopeAdd"}
        /\ label = "authzIncr" => Outcome(r) # "none"
        /\ label = "scopeAdd" => WidensScope(r, r.user)
    BY <2>1, <2>3, Routing DEF Label, Judged
  <2>5. alerts' = alerts
    BY <1>3 DEF CallFails, storeVars
  <2>6. HooksTyped'
    BY <2>1, <2>3, <2>4, <2>5, GotoTyped DEF HooksTyped, Judged
  <2> QED
    BY <2>2, <2>6 DEF TypeOK
<1>4. ASSUME NEW H \in (SUBSET Hook) \ {{}}, InstanceStops(H)
      PROVE  TypeOK'
  <2>1. DataTyped'
    BY <1>1, <1>2, <1>4 DEF InstanceStops, DataTyped, redisVars, storeVars
  <2>2. hook' \in [Hook -> HookState]
    BY <1>1, <1>4, IdleTyped DEF InstanceStops, HooksTyped
  <2>3. ASSUME NEW g \in Hook PROVE HookTyped(g)'
    BY <1>1, <1>4, IdleTyped DEF InstanceStops, HooksTyped, HookTyped, At, Judged, storeVars
  <2> QED
    BY <2>1, <2>2, <2>3 DEF TypeOK, HooksTyped
<1> QED
  BY <1>3, <1>4

LEMMA ClockTyped ==
    ASSUME TypeOK, NEW u \in User, Clock(u)
    PROVE  TypeOK'
<1>1. DataTyped /\ HooksTyped
  BY DEF TypeOK
<1>2. hook' = hook /\ alerts' = alerts
  BY DEF Clock, WindowCloses, SignalFades, CooldownEnds, HourTurns, storeVars
<1>3. HooksTyped'
  BY <1>1, <1>2 DEF HooksTyped, HookTyped, At
<1>4. ASSUME NEW k \in CountedKey, WindowCloses(u, k)
      PROVE  DataTyped'
  <2>1. win' \in [User -> Window]
    BY <1>4, WindowTyped DEF WindowCloses, CountedKey
  <2>2. closing' \in [User -> SUBSET CountedKey]
    BY <1>1, <1>4 DEF WindowCloses, DataTyped
  <2> QED
    BY <1>1, <1>4, <2>1, <2>2 DEF WindowCloses, Tick, DataTyped, storeVars
<1>5. ASSUME NEW k \in {"score", "mass"}, SignalFades(u, k)
      PROVE  DataTyped'
  <2>1. win' \in [User -> Window]
    BY <1>5, WindowTyped DEF SignalFades
  <2> QED
    BY <1>1, <1>5, <2>1 DEF SignalFades, Tick, DataTyped, storeVars
<1>6. ASSUME NEW l \in Layer, CooldownEnds(u, l)
      PROVE  DataTyped'
  BY <1>1, <1>6 DEF CooldownEnds, Tick, DataTyped, storeVars
<1>7. ASSUME HourTurns(u)
      PROVE  DataTyped'
  BY <1>1, <1>7, RequestAssumption DEF HourTurns, Tick, DataTyped, storeVars
<1> QED
  BY <1>3, <1>4, <1>5, <1>6, <1>7 DEF Clock, TypeOK

LEMMA StutterTyped ==
    ASSUME TypeOK, UNCHANGED vars
    PROVE  TypeOK'
<1>1. DataTyped /\ HooksTyped
  BY DEF TypeOK
<1>2. DataTyped'
  BY <1>1 DEF DataTyped, vars, redisVars, storeVars, histVars
<1>3. HooksTyped'
  BY <1>1 DEF HooksTyped, HookTyped, At, vars, storeVars
<1> QED
  BY <1>2, <1>3 DEF TypeOK

LEMMA NextTyped == TypeOK /\ [Next]_vars => TypeOK'
<1> SUFFICES ASSUME TypeOK, [Next]_vars PROVE TypeOK'
  OBVIOUS
<1>1. ASSUME NEW h \in Hook, NEW r \in Request, Receive(h, r) PROVE TypeOK'
  BY <1>1, ReceiveTyped
<1>2. ASSUME NEW h \in Hook, HookStep(h) PROVE TypeOK'
  BY <1>2, BehaviorTyped, ScopeTyped, AuthzTyped, EvaluateTyped DEF HookStep
<1>3. ASSUME NEW u \in User, Clock(u) PROVE TypeOK'
  BY <1>3, ClockTyped
<1> QED
  BY <1>1, <1>2, <1>3, FailureTyped, StutterTyped DEF Next

(* Every reachable state is well typed, and a hook stands only at awaits   *)
(* its request and its verdict entitle it to.                              *)
THEOREM TypeCorrect == Spec => []TypeOK
  BY InitTyped, NextTyped, PTL DEF Spec

-----------------------------------------------------------------------------
(* What a step of one hook leaves alone.                                   *)
LEMMA GotoFrame ==
    ASSUME TypeOK, NEW h \in Hook, NEW label, label # "idle", Goto(h, label)
    PROVE  /\ \A g \in Hook \ {h} : hook'[g] = hook[g]
           /\ hook'[h].at = label /\ hook'[h].req = hook[h].req
           /\ hook'[h].verdict = hook[h].verdict /\ hook'[h].held = hook[h].held
  BY DEF TypeOK, HooksTyped, HookState, Goto

LEMMA GotoIdleFrame ==
    ASSUME TypeOK, NEW h \in Hook, Goto(h, "idle")
    PROVE  (\A g \in Hook \ {h} : hook'[g] = hook[g]) /\ hook'[h] = Idle
  BY DEF TypeOK, HooksTyped, Goto

(* A hook's step moves no other hook.                                      *)
LEMMA OthersStay ==
    ASSUME TypeOK, NEW h \in Hook,
           HookStep(h) \/ CallFails(h) \/ \E r \in Request : Receive(h, r)
    PROVE  \A g \in Hook \ {h} : hook'[g] = hook[g]
<1>1. hook \in [Hook -> HookState]
  BY DEF TypeOK, HooksTyped
<1>2. CASE HookStep(h)
  BY <1>1, <1>2
     DEF HookStep, Goto, Inspect, RecordMassAccess, RecordBehaviorGet, RecordBehaviorSet,
         ScopeAdd, ScopeCard, ScopeExpire, AuthzIncr, AuthzExpire, Read, CoolGet, CoolSet,
         Persist, Announce
<1>3. CASE CallFails(h)
  BY <1>1, <1>3 DEF CallFails, Goto
<1>4. CASE \E r \in Request : Receive(h, r)
  BY <1>1, <1>4 DEF Receive
<1> QED
  BY <1>2, <1>3, <1>4

----------------------------------------------------------------------------
(* The windows of the two request counters close.                          *)

Counters == {"denied", "allowed"}

(* A step that moves no counter and no hook between INCR and EXPIRE.       *)
LEMMA CounterQuiet ==
    ASSUME CounterWindowCloses, NEW h \in Hook, hook[h].at # "authzExpire",
           \A g \in Hook \ {h} : hook'[g] = hook[g],
           \A u \in User : win'[u].denied = win[u].denied /\ win'[u].allowed = win[u].allowed,
           \A u \in User : closing[u] \subseteq closing'[u],
           torn \subseteq torn'
    PROVE  CounterWindowCloses'
<1> SUFFICES ASSUME NEW u \in User, NEW k \in Counters, Present(u, k)'
             PROVE  WillClose(u, k)'
  BY DEF CounterWindowCloses, WillClose, Counters
<1>1. Present(u, k)
  BY DEF Present, Counters
<1>2. k \in closing[u] \/ AboutToExpire(u, k) \/ <<u, k>> \in torn
  BY <1>1 DEF CounterWindowCloses, WillClose, Counters
<1>3. AboutToExpire(u, k) => AboutToExpire(u, k)'
  BY DEF AboutToExpire, At, Counters
<1> QED
  BY <1>2, <1>3 DEF WillClose

LEMMA CounterHookStep ==
    ASSUME TypeOK, CounterWindowCloses, NEW h \in Hook, HookStep(h)
    PROVE  CounterWindowCloses'
<1> DEFINE r == hook[h].req
           c == Outcome(r)
<1>1. win \in [User -> Window] /\ closing \in [User -> SUBSET CountedKey]
  BY DEF TypeOK, DataTyped
<1>2. \A g \in Hook \ {h} : hook'[g] = hook[g]
  BY OthersStay
<1>3. hook[h].at # "idle" => r \in Request /\ r.user \in User /\ HookTyped(h)
  BY BusyHook
<1>4. CASE AuthzIncr(h)
  <2>1. r.user \in User /\ c \in Counters
    BY <1>3, <1>4, RequestFields DEF AuthzIncr, At, HookTyped, Counters
  <2>2. win' = [win EXCEPT ![r.user][c] = @ + 1]
    BY <1>4 DEF AuthzIncr
  <2>3. closing' = closing /\ torn' = torn
    BY <1>4 DEF AuthzIncr, histVars
  <2> SUFFICES ASSUME NEW u \in User, NEW k \in Counters, Present(u, k)'
               PROVE  WillClose(u, k)'
    BY DEF CounterWindowCloses, WillClose, Counters
  <2>4. CASE u = r.user /\ k = c /\ ~Present(u, k)
    <3>1. win[r.user][c] + 1 = 1
      BY <2>1, <2>4 DEF Present, EmptyWindow, Counters
    <3>2. Goto(h, "authzExpire")
      BY <1>4, <3>1 DEF AuthzIncr
    <3>3. hook'[h].at = "authzExpire" /\ hook'[h].req = r
      BY <3>2, GotoFrame
    <3>4. AboutToExpire(u, k)'
      BY <2>4, <3>3 DEF AboutToExpire, At
    <3> QED
      BY <3>4 DEF WillClose
  <2>5. CASE ~(u = r.user /\ k = c /\ ~Present(u, k))
    <3>1. Present(u, k)
      <4>1. CASE u = r.user /\ k = c
        BY <2>5, <4>1
      <4>2. CASE u # r.user
        BY <1>1, <2>2, <4>2 DEF Present
      <4>3. CASE u = r.user /\ k # c
        <5>1. win'[u] = [win[u] EXCEPT ![c] = @ + 1] /\ win[u] \in Window
          BY <1>1, <2>2, <4>3
        <5>2. win'[u][k] = win[u][k]
          BY <2>1, <4>3, <5>1 DEF Window, Counters
        <5> QED
          BY <5>2 DEF Present
      <4> QED
        BY <4>1, <4>2, <4>3
    <3>2. k \in closing[u] \/ AboutToExpire(u, k) \/ <<u, k>> \in torn
      BY <3>1 DEF CounterWindowCloses, WillClose, Counters
    <3>3. AboutToExpire(u, k) => AboutToExpire(u, k)'
      BY <1>2, <1>4 DEF AboutToExpire, AuthzIncr, At, Counters
    <3> QED
      BY <2>3, <3>2, <3>3 DEF WillClose
  <2> QED
    BY <2>4, <2>5
<1>5. CASE AuthzExpire(h)
  <2>1. r.user \in User /\ c \in Counters
    BY <1>3, <1>5, RequestFields DEF AuthzExpire, At, HookTyped, Counters
  <2>2. win' = win /\ torn' = torn /\ SetDeadline(r.user, c)
    BY <1>5 DEF AuthzExpire, histVars
  <2> SUFFICES ASSUME NEW u \in User, NEW k \in Counters, Present(u, k)'
               PROVE  WillClose(u, k)'
    BY DEF CounterWindowCloses, WillClose, Counters
  <2>3. Present(u, k)
    BY <2>2 DEF Present, Counters
  <2>4. CASE u = r.user /\ k = c
    BY <1>1, <2>1, <2>2, <2>3, <2>4 DEF SetDeadline, WillClose
  <2>5. CASE ~(u = r.user /\ k = c)
    <3>1. k \in closing[u] => k \in closing'[u]
      BY <1>1, <2>1, <2>2 DEF SetDeadline
    <3>2. k \in closing[u] \/ AboutToExpire(u, k) \/ <<u, k>> \in torn
      BY <2>3 DEF CounterWindowCloses, WillClose, Counters
    <3>3. AboutToExpire(u, k) => AboutToExpire(u, k)'
      BY <1>2, <1>5, <2>5 DEF AboutToExpire, AuthzExpire, At, Counters
    <3> QED
      BY <2>2, <3>1, <3>2, <3>3 DEF WillClose
  <2> QED
    BY <2>4, <2>5
<1>6. CASE RecordMassAccess(h) \/ RecordBehaviorSet(h) \/ ScopeAdd(h)
  <2>1. /\ \A u \in User : win'[u].denied = win[u].denied /\ win'[u].allowed = win[u].allowed
        /\ closing' = closing /\ torn' = torn /\ hook[h].at # "authzExpire"
    BY <1>1, <1>3, <1>6 DEF RecordMassAccess, RecordBehaviorSet, ScopeAdd, Window, At, histVars
  <2> QED
    BY <1>2, <2>1, CounterQuiet
<1>7. CASE ScopeExpire(h)
  <2>1. /\ win' = win /\ torn' = torn /\ hook[h].at # "authzExpire"
        /\ \A u \in User : closing[u] \subseteq closing'[u]
    BY <1>1, <1>7 DEF ScopeExpire, SetDeadline, At, histVars
  <2> QED
    BY <1>2, <2>1, CounterQuiet
<1>8. CASE \/ Inspect(h) \/ RecordBehaviorGet(h) \/ ScopeCard(h) \/ Read(h)
            \/ CoolGet(h) \/ CoolSet(h) \/ Persist(h) \/ Announce(h)
  <2>1. win' = win /\ closing' = closing /\ torn' = torn /\ hook[h].at # "authzExpire"
    BY <1>8 DEF Inspect, RecordBehaviorGet, ScopeCard, Read, CoolGet, CoolSet, Persist,
                Announce, At, redisVars, histVars
  <2> QED
    BY <1>2, <2>1, CounterQuiet
<1> QED
  BY <1>4, <1>5, <1>6, <1>7, <1>8 DEF HookStep

LEMMA CounterNext == TypeOK /\ CounterWindowCloses /\ [Next]_vars => CounterWindowCloses'
<1> SUFFICES ASSUME TypeOK, CounterWindowCloses, [Next]_vars
             PROVE  CounterWindowCloses'
  OBVIOUS
<1>1. win \in [User -> Window] /\ closing \in [User -> SUBSET CountedKey]
  BY DEF TypeOK, DataTyped
<1>2. ASSUME NEW h \in Hook, NEW r \in Request, Receive(h, r)
      PROVE  CounterWindowCloses'
  <2>1. win' = win /\ closing' = closing /\ torn' = torn /\ hook[h].at # "authzExpire"
    BY <1>2 DEF Receive, At, redisVars
  <2> QED
    BY <1>2, <2>1, OthersStay, CounterQuiet
<1>3. ASSUME NEW h \in Hook, CallFails(h)
      PROVE  CounterWindowCloses'
  <2>1. win' = win /\ closing' = closing /\ torn' = torn \union TornBy({h})
    BY <1>3 DEF CallFails, redisVars
  <2>2. \A g \in Hook \ {h} : hook'[g] = hook[g]
    BY <1>3, OthersStay
  <2> SUFFICES ASSUME NEW u \in User, NEW k \in Counters, Present(u, k)'
               PROVE  WillClose(u, k)'
    BY DEF CounterWindowCloses, WillClose, Counters
  <2>3. k \in closing[u] \/ AboutToExpire(u, k) \/ <<u, k>> \in torn
    BY <2>1 DEF CounterWindowCloses, WillClose, Counters, Present
  <2>4. CASE AboutToExpire(u, k)
    <3>1. PICK g \in Hook : hook[g].req.user = u /\ At(g, "authzExpire") /\ Outcome(hook[g].req) = k
      BY <2>4 DEF AboutToExpire, Counters
    <3>2. CASE g = h
      BY <2>1, <3>1, <3>2 DEF TornBy, WillClose
    <3>3. CASE g # h
      BY <2>2, <3>1, <3>3 DEF AboutToExpire, WillClose, At
    <3> QED
      BY <3>2, <3>3
  <2> QED
    BY <2>1, <2>3, <2>4 DEF WillClose
<1>4. ASSUME NEW H \in (SUBSET Hook) \ {{}}, InstanceStops(H)
      PROVE  CounterWindowCloses'
  <2>1. win' = win /\ closing' = closing /\ torn' = torn \union TornBy(H)
    BY <1>4 DEF InstanceStops, redisVars
  <2>2. \A g \in Hook \ H : hook'[g] = hook[g]
    BY <1>4 DEF InstanceStops
  <2> SUFFICES ASSUME NEW u \in User, NEW k \in Counters, Present(u, k)'
               PROVE  WillClose(u, k)'
    BY DEF CounterWindowCloses, WillClose, Counters
  <2>3. k \in closing[u] \/ AboutToExpire(u, k) \/ <<u, k>> \in torn
    BY <2>1 DEF CounterWindowCloses, WillClose, Counters, Present
  <2>4. CASE AboutToExpire(u, k)
    <3>1. PICK g \in Hook : hook[g].req.user = u /\ At(g, "authzExpire") /\ Outcome(hook[g].req) = k
      BY <2>4 DEF AboutToExpire, Counters
    <3>2. CASE g \in H
      BY <2>1, <3>1, <3>2 DEF TornBy, WillClose
    <3>3. CASE g \notin H
      BY <2>2, <3>1, <3>3 DEF AboutToExpire, WillClose, At
    <3> QED
      BY <3>2, <3>3
  <2> QED
    BY <2>1, <2>3, <2>4 DEF WillClose
<1>5. ASSUME NEW u \in User, Clock(u)
      PROVE  CounterWindowCloses'
  <2>1. hook' = hook /\ torn' = torn
    BY <1>5 DEF Clock, WindowCloses, SignalFades, CooldownEnds, HourTurns
  <2>2. ASSUME NEW v \in User, NEW k \in Counters, Present(v, k)'
        PROVE  Present(v, k) /\ (k \in closing[v] => k \in closing'[v])
    <3>1. CASE \E c \in CountedKey : WindowCloses(u, c)
      <4>1. PICK c \in CountedKey : WindowCloses(u, c)
        BY <3>1
      <4>2. win' = [win EXCEPT ![u][c] = EmptyWindow[c]]
        BY <4>1 DEF WindowCloses
      <4>3. ~(v = u /\ k = c)
        BY <1>1, <2>2, <4>2 DEF Present, Window, Counters
      <4>4. win'[v][k] = win[v][k]
        BY <1>1, <4>2, <4>3 DEF Window, Counters, CountedKey
      <4>5. k \in closing[v] => k \in closing'[v]
        BY <1>1, <4>1, <4>3 DEF WindowCloses
      <4> QED
        BY <2>2, <4>4, <4>5 DEF Present
    <3>2. CASE \E c \in {"score", "mass"} : SignalFades(u, c)
      <4>1. PICK c \in {"score", "mass"} : SignalFades(u, c)
        BY <3>2
      <4>2. win' = [win EXCEPT ![u][c] = EmptyWindow[c]] /\ closing' = closing
        BY <4>1 DEF SignalFades
      <4>3. win'[v][k] = win[v][k]
        BY <1>1, <4>2 DEF Window, Counters
      <4> QED
        BY <2>2, <4>2, <4>3 DEF Present
    <3>3. CASE HourTurns(u) \/ \E l \in Layer : CooldownEnds(u, l)
      BY <2>2, <3>3 DEF HourTurns, CooldownEnds, Present, Counters
    <3> QED
      BY <1>5, <3>1, <3>2, <3>3 DEF Clock
  <2>3. ASSUME NEW v \in User, NEW k \in Counters, AboutToExpire(v, k)
        PROVE  AboutToExpire(v, k)'
    BY <2>1, <2>3 DEF AboutToExpire, At
  <2> QED
    BY <2>1, <2>2, <2>3 DEF CounterWindowCloses, WillClose, Counters
<1>6. ASSUME UNCHANGED vars
      PROVE  CounterWindowCloses'
  BY <1>6 DEF CounterWindowCloses, WillClose, AboutToExpire, Present, At, vars, redisVars,
              histVars
<1> QED
  BY <1>2, <1>3, <1>4, <1>5, <1>6, CounterHookStep DEF Next

(* bump sets the deadline of the key it creates however the hooks          *)
(* interleave: unless a failure falls exactly between INCR and EXPIRE, the *)
(* window of every refusal and foreign-access counter closes.              *)
THEOREM CountersClose == Spec => []CounterWindowCloses
<1>1. Init => CounterWindowCloses
  BY DEF Init, CounterWindowCloses, WillClose, Present, EmptyWindow
<1> QED
  BY <1>1, CounterNext, TypeCorrect, PTL DEF Spec

----------------------------------------------------------------------------
(* The cooldown.                                                           *)

\* Hooks that have seen no cooldown of this layer and are about to set one.
Pending(u, l) ==
    {h \in Hook : At(h, "coolSet") /\ hook[h].verdict.user = u /\ hook[h].verdict.layer = l}

CooldownBudget ==
    \A u \in User, l \in Layer :
        /\ raised[u][l] + Cardinality(Pending(u, l)) <= Cardinality(Hook)
        /\ l \notin cooldown[u] => raised[u][l] = 0

LEMMA PendingFinite ==
    ASSUME NEW S \in SUBSET Hook
    PROVE  /\ IsFiniteSet(S) /\ Cardinality(S) \in Nat /\ Cardinality(Hook) \in Nat
           /\ Cardinality(S) <= Cardinality(Hook)
  BY FS_Subset, FS_CardinalityType, RequestAssumption

LEMMA PendingShrinks ==
    ASSUME NEW S \in SUBSET Hook, NEW T \in SUBSET S
    PROVE  Cardinality(T) <= Cardinality(S)
  BY FS_Subset, PendingFinite

(* A step that lets no new hook past the GET and leaves the keys alone.    *)
LEMMA BudgetQuiet ==
    ASSUME TypeOK, CooldownBudget, raised' = raised, cooldown' = cooldown,
           \A h \in Hook : hook'[h] = hook[h] \/ hook'[h].at # "coolSet"
    PROVE  CooldownBudget'
<1> SUFFICES ASSUME NEW u \in User, NEW l \in Layer
             PROVE  /\ raised[u][l] + Cardinality(Pending(u, l)') <= Cardinality(Hook)
                    /\ l \notin cooldown[u] => raised[u][l] = 0
  BY DEF CooldownBudget
<1>1. Pending(u, l)' \subseteq Pending(u, l) /\ Pending(u, l) \subseteq Hook
  BY DEF Pending, At
<1>2. Cardinality(Pending(u, l)') <= Cardinality(Pending(u, l))
  BY <1>1, PendingShrinks
<1>3. Cardinality(Pending(u, l)') \in Nat /\ Cardinality(Pending(u, l)) \in Nat
      /\ Cardinality(Hook) \in Nat
  BY <1>1, PendingFinite
<1>4. raised[u][l] \in Nat
  BY DEF TypeOK, DataTyped
<1>5. /\ raised[u][l] + Cardinality(Pending(u, l)) <= Cardinality(Hook)
      /\ l \notin cooldown[u] => raised[u][l] = 0
  BY DEF CooldownBudget
<1> QED
  BY <1>2, <1>3, <1>4, <1>5

LEMMA BudgetHookStep ==
    ASSUME TypeOK, CooldownBudget, NEW h \in Hook, HookStep(h)
    PROVE  CooldownBudget'
<1> DEFINE a == hook[h].verdict
<1>1. hook \in [Hook -> HookState]
  BY DEF TypeOK, HooksTyped
<1>2. \A g \in Hook \ {h} : hook'[g] = hook[g]
  BY OthersStay
<1>3. /\ raised \in [User -> [Layer -> Nat]]
      /\ cooldown \in [User -> SUBSET Layer]
  BY DEF TypeOK, DataTyped
<1>4. hook[h].at \in Judged => a.user \in User /\ a.layer \in Layer
  BY BusyHook DEF HookTyped, Judged
<1>5. CASE CoolGet(h)
  <2>1. raised' = raised /\ cooldown' = cooldown /\ a.user \in User /\ a.layer \in Layer
    BY <1>4, <1>5 DEF CoolGet, At, Judged, redisVars, histVars
  <2>2. CASE a.layer \in cooldown[a.user]
    <3>1. Goto(h, "idle")
      BY <1>5, <2>2 DEF CoolGet
    <3>2. hook'[h].at # "coolSet"
      BY <3>1, GotoIdleFrame, IdleTyped
    <3> QED
      BY <1>2, <2>1, <3>2, BudgetQuiet
  <2>3. CASE a.layer \notin cooldown[a.user]
    <3>1. Goto(h, "coolSet")
      BY <1>5, <2>3 DEF CoolGet
    <3>2. hook'[h].at = "coolSet" /\ hook'[h].verdict = a
      BY <3>1, GotoFrame
    <3> SUFFICES ASSUME NEW u \in User, NEW l \in Layer
                 PROVE  /\ raised[u][l] + Cardinality(Pending(u, l)') <= Cardinality(Hook)
                        /\ l \notin cooldown[u] => raised[u][l] = 0
      BY <2>1 DEF CooldownBudget
    <3>3. /\ Pending(u, l)' \subseteq Hook /\ Pending(u, l) \subseteq Hook
          /\ raised[u][l] \in Nat
          /\ raised[u][l] + Cardinality(Pending(u, l)) <= Cardinality(Hook)
          /\ l \notin cooldown[u] => raised[u][l] = 0
      BY <1>3 DEF Pending, CooldownBudget
    <3>4. CASE u = a.user /\ l = a.layer
      <4>1. raised[u][l] = 0
        BY <2>3, <3>3, <3>4
      <4> QED
        BY <3>3, <4>1, PendingFinite
    <3>5. CASE ~(u = a.user /\ l = a.layer)
      <4>1. Pending(u, l)' \subseteq Pending(u, l)
        BY <1>2, <3>2, <3>5 DEF Pending, At
      <4>2. Cardinality(Pending(u, l)') <= Cardinality(Pending(u, l))
        BY <3>3, <4>1, PendingShrinks
      <4>3. Cardinality(Pending(u, l)') \in Nat /\ Cardinality(Pending(u, l)) \in Nat
            /\ Cardinality(Hook) \in Nat
        BY <3>3, PendingFinite
      <4> QED
        BY <3>3, <4>2, <4>3
    <3> QED
      BY <3>4, <3>5
  <2> QED
    BY <2>2, <2>3
<1>6. CASE CoolSet(h)
  <2>1. /\ a.user \in User /\ a.layer \in Layer /\ At(h, "coolSet")
        /\ cooldown' = [cooldown EXCEPT ![a.user] = @ \union {a.layer}]
        /\ raised' = [raised EXCEPT ![a.user][a.layer] = @ + 1]
        /\ Goto(h, "persist")
    BY <1>4, <1>6 DEF CoolSet, At, Judged
  <2>2. hook'[h].at = "persist"
    BY <2>1, GotoFrame
  <2> SUFFICES ASSUME NEW u \in User, NEW l \in Layer
               PROVE  /\ raised'[u][l] + Cardinality(Pending(u, l)') <= Cardinality(Hook)
                      /\ l \notin cooldown'[u] => raised'[u][l] = 0
    BY DEF CooldownBudget
  <2>3. /\ Pending(u, l) \subseteq Hook /\ raised[u][l] \in Nat
        /\ raised[u][l] + Cardinality(Pending(u, l)) <= Cardinality(Hook)
        /\ l \notin cooldown[u] => raised[u][l] = 0
    BY <1>3 DEF Pending, CooldownBudget
  <2>4. Pending(u, l)' = Pending(u, l) \ {h}
    BY <1>2, <2>2 DEF Pending, At
  <2>5. CASE u = a.user /\ l = a.layer
    <3>1. raised'[u][l] = raised[u][l] + 1 /\ l \in cooldown'[u]
      BY <1>3, <2>1, <2>5
    <3>2. h \in Pending(u, l)
      BY <2>1, <2>5 DEF Pending
    <3>3. Cardinality(Pending(u, l) \ {h}) = Cardinality(Pending(u, l)) - 1
      BY <2>3, <3>2, PendingFinite, FS_RemoveElement
    <3>4. Cardinality(Pending(u, l)) \in Nat /\ Cardinality(Hook) \in Nat
      BY <2>3, PendingFinite
    <3> QED
      BY <2>3, <2>4, <3>1, <3>3, <3>4
  <2>6. CASE ~(u = a.user /\ l = a.layer)
    <3>1. raised'[u][l] = raised[u][l] /\ (l \notin cooldown'[u] => l \notin cooldown[u])
      BY <1>3, <2>1, <2>6
    <3>2. h \notin Pending(u, l)
      BY <2>6 DEF Pending
    <3>3. Pending(u, l)' = Pending(u, l)
      BY <2>4, <3>2
    <3> QED
      BY <2>3, <3>1, <3>3
  <2> QED
    BY <2>5, <2>6
<1>7. CASE HookStep(h) /\ ~CoolGet(h) /\ ~CoolSet(h)
  <2>1. raised' = raised /\ cooldown' = cooldown
    BY <1>7 DEF HookStep, Inspect, RecordMassAccess, RecordBehaviorGet, RecordBehaviorSet,
                ScopeAdd, ScopeCard, ScopeExpire, AuthzIncr, AuthzExpire, Read, Persist,
                Announce, redisVars, histVars
  <2>2. CASE \/ RecordBehaviorGet(h) /\ hook'[h].at = "behaviorSet"
             \/ Read(h) /\ hook'[h].at = "coolGet"
    BY <1>2, <2>1, <2>2, BudgetQuiet
  <2>3. CASE ~(\/ RecordBehaviorGet(h) /\ hook'[h].at = "behaviorSet"
               \/ Read(h) /\ hook'[h].at = "coolGet")
    <3>1. hook[h].at # "idle" => hook[h].req \in Request
      BY BusyHook
    <3>2. hook[h].req \in Request
          => /\ AfterScope(hook[h].req) \in {"read", "authzIncr"}
             /\ AfterInspect(hook[h].req) \in {"read", "authzIncr", "scopeAdd"}
      BY Routing
    <3>3. PICK label \in {"mass", "behaviorGet", "scopeAdd", "scopeCard", "scopeExpire",
                          "authzIncr", "authzExpire", "read", "announce", "idle"} :
             Goto(h, label)
      BY <1>1, <1>7, <2>3, <3>1, <3>2
         DEF HookStep, Inspect, RecordMassAccess, RecordBehaviorGet, RecordBehaviorSet,
             ScopeAdd, ScopeCard, ScopeExpire, AuthzIncr, AuthzExpire, Read, Persist,
             Announce, At, HookState
    <3>4. hook'[h].at # "coolSet"
      BY <3>3, GotoFrame, GotoIdleFrame, IdleTyped
    <3> QED
      BY <1>2, <2>1, <3>4, BudgetQuiet
  <2> QED
    BY <2>2, <2>3
<1> QED
  BY <1>5, <1>6, <1>7

LEMMA BudgetNext == TypeOK /\ CooldownBudget /\ [Next]_vars => CooldownBudget'
<1> SUFFICES ASSUME TypeOK, CooldownBudget, [Next]_vars
             PROVE  CooldownBudget'
  OBVIOUS
<1>1. ASSUME NEW h \in Hook, NEW r \in Request, Receive(h, r)
      PROVE  CooldownBudget'
  <2>1. hook'[h] = hook[h] \/ hook'[h].at = "inspect"
    BY <1>1, IdleTyped DEF Receive, TypeOK, HooksTyped, HookState
  <2>2. raised' = raised /\ cooldown' = cooldown
    BY <1>1 DEF Receive, redisVars
  <2> QED
    BY <1>1, <2>1, <2>2, OthersStay, BudgetQuiet
<1>2. ASSUME NEW h \in Hook, CallFails(h)
      PROVE  CooldownBudget'
  <2>1. hook[h].req \in Request
    BY <1>2, BusyHook DEF CallFails
  <2>2. PICK label \in {"idle", "read", "authzIncr", "scopeAdd"} : Goto(h, label)
    BY <1>2, <2>1, Routing DEF CallFails
  <2>3. hook'[h].at # "coolSet"
    BY <2>2, GotoFrame, GotoIdleFrame, IdleTyped
  <2>4. raised' = raised /\ cooldown' = cooldown
    BY <1>2 DEF CallFails, redisVars
  <2> QED
    BY <1>2, <2>3, <2>4, OthersStay, BudgetQuiet
<1>3. ASSUME NEW H \in (SUBSET Hook) \ {{}}, InstanceStops(H)
      PROVE  CooldownBudget'
  <2>1. \A h \in Hook : hook'[h] = hook[h] \/ hook'[h].at # "coolSet"
    BY <1>3, IdleTyped DEF InstanceStops
  <2>2. raised' = raised /\ cooldown' = cooldown
    BY <1>3 DEF InstanceStops, redisVars
  <2> QED
    BY <2>1, <2>2, BudgetQuiet
<1>4. ASSUME NEW u \in User, Clock(u)
      PROVE  CooldownBudget'
  <2>1. hook' = hook
    BY <1>4 DEF Clock, WindowCloses, SignalFades, CooldownEnds, HourTurns
  <2>2. CASE raised' = raised /\ cooldown' = cooldown
    BY <2>1, <2>2, BudgetQuiet
  <2>3. ASSUME NEW l \in Layer, CooldownEnds(u, l)
        PROVE  CooldownBudget'
    <3> SUFFICES ASSUME NEW v \in User, NEW m \in Layer
                 PROVE  /\ raised'[v][m] + Cardinality(Pending(v, m)') <= Cardinality(Hook)
                        /\ m \notin cooldown'[v] => raised'[v][m] = 0
      BY DEF CooldownBudget
    <3>1. /\ raised \in [User -> [Layer -> Nat]] /\ cooldown \in [User -> SUBSET Layer]
          /\ raised' = [raised EXCEPT ![u][l] = 0]
          /\ cooldown' = [cooldown EXCEPT ![u] = @ \ {l}]
      BY <2>3 DEF CooldownEnds, TypeOK, DataTyped
    <3>2. Pending(v, m)' = Pending(v, m) /\ Pending(v, m) \subseteq Hook
      BY <2>1 DEF Pending, At
    <3>3. Cardinality(Pending(v, m)) \in Nat /\ Cardinality(Hook) \in Nat
          /\ Cardinality(Pending(v, m)) <= Cardinality(Hook)
      BY <3>2, PendingFinite
    <3>4. /\ raised[v][m] + Cardinality(Pending(v, m)) <= Cardinality(Hook)
          /\ m \notin cooldown[v] => raised[v][m] = 0
      BY DEF CooldownBudget
    <3>5. CASE v = u /\ m = l
      <4>1. raised'[v][m] = 0
        BY <3>1, <3>5
      <4> QED
        BY <3>2, <3>3, <4>1
    <3>6. CASE ~(v = u /\ m = l)
      <4>1. raised'[v][m] = raised[v][m] /\ (m \notin cooldown'[v] => m \notin cooldown[v])
        BY <3>1, <3>6
      <4> QED
        BY <3>2, <3>4, <4>1
    <3> QED
      BY <3>5, <3>6
  <2> QED
    BY <1>4, <2>2, <2>3 DEF Clock, WindowCloses, SignalFades, HourTurns
<1>5. ASSUME UNCHANGED vars
      PROVE  CooldownBudget'
  BY <1>5, BudgetQuiet DEF vars, redisVars, histVars
<1>6. ASSUME NEW h \in Hook, HookStep(h)
      PROVE  CooldownBudget'
  BY <1>6, BudgetHookStep
<1> QED
  BY <1>1, <1>2, <1>3, <1>4, <1>5, <1>6 DEF Next

LEMMA BudgetInit == Init => CooldownBudget
<1> SUFFICES ASSUME Init, NEW u \in User, NEW l \in Layer
             PROVE  /\ raised[u][l] + Cardinality(Pending(u, l)) <= Cardinality(Hook)
                    /\ l \notin cooldown[u] => raised[u][l] = 0
  BY DEF CooldownBudget
<1>1. raised[u][l] = 0 /\ Pending(u, l) \subseteq Hook
  BY DEF Init, Pending
<1> QED
  BY <1>1, PendingFinite

(* shouldAlert lets through at most one alert per hook in flight, per user *)
(* and layer, in one cooldown.                                             *)
THEOREM CooldownBounds == Spec => []AlertsPerCooldownBounded
<1>1. TypeOK /\ CooldownBudget => AlertsPerCooldownBounded
  <2> SUFFICES ASSUME TypeOK, CooldownBudget, NEW u \in User, NEW l \in Layer
               PROVE  raised[u][l] <= Cardinality(Hook)
    BY DEF AlertsPerCooldownBounded
  <2>1. Pending(u, l) \subseteq Hook /\ raised[u][l] \in Nat
    BY DEF Pending, TypeOK, DataTyped
  <2>2. Cardinality(Pending(u, l)) \in Nat /\ Cardinality(Hook) \in Nat
    BY <2>1, PendingFinite
  <2>3. raised[u][l] + Cardinality(Pending(u, l)) <= Cardinality(Hook)
    BY DEF CooldownBudget
  <2> QED
    BY <2>1, <2>2, <2>3
<1> QED
  BY <1>1, BudgetInit, BudgetNext, TypeCorrect, PTL DEF Spec

(* The documented "once in fifteen minutes" holds where hooks do not       *)
(* overlap: it is the window between the GET and the SETEX that breaks it. *)
THEOREM OneAlertWithoutOverlap ==
    ASSUME Cardinality(Hook) = 1
    PROVE  Spec => []OneAlertPerCooldown
<1>1. AlertsPerCooldownBounded => OneAlertPerCooldown
  BY DEF AlertsPerCooldownBounded, OneAlertPerCooldown
<1> QED
  BY <1>1, CooldownBounds, PTL

----------------------------------------------------------------------------
(* A silent layer has its alert.                                           *)

LEMMA AccountNext == TypeOK /\ CooldownHasItsAlert /\ [Next]_vars => CooldownHasItsAlert'
<1> SUFFICES ASSUME TypeOK, CooldownHasItsAlert, [Next]_vars,
                    NEW u \in User, NEW l \in cooldown'[u]
             PROVE  Accounted(u, l)'
  BY DEF CooldownHasItsAlert
<1>1. /\ cooldown \in [User -> SUBSET Layer] /\ hook \in [Hook -> HookState]
  BY DEF TypeOK, DataTyped, HooksTyped
<1>2. l \in cooldown[u] => Accounted(u, l)
  BY DEF CooldownHasItsAlert
\* The steps that leave the cooldown, its accounts and the hooks at persist alone.
<1>3. ASSUME cooldown' = cooldown, answered \subseteq answered', silenced \subseteq silenced',
             \A h \in Hook : At(h, "persist") => hook'[h] = hook[h]
      PROVE  Accounted(u, l)'
  BY <1>2, <1>3 DEF Accounted, AlertInProgress, At
<1>4. ASSUME NEW h \in Hook, HookStep(h) PROVE Accounted(u, l)'
  <2> DEFINE a == hook[h].verdict
  <2>1. \A g \in Hook \ {h} : hook'[g] = hook[g]
    BY <1>4, OthersStay
  <2>2. CASE CoolSet(h)
    <3>1. Goto(h, "persist")
      BY <2>2 DEF CoolSet
    <3>2. hook'[h].at = "persist" /\ hook'[h].verdict = a
      BY <3>1, GotoFrame
    <3>3. a.user \in User
      BY <2>2, BusyHook DEF CoolSet, At, HookTyped, Judged
    <3>4. CASE l \notin cooldown[u]
      <4>1. u = a.user /\ l = a.layer
        BY <1>1, <2>2, <3>3, <3>4 DEF CoolSet
      <4> QED
        BY <3>2, <4>1 DEF Accounted, AlertInProgress, At
    <3>5. CASE l \in cooldown[u]
      BY <1>2, <2>1, <2>2, <3>5 DEF CoolSet, Accounted, AlertInProgress, At
    <3> QED
      BY <3>4, <3>5
  <2>3. CASE Persist(h)
    BY <1>2, <2>1, <2>3 DEF Persist, Accounted, AlertInProgress, At, redisVars
  <2>4. CASE HookStep(h) /\ ~CoolSet(h) /\ ~Persist(h)
    <3>1. cooldown' = cooldown /\ answered' = answered /\ silenced' = silenced /\ ~At(h, "persist")
      BY <2>4 DEF HookStep, Inspect, RecordMassAccess, RecordBehaviorGet, RecordBehaviorSet,
                  ScopeAdd, ScopeCard, ScopeExpire, AuthzIncr, AuthzExpire, Read, CoolGet,
                  Announce, At, redisVars, histVars
    <3> QED
      BY <1>3, <2>1, <3>1
  <2> QED
    BY <1>4, <2>2, <2>3, <2>4
<1>5. ASSUME NEW h \in Hook, NEW r \in Request, Receive(h, r) PROVE Accounted(u, l)'
  <2>1. /\ cooldown' = cooldown /\ answered' = answered /\ silenced' = silenced
        /\ ~At(h, "persist")
    BY <1>5 DEF Receive, At, redisVars
  <2> QED
    BY <1>3, <1>5, <2>1, OthersStay
<1>6. ASSUME NEW H \in SUBSET Hook, silenced' = silenced \union SilencedBy(H),
             cooldown' = cooldown, answered' = answered, \A g \in Hook \ H : hook'[g] = hook[g]
      PROVE  Accounted(u, l)'
  <2>1. CASE \E h \in H : /\ At(h, "persist") /\ hook[h].verdict.user = u
                          /\ hook[h].verdict.layer = l
    <3>1. <<u, l>> \in SilencedBy(H)
      BY <2>1 DEF SilencedBy, At
    <3> QED
      BY <1>6, <3>1 DEF Accounted
  <2> QED
    BY <1>2, <1>6, <2>1 DEF Accounted, AlertInProgress, At
<1>7. ASSUME NEW h \in Hook, CallFails(h) PROVE Accounted(u, l)'
  <2>1. cooldown' = cooldown /\ answered' = answered /\ silenced' = silenced \union SilencedBy({h})
    BY <1>7 DEF CallFails, redisVars
  <2> QED
    BY <1>6, <1>7, <2>1, OthersStay
<1>8. ASSUME NEW H \in (SUBSET Hook) \ {{}}, InstanceStops(H) PROVE Accounted(u, l)'
  BY <1>6, <1>8 DEF InstanceStops, redisVars
<1>9. ASSUME NEW v \in User, Clock(v) PROVE Accounted(u, l)'
  <2>1. hook' = hook
    BY <1>9 DEF Clock, WindowCloses, SignalFades, CooldownEnds, HourTurns
  <2>2. CASE cooldown' = cooldown /\ answered' = answered /\ silenced' = silenced
    BY <1>3, <2>1, <2>2
  <2>3. ASSUME NEW m \in Layer, CooldownEnds(v, m) PROVE Accounted(u, l)'
    <3>1. l \in cooldown[u] /\ <<u, l>> # <<v, m>>
      BY <1>1, <2>3 DEF CooldownEnds
    <3> QED
      BY <1>2, <2>1, <2>3, <3>1 DEF CooldownEnds, Accounted, AlertInProgress, At
  <2> QED
    BY <1>9, <2>2, <2>3 DEF Clock, WindowCloses, SignalFades, HourTurns
<1>10. ASSUME UNCHANGED vars PROVE Accounted(u, l)'
  BY <1>3, <1>10 DEF vars, redisVars, histVars
<1> QED
  BY <1>4, <1>5, <1>7, <1>8, <1>9, <1>10 DEF Next

(* No layer goes silent for nothing: its cooldown stands for an alert that *)
(* was stored, is being stored, or was lost to a failure after the SETEX.  *)
THEOREM SilenceHasItsAlert == Spec => []CooldownHasItsAlert
<1>1. Init => CooldownHasItsAlert
  BY DEF Init, CooldownHasItsAlert
<1> QED
  BY <1>1, AccountNext, TypeCorrect, PTL DEF Spec

=============================================================================
