----------------------------- MODULE Detection -----------------------------
(***************************************************************************)
(* The two-layer detector at run time: recordRequest (requestAudit.ts),    *)
(* inspect (behaviorDetector.ts), the signal window (signalWindow.ts) and  *)
(* evaluate (correlationDetector.ts).                                      *)
(*                                                                         *)
(* recordRequest runs in Fastify's onResponse hook, once per request, and  *)
(* awaits Redis or PostgreSQL at every step, so the hooks of concurrent    *)
(* requests (of one API process or of several) interleave at each await.   *)
(* A hook is an element of Hook; hook[h].at names the await it is about to   *)
(* make.  Redis executes one command at a time, so each command is one     *)
(* atomic step.                                                            *)
(*                                                                         *)
(* Time is abstracted: a key that carries a time to live may disappear at  *)
(* any moment, a key without one never does.                               *)
(***************************************************************************)
EXTENDS Correlation, Ownership, FiniteSets

CONSTANTS
    User,         \* authenticated users
    Hook,         \* onResponse hooks that may be in flight at once
    Request,      \* the requests that may be answered (see RequestAssumption)
    MassLimit,    \* isMassAccess: max(20 * the profile's mean, 100) requests an hour
    MaxRequests,  \* bound: requests answered in a behaviour
    MaxFailures,  \* bound: failing Redis or database calls in a behaviour
    MaxExpiries   \* bound: keys that reach their time to live in a behaviour

\* What recordRequest knows of a request: its actor, the resolver's verdict on its
\* object, whether it was refused (401, 403), whether its method is safe, and the
\* score scoreEvent gives it against the actor's profile.
RequestType ==
    [user : User \union {Nobody},
     relation : Relations, owner : User \union {Nobody}, ownerRule : BOOLEAN,
     safe : BOOLEAN, denied : BOOLEAN, score : 0..100]

ASSUME RequestAssumption ==
    /\ Nobody \notin User
    /\ Request \subseteq RequestType
    /\ Request # {}
    /\ MassLimit \in Nat \ {0}
    /\ MaxRequests \in Nat
    /\ MaxFailures \in Nat
    /\ MaxExpiries \in Nat
    /\ IsFiniteSet(User)
    /\ IsFiniteSet(Hook)

VARIABLES
    \* Redis
    win,          \* win[u]: the five signal keys of u; zero, FALSE or {} when absent
    closing,      \* closing[u]: the signal keys of u that carry a time to live
    hourly,       \* hourly[u]: req_hour of the current hour, saturated at MassLimit
    cooldown,     \* cooldown[u]: the layers whose corr_alert key is set
    \* PostgreSQL and the sockets
    journal,      \* requests with a row in audit_logs
    alerts,       \* rows of security_alerts
    announced,    \* alerts that were sent to the administrators
    \* the hooks
    hook,         \* hook[h]: [at, req, held, verdict], Idle when h records no request
    \* bounds and history, read by no action
    received,     \* requests answered so far
    failures,     \* calls that failed so far
    expiries,     \* keys that reached their time to live so far
    unlogged,     \* requests whose audit row could not be written
    torn,         \* window keys whose EXPIRE, or the SCARD before it, failed
    raised,       \* raised[u][l]: evaluations that passed shouldAlert in this cooldown
    answered,     \* layers with an alert stored in this cooldown
    silenced      \* layers whose alert was lost to a failure after the cooldown was set

redisVars == <<win, closing, hourly, cooldown>>
storeVars == <<journal, alerts, announced>>
histVars  == <<received, failures, expiries, unlogged, torn, raised, answered, silenced>>
vars      == <<redisVars, storeVars, hook, histVars>>

\* The keys whose time to live is set by a command of its own, after the key exists.
CountedKey == {"denied", "allowed", "owners"}

EmptyWindow == [denied |-> 0, allowed |-> 0, score |-> 0, mass |-> FALSE, owners |-> {}]

\* readSignals: the whole window, the scope set by its size.
Signals(u) == [win[u] EXCEPT !.owners = Cardinality(win[u].owners)]

NoAlert ==
    [user |-> Nobody, layer |-> "NONE", severity |-> "LOW", type |-> "BEHAVIOR_ANOMALY",
     mass |-> FALSE]

Label == {"idle", "inspect", "mass", "behaviorGet", "behaviorSet", "scopeAdd", "scopeCard",
          "scopeExpire", "authzIncr", "authzExpire", "read", "coolGet", "coolSet",
          "persist", "announce"}

Idle == [at |-> "idle", req |-> CHOOSE r \in Request : TRUE, held |-> 0, verdict |-> NoAlert]

----------------------------------------------------------------------------
(* What a request asks the window to remember.                             *)

Outcome(r) == AuthzOutcome(r, r.safe, r.denied)

AfterScope(r) == IF Outcome(r) = "none" THEN "read" ELSE "authzIncr"

AfterInspect(r) == IF WidensScope(r, r.user) THEN "scopeAdd" ELSE AfterScope(r)

Present(u, k) == win[u][k] # EmptyWindow[k]

----------------------------------------------------------------------------
Init ==
    /\ win = [u \in User |-> EmptyWindow]
    /\ closing = [u \in User |-> {}]
    /\ hourly = [u \in User |-> 0]
    /\ cooldown = [u \in User |-> {}]
    /\ journal = {} /\ alerts = {} /\ announced = {}
    /\ hook = [h \in Hook |-> Idle]
    /\ received = 0 /\ failures = 0 /\ expiries = 0
    /\ unlogged = {} /\ torn = {} /\ answered = {} /\ silenced = {}
    /\ raised = [u \in User |-> [l \in Layer |-> 0]]

\* The next await of h, or the end of its handler.
Goto(h, label) ==
    hook' = [hook EXCEPT ![h] = IF label = "idle" THEN Idle ELSE [@ EXCEPT !.at = label]]

At(h, label) == hook[h].at = label

(***************************************************************************)
(* recordRequest up to the audit row.  The resolver's queries and the      *)
(* insert only append to the journal, which no other step reads, so they   *)
(* are one step.  auditService.log swallows a failing insert.              *)
(***************************************************************************)
Receive(h, r) ==
    /\ At(h, "idle")
    /\ received < MaxRequests
    /\ received' = received + 1
    /\ hook' = IF r.user = Nobody THEN hook
               ELSE [hook EXCEPT ![h] = [Idle EXCEPT !.at = "inspect", !.req = r]]
    /\ \/ journal' = journal \union {r} /\ UNCHANGED <<unlogged, failures>>
       \/ /\ failures < MaxFailures
          /\ failures' = failures + 1
          /\ unlogged' = unlogged \union {r}
          /\ UNCHANGED journal
    /\ UNCHANGED <<redisVars, alerts, announced, expiries, torn, raised, answered, silenced>>

\* inspect: bumpHourlyCount, then the branch on isMassAccess.
Inspect(h) ==
    LET r == hook[h].req
        n == Least(hourly[r.user] + 1, MassLimit)
    IN  /\ At(h, "inspect")
        /\ hourly' = [hourly EXCEPT ![r.user] = n]
        /\ Goto(h, IF n >= MassLimit THEN "mass"
                   ELSE IF r.score > 0 THEN "behaviorGet"
                   ELSE AfterInspect(r))
        /\ UNCHANGED <<win, closing, cooldown, storeVars, histVars>>

\* recordMassAccess: its GET only decides whether a line is logged.
RecordMassAccess(h) ==
    LET r == hook[h].req
    IN  /\ At(h, "mass")
        /\ win' = [win EXCEPT ![r.user].mass = TRUE]
        /\ Goto(h, AfterInspect(r))
        /\ UNCHANGED <<closing, hourly, cooldown, storeVars, histVars>>

\* Mutant: recordBehavior without "if (score <= prev) return".
RecordBehaviorGetAlways(h) ==
    /\ At(h, "behaviorGet")
    /\ hook' = [hook EXCEPT ![h].at = "behaviorSet", ![h].held = win[hook[h].req.user].score]
    /\ UNCHANGED <<redisVars, storeVars, histVars>>

\* recordBehavior, the GET: a score no higher than the stored one is dropped.
RecordBehaviorGet(h) ==
    LET r == hook[h].req
        prev == win[r.user].score
    IN  /\ At(h, "behaviorGet")
        /\ IF r.score <= prev
           THEN Goto(h, AfterInspect(r))
           ELSE hook' = [hook EXCEPT ![h].at = "behaviorSet", ![h].held = prev]
        /\ UNCHANGED <<redisVars, storeVars, histVars>>

\* recordBehavior, the SETEX: it does not look at the key again.
RecordBehaviorSet(h) ==
    LET r == hook[h].req
    IN  /\ At(h, "behaviorSet")
        /\ win' = [win EXCEPT ![r.user].score = r.score]
        /\ Goto(h, AfterInspect(r))
        /\ UNCHANGED <<closing, hourly, cooldown, storeVars, histVars>>

\* recordPrivilegedScope: SADD, then SCARD, then EXPIRE if the reply was 1.
ScopeAdd(h) ==
    LET r == hook[h].req
    IN  /\ At(h, "scopeAdd")
        /\ win' = [win EXCEPT ![r.user].owners = @ \union {r.owner}]
        /\ Goto(h, "scopeCard")
        /\ UNCHANGED <<closing, hourly, cooldown, storeVars, histVars>>

ScopeCard(h) ==
    LET r == hook[h].req
    IN  /\ At(h, "scopeCard")
        /\ Goto(h, IF Cardinality(win[r.user].owners) = 1 THEN "scopeExpire" ELSE AfterScope(r))
        /\ UNCHANGED <<redisVars, storeVars, histVars>>

\* EXPIRE of an absent key does nothing.
SetDeadline(u, k) ==
    closing' = IF Present(u, k) THEN [closing EXCEPT ![u] = @ \union {k}] ELSE closing

ScopeExpire(h) ==
    LET r == hook[h].req
    IN  /\ At(h, "scopeExpire")
        /\ SetDeadline(r.user, "owners")
        /\ Goto(h, AfterScope(r))
        /\ UNCHANGED <<win, hourly, cooldown, storeVars, histVars>>

\* Mutant: bump sets the deadline when it finds the key, not when it creates it.
AuthzIncrLate(h) ==
    LET r == hook[h].req
        k == Outcome(r)
    IN  /\ At(h, "authzIncr")
        /\ win' = [win EXCEPT ![r.user][k] = @ + 1]
        /\ Goto(h, IF win[r.user][k] > 0 THEN "authzExpire" ELSE "read")
        /\ UNCHANGED <<closing, hourly, cooldown, storeVars, histVars>>

\* recordAuthz: bump is INCR, then EXPIRE if the reply was 1.
AuthzIncr(h) ==
    LET r == hook[h].req
        k == Outcome(r)
        n == win[r.user][k] + 1
    IN  /\ At(h, "authzIncr")
        /\ win' = [win EXCEPT ![r.user][k] = n]
        /\ Goto(h, IF n = 1 THEN "authzExpire" ELSE "read")
        /\ UNCHANGED <<closing, hourly, cooldown, storeVars, histVars>>

AuthzExpire(h) ==
    LET r == hook[h].req
    IN  /\ At(h, "authzExpire")
        /\ SetDeadline(r.user, Outcome(r))
        /\ Goto(h, "read")
        /\ UNCHANGED <<win, hourly, cooldown, storeVars, histVars>>

(***************************************************************************)
(* evaluate.  readSignals sends its five reads in one tick over one        *)
(* connection, so they are one step; correlate is pure.                    *)
(***************************************************************************)
AlertFor(u) ==
    [user |-> u, layer |-> LayerOf(Signals(u)), severity |-> Severity(Signals(u)),
     type |-> AlertType(Signals(u)), mass |-> Signals(u).mass]

Read(h) ==
    LET u == hook[h].req.user
    IN  /\ At(h, "read")
        /\ IF Alert(Signals(u))
           THEN hook' = [hook EXCEPT ![h].at = "coolGet", ![h].verdict = AlertFor(u)]
           ELSE Goto(h, "idle")
        /\ UNCHANGED <<redisVars, storeVars, histVars>>

\* Mutant: shouldAlert forgets to look at the key.
CoolGetBlind(h) ==
    /\ At(h, "coolGet")
    /\ Goto(h, "coolSet")
    /\ UNCHANGED <<redisVars, storeVars, histVars>>

\* shouldAlert, the GET: an alert of this layer in the last 15 minutes silences this one.
CoolGet(h) ==
    LET a == hook[h].verdict
    IN  /\ At(h, "coolGet")
        /\ Goto(h, IF a.layer \in cooldown[a.user] THEN "idle" ELSE "coolSet")
        /\ UNCHANGED <<redisVars, storeVars, histVars>>

\* Mutant: the cooldown is set and the row is forgotten.
CoolSetUnstored(h) ==
    LET a == hook[h].verdict
    IN  /\ At(h, "coolSet")
        /\ cooldown' = [cooldown EXCEPT ![a.user] = @ \union {a.layer}]
        /\ raised' = [raised EXCEPT ![a.user][a.layer] = @ + 1]
        /\ Goto(h, "announce")
        /\ UNCHANGED <<win, closing, hourly, storeVars,
                       received, failures, expiries, unlogged, torn, answered, silenced>>

\* shouldAlert, the SETEX.
CoolSet(h) ==
    LET a == hook[h].verdict
    IN  /\ At(h, "coolSet")
        /\ cooldown' = [cooldown EXCEPT ![a.user] = @ \union {a.layer}]
        /\ raised' = [raised EXCEPT ![a.user][a.layer] = @ + 1]
        /\ Goto(h, "persist")
        /\ UNCHANGED <<win, closing, hourly, storeVars,
                       received, failures, expiries, unlogged, torn, answered, silenced>>

\* persist, the insert into security_alerts.
Persist(h) ==
    LET a == hook[h].verdict
    IN  /\ At(h, "persist")
        /\ alerts' = alerts \union {a}
        /\ answered' = answered \union {<<a.user, a.layer>>}
        /\ Goto(h, "announce")
        /\ UNCHANGED <<redisVars, journal, announced,
                       received, failures, expiries, unlogged, torn, raised, silenced>>

\* persist, notifyAdmins (which swallows its errors) and emitSecurityAlert.
Announce(h) ==
    /\ At(h, "announce")
    /\ announced' = announced \union {hook[h].verdict}
    /\ Goto(h, "idle")
    /\ UNCHANGED <<redisVars, journal, alerts, histVars>>

----------------------------------------------------------------------------
(* Failures.                                                               *)

\* What is lost when the calls that the hooks of H are at do not happen.
TornBy(H) ==
    {<<hook[h].req.user, Outcome(hook[h].req)>> : h \in {g \in H : At(g, "authzExpire")}}
        \union {<<hook[h].req.user, "owners">> :
                     h \in {g \in H : hook[g].at \in {"scopeCard", "scopeExpire"}}}

SilencedBy(H) ==
    {<<hook[h].verdict.user, hook[h].verdict.layer>> :
        h \in {g \in H : hook[g].at \in {"persist", "announce"}}}

\* A call of h is rejected.  inspect catches its own errors and the hook goes on; an
\* error anywhere else ends the hook (the catch of evaluate or of recordRequest).
CallFails(h) ==
    /\ hook[h].at \notin {"idle", "announce"}
    /\ failures < MaxFailures
    /\ failures' = failures + 1
    /\ Goto(h, IF hook[h].at \in {"inspect", "mass", "behaviorGet", "behaviorSet"}
               THEN AfterInspect(hook[h].req) ELSE "idle")
    /\ torn' = torn \union TornBy({h})
    /\ silenced' = silenced \union SilencedBy({h})
    /\ UNCHANGED <<redisVars, storeVars, received, expiries, unlogged, raised, answered>>

\* An API instance stops: its hooks H end where they are, Redis and PostgreSQL stay.
InstanceStops(H) ==
    /\ \A h \in H : ~At(h, "idle")
    /\ failures < MaxFailures
    /\ failures' = failures + 1
    /\ hook' = [h \in Hook |-> IF h \in H THEN Idle ELSE hook[h]]
    /\ torn' = torn \union TornBy(H)
    /\ silenced' = silenced \union SilencedBy(H)
    /\ UNCHANGED <<redisVars, storeVars, received, expiries, unlogged, raised, answered>>

----------------------------------------------------------------------------
(* Time.                                                                   *)

Tick == expiries < MaxExpiries /\ expiries' = expiries + 1

\* A counted key with a deadline reaches it.
WindowCloses(u, k) ==
    /\ Tick
    /\ k \in closing[u]
    /\ win' = [win EXCEPT ![u][k] = EmptyWindow[k]]
    /\ closing' = [closing EXCEPT ![u] = @ \ {k}]
    /\ UNCHANGED <<hourly, cooldown, storeVars, hook,
                   received, failures, unlogged, torn, raised, answered, silenced>>

\* score and mass are written with SETEX and always carry a deadline.
SignalFades(u, k) ==
    /\ Tick
    /\ win[u][k] # EmptyWindow[k]
    /\ win' = [win EXCEPT ![u][k] = EmptyWindow[k]]
    /\ UNCHANGED <<closing, hourly, cooldown, storeVars, hook,
                   received, failures, unlogged, torn, raised, answered, silenced>>

CooldownEnds(u, l) ==
    /\ Tick
    /\ l \in cooldown[u]
    /\ cooldown' = [cooldown EXCEPT ![u] = @ \ {l}]
    /\ raised' = [raised EXCEPT ![u][l] = 0]
    /\ answered' = answered \ {<<u, l>>}
    /\ silenced' = silenced \ {<<u, l>>}
    /\ UNCHANGED <<win, closing, hourly, storeVars, hook, received, failures, unlogged, torn>>

\* The hour turns: bumpHourlyCount starts a new key.
HourTurns(u) ==
    /\ Tick
    /\ hourly[u] > 0
    /\ hourly' = [hourly EXCEPT ![u] = 0]
    /\ UNCHANGED <<win, closing, cooldown, storeVars, hook,
                   received, failures, unlogged, torn, raised, answered, silenced>>

----------------------------------------------------------------------------
HookStep(h) ==
    \/ Inspect(h) \/ RecordMassAccess(h) \/ RecordBehaviorGet(h) \/ RecordBehaviorSet(h)
    \/ ScopeAdd(h) \/ ScopeCard(h) \/ ScopeExpire(h)
    \/ AuthzIncr(h) \/ AuthzExpire(h)
    \/ Read(h) \/ CoolGet(h) \/ CoolSet(h) \/ Persist(h) \/ Announce(h)

Clock(u) ==
    \/ \E k \in CountedKey : WindowCloses(u, k)
    \/ \E k \in {"score", "mass"} : SignalFades(u, k)
    \/ \E l \in Layer : CooldownEnds(u, l)
    \/ HourTurns(u)

Next ==
    \/ \E h \in Hook, r \in Request : Receive(h, r)
    \/ \E h \in Hook : HookStep(h) \/ CallFails(h)
    \/ \E H \in (SUBSET Hook) \ {{}} : InstanceStops(H)
    \/ \E u \in User : Clock(u)

Spec == Init /\ [][Next]_vars

----------------------------------------------------------------------------
(* Properties.                                                             *)

AlertRecord ==
    [user : User \union {Nobody}, layer : Layer \union {"NONE"}, severity : Severities,
     type : AlertTypes, mass : BOOLEAN]

HookState == [at : Label, req : Request, held : 0..100, verdict : AlertRecord]

Judged == {"coolGet", "coolSet", "persist", "announce"}

\* What a hook knows of its request by the await it has reached.
HookTyped(h) ==
    LET r == hook[h].req
        a == hook[h].verdict
    IN  /\ ~At(h, "idle") => r.user \in User
        /\ hook[h].at \in {"authzIncr", "authzExpire"} => Outcome(r) # "none"
        /\ hook[h].at \in {"scopeAdd", "scopeCard", "scopeExpire"} => WidensScope(r, r.user)
        /\ hook[h].at \in Judged => a.user = r.user /\ a.layer \in Layer
        /\ At(h, "announce") => a \in alerts

Window == [denied : Nat, allowed : Nat, score : 0..100, mass : BOOLEAN, owners : SUBSET User]

DataTyped ==
    /\ win \in [User -> Window]
    /\ closing \in [User -> SUBSET CountedKey]
    /\ hourly \in [User -> 0..MassLimit]
    /\ cooldown \in [User -> SUBSET Layer]
    /\ journal \subseteq Request /\ unlogged \subseteq Request
    /\ alerts \subseteq AlertRecord /\ announced \subseteq alerts
    /\ received \in Nat /\ failures \in Nat /\ expiries \in Nat
    /\ torn \subseteq User \X CountedKey
    /\ answered \subseteq User \X Layer /\ silenced \subseteq User \X Layer
    /\ raised \in [User -> [Layer -> Nat]]

HooksTyped == hook \in [Hook -> HookState] /\ \A h \in Hook : HookTyped(h)

(* The types, and what each hook is entitled to at the await it reached.   *)
TypeOK == DataTyped /\ HooksTyped

\* A hook at SCARD has yet to learn whether the deadline is its own to set.
AboutToExpire(u, k) ==
    \E h \in Hook :
        /\ hook[h].req.user = u
        /\ \/ At(h, "authzExpire") /\ Outcome(hook[h].req) = k
           \/ hook[h].at \in {"scopeCard", "scopeExpire"} /\ k = "owners"

WillClose(u, k) ==
    Present(u, k) => k \in closing[u] \/ AboutToExpire(u, k) \/ <<u, k>> \in torn

(* A refusal or foreign-access counter gets its deadline although INCR and *)
(* EXPIRE are two commands and other hooks bump it in between: only a      *)
(* failure exactly between the two leaves the window open for ever.        *)
CounterWindowCloses == \A u \in User : \A k \in {"denied", "allowed"} : WillClose(u, k)

(* The same promise for the privileged-scope set ("oyna yopilmasa ...      *)
(* yolg'on CORRELATED": redis.ts, signalWindow.ts): as long as a hook may  *)
(* still set the deadline the window counts as closing.                    *)
ScopeWindowCloses == \A u \in User : WillClose(u, "owners")

(* "Sovish oynasi - bir qatlam bo'yicha 15 daqiqada bir marta": one alert  *)
(* per user and layer in a cooldown.                                       *)
OneAlertPerCooldown == \A u \in User, l \in Layer : raised[u][l] <= 1

(* What shouldAlert does guarantee: however many requests a user makes, a  *)
(* cooldown lets through at most one alert per hook in flight, since only  *)
(* the hooks that looked before the key appeared can still pass.           *)
AlertsPerCooldownBounded ==
    \A u \in User, l \in Layer : raised[u][l] <= Cardinality(Hook)

AlertInProgress(u, l) ==
    \E h \in Hook : /\ At(h, "persist")
                    /\ hook[h].verdict.user = u
                    /\ hook[h].verdict.layer = l

Accounted(u, l) == <<u, l>> \in answered \/ <<u, l>> \in silenced \/ AlertInProgress(u, l)

(* A layer is silent for 15 minutes only on account of an alert that was   *)
(* stored, is being stored, or was lost to a failure after the key was set.*)
CooldownHasItsAlert == \A u \in User : \A l \in cooldown[u] : Accounted(u, l)

Recorded(u) == {r \in journal \union unlogged : r.user = u}

\* Requests that prove something about the object, not merely about the breadth.
Refusals(u) == {r \in Recorded(u) : Outcome(r) # "none"}
Breadth(u) == {r \in Recorded(u) : WidensScope(r, u)}
Anomalies(u) == {r \in Recorded(u) : r.score > 0}

Backed(a) ==
    /\ a.layer = "AUTHORIZATION" => Refusals(a.user) # {}
    /\ a.layer = "CORRELATED" => Refusals(a.user) # {} \/ Breadth(a.user) # {}
    /\ a.layer = "CORRELATED" /\ ~a.mass => Anomalies(a.user) # {}
    /\ a.layer = "BEHAVIOR" /\ ~a.mass => \E r \in Anomalies(a.user) : r.score >= Single

(* A lone layer never raises less than HIGH, two confirmed layers never    *)
(* less than MEDIUM.                                                       *)
Fits(a) ==
    /\ a.severity # "LOW"
    /\ a.layer # "CORRELATED" => a.severity \in {"HIGH", "CRITICAL"}

(* Every stored alert can be explained from the audit rows of its own user *)
(* (up to rows whose insert failed): a lone authorization alert needs a    *)
(* request for a foreign object, breadth alone never suffices; a lone      *)
(* behaviour alert outside the mass rule needs one request at or above the *)
(* single-layer threshold; a correlated alert needs both kinds.  And its   *)
(* severity is cut at the thresholds of correlate ("chegaralar             *)
(* correlation.ts bilan moslangan").                                       *)
AlertBackedByOwnEvidence == \A a \in alerts : Backed(a) /\ Fits(a)

OverwrittenUnseen(u) ==
    \E h \in Hook : /\ At(h, "behaviorSet") /\ hook[h].req.user = u
                   /\ hook[h].held # win[u].score

KeepsMaximum ==
    \A u \in User : win'[u].score \in 1..(win[u].score - 1) => OverwrittenUnseen(u)

(* The stored score falls while its window is open only when a hook writes *)
(* over a value it has not seen: recordBehavior keeps the maximum of what  *)
(* one hook at a time records.                                             *)
MaximumKeptUnlessOverlapped == [][KeepsMaximum]_vars
=============================================================================
