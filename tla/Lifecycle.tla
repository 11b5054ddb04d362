------------------------------ MODULE Lifecycle ------------------------------
(* A request through the hooks of the API server, and the server's start,  *)
(* shutdown and death around it.                                           *)
EXTENDS Integers, FiniteSets

CONSTANTS
    Request,
    RateLimit,          \* RATE_LIMIT_MAX: requests of one address in a minute
    MaxTurns, MaxFaults \* bounds

LifecycleAssumption ==
    /\ IsFiniteSet(Request)
    /\ RateLimit \in Nat \ {0} /\ MaxTurns \in Nat /\ MaxFaults \in Nat

VARIABLES
    phase,     \* of the server process
    req,       \* a request: where it is, what it asks, whose it is, its answer
    counted,   \* requests the limiter saw in this minute
    answers, rows, lost,   \* history: answers to be recorded, recorded, lost
    reports,   \* entries of the error log
    turns, faults

vars == <<phase, req, counted, answers, rows, lost, reports, turns, faults>>

idle == [at |-> "idle"]
history == <<answers, rows, lost, reports>>

Init ==
    /\ phase = "up"
    /\ req = [r \in Request |-> idle]
    /\ counted = 0
    /\ answers = 0 /\ rows = 0 /\ lost = 0 /\ reports = 0
    /\ turns = 0 /\ faults = 0

(* Paths outside /v1, and /v1/internal and /v1/security, leave no row. *)
Kinds == {"v1", "skipped"}

-----------------------------------------------------------------------------
Arrive(r, kind) ==
    /\ req[r] = idle /\ phase = "up" /\ turns < MaxTurns
    /\ turns' = turns + 1
    /\ req' = [req EXCEPT ![r] = [at |-> "limit", kind |-> kind, user |-> FALSE, status |-> 0]]
    /\ UNCHANGED <<phase, counted, history, faults>>

(* While it closes, the server answers 503 before any hook. *)
TurnAway ==
    /\ phase = "closing" /\ turns < MaxTurns
    /\ turns' = turns + 1
    /\ UNCHANGED <<phase, req, counted, history, faults>>

(* An answer leaves; onResponse follows it. *)
Answered(r, status, user) ==
    /\ req' = [req EXCEPT ![r].at = "record", ![r].status = status, ![r].user = user]
    /\ answers' = answers + (IF req[r].kind = "v1" THEN 1 ELSE 0)

(* The limiter is a hook of the instance: it runs before authenticate and  *)
(* counts what will be refused, too.                                       *)
Limit(r) ==
    /\ req[r].at = "limit"
    /\ counted' = counted + 1
    /\ \/ counted < RateLimit /\ req' = [req EXCEPT ![r].at = "route"] /\ UNCHANGED answers
       \/ counted >= RateLimit /\ Answered(r, 429, FALSE)
    /\ UNCHANGED <<phase, rows, lost, reports, turns, faults>>

MinuteEnds == counted > 0 /\ counted' = 0 /\ UNCHANGED <<phase, req, history, turns, faults>>

(* authenticate and requireRoles. *)
Refuse(r) ==
    /\ req[r].at = "route"
    /\ \E who \in {[status |-> 401, user |-> FALSE], [status |-> 403, user |-> TRUE]} :
          Answered(r, who.status, who.user)
    /\ UNCHANGED <<phase, counted, rows, lost, reports, turns, faults>>

(* The handler, of a public route for nobody; a 4xx it throws is expected. *)
Handle(r) ==
    /\ req[r].at = "route"
    /\ \E status \in {200, 400}, user \in BOOLEAN : Answered(r, status, user)
    /\ UNCHANGED <<phase, counted, rows, lost, reports, turns, faults>>

(* The error handler reports what it answers with 500. *)
HandlerFails(r) ==
    /\ req[r].at = "route" /\ faults < MaxFaults
    /\ faults' = faults + 1
    /\ Answered(r, 500, TRUE)
    /\ reports' = reports + 1
    /\ UNCHANGED <<phase, counted, rows, lost, turns>>

(* A page that broke posts its error to /v1/telemetry; a rejection nobody  *)
(* handles is reported, too, and the process lives on.                     *)
ClientError(r) ==
    /\ req[r].at = "route" /\ req[r].kind = "v1" /\ faults < MaxFaults
    /\ faults' = faults + 1
    /\ Answered(r, 202, TRUE)
    /\ reports' = reports + 1
    /\ UNCHANGED <<phase, counted, rows, lost, turns>>

Unhandled ==
    /\ phase # "gone" /\ faults < MaxFaults
    /\ faults' = faults + 1
    /\ reports' = reports + 1
    /\ UNCHANGED <<phase, req, counted, answers, rows, lost, turns>>

RecordKnown(r) ==
    /\ req[r].at = "record" /\ req' = [req EXCEPT ![r] = idle]
    /\ rows' = rows + (IF req[r].kind = "v1" /\ req[r].user THEN 1 ELSE 0)
    /\ UNCHANGED <<phase, counted, answers, lost, reports, turns, faults>>

(* recordRequest: a row for every answer, of nobody's requests as well. *)
Record(r) ==
    /\ req[r].at = "record" /\ req' = [req EXCEPT ![r] = idle]
    /\ rows' = rows + (IF req[r].kind = "v1" THEN 1 ELSE 0)
    /\ UNCHANGED <<phase, counted, answers, lost, reports, turns, faults>>

(* auditService.log swallows the error of its insert. *)
RecordFails(r) ==
    /\ req[r].at = "record" /\ req[r].kind = "v1" /\ faults < MaxFaults
    /\ faults' = faults + 1
    /\ req' = [req EXCEPT ![r] = idle]
    /\ lost' = lost + 1
    /\ UNCHANGED <<phase, counted, answers, rows, reports, turns>>

-----------------------------------------------------------------------------
(* shutdown: close waits for the answers, not for the hooks after them. *)
Shutdown ==
    /\ phase = "up" /\ phase' = "closing"
    /\ UNCHANGED <<req, counted, history, turns, faults>>

Gone ==
    /\ phase' = "gone"
    /\ lost' = lost + Cardinality({r \in Request : req[r].at = "record" /\ req[r].kind = "v1"})
    /\ req' = [r \in Request |-> idle]
    /\ counted' = 0
    /\ UNCHANGED <<answers, rows, reports, turns>>

Exit ==
    /\ phase = "closing" /\ \A r \in Request : req[r].at \in {"idle", "record"}
    /\ Gone /\ UNCHANGED faults

Crash == phase # "gone" /\ faults < MaxFaults /\ faults' = faults + 1 /\ Gone

(* bootstrap. *)
Boot == phase = "gone" /\ phase' = "up" /\ UNCHANGED <<req, counted, history, turns, faults>>

Next ==
    \/ \E r \in Request :
        \/ \E kind \in Kinds : Arrive(r, kind)
        \/ Limit(r) \/ Refuse(r) \/ Handle(r) \/ HandlerFails(r) \/ ClientError(r)
        \/ Record(r) \/ RecordFails(r)
    \/ TurnAway \/ MinuteEnds \/ Unhandled
    \/ Shutdown \/ Exit \/ Crash \/ Boot

Spec == Init /\ [][Next]_vars

-----------------------------------------------------------------------------
(* The process, its requests and what it answered and recorded.           *)
TypeOK ==
    /\ phase \in {"up", "closing", "gone"}
    /\ \A r \in Request : req[r].at \in {"idle", "limit", "route", "record"}
    /\ {counted, answers, rows, lost, reports} \subseteq Nat
    /\ turns \in 0..MaxTurns /\ faults \in 0..MaxFaults

(* Every answer, a refusal to an unknown caller included, has its row of   *)
(* the audit log or is about to have it, unless the insert failed or the   *)
(* process ended after the answer (requestAudit.ts, recordRequest; app.ts, *)
(* the onResponse hook; server.ts, shutdown).                              *)
AnswersAreRecorded ==
    /\ answers = rows + lost + Cardinality({r \in Request : req[r].at = "record"
                                                           /\ req[r].kind = "v1"})
    /\ phase = "gone" => \A r \in Request : req[r] = idle
=============================================================================
