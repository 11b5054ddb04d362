-------------------------------- MODULE Risk --------------------------------
(* The dropout risk of the enrolments, which the analytics service keeps:  *)
(* the nightly run of a Celery worker and the legacy batch of the web      *)
(* process score every row in one database transaction and wait for each   *)
(* other's rows; a training publishes its model and its scaler as two      *)
(* files, and a process loads them one after the other.                    *)
EXTENDS Integers, FiniteSets

CONSTANTS
    Enrolment,
    Facts,          \* attendance rate, average grade, absence of an enrolment
    Tx,             \* nightly runs and batches under way at one time
    Web, Worker,    \* processes
    MaxStarts, MaxTrainings, MaxFaults   \* bounds

RiskAssumption ==
    /\ Facts \in [Enrolment -> [att : 0..1, grade : 0..2, away : 0..1]]
    /\ MaxStarts \in Nat /\ MaxTrainings \in Nat /\ MaxFaults \in Nat

VARIABLES
    score,    \* dropout_risk_score, in tenths
    tx,       \* a run or batch and its transaction
    disk,     \* versions in latest_model.pkl and latest_scaler.pkl; 0: no file
    memory,   \* versions in _model and _scaler of a process
    trainer,  \* a process that trains or loads
    legacy,   \* web processes with a model of dropout_service.py, which no start loads
    starts, trained, faults,
    uneven    \* history: the two files were published, or read, in two halves

vars == <<score, tx, disk, memory, trainer, legacy, starts, trained, faults, uneven>>

Process == Web \cup Worker
None == "none"
Nothing == -10
none == [model |-> 0, scaler |-> 0]
idleTx == [at |-> "idle"]
idle == [at |-> "idle", version |-> 0]

Init ==
    /\ score = [e \in Enrolment |-> Nothing]
    /\ tx = [t \in Tx |-> idleTx]
    /\ disk = none /\ memory = [p \in Process |-> none]
    /\ trainer = [p \in Process |-> idle] /\ legacy = {}
    /\ starts = 0 /\ trained = 0 /\ faults = 0 /\ uneven = FALSE

Running(p) == \E t \in Tx : tx[t].at # "idle" /\ tx[t].by = p
models == <<disk, memory, trainer, legacy, trained, uneven>>

-----------------------------------------------------------------------------
(* _rule_based_score and predict_score, which alone keeps to 0..1: a grade *)
(* may exceed a maxScore that was lowered.  _safe makes 0 of no rate.      *)
RuleScore(f) == 4 * (1 - f.att) + 4 * (1 - f.grade) + 2 * f.away
Clamp(n) == IF n < 0 THEN 0 ELSE IF n > 10 THEN 10 ELSE n
PredictUnclamped(p, f) == IF memory[p].model = 0 THEN {RuleScore(f)} ELSE {0, 10}
PredictScore(p, f) == IF memory[p].model = 0 THEN {Clamp(RuleScore(f))} ELSE {0, 10}
(* predict_batch takes its model, if it has one, before the first row.     *)
BatchScore(fitted, f) == IF fitted THEN {0, 10} ELSE {RuleScore(f)}
High(n) == n >= 7

(* extract_all_active_students, and the select of predict_batch.  A worker *)
(* has one task at a time.                                                 *)
Start(t, kind, p) ==
    /\ tx[t].at = "idle" /\ starts < MaxStarts /\ trainer[p] = idle
    /\ kind = "nightly" => p \in Worker /\ ~Running(p)
    /\ kind = "batch" => p \in Web
    /\ starts' = starts + 1
    /\ tx' = [tx EXCEPT ![t] = [at |-> "scoring", kind |-> kind, by |-> p, todo |-> Enrolment,
                                row |-> None, wrote |-> {}, high |-> {}, aborted |-> FALSE,
                                fitted |-> p \in legacy]]
    /\ UNCHANGED <<score, models, faults>>

(* The rows come in the order the database likes. *)
NextRow(t, e) ==
    /\ tx[t].at = "scoring" /\ tx[t].row = None /\ e \in tx[t].todo
    /\ tx' = [tx EXCEPT ![t].row = e, ![t].todo = @ \ {e}]
    /\ UNCHANGED <<score, models, starts, faults>>

Holds(t, e) == tx[t].at = "scoring" /\ \E w \in tx[t].wrote : w[1] = e
WaitsFor(t, u) == tx[t].at = "scoring" /\ tx[t].row # None /\ ~tx[t].aborted /\ Holds(u, tx[t].row)

(* UPDATE enrollments: it waits while another transaction holds the row. *)
Update(t) ==
    LET e == tx[t].row IN
    /\ tx[t].at = "scoring" /\ e # None /\ ~tx[t].aborted
    /\ \A u \in Tx \ {t} : ~WaitsFor(t, u)
    /\ \E s \in IF tx[t].kind = "nightly" THEN PredictScore(tx[t].by, Facts[e])
                                           ELSE BatchScore(tx[t].fitted, Facts[e]) :
        tx' = [tx EXCEPT ![t].row = None, ![t].wrote = @ \cup {<<e, s>>},
                         ![t].high = IF High(s) THEN @ \cup {<<e, s>>} ELSE @]
    /\ UNCHANGED <<score, models, starts, faults>>

(* A failed statement aborts the transaction: what it wrote is gone, its   *)
(* rows are free.  The run logs the row and goes on, the batch ends.       *)
Abort(t) ==
    tx' = [tx EXCEPT ![t] = IF @.kind = "batch" THEN idleTx
                            ELSE [@ EXCEPT !.row = None, !.wrote = {}, !.aborted = TRUE]]

Deadlock(t) ==
    /\ \E u \in Tx \ {t} : WaitsFor(t, u) /\ WaitsFor(u, t)
    /\ Abort(t)
    /\ UNCHANGED <<score, models, starts, faults>>

StatementFails(t) ==
    /\ tx[t].at = "scoring" /\ tx[t].row # None /\ faults < MaxFaults
    /\ faults' = faults + 1
    /\ Abort(t)
    /\ UNCHANGED <<score, models, starts>>

(* After the first failure every further statement is refused. *)
RowRefused(t) ==
    /\ tx[t].at = "scoring" /\ tx[t].row # None /\ tx[t].aborted
    /\ tx' = [tx EXCEPT ![t].row = None]
    /\ UNCHANGED <<score, models, starts, faults>>

AllRows(t) == tx[t].at = "scoring" /\ tx[t].row = None /\ tx[t].todo = {}
Ended(t) == tx' = [tx EXCEPT ![t] = IF @.kind = "nightly" /\ @.high # {} THEN [@ EXCEPT !.at = "notify"]
                                                                          ELSE idleTx]

CommitForgotten(t) == AllRows(t) /\ Ended(t) /\ UNCHANGED <<score, models, starts, faults>>

(* db.commit(): of an aborted transaction it makes a rollback. *)
Commit(t) ==
    /\ AllRows(t)
    /\ score' = [e \in Enrolment |->
                   IF Holds(t, e) THEN (CHOOSE w \in tx[t].wrote : w[1] = e)[2] ELSE score[e]]
    /\ Ended(t)
    /\ UNCHANGED <<models, starts, faults>>

(* Rollback and self.retry: the run starts again with nothing done. *)
CommitFails(t) ==
    /\ AllRows(t) /\ faults < MaxFaults
    /\ faults' = faults + 1
    /\ tx' = [tx EXCEPT ![t] = IF @.kind = "batch" THEN idleTx
                ELSE [@ EXCEPT !.todo = Enrolment, !.wrote = {}, !.high = {}, !.aborted = FALSE]]
    /\ UNCHANGED <<score, models, starts>>

(* _notify_high_risk: an unanswered request is only logged; the API writes *)
(* a row of the audit log for each enrolment.                              *)
Notify(t) ==
    /\ tx[t].at = "notify"
    /\ tx' = [tx EXCEPT ![t] = idleTx]
    /\ UNCHANGED <<score, models, starts, faults>>

-----------------------------------------------------------------------------
(* train_model: the fit, the copy of the model, the copy of the scaler,    *)
(* then load_model in the process that trained.                            *)
OtherAt(p, places) == \E q \in Process \ {p} : trainer[q].at \in places
Step(p, at) == trainer' = [trainer EXCEPT ![p].at = at]

Train(p) ==
    /\ trainer[p] = idle /\ trained < MaxTrainings
    /\ p \in Worker => ~Running(p)
    /\ trained' = trained + 1
    /\ trainer' = [trainer EXCEPT ![p] = [at |-> "model", version |-> trained + 1]]
    /\ UNCHANGED <<score, tx, legacy, disk, memory, starts, faults, uneven>>

PublishModel(p) ==
    /\ trainer[p].at = "model"
    /\ disk' = [disk EXCEPT !.model = trainer[p].version]
    /\ Step(p, "scaler")
    /\ uneven' = (uneven \/ OtherAt(p, {"scaler", "loadScaler"}))
    /\ UNCHANGED <<score, tx, legacy, memory, starts, trained, faults>>

PublishScaler(p) ==
    /\ trainer[p].at = "scaler"
    /\ disk' = [disk EXCEPT !.scaler = trainer[p].version]
    /\ Step(p, "loadModel")
    /\ uneven' = (uneven \/ OtherAt(p, {"scaler", "loadScaler"}))
    /\ UNCHANGED <<score, tx, legacy, memory, starts, trained, faults>>

LoadModel(p) ==
    /\ trainer[p].at = "loadModel"
    /\ memory' = [memory EXCEPT ![p].model = disk.model]
    /\ Step(p, "loadScaler")
    /\ uneven' = (uneven \/ OtherAt(p, {"scaler"}))
    /\ UNCHANGED <<score, tx, legacy, disk, starts, trained, faults>>

(* A file that cannot be read leaves the rule of the fallback. *)
LoadModelFails(p) ==
    /\ trainer[p].at = "loadModel" /\ faults < MaxFaults
    /\ faults' = faults + 1
    /\ memory' = [memory EXCEPT ![p].model = 0]
    /\ Step(p, "loadScaler")
    /\ UNCHANGED <<score, tx, legacy, disk, starts, trained, uneven>>

LoadNoScaler(p) ==
    /\ trainer[p].at = "loadScaler"
    /\ trainer' = [trainer EXCEPT ![p] = idle]
    /\ UNCHANGED <<score, tx, legacy, disk, memory, starts, trained, faults, uneven>>

LoadScaler(p) ==
    /\ trainer[p].at = "loadScaler"
    /\ memory' = [memory EXCEPT ![p].scaler = disk.scaler]
    /\ trainer' = [trainer EXCEPT ![p] = idle]
    /\ uneven' = (uneven \/ OtherAt(p, {"scaler"}))
    /\ UNCHANGED <<score, tx, legacy, disk, starts, trained, faults>>

(* A scaler that cannot be read leaves a model that scores raw features. *)
LoadScalerFails(p) ==
    /\ trainer[p].at = "loadScaler" /\ faults < MaxFaults
    /\ faults' = faults + 1
    /\ memory' = [memory EXCEPT ![p].scaler = 0]
    /\ trainer' = [trainer EXCEPT ![p] = idle]
    /\ uneven' = TRUE
    /\ UNCHANGED <<score, tx, legacy, disk, starts, trained>>

(* train_model of dropout_service.py, which keeps a model of its own. *)
TrainLegacy(p) ==
    /\ p \in Web /\ trainer[p] = idle
    /\ legacy' = legacy \cup {p}
    /\ UNCHANGED <<score, tx, disk, memory, trainer, starts, trained, faults, uneven>>

(* A process starts again.  The web process loads the files (lifespan), a  *)
(* worker has no model until it trains; its transaction is rolled back.    *)
Restart(p) ==
    /\ faults < MaxFaults
    /\ faults' = faults + 1
    /\ memory' = [memory EXCEPT ![p] = none]
    /\ trainer' = [trainer EXCEPT ![p] = IF p \in Web THEN [at |-> "loadModel", version |-> 0] ELSE idle]
    /\ uneven' = (uneven \/ trainer[p].at = "scaler")
    /\ tx' = [t \in Tx |-> IF tx[t].at # "idle" /\ tx[t].by = p THEN idleTx ELSE tx[t]]
    /\ legacy' = legacy \ {p}
    /\ UNCHANGED <<score, disk, starts, trained>>

Next ==
    \/ \E t \in Tx :
        \/ \E p \in Process : Start(t, "nightly", p) \/ Start(t, "batch", p)
        \/ \E e \in Enrolment : NextRow(t, e)
        \/ Update(t) \/ Deadlock(t) \/ StatementFails(t) \/ RowRefused(t)
        \/ Commit(t) \/ CommitFails(t) \/ Notify(t)
    \/ \E p \in Process :
        \/ Train(p) \/ PublishModel(p) \/ PublishScaler(p)
        \/ LoadModel(p) \/ LoadModelFails(p)
        \/ LoadScaler(p) \/ LoadScalerFails(p) \/ TrainLegacy(p) \/ Restart(p)

Spec == Init /\ [][Next]_vars

-----------------------------------------------------------------------------
(* The scores, the transactions and the files of every process.           *)
TypeOK ==
    /\ score \in [Enrolment -> {Nothing} \cup -4..10]
    /\ \A t \in Tx : \/ tx[t] = idleTx
                     \/ /\ tx[t].at \in {"scoring", "notify"} /\ tx[t].by \in Process
                        /\ tx[t].todo \subseteq Enrolment /\ tx[t].row \in Enrolment \cup {None}
                        /\ tx[t].high \subseteq Enrolment \X (7..10)
                        /\ tx[t].kind = "nightly" => tx[t].wrote \subseteq Enrolment \X (0..10)
    /\ disk \in [model : 0..MaxTrainings, scaler : 0..MaxTrainings]
    /\ memory \in [Process -> [model : 0..MaxTrainings, scaler : 0..MaxTrainings]]
    /\ legacy \subseteq Web
    /\ starts \in 0..MaxStarts /\ trained \in 0..MaxTrainings /\ faults \in 0..MaxFaults
    /\ uneven \in BOOLEAN

(* The administrators hear of a high risk only if the run stored it, and   *)
(* then nobody but another run or batch replaced it, however runs wait for *)
(* each other's rows.  A run of which a statement failed is left to        *)
(* FailedRowsAreSkipped: all that holds of it is that it stored nothing    *)
(* (etl_tasks.py, the inner except).                                       *)
NoticeTellsOfStoredScores ==
    \A t \in Tx : tx[t].at = "notify" =>
        IF tx[t].aborted THEN tx[t].wrote = {} ELSE
        \A w \in tx[t].high : /\ w \in tx[t].wrote /\ score[w[1]] # Nothing
                              /\ score[w[1]] = w[2] \/ starts > 1

(* What PROJECT_CONTEXT.md:468 says of the nightly run, "per-enrollment    *)
(* failures logged and skipped": of a run that has ended, the rows whose   *)
(* statement succeeded and that it reports were written, whatever became   *)
(* of the others.  One failed statement aborts the transaction of all.     *)
FailedRowsAreSkipped ==
    \A t \in Tx : tx[t].at = "notify" => tx[t].high \subseteq tx[t].wrote

(* A process at rest scores with a model and the scaler it was fitted      *)
(* with, unless trainings overlapped, a process read or stopped between    *)
(* the two files, or could not read the second (train.py, load_model).     *)
ModelFitsScaler ==
    \A p \in Process : trainer[p] = idle /\ memory[p].model # 0 =>
        memory[p].scaler = memory[p].model \/ uneven
=============================================================================
