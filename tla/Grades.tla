------------------------------ MODULE Grades ------------------------------
(* Assessments of courses and the grades given on them                     *)
(* (assessment.service.ts): each handler reads, checks what it read, and   *)
(* writes in a later call.                                                 *)
EXTENDS Naturals, FiniteSets

CONSTANTS
    Handler, Staff, Admin, Course, Teaches,
    Enrolment, CourseOf,   \* rows of enrollments, which are never deleted
    Assessment, Score,     \* ids, and the scores and bounds in use
    MaxOps, MaxFaults

GradesAssumption ==
    /\ Admin \subseteq Staff /\ Teaches \in [Course -> Staff]
    /\ CourseOf \in [Enrolment -> Course]
    /\ Score \subseteq Nat /\ MaxOps \in Nat /\ MaxFaults \in Nat

VARIABLES
    assessments,  \* course and maxScore of an assessment
    grades,       \* score of an assessment and an enrolment
    op, ops, faults,
    lowered       \* history: assessments whose maxScore was lowered

vars == <<assessments, grades, op, ops, faults, lowered>>

noAssessment == [row |-> "none"]
deleted == [row |-> "deleted"]
Exists(x) == assessments[x].row = "live"
Manages(a, c) == a \in Admin \/ a = Teaches[c]
noGrade == [given |-> FALSE, score |-> 0]
given(score) == [given |-> TRUE, score |-> score]

idle == [at |-> "idle"]
At(h, step) == op[h].at = step
Finish(h) == op' = [op EXCEPT ![h] = idle]
Begin(h, request) ==
    /\ At(h, "idle") /\ ops < MaxOps
    /\ ops' = ops + 1
    /\ op' = [op EXCEPT ![h] = request]

Init ==
    /\ assessments = [x \in Assessment |-> noAssessment]
    /\ grades = [g \in Assessment \X Enrolment |-> noGrade]
    /\ op = [h \in Handler |-> idle] /\ ops = 0 /\ faults = 0
    /\ lowered = {}

-----------------------------------------------------------------------------
CreateAssessment(a, c, x, max) ==
    /\ Manages(a, c) /\ assessments[x] = noAssessment /\ ops < MaxOps
    /\ ops' = ops + 1
    /\ assessments' = [assessments EXCEPT ![x] = [row |-> "live", course |-> c, max |-> max]]
    /\ UNCHANGED <<grades, op, faults, lowered>>

(* update, delete and submitGrade look the assessment up and check whose it is. *)
FindAssessment(h, a, x, request) ==
    /\ Exists(x) /\ Manages(a, assessments[x].course)
    /\ Begin(h, request)
    /\ UNCHANGED <<assessments, grades, faults, lowered>>

Update(h, a, x, max) == FindAssessment(h, a, x, [at |-> "update", x |-> x, max |-> max])
Delete(h, a, x) == FindAssessment(h, a, x, [at |-> "delete", x |-> x])

UpdateAssessment(h) ==
    LET x == op[h].x IN
    /\ At(h, "update")
    /\ IF Exists(x)
       THEN /\ assessments' = [assessments EXCEPT ![x].max = op[h].max]
            /\ lowered' = IF op[h].max < assessments[x].max THEN lowered \cup {x} ELSE lowered
       ELSE UNCHANGED <<assessments, lowered>>
    /\ Finish(h)
    /\ UNCHANGED <<grades, ops, faults>>

(* The grades of an assessment go with it (onDelete: Cascade). *)
DeleteAssessment(h) ==
    LET x == op[h].x IN
    /\ At(h, "delete")
    /\ assessments' = [assessments EXCEPT ![x] = deleted]
    /\ grades' = [g \in DOMAIN grades |-> IF g[1] = x THEN noGrade ELSE grades[g]]
    /\ Finish(h)
    /\ UNCHANGED <<ops, faults, lowered>>

SubmitUnchecked(h, a, x, e, score) ==
    FindAssessment(h, a, x, [at |-> "enrolment", x |-> x, e |-> e, score |-> score])

Submit(h, a, x, e, score) ==
    /\ Exists(x) /\ score <= assessments[x].max
    /\ FindAssessment(h, a, x, [at |-> "enrolment", x |-> x, e |-> e, score |-> score])

(* Any enrolment will do, of whatever course and status. *)
FindEnrolment(h) ==
    /\ At(h, "enrolment")
    /\ op' = [op EXCEPT ![h].at = "upsert"]
    /\ UNCHANGED <<assessments, grades, ops, faults, lowered>>

(* The foreign key refuses a grade whose assessment is gone. *)
UpsertGrade(h) ==
    LET g == <<op[h].x, op[h].e>> IN
    /\ At(h, "upsert")
    /\ grades' = IF Exists(op[h].x) THEN [grades EXCEPT ![g] = given(op[h].score)] ELSE grades
    /\ Finish(h)
    /\ UNCHANGED <<assessments, ops, faults, lowered>>

RequestEnds(h) ==
    /\ ~At(h, "idle") /\ faults < MaxFaults
    /\ faults' = faults + 1
    /\ Finish(h)
    /\ UNCHANGED <<assessments, grades, ops, lowered>>

Next ==
    \/ \E a \in Staff, x \in Assessment, n \in Score :
        \/ \E c \in Course : CreateAssessment(a, c, x, n)
        \/ \E h \in Handler : Update(h, a, x, n)
        \/ \E h \in Handler, e \in Enrolment : Submit(h, a, x, e, n)
    \/ \E a \in Staff, x \in Assessment, h \in Handler : Delete(h, a, x)
    \/ \E h \in Handler :
        \/ UpdateAssessment(h) \/ DeleteAssessment(h) \/ FindEnrolment(h) \/ UpsertGrade(h)
        \/ RequestEnds(h)

Spec == Init /\ [][Next]_vars

-----------------------------------------------------------------------------
(* The rows and what each request read of them.                           *)
TypeOK ==
    /\ \A x \in Assessment :
        \/ assessments[x] \in {noAssessment, deleted}
        \/ assessments[x] \in [row : {"live"}, course : Course, max : Score]
    /\ grades \in [Assessment \X Enrolment -> [given : BOOLEAN, score : Score \cup {0}]]
    /\ ops \in 0..MaxOps /\ faults \in 0..MaxFaults /\ lowered \subseteq Assessment

(* A grade is looked at once, against the maxScore read two calls before   *)
(* it is stored.  It exceeds the bound of its assessment only where that   *)
(* bound was lowered, before or after, and never outlives the assessment   *)
(* (assessment.service.ts, update, delete, submitGrade).                   *)
GradesFitTheirBound ==
    \A g \in DOMAIN grades : grades[g].given =>
        /\ Exists(g[1])
        /\ grades[g].score <= assessments[g[1]].max \/ g[1] \in lowered
=============================================================================
