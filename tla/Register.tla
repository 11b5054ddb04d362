----------------------------- MODULE Register -----------------------------
(* The class register: courses with a number of seats, enrolments, the     *)
(* attendance sheet and the QR tokens that let a student sign it           *)
(* (enrollment.service.ts, attendance.service.ts, course.service.ts).  A   *)
(* request advances by one awaited call, and requests interleave between   *)
(* them; the first action of each is its first look-up with its refusals.  *)
EXTENDS Naturals, FiniteSets

CONSTANTS
    Handler,          \* requests under way at one time
    Student, Staff, Course,
    Admin,            \* the staff with role ADMIN or SUPER_ADMIN
    Teaches,          \* the teacher of a course, who never changes
    Lesson,           \* dates
    Token,            \* random QR tokens
    Seats,            \* values of maxStudents
    MaxOps, MaxFaults \* bounds: requests, and requests that end half way

RegisterAssumption ==
    /\ IsFiniteSet(Handler) /\ IsFiniteSet(Student)
    /\ Admin \subseteq Staff /\ Teaches \in [Course -> Staff]
    /\ Seats \subseteq Nat \ {0} /\ "none" \notin Token /\ MaxOps \in Nat /\ MaxFaults \in Nat

VARIABLES
    courses,    \* status and maxStudents
    enrolled,   \* status of the enrolment of a student, "none" without a row
    sheet,      \* row of an enrolment and a lesson
    qr,         \* qr_attendance:<token>
    op, ops, faults,
    most,       \* history: the most seats a course ever had
    readmitted, \* history: enrolments made ACTIVE again by changeStatus
    overtaken   \* history: enrolments ended under a request that had seen them ACTIVE

vars == <<courses, enrolled, sheet, qr, op, ops, faults, most, readmitted, overtaken>>

Enrolment == Student \X Course
CourseStatus == {"DRAFT", "ACTIVE", "COMPLETED", "ARCHIVED"}
EnrollmentStatus == {"ACTIVE", "COMPLETED", "DROPPED"}
AttendanceStatus == {"PRESENT", "ABSENT", "LATE", "EXCUSED"}
gone == [state |-> "gone"]
noRow == [status |-> "none", token |-> "none", late |-> FALSE]
Active(c) == {s \in Student : enrolled[<<s, c>>] = "ACTIVE"}
Manages(a, c) == a \in Admin \/ a = Teaches[c]

idle == [at |-> "idle"]
At(h, step) == op[h].at = step
Goto(h, step) == op' = [op EXCEPT ![h].at = step]
Finish(h) == op' = [op EXCEPT ![h] = idle]
Begin(h, request) ==
    /\ At(h, "idle") /\ ops < MaxOps
    /\ ops' = ops + 1
    /\ op' = [op EXCEPT ![h] = request]

tables == <<courses, enrolled, sheet, qr>>
history == <<most, readmitted, overtaken>>

Init ==
    /\ courses \in [Course -> [status : {"ACTIVE"}, seats : Seats]]
    /\ enrolled = [e \in Enrolment |-> "none"]
    /\ sheet = [k \in Enrolment \X Lesson |-> noRow]
    /\ qr = [t \in Token |-> [state |-> "unused"]]
    /\ op = [h \in Handler |-> idle] /\ ops = 0 /\ faults = 0
    /\ most = [c \in Course |-> courses[c].seats]
    /\ readmitted = {} /\ overtaken = {}

-----------------------------------------------------------------------------
(* enroll: the course, the count of its ACTIVE enrolments, the row of the  *)
(* student, the insert.                                                    *)
Enroll(h, a, s, c) ==
    /\ a = s \/ a \in Admin
    /\ courses[c].status = "ACTIVE"
    /\ Begin(h, [at |-> "count", e |-> <<s, c>>, seats |-> courses[c].seats])
    /\ UNCHANGED <<tables, history, faults>>

CountSkipped(h) ==
    /\ At(h, "count")
    /\ Goto(h, "existing")
    /\ UNCHANGED <<tables, history, ops, faults>>

CountEnrolled(h) ==
    /\ At(h, "count")
    /\ IF Cardinality(Active(op[h].e[2])) >= op[h].seats THEN Finish(h) ELSE Goto(h, "existing")
    /\ UNCHANGED <<tables, history, ops, faults>>

FindExisting(h) ==
    /\ At(h, "existing")
    /\ IF enrolled[op[h].e] # "none" THEN Finish(h) ELSE Goto(h, "enrol")
    /\ UNCHANGED <<tables, history, ops, faults>>

(* The unique index on student and course refuses the second of two rows. *)
InsertEnrolment(h) ==
    /\ At(h, "enrol")
    /\ enrolled' = IF enrolled[op[h].e] = "none" THEN [enrolled EXCEPT ![op[h].e] = "ACTIVE"]
                                                 ELSE enrolled
    /\ Finish(h)
    /\ UNCHANGED <<courses, sheet, qr, history, ops, faults>>

(* changeStatus of an enrolment: a student may only drop his own. *)
FindEnrolment(h, a, e, new) ==
    /\ enrolled[e] # "none"
    /\ \/ a = e[1] /\ new = "DROPPED"
       \/ a \in Staff /\ Manages(a, e[2])
    /\ Begin(h, [at |-> "setStatus", e |-> e, new |-> new])
    /\ UNCHANGED <<tables, history, faults>>

Marking(h, e) ==
    \/ op[h].at \in {"markExisting", "mark", "qrExisting", "qrInsert"} /\ op[h].e = e
    \/ At(h, "upsert") /\ e \in op[h].all

SetEnrolmentStatus(h) ==
    LET e == op[h].e   new == op[h].new IN
    /\ At(h, "setStatus")
    /\ enrolled' = [enrolled EXCEPT ![e] = new]
    /\ readmitted' = IF new # "ACTIVE" THEN readmitted \ {e}
                     ELSE IF enrolled[e] # "ACTIVE" THEN readmitted \cup {e} ELSE readmitted
    /\ overtaken' = IF new # "ACTIVE" /\ \E g \in Handler : Marking(g, e)
                    THEN overtaken \cup {e} ELSE overtaken
    /\ Finish(h)
    /\ UNCHANGED <<courses, sheet, qr, most, ops, faults>>

(* update and changeStatus of a course, and delete, which archives it. *)
UpdateSeats(a, c, n) ==
    /\ Manages(a, c) /\ courses[c].seats # n /\ ops < MaxOps
    /\ courses' = [courses EXCEPT ![c].seats = n]
    /\ most' = [most EXCEPT ![c] = IF n > @ THEN n ELSE @]
    /\ ops' = ops + 1
    /\ UNCHANGED <<enrolled, sheet, qr, op, faults, readmitted, overtaken>>

ChangeCourseStatus(a, c, status) ==
    /\ Manages(a, c) /\ courses[c].status # status /\ ops < MaxOps
    /\ courses' = [courses EXCEPT ![c].status = status]
    /\ ops' = ops + 1
    /\ UNCHANGED <<enrolled, sheet, qr, op, faults, history>>

-----------------------------------------------------------------------------
(* mark: the enrolment must be ACTIVE and the lesson not marked yet. *)
Mark(h, a, e, l, status) ==
    /\ enrolled[e] = "ACTIVE" /\ a \in Staff /\ Manages(a, e[2])
    /\ Begin(h, [at |-> "markExisting", e |-> e, l |-> l, status |-> status, token |-> "none"])
    /\ UNCHANGED <<tables, history, faults>>

FindMark(h, next) ==
    /\ IF sheet[<<op[h].e, op[h].l>>] # noRow THEN Finish(h) ELSE Goto(h, next)
    /\ UNCHANGED <<tables, history, ops, faults>>

FindMarked(h) == At(h, "markExisting") /\ FindMark(h, "mark")

(* Unique: a row of an enrolment and a lesson, and a row with a QR token. *)
SignedWith(t) == {k \in DOMAIN sheet : sheet[k].token = t}
Row(e, status, token) == [status |-> status, token |-> token, late |-> enrolled[e] # "ACTIVE"]

InsertMark(h) ==
    LET k == <<op[h].e, op[h].l>> IN
    /\ At(h, "mark")
    /\ sheet' = IF sheet[k] = noRow
                THEN [sheet EXCEPT ![k] = Row(op[h].e, op[h].status, "none")] ELSE sheet
    /\ Finish(h)
    /\ UNCHANGED <<courses, enrolled, qr, history, ops, faults>>

(* markBulk: every record must be an ACTIVE enrolment of the course; then  *)
(* one transaction inserts or updates all of them.                         *)
ValidUnchecked(all, c) == all # {} /\ \A e \in all : e[2] = c /\ enrolled[e] # "none"
Valid(all, c) == all # {} /\ \A e \in all : e[2] = c /\ enrolled[e] = "ACTIVE"

MarkBulk(h, a, c, l, all, status) ==
    /\ a \in Staff /\ Manages(a, c) /\ Valid(all, c)
    /\ Begin(h, [at |-> "upsert", all |-> all, l |-> l, status |-> status])
    /\ UNCHANGED <<tables, history, faults>>

UpsertMarks(h) ==
    LET written == {<<e, op[h].l>> : e \in op[h].all} IN
    /\ At(h, "upsert")
    /\ sheet' = [k \in DOMAIN sheet |->
                   IF k \notin written THEN sheet[k]
                   ELSE IF sheet[k] = noRow THEN Row(k[1], op[h].status, "none")
                   ELSE [sheet[k] EXCEPT !.status = op[h].status]]
    /\ Finish(h)
    /\ UNCHANGED <<courses, enrolled, qr, history, ops, faults>>

(* generateQrToken, and its five minutes. *)
GenerateQrToken(a, c, l, t) ==
    /\ a \in Staff /\ Manages(a, c) /\ qr[t].state = "unused" /\ ops < MaxOps
    /\ qr' = [qr EXCEPT ![t] = [state |-> "live", c |-> c, l |-> l]]
    /\ ops' = ops + 1
    /\ UNCHANGED <<courses, enrolled, sheet, op, faults, history>>

QrTokenExpires(t) ==
    /\ qr[t].state = "live"
    /\ qr' = [qr EXCEPT ![t] = gone]
    /\ UNCHANGED <<courses, enrolled, sheet, op, ops, faults, history>>

(* markByQr: GET, the enrolment, the row, the insert, DEL. *)
MarkByQr(h, s, t) ==
    /\ qr[t].state = "live"
    /\ Begin(h, [at |-> "qrEnrolment", e |-> <<s, qr[t].c>>, l |-> qr[t].l,
                 status |-> "PRESENT", token |-> t])
    /\ UNCHANGED <<tables, history, faults>>

FindQrEnrolment(h) ==
    /\ At(h, "qrEnrolment")
    /\ IF enrolled[op[h].e] = "ACTIVE" THEN Goto(h, "qrExisting") ELSE Finish(h)
    /\ UNCHANGED <<tables, history, ops, faults>>

FindQrMark(h) == At(h, "qrExisting") /\ FindMark(h, "qrInsert")

InsertQrAnyToken(h) ==
    LET k == <<op[h].e, op[h].l>> IN
    /\ At(h, "qrInsert")
    /\ IF sheet[k] = noRow
       THEN /\ sheet' = [sheet EXCEPT ![k] = Row(op[h].e, "PRESENT", op[h].token)]
            /\ Goto(h, "qrDelete")
       ELSE Finish(h) /\ UNCHANGED sheet
    /\ UNCHANGED <<courses, enrolled, qr, history, ops, faults>>

InsertQrMark(h) ==
    LET k == <<op[h].e, op[h].l>> IN
    /\ At(h, "qrInsert")
    /\ IF sheet[k] = noRow /\ SignedWith(op[h].token) = {}
       THEN /\ sheet' = [sheet EXCEPT ![k] = Row(op[h].e, "PRESENT", op[h].token)]
            /\ Goto(h, "qrDelete")
       ELSE Finish(h) /\ UNCHANGED sheet
    /\ UNCHANGED <<courses, enrolled, qr, history, ops, faults>>

DeleteQrToken(h) ==
    /\ At(h, "qrDelete")
    /\ qr' = [qr EXCEPT ![op[h].token] = gone]
    /\ Finish(h)
    /\ UNCHANGED <<courses, enrolled, sheet, history, ops, faults>>

RequestEnds(h) ==
    /\ ~At(h, "idle") /\ faults < MaxFaults
    /\ faults' = faults + 1
    /\ Finish(h)
    /\ UNCHANGED <<tables, history, ops>>

-----------------------------------------------------------------------------
RequestStep(h) ==
    \/ CountEnrolled(h) \/ FindExisting(h) \/ InsertEnrolment(h) \/ SetEnrolmentStatus(h)
    \/ FindMarked(h) \/ InsertMark(h) \/ UpsertMarks(h)
    \/ FindQrEnrolment(h) \/ FindQrMark(h) \/ InsertQrMark(h) \/ DeleteQrToken(h)
    \/ RequestEnds(h)

Arrives(h) ==
    \/ \E a \in Student \cup Staff, s \in Student, c \in Course : Enroll(h, a, s, c)
    \/ \E a \in Student \cup Staff, e \in Enrolment, new \in EnrollmentStatus :
          FindEnrolment(h, a, e, new)
    \/ \E a \in Staff, e \in Enrolment, l \in Lesson, status \in {"ABSENT", "LATE"} :
          Mark(h, a, e, l, status)
    \/ \E a \in Staff, c \in Course, l \in Lesson, all \in SUBSET Enrolment :
          MarkBulk(h, a, c, l, all, "PRESENT")
    \/ \E s \in Student, t \in Token : MarkByQr(h, s, t)

Next ==
    \/ \E h \in Handler : Arrives(h) \/ RequestStep(h)
    \/ \E a \in Staff, c \in Course :
        \/ \E n \in Seats : UpdateSeats(a, c, n)
        \/ \E status \in {"ACTIVE", "ARCHIVED"} : ChangeCourseStatus(a, c, status)
        \/ \E l \in Lesson, t \in Token : GenerateQrToken(a, c, l, t)
    \/ \E t \in Token : QrTokenExpires(t)

Spec == Init /\ [][Next]_vars

-----------------------------------------------------------------------------
(* The rows, the keys of the QR tokens, and what each request holds.      *)
TypeOK ==
    /\ courses \in [Course -> [status : CourseStatus, seats : Seats]]
    /\ enrolled \in [Enrolment -> EnrollmentStatus \cup {"none"}]
    /\ \A k \in Enrolment \X Lesson :
        sheet[k] # noRow => enrolled[k[1]] # "none" /\ sheet[k].status \in AttendanceStatus
    /\ \A t \in Token : qr[t] \in {[state |-> "unused"], gone} \cup [state : {"live"}, c : Course, l : Lesson]
    /\ ops \in 0..MaxOps /\ faults \in 0..MaxFaults
    /\ most \in [Course -> Seats] /\ readmitted \subseteq Enrolment /\ overtaken \subseteq Enrolment

(* The seats are counted before the insert and outside its transaction     *)
(* (enrollment.service.ts, enroll), so requests that overlap exceed them:  *)
(* by at most one for each other request under way, beyond the most seats  *)
(* the course ever had and the students changeStatus let back in.          *)
CapacityExcessExplained ==
    \A c \in Course :
        Cardinality({s \in Active(c) : <<s, c>> \notin readmitted})
            <= most[c] + Cardinality(Handler) - 1

(* One QR token signs one student's row, although two students may present *)
(* it before either deletes it, and although a request may end before it   *)
(* deletes it (attendance.service.ts, markByQr, and the unique index).     *)
QrMarksOneStudent == \A t \in Token : Cardinality(SignedWith(t)) <= 1

(* The sheet names a student who was not on the course when the row was    *)
(* written only if he left it under the request that wrote it (mark,       *)
(* markBulk and markByQr check before they write).                         *)
MarkedWhileActive == \A k \in Enrolment \X Lesson : sheet[k].late => k[1] \in overtaken
=============================================================================
