-------------------------------- MODULE Campus --------------------------------
(* The components around the rows of the database, which share nothing but *)
(* the request handlers, each under bounds of its own: scene says which    *)
(* one runs.                                                               *)
EXTENDS Integers, FiniteSets

CONSTANTS
    Handler,                                                    \* requests under way
    User, Ip, Night, BruteLimit, SessionIpLimit, BulkDeleteLimit,
    Student, Staff, Admin, Course, Teaches, Lesson, Token, Seats,
    Marker, Dean, Subject, TaughtBy, Member, CourseOf, Assessment, Points,
    Title, Suffix, Email, Password,
    Reader, Admins,
    Client, Teacher, Privileged, Entry, PageSize,
    Facts, Tx, Web, Worker, Graded,
    MaxOps, MaxCalls, MaxNotices, MaxFaults, MaxPages, MaxBreaks,  \* bounds
    MaxTime, MaxStarts, MaxTrainings, MaxWrites, MaxAsks

VARIABLES
    scene,
    op, ops, faults, overtaken,                            \* shared
    brute, blocked, devices, deletes, waiting, alarms, tried, noticed, signedIn, uncounted,
    courses, enrolled, sheet, qr, most, readmitted,
    assessments, grades, lowered,
    catalogue, users, stale, crossed, acked,
    rows, lost,
    page, link, fresh, wire, checks, room, student, pages, breaks, cut,
    now, log, next, last, file, begun, state,
    score, tx, disk, memory, trainer, legacy, starts, trained, uneven,
    mark, high, ask, kept, writes, asks

guard == <<brute, blocked, devices, deletes, waiting, alarms, tried, noticed, signedIn, uncounted>>
register == <<courses, enrolled, sheet, qr, most, readmitted>>
marks == <<assessments, grades, lowered>>
names == <<catalogue, users, stale, crossed, acked>>
notices == <<rows, lost>>
sockets == <<page, link, fresh, wire, checks, room, student, pages, breaks, cut>>
export == <<now, log, next, last, file, begun, state>>
risk == <<score, tx, disk, memory, trainer, legacy, starts, trained, uneven>>
stats == <<mark, high, ask, kept, writes, asks>>
vars == <<scene, op, ops, faults, overtaken, guard, register, marks, names, notices, sockets,
          export, risk, stats>>

Guard == INSTANCE LoginGuard WITH MaxOps <- MaxCalls
Lessons == INSTANCE Register
GradeBook == INSTANCE Grades WITH
    Staff <- Marker, Admin <- Dean, Course <- Subject, Teaches <- TaughtBy,
    Enrolment <- Member, Score <- Points
Names == INSTANCE Catalogue WITH Course <- Subject, MaxOps <- MaxCalls
Bulletin == INSTANCE Notices WITH User <- Reader, MaxOps <- MaxNotices
Gateway == INSTANCE Rooms
Download == INSTANCE Export WITH Row <- Entry
Dropout == INSTANCE Risk WITH Enrolment <- Member
Figures == INSTANCE Stats WITH Enrolment <- Member

ASSUME CampusAssumption ==
    /\ Guard!GuardAssumption /\ Lessons!RegisterAssumption /\ GradeBook!GradesAssumption
    /\ Names!CatalogueAssumption /\ Bulletin!NoticesAssumption /\ Gateway!RoomsAssumption
    /\ Download!ExportAssumption /\ Dropout!RiskAssumption /\ Figures!StatsAssumption

Init ==
    /\ scene \in {"login", "register", "grades", "names", "notices", "rooms",
                  "export", "risk", "stats"}
    /\ Guard!Init /\ Lessons!Init /\ GradeBook!Init /\ Names!Init /\ Bulletin!Init /\ Gateway!Init
    /\ Download!Init /\ Dropout!Init /\ Figures!Init

shared == <<op, ops, faults>>
Next ==
    /\ UNCHANGED scene
    /\ \/ /\ scene = "login" /\ Guard!Next
          /\ UNCHANGED <<overtaken, register, marks, names, notices, sockets, export, risk, stats>>
       \/ /\ scene = "register" /\ Lessons!Next
          /\ UNCHANGED <<guard, marks, names, notices, sockets, export, risk, stats>>
       \/ /\ scene = "grades" /\ GradeBook!Next
          /\ UNCHANGED <<overtaken, guard, register, names, notices, sockets, export, risk, stats>>
       \/ /\ scene = "names" /\ Names!Next
          /\ UNCHANGED <<overtaken, guard, register, marks, notices, sockets, export, risk, stats>>
       \/ /\ scene = "notices" /\ Bulletin!Next
          /\ UNCHANGED <<overtaken, guard, register, marks, names, sockets, export, risk, stats>>
       \/ /\ scene = "rooms" /\ Gateway!Next
          /\ UNCHANGED <<shared, guard, register, marks, names, notices, export, risk, stats>>
       \/ /\ scene = "export" /\ Download!Next
          /\ UNCHANGED <<shared, overtaken, guard, register, marks, names, notices, sockets, risk, stats>>
       \/ /\ scene = "risk" /\ Dropout!Next
          /\ UNCHANGED <<op, ops, overtaken, guard, register, marks, names, notices, sockets, export, stats>>
       \/ /\ scene = "stats" /\ Figures!Next
          /\ UNCHANGED <<shared, overtaken, guard, register, marks, names, notices, sockets, export, risk>>

Spec == Init /\ [][Next]_vars

(* The rows, the keys and the requests of the scene that runs. *)
TypeOK ==
    /\ scene = "login" => Guard!TypeOK
    /\ scene = "register" => Lessons!TypeOK
    /\ scene = "grades" => GradeBook!TypeOK
    /\ scene = "names" => Names!TypeOK
    /\ scene = "notices" => Bulletin!TypeOK
    /\ scene = "rooms" => Gateway!TypeOK
    /\ scene = "export" => Download!TypeOK
    /\ scene = "risk" => Dropout!TypeOK
    /\ scene = "stats" => Figures!TypeOK

(* An address gets no more guesses than its limit and the requests
   already past the check (securityMonitor.ts, checkIpBlocked). *)
GuessesBounded == scene = "login" => Guard!GuessesBounded

(* A session from one address too many raises an alert, but for the ones
   that a backup code or a set-up opened (securityMonitor.ts,
   checkMultiDevice; auth.service.ts, verifyBackupCode). *)
NoDeviceUnnoticed == scene = "login" => Guard!NoDeviceUnnoticed

(* A course exceeds its seats only by as many as overlapped, or were set
   ACTIVE again (enrollment.service.ts, enroll). *)
CapacityExcessExplained == scene = "register" => Lessons!CapacityExcessExplained

(* A QR token signs one student's row, whoever presents it at once
   (attendance.service.ts, markByQr). *)
QrMarksOneStudent == scene = "register" => Lessons!QrMarksOneStudent

(* Who is marked is on the course, or left it under the request that marked
   (attendance.service.ts, markBulk). *)
MarkedWhileActive == scene = "register" => Lessons!MarkedWhileActive

(* A grade exceeds the maximum of its assessment only if that was
   lowered (assessment.service.ts, submitGrade and update). *)
GradesFitTheirBound == scene = "grades" => GradeBook!GradesFitTheirBound

(* Slugs and account states follow the last write, but for writes of
   stale reads (course.service.ts, update; user.service.ts, toggleStatus). *)
StaleWritesExplained == scene = "names" => Names!StaleWritesExplained

(* A stored notification that was not pushed was passed by a newer one, or
   its call failed (notification.service.ts, createMany). *)
UnpushedExplained == scene = "notices" => Bulletin!UnpushedExplained

(* At rest the room of a course has those whose page is open
   (gateway.ts, join:course and leave:course). *)
RoomFollowsPage == scene = "rooms" => Gateway!RoomFollowsPage

(* The export misses no row that was there when it began
   (audit/page.tsx, exportCsv). *)
ExportMissesNothing == scene = "export" => Download!ExportMissesNothing

(* A process scores with a model and the scaler it was fitted with
   (ml_model.py, load_model; train.py, train_model). *)
ModelFitsScaler == scene = "risk" => Dropout!ModelFitsScaler

(* The administrators hear of scores that are stored
   (etl_tasks.py, nightly_risk_calculation). *)
NoticeTellsOfStoredScores == scene = "risk" => Dropout!NoticeTellsOfStoredScores

(* A row of the nightly run that fails costs the others nothing
   (PROJECT_CONTEXT.md:468; etl_tasks.py, the inner except). *)
FailedRowsAreSkipped == scene = "risk" => Dropout!FailedRowsAreSkipped

(* No figure shows more of something than there is, but for the rows
   written while it was counted (analytics.service.ts, dashboard). *)
RatesWithinBounds == scene = "stats" => Figures!RatesWithinBounds
=============================================================================
