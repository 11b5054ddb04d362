----------------------------- MODULE CampusProofs -----------------------------
(***************************************************************************)
(* The safety of the components around the rows of the database, for any   *)
(* numbers of requests, students, courses, tokens and so on.  Each scene   *)
(* has an invariant of its own; the other scenes leave its state alone.    *)
(***************************************************************************)
EXTENDS Campus, Sequences, FiniteSetTheorems, TLAPS

(* A step is one of the component whose scene it is.                       *)
LEMMA Scenes ==
    ASSUME Next
    PROVE  /\ scene' = scene
           /\ scene = "login" => Guard!Next
           /\ scene = "register" => Lessons!Next
           /\ scene = "grades" => GradeBook!Next
           /\ scene = "names" => Names!Next
           /\ scene = "notices" => Bulletin!Next
           /\ scene = "rooms" => Gateway!Next
           /\ scene = "export" => Download!Next
           /\ scene = "risk" => Dropout!Next
           /\ scene = "stats" => Figures!Next
  BY DEF Next

(* The modules of the components count as this one does.                   *)
LEMMA Counting ==
    ASSUME NEW S
    PROVE  /\ Lessons!Cardinality(S) = Cardinality(S) /\ Lessons!IsFiniteSet(S) = IsFiniteSet(S)
           /\ Guard!Cardinality(S) = Cardinality(S) /\ Bulletin!Cardinality(S) = Cardinality(S)
           /\ Download!Cardinality(S) = Cardinality(S)
           /\ Figures!Cardinality(S) = Cardinality(S) /\ Figures!IsFiniteSet(S) = IsFiniteSet(S)
  BY DEF Cardinality, IsFiniteSet, Lessons!Cardinality, Lessons!IsFiniteSet, Guard!Cardinality,
         Bulletin!Cardinality, Download!Cardinality, Figures!Cardinality, Figures!IsFiniteSet

-----------------------------------------------------------------------------
(* The register.  A request that is past its look at the enrolment writes  *)
(* rows on the strength of it; the invariant says what it may still rely   *)
(* on: the enrolment is ACTIVE, or was ended under such a request.         *)
CourseRow == [status : Lessons!CourseStatus, seats : Seats]
SheetRow == [status : Lessons!AttendanceStatus \cup {"none"}, token : Token \cup {"none"}, late : BOOLEAN]
Key == {[state |-> "unused"], Lessons!gone} \cup [state : {"live"}, c : Course, l : Lesson]
Writing == {"markExisting", "mark", "qrExisting", "qrInsert"}
Request ==
    {Lessons!idle}
    \cup [at : {"count", "existing", "enrol"}, e : Lessons!Enrolment, seats : Seats]
    \cup [at : {"setStatus"}, e : Lessons!Enrolment, new : Lessons!EnrollmentStatus]
    \cup [at : {"markExisting", "mark", "qrEnrolment", "qrExisting", "qrInsert", "qrDelete"},
          e : Lessons!Enrolment, l : Lesson, status : Lessons!AttendanceStatus, token : Token \cup {"none"}]
    \cup [at : {"upsert"}, all : SUBSET Lessons!Enrolment, l : Lesson, status : Lessons!AttendanceStatus]

Typed ==
    /\ courses \in [Course -> CourseRow]
    /\ enrolled \in [Lessons!Enrolment -> Lessons!EnrollmentStatus \cup {"none"}]
    /\ sheet \in [Lessons!Enrolment \X Lesson -> SheetRow]
    /\ qr \in [Token -> Key]
    /\ op \in [Handler -> Request]

(* What a request that has looked at enrolment e may rely on.              *)
Holds(e) == enrolled[e] = "ACTIVE" \/ e \in overtaken
Seen == \A h \in Handler, e \in Lessons!Enrolment : Lessons!Marking(h, e) => Holds(e)

SheetInv == Typed /\ Seen /\ Lessons!MarkedWhileActive

(* Nothing is marked at first.                                             *)
LEMMA InitHolds == ASSUME Lessons!RegisterAssumption, Lessons!Init PROVE SheetInv
<1>1. Typed
  <2>1. courses \in [Course -> CourseRow]
    BY DEF Lessons!Init, CourseRow, Lessons!CourseStatus
  <2>2. sheet \in [Lessons!Enrolment \X Lesson -> SheetRow] /\ enrolled \in [Lessons!Enrolment -> Lessons!EnrollmentStatus \cup {"none"}]
    BY DEF Lessons!Init, Lessons!noRow, SheetRow
  <2>3. qr \in [Token -> Key] /\ op \in [Handler -> Request]
    BY DEF Lessons!Init, Key, Request
  <2> QED
    BY <2>1, <2>2, <2>3 DEF Typed
<1>2. Seen
  BY DEF Lessons!Init, Seen, Lessons!Marking, Lessons!At, Lessons!idle
<1>3. Lessons!MarkedWhileActive
  BY DEF Lessons!Init, Lessons!MarkedWhileActive, Lessons!noRow
<1> QED
  BY <1>1, <1>2, <1>3 DEF SheetInv

(* A request that goes on or ends is a request.                            *)
LEMMA Requests ==
    ASSUME Typed, NEW h \in Handler
    PROVE  /\ Lessons!Finish(h) => op' \in [Handler -> Request]
           /\ \A r \in Request : Lessons!Begin(h, r) => op' \in [Handler -> Request]
           /\ op[h].at \in {"count", "existing"} /\ (Lessons!Goto(h, "existing") \/ Lessons!Goto(h, "enrol"))
                => op' \in [Handler -> Request]
           /\ op[h].at \in {"markExisting", "qrEnrolment", "qrExisting", "qrInsert"}
              /\ (Lessons!Goto(h, "mark") \/ Lessons!Goto(h, "qrExisting") \/ Lessons!Goto(h, "qrInsert") \/ Lessons!Goto(h, "qrDelete"))
                => op' \in [Handler -> Request]
<1>1. Lessons!idle \in Request
  BY DEF Request
<1>2. op \in [Handler -> Request] /\ op[h] \in Request
  BY DEF Typed
<1>3. ASSUME op[h].at \in {"count", "existing"}, NEW s \in {"existing", "enrol"}
      PROVE  [op[h] EXCEPT !.at = s] \in Request
  <2>1. op[h] \in [at : {"count", "existing", "enrol"}, e : Lessons!Enrolment, seats : Seats]
    BY <1>2, <1>3 DEF Request, Lessons!idle
  <2> QED
    BY <2>1 DEF Request
<1>4. ASSUME op[h].at \in {"markExisting", "qrEnrolment", "qrExisting", "qrInsert"},
             NEW s \in {"mark", "qrExisting", "qrInsert", "qrDelete"}
      PROVE  [op[h] EXCEPT !.at = s] \in Request
  <2>1. op[h] \in [at : {"markExisting", "mark", "qrEnrolment", "qrExisting", "qrInsert", "qrDelete"},
                   e : Lessons!Enrolment, l : Lesson, status : Lessons!AttendanceStatus, token : Token \cup {"none"}]
    BY <1>2, <1>4 DEF Request, Lessons!idle
  <2> QED
    BY <2>1 DEF Request
<1> QED
  BY <1>1, <1>2, <1>3, <1>4 DEF Lessons!Finish, Lessons!Begin, Lessons!Goto

(* What a request carries, by where it stands.                             *)
LEMMA Fields ==
    ASSUME Typed, NEW h \in Handler
    PROVE  /\ op[h].at \in {"count", "existing", "enrol", "setStatus"} => op[h].e \in Lessons!Enrolment
           /\ op[h].at = "setStatus" => op[h].new \in Lessons!EnrollmentStatus
           /\ op[h].at \in Writing =>
                /\ op[h].e \in Lessons!Enrolment /\ op[h].l \in Lesson
                /\ op[h].status \in Lessons!AttendanceStatus /\ op[h].token \in Token \cup {"none"}
           /\ op[h].at = "upsert" =>
                op[h].all \subseteq Lessons!Enrolment /\ op[h].l \in Lesson /\ op[h].status \in Lessons!AttendanceStatus
  BY DEF Typed, Request, Writing, Lessons!idle

(* What the steps of a request under way do to the tables.                 *)
LEMMA Writes ==
    ASSUME Typed, NEW h \in Handler, Lessons!RequestStep(h)
    PROVE  /\ enrolled' \in [Lessons!Enrolment -> Lessons!EnrollmentStatus \cup {"none"}]
           /\ sheet' \in [Lessons!Enrolment \X Lesson -> SheetRow]
           /\ qr' \in [Token -> Key]
           /\ op' \in [Handler -> Request]
<1> USE DEF Typed, Writing
<1>1. ASSUME Lessons!InsertEnrolment(h)
      PROVE  enrolled' \in [Lessons!Enrolment -> Lessons!EnrollmentStatus \cup {"none"}]
  BY <1>1, Fields DEF Lessons!InsertEnrolment, Lessons!At, Lessons!EnrollmentStatus
<1>2. ASSUME Lessons!SetEnrolmentStatus(h)
      PROVE  enrolled' \in [Lessons!Enrolment -> Lessons!EnrollmentStatus \cup {"none"}]
  BY <1>2, Fields DEF Lessons!SetEnrolmentStatus, Lessons!At
<1>3. ASSUME NEW e \in Lessons!Enrolment, NEW s \in Lessons!AttendanceStatus, NEW t \in Token \cup {"none"}
      PROVE  Lessons!Row(e, s, t) \in SheetRow
  BY DEF Lessons!Row, SheetRow
<1>4. ASSUME Lessons!InsertMark(h)
      PROVE  sheet' \in [Lessons!Enrolment \X Lesson -> SheetRow]
  BY <1>3, <1>4, Fields DEF Lessons!InsertMark, Lessons!At
<1>5. ASSUME Lessons!InsertQrMark(h)
      PROVE  sheet' \in [Lessons!Enrolment \X Lesson -> SheetRow]
  <2>1. "PRESENT" \in Lessons!AttendanceStatus /\ op[h].e \in Lessons!Enrolment /\ op[h].token \in Token \cup {"none"}
    BY <1>5, Fields DEF Lessons!InsertQrMark, Lessons!At, Lessons!AttendanceStatus
  <2>2. Lessons!Row(op[h].e, "PRESENT", op[h].token) \in SheetRow
    BY <1>3, <2>1
  <2> QED
    BY <1>5, <2>2 DEF Lessons!InsertQrMark
<1>6. ASSUME Lessons!UpsertMarks(h)
      PROVE  sheet' \in [Lessons!Enrolment \X Lesson -> SheetRow]
  <2>1. op[h].status \in Lessons!AttendanceStatus
    BY <1>6, Fields DEF Lessons!UpsertMarks, Lessons!At
  <2>2. ASSUME NEW k \in Lessons!Enrolment \X Lesson
        PROVE  /\ [sheet[k] EXCEPT !.status = op[h].status] \in SheetRow
               /\ Lessons!Row(k[1], op[h].status, "none") \in SheetRow
    BY <1>3, <2>1 DEF SheetRow
  <2> QED
    BY <1>6, <2>2 DEF Lessons!UpsertMarks
<1>7. ASSUME Lessons!DeleteQrToken(h)
      PROVE  qr' \in [Token -> Key]
  BY <1>7 DEF Lessons!DeleteQrToken, Key
<1>8. op' \in [Handler -> Request]
  BY Requests DEF Lessons!RequestStep, Lessons!CountEnrolled, Lessons!FindExisting,
                  Lessons!InsertEnrolment, Lessons!SetEnrolmentStatus, Lessons!FindMarked,
                  Lessons!FindMark, Lessons!InsertMark, Lessons!UpsertMarks, Lessons!FindQrEnrolment,
                  Lessons!FindQrMark, Lessons!InsertQrMark, Lessons!DeleteQrToken, Lessons!RequestEnds,
                  Lessons!At
<1>9. enrolled' \in [Lessons!Enrolment -> Lessons!EnrollmentStatus \cup {"none"}]
  BY <1>1, <1>2 DEF Lessons!RequestStep, Lessons!CountEnrolled, Lessons!FindExisting,
                    Lessons!FindMarked, Lessons!FindMark, Lessons!InsertMark, Lessons!UpsertMarks,
                    Lessons!FindQrEnrolment, Lessons!FindQrMark, Lessons!InsertQrMark,
                    Lessons!DeleteQrToken, Lessons!RequestEnds, Lessons!tables
<1>10. sheet' \in [Lessons!Enrolment \X Lesson -> SheetRow]
  BY <1>4, <1>5, <1>6 DEF Lessons!RequestStep, Lessons!CountEnrolled, Lessons!FindExisting,
                          Lessons!InsertEnrolment, Lessons!SetEnrolmentStatus, Lessons!FindMarked,
                          Lessons!FindMark, Lessons!FindQrEnrolment, Lessons!FindQrMark,
                          Lessons!DeleteQrToken, Lessons!RequestEnds, Lessons!tables
<1>11. qr' \in [Token -> Key]
  BY <1>7 DEF Lessons!RequestStep, Lessons!CountEnrolled, Lessons!FindExisting, Lessons!InsertEnrolment,
              Lessons!SetEnrolmentStatus, Lessons!FindMarked, Lessons!FindMark, Lessons!InsertMark,
              Lessons!UpsertMarks, Lessons!FindQrEnrolment, Lessons!FindQrMark, Lessons!InsertQrMark,
              Lessons!RequestEnds, Lessons!tables
<1> QED
  BY <1>8, <1>9, <1>10, <1>11

(* A request that arrives is one, and leaves the tables alone.             *)
LEMMA Arrivals ==
    ASSUME Typed, NEW h \in Handler, Lessons!Arrives(h)
    PROVE  /\ op' \in [Handler -> Request] /\ UNCHANGED <<Lessons!tables, Lessons!history>>
           /\ \A g \in Handler, e \in Lessons!Enrolment :
                Lessons!Marking(g, e)' => Lessons!Marking(g, e) \/ enrolled[e] = "ACTIVE"
<1> USE DEF Typed
<1>1. ASSUME NEW r \in Request, Lessons!Begin(h, r),
             NEW g \in Handler, NEW e \in Lessons!Enrolment, Lessons!Marking(g, e)'
      PROVE  \/ Lessons!Marking(g, e)
             \/ r.at \in Writing /\ r.e = e
             \/ r.at = "upsert" /\ e \in r.all
  BY <1>1 DEF Lessons!Begin, Lessons!Marking, Lessons!At, Writing
<1>2. ASSUME NEW a \in Student \cup Staff, NEW s \in Student, NEW c \in Course, Lessons!Enroll(h, a, s, c)
      PROVE  \E r \in Request : Lessons!Begin(h, r) /\ r.at = "count" /\ UNCHANGED <<Lessons!tables, Lessons!history>>
  BY <1>2 DEF Lessons!Enroll, Request, Lessons!Enrolment, CourseRow
<1>3. ASSUME NEW a \in Student \cup Staff, NEW e \in Lessons!Enrolment, NEW new \in Lessons!EnrollmentStatus,
             Lessons!FindEnrolment(h, a, e, new)
      PROVE  \E r \in Request : Lessons!Begin(h, r) /\ r.at = "setStatus" /\ UNCHANGED <<Lessons!tables, Lessons!history>>
  BY <1>3 DEF Lessons!FindEnrolment, Request
<1>4. ASSUME NEW a \in Staff, NEW e \in Lessons!Enrolment, NEW l \in Lesson,
             NEW status \in {"ABSENT", "LATE"}, Lessons!Mark(h, a, e, l, status)
      PROVE  \E r \in Request :
                /\ Lessons!Begin(h, r) /\ r.at = "markExisting" /\ enrolled[r.e] = "ACTIVE"
                /\ UNCHANGED <<Lessons!tables, Lessons!history>>
  BY <1>4 DEF Lessons!Mark, Request, Lessons!AttendanceStatus
<1>5. ASSUME NEW a \in Staff, NEW c \in Course, NEW l \in Lesson, NEW all \in SUBSET Lessons!Enrolment,
             Lessons!MarkBulk(h, a, c, l, all, "PRESENT")
      PROVE  \E r \in Request :
                /\ Lessons!Begin(h, r) /\ r.at = "upsert" /\ \A e \in r.all : enrolled[e] = "ACTIVE"
                /\ UNCHANGED <<Lessons!tables, Lessons!history>>
  BY <1>5 DEF Lessons!MarkBulk, Lessons!Valid, Request, Lessons!AttendanceStatus
<1>6. ASSUME NEW s \in Student, NEW t \in Token, Lessons!MarkByQr(h, s, t)
      PROVE  \E r \in Request :
                Lessons!Begin(h, r) /\ r.at = "qrEnrolment" /\ UNCHANGED <<Lessons!tables, Lessons!history>>
  <2>1. qr[t].c \in Course /\ qr[t].l \in Lesson
    BY <1>6 DEF Lessons!MarkByQr, Key, Lessons!gone
  <2> QED
    BY <1>6, <2>1 DEF Lessons!MarkByQr, Request, Lessons!AttendanceStatus, Lessons!Enrolment
<1>7. \E r \in Request :
        /\ Lessons!Begin(h, r) /\ UNCHANGED <<Lessons!tables, Lessons!history>>
        /\ r.at \in Writing => enrolled[r.e] = "ACTIVE"
        /\ r.at = "upsert" => \A e \in r.all : enrolled[e] = "ACTIVE"
  BY <1>2, <1>3, <1>4, <1>5, <1>6 DEF Lessons!Arrives, Writing
<1> QED
  BY <1>1, <1>7, Requests

(* Every step keeps the types.                                             *)
LEMMA TypedStep == ASSUME Lessons!RegisterAssumption, Typed, Lessons!Next PROVE Typed'
<1>1. ASSUME NEW h \in Handler, Lessons!Arrives(h)
      PROVE  Typed'
  BY <1>1, Arrivals DEF Typed, Lessons!tables
<1>2. ASSUME NEW h \in Handler, Lessons!RequestStep(h)
      PROVE  Typed'
  <2>1. UNCHANGED courses
    BY <1>2 DEF Lessons!RequestStep, Lessons!CountEnrolled, Lessons!FindExisting,
                Lessons!InsertEnrolment, Lessons!SetEnrolmentStatus, Lessons!FindMarked,
                Lessons!FindMark, Lessons!InsertMark, Lessons!UpsertMarks, Lessons!FindQrEnrolment,
                Lessons!FindQrMark, Lessons!InsertQrMark, Lessons!DeleteQrToken, Lessons!RequestEnds,
                Lessons!tables
  <2> QED
    BY <1>2, <2>1, Writes DEF Typed
<1>3. ASSUME NEW a \in Staff, NEW c \in Course, NEW n \in Seats, Lessons!UpdateSeats(a, c, n)
      PROVE  Typed'
  BY <1>3 DEF Lessons!UpdateSeats, Typed, CourseRow
<1>4. ASSUME NEW a \in Staff, NEW c \in Course, NEW status \in {"ACTIVE", "ARCHIVED"},
             Lessons!ChangeCourseStatus(a, c, status)
      PROVE  Typed'
  BY <1>4 DEF Lessons!ChangeCourseStatus, Typed, CourseRow, Lessons!CourseStatus
<1>5. ASSUME NEW a \in Staff, NEW c \in Course, NEW l \in Lesson, NEW t \in Token,
             Lessons!GenerateQrToken(a, c, l, t)
      PROVE  Typed'
  BY <1>5 DEF Lessons!GenerateQrToken, Typed, Key
<1>6. ASSUME NEW t \in Token, Lessons!QrTokenExpires(t)
      PROVE  Typed'
  BY <1>6 DEF Lessons!QrTokenExpires, Typed, Key
<1> QED
  BY <1>1, <1>2, <1>3, <1>4, <1>5, <1>6 DEF Lessons!Next

(* What a request relies on stays so while it is under way.                *)
LEMMA HoldsStays ==
    ASSUME Typed, Lessons!Next, NEW e \in Lessons!Enrolment, Holds(e),
           enrolled'[e] # "ACTIVE" => \E g \in Handler : Lessons!Marking(g, e)
    PROVE  Holds(e)'
<1> USE DEF Holds
<1>1. ASSUME NEW h \in Handler, Lessons!InsertEnrolment(h)
      PROVE  Holds(e)'
  BY <1>1, Fields DEF Lessons!InsertEnrolment, Lessons!At, Typed, Lessons!history
<1>2. ASSUME NEW h \in Handler, Lessons!SetEnrolmentStatus(h)
      PROVE  Holds(e)'
  <2>1. op[h].e \in Lessons!Enrolment /\ enrolled' = [enrolled EXCEPT ![op[h].e] = op[h].new]
    BY <1>2, Fields DEF Lessons!SetEnrolmentStatus, Lessons!At
  <2>2. overtaken \subseteq overtaken'
    BY <1>2 DEF Lessons!SetEnrolmentStatus
  <2>3. CASE op[h].e = e /\ op[h].new # "ACTIVE"
    <3>1. \E g \in Handler : Lessons!Marking(g, e)
      BY <2>1, <2>3 DEF Typed
    <3> QED
      BY <1>2, <2>3, <3>1 DEF Lessons!SetEnrolmentStatus
  <2>4. CASE ~(op[h].e = e /\ op[h].new # "ACTIVE")
    BY <2>1, <2>2, <2>4 DEF Typed
  <2> QED
    BY <2>3, <2>4
<1>3. CASE UNCHANGED <<enrolled, overtaken>>
  BY <1>3
<1> QED
  BY <1>1, <1>2, <1>3, Arrivals DEF Lessons!Next, Lessons!RequestStep, Lessons!CountEnrolled,
                                    Lessons!FindExisting, Lessons!FindMarked, Lessons!FindMark,
                                    Lessons!InsertMark, Lessons!UpsertMarks, Lessons!FindQrEnrolment,
                                    Lessons!FindQrMark, Lessons!InsertQrMark, Lessons!DeleteQrToken,
                                    Lessons!RequestEnds, Lessons!UpdateSeats,
                                    Lessons!ChangeCourseStatus, Lessons!GenerateQrToken,
                                    Lessons!QrTokenExpires, Lessons!tables, Lessons!history

(* A request that marks did so before, or has just seen the enrolment.     *)
LEMMA Markers ==
    ASSUME Typed, Lessons!Next, NEW g \in Handler, NEW e \in Lessons!Enrolment, Lessons!Marking(g, e)'
    PROVE  Lessons!Marking(g, e) \/ (enrolled[e] = "ACTIVE" /\ UNCHANGED <<enrolled, overtaken>>)
<1>0. op \in [Handler -> Request]
  BY DEF Typed
<1>1. ASSUME NEW h \in Handler, Lessons!Finish(h)
      PROVE  Lessons!Marking(g, e)
  BY <1>0, <1>1 DEF Lessons!Finish, Lessons!Marking, Lessons!At, Lessons!idle
<1>2. ASSUME NEW h \in Handler, op[h].at \in {"count", "existing"},
             Lessons!Goto(h, "existing") \/ Lessons!Goto(h, "enrol")
      PROVE  Lessons!Marking(g, e)
  <2>1. op[h] \in [at : {"count", "existing", "enrol"}, e : Lessons!Enrolment, seats : Seats]
    BY <1>0, <1>2 DEF Request, Lessons!idle
  <2> QED
    BY <1>0, <1>2, <2>1 DEF Lessons!Goto, Lessons!Marking, Lessons!At
<1>3. ASSUME NEW h \in Handler, op[h].at \in {"markExisting", "qrEnrolment", "qrExisting", "qrInsert"},
             Lessons!Goto(h, "mark") \/ Lessons!Goto(h, "qrExisting") \/ Lessons!Goto(h, "qrInsert") \/ Lessons!Goto(h, "qrDelete")
      PROVE  Lessons!Marking(g, e) \/ (g = h /\ op[h].at = "qrEnrolment" /\ op[h].e = e)
  <2>1. op[h] \in [at : {"markExisting", "mark", "qrEnrolment", "qrExisting", "qrInsert", "qrDelete"},
                   e : Lessons!Enrolment, l : Lesson, status : Lessons!AttendanceStatus, token : Token \cup {"none"}]
    BY <1>0, <1>3 DEF Request, Lessons!idle
  <2> QED
    BY <1>0, <1>3, <2>1 DEF Lessons!Goto, Lessons!Marking, Lessons!At
<1>4. ASSUME NEW h \in Handler, Lessons!FindQrEnrolment(h)
      PROVE  Lessons!Marking(g, e) \/ (enrolled[e] = "ACTIVE" /\ UNCHANGED <<enrolled, overtaken>>)
  BY <1>1, <1>3, <1>4 DEF Lessons!FindQrEnrolment, Lessons!At, Lessons!tables, Lessons!history
<1>5. ASSUME NEW h \in Handler, Lessons!Arrives(h)
      PROVE  Lessons!Marking(g, e) \/ (enrolled[e] = "ACTIVE" /\ UNCHANGED <<enrolled, overtaken>>)
  BY <1>5, Arrivals DEF Lessons!tables, Lessons!history
<1>6. CASE UNCHANGED op
  BY <1>6 DEF Lessons!Marking, Lessons!At
<1>7. ASSUME NEW h \in Handler, Lessons!RequestStep(h), ~Lessons!FindQrEnrolment(h)
      PROVE  Lessons!Marking(g, e)
  BY <1>1, <1>2, <1>3, <1>7 DEF Lessons!RequestStep, Lessons!CountEnrolled, Lessons!FindExisting,
                                Lessons!InsertEnrolment, Lessons!SetEnrolmentStatus, Lessons!FindMarked,
                                Lessons!FindMark, Lessons!InsertMark, Lessons!UpsertMarks,
                                Lessons!FindQrMark, Lessons!InsertQrMark, Lessons!DeleteQrToken,
                                Lessons!RequestEnds, Lessons!At
<1> QED
  BY <1>4, <1>5, <1>6, <1>7 DEF Lessons!Next, Lessons!UpdateSeats, Lessons!ChangeCourseStatus,
                                Lessons!GenerateQrToken, Lessons!QrTokenExpires

(* Every step keeps what the requests rely on.                             *)
LEMMA SeenStep == ASSUME Typed, Seen, Lessons!Next PROVE Seen'
<1> SUFFICES ASSUME NEW g \in Handler, NEW e \in Lessons!Enrolment, Lessons!Marking(g, e)'
             PROVE  Holds(e)'
  BY DEF Seen
<1>1. CASE Lessons!Marking(g, e)
  BY <1>1, HoldsStays DEF Seen
<1>2. CASE enrolled[e] = "ACTIVE" /\ UNCHANGED <<enrolled, overtaken>>
  BY <1>2 DEF Holds
<1> QED
  BY <1>1, <1>2, Markers

(* A row is late if the enrolment has ended when it is written.            *)
LEMMA LateRows ==
    ASSUME NEW e, NEW status, NEW token, Lessons!Row(e, status, token).late
    PROVE  enrolled[e] # "ACTIVE"
  BY DEF Lessons!Row

(* A late row is written only under a request that was overtaken.          *)
LEMMA LateStep == ASSUME Typed, Seen, Lessons!MarkedWhileActive, Lessons!Next PROVE Lessons!MarkedWhileActive'
<1> SUFFICES ASSUME NEW k \in Lessons!Enrolment \X Lesson, sheet'[k].late
             PROVE  k[1] \in overtaken'
  BY DEF Lessons!MarkedWhileActive
<1> USE DEF Typed, SheetRow
<1>0. overtaken \subseteq overtaken'
  BY Arrivals DEF Lessons!Next, Lessons!RequestStep, Lessons!CountEnrolled, Lessons!FindExisting,
                  Lessons!InsertEnrolment, Lessons!SetEnrolmentStatus, Lessons!FindMarked,
                  Lessons!FindMark, Lessons!InsertMark, Lessons!UpsertMarks, Lessons!FindQrEnrolment,
                  Lessons!FindQrMark, Lessons!InsertQrMark, Lessons!DeleteQrToken, Lessons!RequestEnds,
                  Lessons!UpdateSeats, Lessons!ChangeCourseStatus, Lessons!GenerateQrToken,
                  Lessons!QrTokenExpires, Lessons!tables, Lessons!history
<1>1. CASE sheet'[k].late = sheet[k].late
  BY <1>0, <1>1 DEF Lessons!MarkedWhileActive
<1>2. ASSUME NEW h \in Handler, Lessons!Marking(h, k[1]), enrolled[k[1]] # "ACTIVE"
      PROVE  k[1] \in overtaken'
  BY <1>0, <1>2 DEF Seen, Holds
<1>3. ASSUME NEW h \in Handler, Lessons!InsertMark(h)
      PROVE  k[1] \in overtaken'
  <2>1. op[h].at = "mark" /\ op[h].e \in Lessons!Enrolment /\ op[h].l \in Lesson
    BY <1>3, Fields DEF Lessons!InsertMark, Lessons!At, Writing
  <2>2. CASE k = <<op[h].e, op[h].l>> /\ sheet[k] = Lessons!noRow
    <3>1. sheet'[k] = Lessons!Row(op[h].e, op[h].status, "none")
      BY <1>3, <2>1, <2>2 DEF Lessons!InsertMark
    <3>2. k[1] = op[h].e /\ Lessons!Marking(h, k[1])
      BY <2>1, <2>2 DEF Lessons!Marking
    <3>3. enrolled[k[1]] # "ACTIVE"
      BY <3>1, <3>2, LateRows
    <3> QED
      BY <1>2, <3>2, <3>3
  <2>3. CASE ~(k = <<op[h].e, op[h].l>> /\ sheet[k] = Lessons!noRow)
    BY <1>1, <1>3, <2>1, <2>3 DEF Lessons!InsertMark
  <2> QED
    BY <2>2, <2>3
<1>4. ASSUME NEW h \in Handler, Lessons!InsertQrMark(h)
      PROVE  k[1] \in overtaken'
  <2>1. op[h].at = "qrInsert" /\ op[h].e \in Lessons!Enrolment /\ op[h].l \in Lesson
    BY <1>4, Fields DEF Lessons!InsertQrMark, Lessons!At, Writing
  <2>2. CASE k = <<op[h].e, op[h].l>> /\ sheet'[k] # sheet[k]
    <3>1. sheet'[k] = Lessons!Row(op[h].e, "PRESENT", op[h].token)
      BY <1>4, <2>1, <2>2 DEF Lessons!InsertQrMark
    <3>2. k[1] = op[h].e /\ Lessons!Marking(h, k[1])
      BY <2>1, <2>2 DEF Lessons!Marking
    <3>3. enrolled[k[1]] # "ACTIVE"
      BY <3>1, <3>2, LateRows
    <3> QED
      BY <1>2, <3>2, <3>3
  <2>3. CASE ~(k = <<op[h].e, op[h].l>> /\ sheet'[k] # sheet[k])
    BY <1>1, <1>4, <2>1, <2>3 DEF Lessons!InsertQrMark
  <2> QED
    BY <2>2, <2>3
<1>5. ASSUME NEW h \in Handler, Lessons!UpsertMarks(h)
      PROVE  k[1] \in overtaken'
  <2>1. /\ op[h].at = "upsert"
        /\ sheet'[k] = IF k \notin {<<e, op[h].l>> : e \in op[h].all} THEN sheet[k]
                       ELSE IF sheet[k] = Lessons!noRow THEN Lessons!Row(k[1], op[h].status, "none")
                       ELSE [sheet[k] EXCEPT !.status = op[h].status]
    BY <1>5 DEF Lessons!UpsertMarks, Lessons!At
  <2>2. CASE k \in {<<e, op[h].l>> : e \in op[h].all} /\ sheet[k] = Lessons!noRow
    <3>1. Lessons!Marking(h, k[1])
      BY <2>1, <2>2 DEF Lessons!Marking, Lessons!At
    <3>2. enrolled[k[1]] # "ACTIVE"
      BY <2>1, <2>2, LateRows
    <3> QED
      BY <1>2, <3>1, <3>2
  <2>3. CASE ~(k \in {<<e, op[h].l>> : e \in op[h].all} /\ sheet[k] = Lessons!noRow)
    <3>1. sheet[k] \in SheetRow
      OBVIOUS
    <3>2. sheet'[k].late = sheet[k].late
      BY <2>1, <2>3, <3>1
    <3> QED
      BY <1>1, <3>2
  <2> QED
    BY <2>2, <2>3
<1>6. CASE UNCHANGED sheet
  BY <1>1, <1>6
<1> QED
  BY <1>3, <1>4, <1>5, <1>6, Arrivals DEF Lessons!Next, Lessons!RequestStep, Lessons!CountEnrolled,
                                          Lessons!FindExisting, Lessons!InsertEnrolment,
                                          Lessons!SetEnrolmentStatus, Lessons!FindMarked,
                                          Lessons!FindMark, Lessons!FindQrEnrolment, Lessons!FindQrMark,
                                          Lessons!DeleteQrToken, Lessons!RequestEnds,
                                          Lessons!UpdateSeats, Lessons!ChangeCourseStatus,
                                          Lessons!GenerateQrToken, Lessons!QrTokenExpires,
                                          Lessons!tables, Lessons!history

(* The sheet names a student who was not on the course only where he left  *)
(* it under the request that wrote the row, whatever requests overlap      *)
(* (attendance.service.ts, mark, markBulk, markByQr).                      *)
THEOREM SheetNamesItsCourse == Spec => []MarkedWhileActive
<1> DEFINE Inv == scene = "register" => SheetInv
<1>1. Init => Inv
  BY InitHolds, CampusAssumption DEF Init
<1>2. Inv /\ [Next]_vars => Inv'
  <2> SUFFICES ASSUME Inv, [Next]_vars, scene' = "register"
               PROVE  SheetInv'
    OBVIOUS
  <2>1. CASE Next
    BY <2>1, Scenes, CampusAssumption, TypedStep, SeenStep, LateStep DEF SheetInv
  <2>2. CASE UNCHANGED vars
    BY <2>2 DEF vars, register, SheetInv, Typed, Seen, Holds, Lessons!Marking, Lessons!At,
                Lessons!MarkedWhileActive
  <2> QED
    BY <2>1, <2>2
<1>3. Inv => MarkedWhileActive
  BY DEF SheetInv, MarkedWhileActive
<1> QED
  BY <1>1, <1>2, <1>3, PTL DEF Spec

(* A token signs one row: the unique index refuses the second.             *)
OneRow ==
    \A j, k \in Lessons!Enrolment \X Lesson : sheet[j].token = sheet[k].token /\ sheet[j].token # "none" => j = k

LEMMA OneRowStep == ASSUME Typed, OneRow, Lessons!Next PROVE OneRow'
<1> USE DEF Typed, SheetRow, OneRow
<1>1. ASSUME NEW h \in Handler, Lessons!InsertMark(h)
      PROVE  OneRow'
  <2>1. \A k \in Lessons!Enrolment \X Lesson : sheet'[k].token \in {sheet[k].token, "none"}
    BY <1>1 DEF Lessons!InsertMark, Lessons!Row
  <2> QED
    BY <2>1
<1>2. ASSUME NEW h \in Handler, Lessons!UpsertMarks(h)
      PROVE  OneRow'
  <2>1. ASSUME NEW k \in Lessons!Enrolment \X Lesson
        PROVE  sheet'[k].token \in {sheet[k].token, "none"}
    <3>1. sheet'[k] = IF k \notin {<<e, op[h].l>> : e \in op[h].all} THEN sheet[k]
                      ELSE IF sheet[k] = Lessons!noRow THEN Lessons!Row(k[1], op[h].status, "none")
                      ELSE [sheet[k] EXCEPT !.status = op[h].status]
      BY <1>2 DEF Lessons!UpsertMarks
    <3>2. sheet[k] \in SheetRow /\ Lessons!Row(k[1], op[h].status, "none").token = "none"
      BY DEF Lessons!Row
    <3>3. [sheet[k] EXCEPT !.status = op[h].status].token = sheet[k].token
      BY <3>2
    <3> QED
      BY <3>1, <3>2, <3>3
  <2> QED
    BY <2>1
<1>3. ASSUME NEW h \in Handler, Lessons!InsertQrMark(h), sheet' # sheet
      PROVE  OneRow'
  <2>1. op[h].e \in Lessons!Enrolment /\ op[h].l \in Lesson
    BY <1>3, Fields DEF Lessons!InsertQrMark, Lessons!At, Writing
  <2>2. PICK j \in Lessons!Enrolment \X Lesson :
            sheet' = [sheet EXCEPT ![j] = Lessons!Row(op[h].e, "PRESENT", op[h].token)]
    BY <1>3, <2>1 DEF Lessons!InsertQrMark
  <2>3. \A k \in Lessons!Enrolment \X Lesson : sheet[k].token # op[h].token
    BY <1>3 DEF Lessons!InsertQrMark, Lessons!SignedWith
  <2>4. Lessons!Row(op[h].e, "PRESENT", op[h].token).token = op[h].token
    BY DEF Lessons!Row
  <2> QED
    BY <2>2, <2>3, <2>4
<1>4. CASE UNCHANGED sheet
  BY <1>4
<1> QED
  BY <1>1, <1>2, <1>3, <1>4, Arrivals DEF Lessons!Next, Lessons!RequestStep, Lessons!CountEnrolled,
                                          Lessons!FindExisting, Lessons!InsertEnrolment,
                                          Lessons!SetEnrolmentStatus, Lessons!FindMarked,
                                          Lessons!FindMark, Lessons!FindQrEnrolment, Lessons!FindQrMark,
                                          Lessons!DeleteQrToken, Lessons!RequestEnds,
                                          Lessons!UpdateSeats, Lessons!ChangeCourseStatus,
                                          Lessons!GenerateQrToken, Lessons!QrTokenExpires,
                                          Lessons!tables, Lessons!history

(* A row of the sheet is signed with one QR token at most, whoever         *)
(* presents it at once and wherever a request ends (attendance.service.ts, *)
(* markByQr, and the unique index of attendances).                         *)
THEOREM TokensSignOnce == Spec => []QrMarksOneStudent
<1> DEFINE Inv == scene = "register" => Typed /\ OneRow
<1>1. Init => Inv
  <2>1. ASSUME Lessons!Init PROVE OneRow
    BY <2>1 DEF Lessons!Init, OneRow, Lessons!noRow
  <2> QED
    BY <2>1, InitHolds, CampusAssumption DEF Init, SheetInv
<1>2. Inv /\ [Next]_vars => Inv'
  <2> SUFFICES ASSUME Inv, [Next]_vars, scene' = "register"
               PROVE  Typed' /\ OneRow'
    OBVIOUS
  <2>1. CASE Next
    BY <2>1, Scenes, CampusAssumption, TypedStep, OneRowStep
  <2>2. CASE UNCHANGED vars
    BY <2>2 DEF vars, register, Typed, OneRow
  <2> QED
    BY <2>1, <2>2
<1>3. Inv => QrMarksOneStudent
  <2> SUFFICES ASSUME Typed, OneRow, NEW t \in Token
               PROVE  Cardinality(Lessons!SignedWith(t)) <= 1
    BY Counting DEF QrMarksOneStudent, Lessons!QrMarksOneStudent
  <2>1. DOMAIN sheet = Lessons!Enrolment \X Lesson /\ t # "none"
    BY CampusAssumption DEF Typed, CampusAssumption, Lessons!RegisterAssumption
  <2>2. CASE Lessons!SignedWith(t) = {}
    BY <2>2, FS_EmptySet
  <2>3. ASSUME NEW k \in Lessons!SignedWith(t)
        PROVE  Cardinality(Lessons!SignedWith(t)) = 1
    <3>1. Lessons!SignedWith(t) = {k}
      BY <2>1 DEF Lessons!SignedWith, OneRow
    <3> QED
      BY <3>1, FS_Singleton
  <2> QED
    BY <2>2, <2>3
<1> QED
  BY <1>1, <1>2, <1>3, PTL DEF Spec

(* The seats.  Who is on the course and was not let back in, and the       *)
(* requests past the count, are fewer than the seats and the requests.     *)
Regular(c) == {s \in Lessons!Active(c) : <<s, c>> \notin readmitted}
Enrolling(c) == {h \in Handler : op[h].at \in {"existing", "enrol"} /\ op[h].e[2] = c}
RoomFor(c) == Cardinality(Regular(c)) + Cardinality(Enrolling(c)) < most[c] + Cardinality(Handler)

SeatsKnown ==
    /\ most \in [Course -> Seats]
    /\ \A c \in Course : courses[c].seats <= most[c]
    /\ \A h \in Handler : op[h].at = "count" => op[h].seats <= most[op[h].e[2]]

SeatsInv == Typed /\ SeatsKnown /\ \A c \in Course : RoomFor(c)

(* What is counted is finite.                                              *)
LEMMA Finite ==
    /\ IsFiniteSet(Handler) /\ IsFiniteSet(Student) /\ Cardinality(Handler) \in Nat
    /\ \A c : /\ IsFiniteSet(Regular(c)) /\ Cardinality(Regular(c)) \in Nat
              /\ IsFiniteSet(Enrolling(c)) /\ Cardinality(Enrolling(c)) \in Nat
<1>1. IsFiniteSet(Handler) /\ IsFiniteSet(Student)
  BY CampusAssumption, Counting DEF CampusAssumption, Lessons!RegisterAssumption
<1>2. \A c : Regular(c) \subseteq Student /\ Enrolling(c) \subseteq Handler
  BY DEF Regular, Enrolling, Lessons!Active
<1> QED
  BY <1>1, <1>2, FS_Subset, FS_CardinalityType

(* Seats are numbers.                                                      *)
LEMMA SeatNumbers == Seats \subseteq Nat /\ \A n \in Seats : n > 0
  BY CampusAssumption DEF CampusAssumption, Lessons!RegisterAssumption

(* The room stays when nobody comes and the seats do not become fewer.     *)
LEMMA RoomStays ==
    ASSUME SeatsKnown, SeatsKnown', NEW c \in Course, RoomFor(c),
           Regular(c)' \subseteq Regular(c), Enrolling(c)' \subseteq Enrolling(c), most[c] <= most'[c]
    PROVE  RoomFor(c)'
<1>1. /\ Cardinality(Regular(c)') <= Cardinality(Regular(c)) /\ Cardinality(Regular(c)') \in Nat
      /\ Cardinality(Enrolling(c)') <= Cardinality(Enrolling(c)) /\ Cardinality(Enrolling(c)') \in Nat
  BY Finite, FS_Subset, FS_CardinalityType
<1>2. most[c] \in Nat /\ most'[c] \in Nat
  BY SeatNumbers DEF SeatsKnown
<1>3. \A r1, r2, e1, e2, m1, m2, n \in Nat :
        r2 <= r1 /\ e2 <= e1 /\ m1 <= m2 /\ r1 + e1 < m1 + n => r2 + e2 < m2 + n
  OBVIOUS
<1> QED
  BY <1>1, <1>2, <1>3, Finite DEF RoomFor

(* How a request comes to enrol.                                           *)
LEMMA EnrolMoves ==
    ASSUME Typed, Lessons!Next, NEW g \in Handler, op'[g].at \in {"count", "existing", "enrol"}
    PROVE  \/ op'[g] = op[g]
           \/ /\ op'[g].at = "count" /\ op'[g].e[2] \in Course
              /\ op'[g].seats = courses[op'[g].e[2]].seats /\ UNCHANGED <<courses, most>>
           \/ /\ op'[g].at = "existing" /\ op[g].at = "count" /\ op'[g].e = op[g].e
              /\ Lessons!CountEnrolled(g) /\ op[g].e[2] \in Course
              /\ ~(Cardinality(Lessons!Active(op[g].e[2])) >= op[g].seats)
           \/ /\ op'[g].at = "enrol" /\ op[g].at = "existing" /\ op'[g].e = op[g].e
              /\ Lessons!FindExisting(g)
<1>0. op \in [Handler -> Request]
  BY DEF Typed
<1>1. CASE UNCHANGED op
  BY <1>1
<1>2. ASSUME NEW h \in Handler, Lessons!Finish(h)
      PROVE  op'[g] = op[g]
  BY <1>0, <1>2 DEF Lessons!Finish, Lessons!idle
<1>3. ASSUME NEW h \in Handler, NEW s, Lessons!Goto(h, s), s \notin {"count", "existing", "enrol"},
             op[h] \in [at : {"markExisting", "mark", "qrEnrolment", "qrExisting", "qrInsert", "qrDelete"},
                        e : Lessons!Enrolment, l : Lesson, status : Lessons!AttendanceStatus,
                        token : Token \cup {"none"}]
      PROVE  op'[g] = op[g]
  BY <1>0, <1>3 DEF Lessons!Goto
<1>4. ASSUME NEW h \in Handler, NEW r, Lessons!Begin(h, r), r.at \notin {"count", "existing", "enrol"}
      PROVE  op'[g] = op[g]
  BY <1>0, <1>4 DEF Lessons!Begin
<1>5. ASSUME NEW h \in Handler, NEW a \in Student \cup Staff, NEW s \in Student, NEW c \in Course,
             Lessons!Enroll(h, a, s, c)
      PROVE  \/ op'[g] = op[g]
             \/ /\ op'[g].at = "count" /\ op'[g].e[2] \in Course
                /\ op'[g].seats = courses[op'[g].e[2]].seats /\ UNCHANGED <<courses, most>>
  BY <1>0, <1>5 DEF Lessons!Enroll, Lessons!Begin, Lessons!tables, Lessons!history
<1>6. ASSUME NEW h \in Handler, Lessons!Arrives(h)
      PROVE  \/ op'[g] = op[g]
             \/ /\ op'[g].at = "count" /\ op'[g].e[2] \in Course
                /\ op'[g].seats = courses[op'[g].e[2]].seats /\ UNCHANGED <<courses, most>>
  BY <1>4, <1>5, <1>6 DEF Lessons!Arrives, Lessons!FindEnrolment, Lessons!Mark, Lessons!MarkBulk,
                          Lessons!MarkByQr
<1>7. ASSUME NEW h \in Handler, Lessons!CountEnrolled(h)
      PROVE  \/ op'[g] = op[g]
             \/ /\ op'[g].at = "existing" /\ op[g].at = "count" /\ op'[g].e = op[g].e
                /\ Lessons!CountEnrolled(g) /\ op[g].e[2] \in Course
                /\ ~(Cardinality(Lessons!Active(op[g].e[2])) >= op[g].seats)
  <2>1. op[h] \in [at : {"count", "existing", "enrol"}, e : Lessons!Enrolment, seats : Seats]
    BY <1>0, <1>7 DEF Lessons!CountEnrolled, Lessons!At, Request, Lessons!idle
  <2>2. op[h].e[2] \in Course
    BY <2>1 DEF Lessons!Enrolment
  <2> QED
    BY <1>0, <1>2, <1>7, <2>1, <2>2, Counting DEF Lessons!CountEnrolled, Lessons!At, Lessons!Goto
<1>8. ASSUME NEW h \in Handler, Lessons!FindExisting(h)
      PROVE  \/ op'[g] = op[g]
             \/ /\ op'[g].at = "enrol" /\ op[g].at = "existing" /\ op'[g].e = op[g].e
                /\ Lessons!FindExisting(g)
  <2>1. op[h] \in [at : {"count", "existing", "enrol"}, e : Lessons!Enrolment, seats : Seats]
    BY <1>0, <1>8 DEF Lessons!FindExisting, Lessons!At, Request, Lessons!idle
  <2> QED
    BY <1>0, <1>2, <1>8, <2>1 DEF Lessons!FindExisting, Lessons!At, Lessons!Goto
<1>9. ASSUME NEW h \in Handler, op[h].at \in {"markExisting", "qrEnrolment", "qrExisting", "qrInsert"}
      PROVE  op[h] \in [at : {"markExisting", "mark", "qrEnrolment", "qrExisting", "qrInsert", "qrDelete"},
                        e : Lessons!Enrolment, l : Lesson, status : Lessons!AttendanceStatus,
                        token : Token \cup {"none"}]
  BY <1>0, <1>9 DEF Request, Lessons!idle
<1>10. ASSUME NEW h \in Handler, Lessons!RequestStep(h), ~Lessons!CountEnrolled(h), ~Lessons!FindExisting(h)
       PROVE  op'[g] = op[g]
  BY <1>2, <1>3, <1>9, <1>10
     DEF Lessons!RequestStep, Lessons!InsertEnrolment, Lessons!SetEnrolmentStatus, Lessons!FindMarked,
         Lessons!FindMark, Lessons!InsertMark, Lessons!UpsertMarks, Lessons!FindQrEnrolment, Lessons!FindQrMark,
         Lessons!InsertQrMark, Lessons!DeleteQrToken, Lessons!RequestEnds, Lessons!At
<1> QED
  BY <1>1, <1>6, <1>7, <1>8, <1>10
     DEF Lessons!Next, Lessons!UpdateSeats, Lessons!ChangeCourseStatus, Lessons!GenerateQrToken,
         Lessons!QrTokenExpires

(* A course whose row does not change has the most seats it had.           *)
LEMMA SeatsKept ==
    ASSUME Typed, SeatsKnown, Lessons!Next
    PROVE  /\ most' \in [Course -> Seats]
           /\ \A c \in Course : courses'[c].seats <= most'[c] /\ most[c] <= most'[c]
<1> USE DEF Typed, CourseRow, SeatsKnown
<1>0. \A m, n \in Seats : m <= m /\ m \in Nat /\ (n > m \/ n <= m)
  BY SeatNumbers
<1>1. ASSUME NEW a \in Staff, NEW c \in Course, NEW n \in Seats, Lessons!UpdateSeats(a, c, n)
      PROVE  /\ most' \in [Course -> Seats]
             /\ \A d \in Course : courses'[d].seats <= most'[d] /\ most[d] <= most'[d]
  <2>1. courses' = [courses EXCEPT ![c].seats = n] /\ most' = [most EXCEPT ![c] = IF n > @ THEN n ELSE @]
    BY <1>1 DEF Lessons!UpdateSeats
  <2>2. courses'[c].seats = n /\ most'[c] = IF n > most[c] THEN n ELSE most[c]
    BY <2>1
  <2>3. \A d \in Course \ {c} : courses'[d] = courses[d] /\ most'[d] = most[d]
    BY <2>1
  <2>4. n <= most'[c] /\ most[c] <= most'[c] /\ most' \in [Course -> Seats]
    BY <2>1, <2>2, SeatNumbers
  <2> QED
    BY <1>0, <2>2, <2>3, <2>4
<1>2. ASSUME NEW a \in Staff, NEW c \in Course, NEW status \in {"ACTIVE", "ARCHIVED"},
             Lessons!ChangeCourseStatus(a, c, status)
      PROVE  UNCHANGED most /\ \A d \in Course : courses'[d].seats = courses[d].seats
  BY <1>2 DEF Lessons!ChangeCourseStatus, Lessons!history
<1>3. CASE UNCHANGED <<courses, most>>
  BY <1>0, <1>3
<1>4. ASSUME NEW h \in Handler, Lessons!RequestStep(h)
      PROVE  UNCHANGED <<courses, most>>
  BY <1>4 DEF Lessons!RequestStep, Lessons!CountEnrolled, Lessons!FindExisting, Lessons!InsertEnrolment,
              Lessons!SetEnrolmentStatus, Lessons!FindMarked, Lessons!FindMark, Lessons!InsertMark,
              Lessons!UpsertMarks, Lessons!FindQrEnrolment, Lessons!FindQrMark, Lessons!InsertQrMark,
              Lessons!DeleteQrToken, Lessons!RequestEnds, Lessons!tables, Lessons!history
<1>5. ASSUME NEW h \in Handler, Lessons!Arrives(h)
      PROVE  UNCHANGED <<courses, most>>
  BY <1>5, Arrivals DEF Lessons!tables, Lessons!history
<1>6. CASE \/ \E t \in Token : Lessons!QrTokenExpires(t)
           \/ \E a \in Staff, c \in Course, l \in Lesson, t \in Token : Lessons!GenerateQrToken(a, c, l, t)
  BY <1>3, <1>6 DEF Lessons!QrTokenExpires, Lessons!GenerateQrToken, Lessons!history
<1>7. ASSUME UNCHANGED most, \A d \in Course : courses'[d].seats = courses[d].seats
      PROVE  /\ most' \in [Course -> Seats]
             /\ \A d \in Course : courses'[d].seats <= most'[d] /\ most[d] <= most'[d]
  BY <1>0, <1>7
<1> QED
  BY <1>1, <1>2, <1>3, <1>4, <1>5, <1>6, <1>7 DEF Lessons!Next

(* A request that has read the seats of a course read no more than the     *)
(* most it had.                                                            *)
LEMMA SeatsKnownStep == ASSUME Typed, SeatsKnown, Lessons!Next PROVE SeatsKnown'
<1> SUFFICES ASSUME NEW g \in Handler, op'[g].at = "count"
             PROVE  op'[g].seats <= most'[op'[g].e[2]]
  BY SeatsKept DEF SeatsKnown
<1>1. CASE op'[g] = op[g]
  <2>1. op[g] \in [at : {"count", "existing", "enrol"}, e : Lessons!Enrolment, seats : Seats]
    BY <1>1 DEF Typed, Request, Lessons!idle
  <2>2. op[g].e[2] \in Course /\ op[g].seats \in Nat
    BY <2>1, SeatNumbers DEF Lessons!Enrolment
  <2>3. /\ op[g].seats <= most[op[g].e[2]] /\ most[op[g].e[2]] <= most'[op[g].e[2]]
        /\ most[op[g].e[2]] \in Nat /\ most'[op[g].e[2]] \in Nat
    BY <1>1, <2>2, SeatsKept, SeatNumbers DEF SeatsKnown
  <2> QED
    BY <1>1, <2>2, <2>3
<1>2. CASE op'[g].e[2] \in Course /\ op'[g].seats = courses[op'[g].e[2]].seats /\ UNCHANGED <<courses, most>>
  BY <1>2 DEF SeatsKnown
<1> QED
  BY <1>1, <1>2, EnrolMoves

(* An insert takes the room that its request held.                         *)
LEMMA RoomTaken ==
    ASSUME SeatsInv, SeatsKnown', NEW h \in Handler, Lessons!InsertEnrolment(h), NEW c \in Course
    PROVE  RoomFor(c)'
<1> USE DEF SeatsInv
<1>1. /\ op[h].at = "enrol" /\ op' = [op EXCEPT ![h] = Lessons!idle] /\ UNCHANGED <<most, readmitted>>
      /\ enrolled' = IF enrolled[op[h].e] = "none" THEN [enrolled EXCEPT ![op[h].e] = "ACTIVE"] ELSE enrolled
  BY DEF Lessons!InsertEnrolment, Lessons!At, Lessons!Finish, Lessons!history
<1>2. op[h].e \in Lessons!Enrolment
  BY <1>1, Fields
<1>3. Enrolling(c)' = Enrolling(c) \ {h}
  BY <1>1 DEF Enrolling, Typed, Lessons!idle
<1>4. CASE op[h].e[2] = c
  <2>1. h \in Enrolling(c)
    BY <1>1, <1>4 DEF Enrolling
  <2>2. Cardinality(Enrolling(c)') = Cardinality(Enrolling(c)) - 1
    BY <1>3, <2>1, Finite, FS_RemoveElement
  <2>3. Regular(c)' \subseteq Regular(c) \cup {op[h].e[1]}
    BY <1>1, <1>2, <1>4 DEF Regular, Lessons!Active, Typed, Lessons!Enrolment
  <2>4. /\ Cardinality(Regular(c)') \in Nat /\ IsFiniteSet(Regular(c) \cup {op[h].e[1]})
        /\ Cardinality(Regular(c) \cup {op[h].e[1]}) \in {Cardinality(Regular(c)), Cardinality(Regular(c)) + 1}
        /\ Cardinality(Regular(c)') <= Cardinality(Regular(c) \cup {op[h].e[1]})
    BY <2>3, Finite, FS_AddElement, FS_Subset, FS_CardinalityType
  <2>5. most[c] \in Nat /\ most'[c] = most[c]
    BY <1>1, SeatNumbers DEF SeatsKnown
  <2>6. RoomFor(c)
    OBVIOUS
  <2>7. \A r1, r2, e1, e2, m, n \in Nat :
            r2 <= r1 + 1 /\ e2 = e1 - 1 /\ r1 + e1 < m + n => r2 + e2 < m + n
    OBVIOUS
  <2>8. Cardinality(Regular(c)') <= Cardinality(Regular(c)) + 1 /\ Cardinality(Enrolling(c)') \in Nat
    <3>1. IsFiniteSet(Enrolling(c)')
      BY <1>3, Finite, FS_Subset
    <3> QED
      BY <2>4, <3>1, Finite, FS_CardinalityType
  <2> QED
    BY <2>2, <2>4, <2>5, <2>6, <2>7, <2>8, Finite DEF RoomFor
<1>5. CASE op[h].e[2] # c
  <2>1. Regular(c)' \subseteq Regular(c)
    BY <1>1, <1>2, <1>5 DEF Regular, Lessons!Active, Typed, Lessons!Enrolment
  <2>2. most[c] \in Nat /\ most'[c] = most[c]
    BY <1>1, SeatNumbers DEF SeatsKnown
  <2> QED
    BY <1>3, <2>1, <2>2, RoomStays
<1> QED
  BY <1>4, <1>5

(* A count that lets its request pass left room for it and for the others. *)
LEMMA RoomCounted ==
    ASSUME SeatsInv, NEW h \in Handler, Lessons!CountEnrolled(h), NEW c \in Course, op[h].e[2] = c,
           op[h].at = "count", ~(Cardinality(Lessons!Active(c)) >= op[h].seats)
    PROVE  RoomFor(c)'
<1>1. UNCHANGED <<enrolled, readmitted, most>>
  BY DEF Lessons!CountEnrolled, Lessons!tables, Lessons!history
<1>2. Regular(c)' = Regular(c) /\ Regular(c) \subseteq Lessons!Active(c)
  <2>1. Lessons!Active(c)' = Lessons!Active(c)
    BY <1>1 DEF Lessons!Active
  <2> QED
    BY <1>1, <2>1 DEF Regular
<1>3. Cardinality(Regular(c)) <= Cardinality(Lessons!Active(c)) /\ Cardinality(Lessons!Active(c)) \in Nat
  <2>1. IsFiniteSet(Lessons!Active(c))
    BY Finite, FS_Subset DEF Lessons!Active
  <2> QED
    BY <1>2, <2>1, FS_Subset, FS_CardinalityType
<1>4. Cardinality(Enrolling(c)') <= Cardinality(Handler) /\ Cardinality(Enrolling(c)') \in Nat
  <2>1. Enrolling(c)' \subseteq Handler
    BY DEF Enrolling
  <2> QED
    BY <2>1, Finite, FS_Subset, FS_CardinalityType
<1>5. op[h].seats <= most[c] /\ most[c] \in Nat /\ op[h].seats \in Nat /\ most'[c] = most[c]
  <2>1. op[h] \in [at : {"count", "existing", "enrol"}, e : Lessons!Enrolment, seats : Seats]
    BY DEF SeatsInv, Typed, Request, Lessons!idle
  <2> QED
    BY <1>1, <2>1, SeatNumbers DEF SeatsInv, SeatsKnown
<1>6. \A r, a, s, m, e, n \in Nat : r <= a /\ ~(a >= s) /\ s <= m /\ e <= n => r + e < m + n
  OBVIOUS
<1> QED
  BY <1>2, <1>3, <1>4, <1>5, <1>6, Finite DEF RoomFor

(* No step takes more room than there is.                                  *)
LEMMA RoomStep == ASSUME SeatsInv, SeatsKnown', Lessons!Next, NEW c \in Course PROVE RoomFor(c)'
<1> USE DEF SeatsInv
<1>0. most[c] <= most'[c]
  BY SeatsKept
<1>1. ASSUME NEW h \in Handler, Lessons!InsertEnrolment(h)
      PROVE  RoomFor(c)'
  BY <1>1, RoomTaken
<1>2. ASSUME NEW h \in Handler, Lessons!CountEnrolled(h), op[h].at = "count", op[h].e[2] = c,
             ~(Cardinality(Lessons!Active(c)) >= op[h].seats)
      PROVE  RoomFor(c)'
  BY <1>2, RoomCounted
<1>3. CASE ~(\E h \in Handler : Lessons!InsertEnrolment(h))
  <2>1. Regular(c)' \subseteq Regular(c)
    <3>1. ASSUME NEW h \in Handler, Lessons!SetEnrolmentStatus(h)
          PROVE  Regular(c)' \subseteq Regular(c)
      <4>1. /\ enrolled' = [enrolled EXCEPT ![op[h].e] = op[h].new]
            /\ readmitted' = IF op[h].new # "ACTIVE" THEN readmitted \ {op[h].e}
                             ELSE IF enrolled[op[h].e] # "ACTIVE" THEN readmitted \cup {op[h].e} ELSE readmitted
        BY <3>1 DEF Lessons!SetEnrolmentStatus
      <4> QED
        BY <4>1 DEF Regular, Lessons!Active, Typed, Lessons!Enrolment
    <3>2. CASE UNCHANGED <<enrolled, readmitted>>
      BY <3>2 DEF Regular, Lessons!Active
    <3>3. ASSUME NEW h \in Handler, Lessons!Arrives(h)
          PROVE  UNCHANGED <<enrolled, readmitted>>
      BY <3>3, Arrivals DEF Lessons!tables, Lessons!history
    <3> QED
      BY <1>3, <3>1, <3>2, <3>3 DEF Lessons!Next, Lessons!RequestStep, Lessons!CountEnrolled,
                                    Lessons!FindExisting, Lessons!FindMarked, Lessons!FindMark,
                                    Lessons!InsertMark, Lessons!UpsertMarks, Lessons!FindQrEnrolment,
                                    Lessons!FindQrMark, Lessons!InsertQrMark, Lessons!DeleteQrToken,
                                    Lessons!RequestEnds, Lessons!UpdateSeats,
                                    Lessons!ChangeCourseStatus, Lessons!GenerateQrToken,
                                    Lessons!QrTokenExpires, Lessons!tables, Lessons!history
  <2>2. CASE Enrolling(c)' \subseteq Enrolling(c)
    BY <1>0, <2>1, <2>2, RoomStays
  <2>3. ASSUME NEW g \in Enrolling(c)', g \notin Enrolling(c)
        PROVE  RoomFor(c)'
    <3>1. g \in Handler /\ op'[g].at \in {"existing", "enrol"} /\ op'[g].e[2] = c
      BY <2>3 DEF Enrolling
    <3>2. op'[g] # op[g] /\ ~(op[g].at = "existing" /\ op'[g].e = op[g].e)
      BY <2>3, <3>1 DEF Enrolling
    <3>3. /\ op[g].at = "count" /\ op'[g].e = op[g].e /\ Lessons!CountEnrolled(g)
          /\ ~(Cardinality(Lessons!Active(op[g].e[2])) >= op[g].seats)
      BY <3>1, <3>2, EnrolMoves
    <3> QED
      BY <1>2, <3>1, <3>3
  <2> QED
    BY <2>2, <2>3
<1> QED
  BY <1>1, <1>3

(* At first nobody is enrolled, and every course has a seat.               *)
LEMMA SeatsInit == ASSUME Lessons!Init PROVE SeatsInv
<1>1. Typed
  BY InitHolds, CampusAssumption DEF CampusAssumption, SheetInv
<1>2. \A c \in Course : courses[c].seats \in Seats
  BY DEF Lessons!Init
<1>3. SeatsKnown
  <2>1. most \in [Course -> Seats] /\ \A c \in Course : most[c] = courses[c].seats
    BY <1>2 DEF Lessons!Init
  <2>2. \A h \in Handler : op[h].at # "count"
    BY DEF Lessons!Init, Lessons!idle
  <2>3. \A n \in Seats : n <= n
    BY SeatNumbers
  <2> QED
    BY <1>2, <2>1, <2>2, <2>3 DEF SeatsKnown
<1>4. ASSUME NEW c \in Course
      PROVE  RoomFor(c)
  <2>1. Regular(c) = {} /\ Enrolling(c) = {}
    BY DEF Lessons!Init, Regular, Enrolling, Lessons!Active, Lessons!idle, Lessons!Enrolment
  <2>2. most[c] \in Nat /\ most[c] > 0
    BY <1>3, SeatNumbers DEF SeatsKnown
  <2>3. \A m, n \in Nat : m > 0 => 0 + 0 < m + n
    OBVIOUS
  <2> QED
    BY <2>1, <2>2, <2>3, Finite, FS_EmptySet DEF RoomFor
<1> QED
  BY <1>1, <1>3, <1>4 DEF SeatsInv

(* However the requests that enrol overlap, and whoever is let back in, a  *)
(* course exceeds its seats by no more than the requests that counted at   *)
(* once (enrollment.service.ts, enroll).                                   *)
THEOREM SeatsExceededExplained == Spec => []CapacityExcessExplained
<1> DEFINE Inv == scene = "register" => SeatsInv
<1>1. Init => Inv
  BY SeatsInit DEF Init
<1>2. Inv /\ [Next]_vars => Inv'
  <2> SUFFICES ASSUME Inv, [Next]_vars, scene' = "register"
               PROVE  SeatsInv'
    OBVIOUS
  <2>1. CASE Next
    <3>1. SeatsInv /\ Lessons!Next
      BY <2>1, Scenes
    <3>2. Typed' /\ SeatsKnown'
      BY <3>1, CampusAssumption, TypedStep, SeatsKnownStep DEF CampusAssumption, SeatsInv
    <3> QED
      BY <3>1, <3>2, RoomStep DEF SeatsInv
  <2>2. CASE UNCHANGED vars
    BY <2>2 DEF vars, register, SeatsInv, Typed, SeatsKnown, RoomFor, Regular, Enrolling, Lessons!Active
  <2> QED
    BY <2>1, <2>2
<1>3. Inv => CapacityExcessExplained
  <2> SUFFICES ASSUME SeatsInv, NEW c \in Course
               PROVE  Cardinality(Regular(c)) <= most[c] + Cardinality(Handler) - 1
    BY Counting DEF Regular, CapacityExcessExplained, Lessons!CapacityExcessExplained
  <2>1. RoomFor(c) /\ most[c] \in Nat
    BY SeatNumbers DEF SeatsInv, SeatsKnown
  <2>2. \A r, e, m, n \in Nat : r + e < m + n => r <= m + n - 1
    OBVIOUS
  <2> QED
    BY <2>1, <2>2, Finite DEF RoomFor
<1> QED
  BY <1>1, <1>2, <1>3, PTL DEF Spec

-----------------------------------------------------------------------------
(* Grades.  A grade is stored on the word of a check two calls old, so the *)
(* invariant follows the check: a submitted score fits its assessment      *)
(* until the assessment is deleted, or its bound lowered, and an id that   *)
(* was deleted is never live again.                                        *)
AssessmentRow == {GradeBook!noAssessment, GradeBook!deleted} \cup [row : {"live"}, course : Subject, max : Points]
GradeRow == [given : BOOLEAN, score : Points \cup {0}]
GradeRequest ==
    {GradeBook!idle} \cup [at : {"update"}, x : Assessment, max : Points]
    \cup [at : {"delete"}, x : Assessment]
    \cup [at : {"enrolment", "upsert"}, x : Assessment, e : Member, score : Points]

GradesTyped ==
    /\ assessments \in [Assessment -> AssessmentRow]
    /\ grades \in [Assessment \X Member -> GradeRow]
    /\ op \in [Handler -> GradeRequest]
    /\ ops \in 0..MaxOps /\ faults \in 0..MaxFaults /\ lowered \subseteq Assessment

Fits(x, points) == GradeBook!Exists(x) /\ (points <= assessments[x].max \/ x \in lowered)

Once(x, points) == assessments[x].row = "deleted" \/ Fits(x, points)

(* A submission under way fits its assessment, if that is still there.     *)
Checked ==
    \A h \in Handler : op[h].at \in {"enrolment", "upsert"} => Once(op[h].x, op[h].score)

(* A stored grade fits its assessment, which is still there.               *)
Stored == \A g \in Assessment \X Member : grades[g].given => Fits(g[1], grades[g].score)

GradesInv == GradesTyped /\ Checked /\ Stored

(* What the row of an assessment can be.                                   *)
LEMMA Rows ==
    ASSUME GradesTyped, NEW x \in Assessment
    PROVE  /\ assessments[x].row \in {"none", "deleted", "live"}
           /\ GradeBook!Exists(x) => assessments[x] \in [row : {"live"}, course : Subject, max : Points]
           /\ assessments[x].row = "none" <=> assessments[x] = GradeBook!noAssessment
  BY DEF GradesTyped, AssessmentRow, GradeBook!Exists, GradeBook!noAssessment, GradeBook!deleted

(* Nothing is there at first.                                              *)
LEMMA GradesInit == ASSUME GradeBook!GradesAssumption, GradeBook!Init PROVE GradesInv
<1>1. GradesTyped
  BY DEF GradeBook!GradesAssumption, GradeBook!Init, GradesTyped, AssessmentRow, GradeRow, GradeRequest,
         GradeBook!noGrade
<1>2. Checked
  BY DEF GradeBook!Init, Checked, GradeBook!idle
<1>3. Stored
  BY DEF GradeBook!Init, Stored, GradeBook!noGrade
<1> QED
  BY <1>1, <1>2, <1>3 DEF GradesInv

(* Every step keeps the types.                                             *)
LEMMA GradesTypedStep == ASSUME GradeBook!GradesAssumption, GradesInv, GradeBook!Next PROVE GradesTyped'
<1> USE DEF GradesInv, GradesTyped, GradeBook!GradesAssumption
<1>1. ASSUME NEW a \in Marker, NEW c \in Subject, NEW x \in Assessment, NEW n \in Points,
             GradeBook!CreateAssessment(a, c, x, n)
      PROVE  GradesTyped'
  BY <1>1 DEF GradeBook!CreateAssessment, AssessmentRow
<1>2. ASSUME NEW h \in Handler, NEW a \in Marker, NEW x \in Assessment, NEW r \in GradeRequest,
             GradeBook!FindAssessment(h, a, x, r)
      PROVE  GradesTyped'
  BY <1>2 DEF GradeBook!FindAssessment, GradeBook!Begin
<1>3. ASSUME NEW h \in Handler, GradeBook!UpdateAssessment(h)
      PROVE  GradesTyped'
  <2>1. op[h] \in [at : {"update"}, x : Assessment, max : Points]
    BY <1>3 DEF GradeBook!UpdateAssessment, GradeBook!At, GradeRequest, GradeBook!idle
  <2>2. assessments' \in [Assessment -> AssessmentRow]
    <3>1. CASE GradeBook!Exists(op[h].x)
      <4>1. assessments[op[h].x] \in [row : {"live"}, course : Subject, max : Points]
        BY <2>1, <3>1, Rows
      <4>2. [assessments[op[h].x] EXCEPT !.max = op[h].max] \in AssessmentRow
        BY <2>1, <4>1 DEF AssessmentRow
      <4> QED
        BY <1>3, <2>1, <3>1, <4>2 DEF GradeBook!UpdateAssessment
    <3>2. CASE ~GradeBook!Exists(op[h].x)
      BY <1>3, <3>2 DEF GradeBook!UpdateAssessment
    <3> QED
      BY <3>1, <3>2
  <2>3. lowered' \subseteq Assessment
    BY <1>3, <2>1 DEF GradeBook!UpdateAssessment
  <2> QED
    BY <1>3, <2>2, <2>3 DEF GradeBook!UpdateAssessment, GradeBook!Finish, GradeRequest
<1>4. ASSUME NEW h \in Handler, GradeBook!DeleteAssessment(h)
      PROVE  GradesTyped'
  BY <1>4 DEF GradeBook!DeleteAssessment, GradeBook!Finish, GradeRequest, AssessmentRow, GradeRow,
              GradeBook!noGrade
<1>5. ASSUME NEW h \in Handler, GradeBook!FindEnrolment(h)
      PROVE  GradesTyped'
  <2>1. op[h] \in [at : {"enrolment", "upsert"}, x : Assessment, e : Member, score : Points]
    BY <1>5 DEF GradeBook!FindEnrolment, GradeBook!At, GradeRequest, GradeBook!idle
  <2>2. [op[h] EXCEPT !.at = "upsert"] \in GradeRequest
    BY <2>1 DEF GradeRequest
  <2> QED
    BY <1>5, <2>2 DEF GradeBook!FindEnrolment
<1>6. ASSUME NEW h \in Handler, GradeBook!UpsertGrade(h)
      PROVE  GradesTyped'
  <2>1. op[h] \in [at : {"enrolment", "upsert"}, x : Assessment, e : Member, score : Points]
    BY <1>6 DEF GradeBook!UpsertGrade, GradeBook!At, GradeRequest, GradeBook!idle
  <2>2. GradeBook!given(op[h].score) \in GradeRow
    BY <2>1 DEF GradeBook!given, GradeRow
  <2> QED
    BY <1>6, <2>1, <2>2 DEF GradeBook!UpsertGrade, GradeBook!Finish, GradeRequest
<1>7. ASSUME NEW h \in Handler, GradeBook!RequestEnds(h)
      PROVE  GradesTyped'
  BY <1>7 DEF GradeBook!RequestEnds, GradeBook!Finish, GradeRequest
<1>9. ASSUME NEW x \in Assessment, NEW n \in Points, NEW e \in Member
      PROVE  [at |-> "enrolment", x |-> x, e |-> e, score |-> n] \in GradeRequest
  BY DEF GradeRequest
<1>10. ASSUME NEW x \in Assessment, NEW n \in Points
       PROVE  [at |-> "update", x |-> x, max |-> n] \in GradeRequest
  BY DEF GradeRequest
<1>11. ASSUME NEW x \in Assessment PROVE [at |-> "delete", x |-> x] \in GradeRequest
  BY DEF GradeRequest
<1> QED
  BY <1>1, <1>2, <1>3, <1>4, <1>5, <1>6, <1>7, <1>9, <1>10, <1>11
     DEF GradeBook!Next, GradeBook!Update, GradeBook!Delete, GradeBook!Submit

(* What fits goes on fitting until its assessment is deleted.              *)
LEMMA OnceStays ==
    ASSUME GradeBook!GradesAssumption, GradesInv, GradeBook!Next,
           NEW x \in Assessment, NEW points \in Nat, Once(x, points)
    PROVE  Once(x, points)'
<1> USE DEF Once, Fits, GradeBook!Exists
<1>0. Points \subseteq Nat /\ assessments \in [Assessment -> AssessmentRow]
  BY DEF GradeBook!GradesAssumption, GradesInv, GradesTyped
<1>1. ASSUME NEW a \in Marker, NEW c \in Subject, NEW y \in Assessment, NEW n \in Points,
             GradeBook!CreateAssessment(a, c, y, n)
      PROVE  Once(x, points)'
  <2>1. y # x
    BY <1>1 DEF GradeBook!CreateAssessment, GradeBook!noAssessment
  <2> QED
    BY <1>0, <1>1, <2>1 DEF GradeBook!CreateAssessment
<1>2. ASSUME NEW h \in Handler, GradeBook!UpdateAssessment(h)
      PROVE  Once(x, points)'
  <2>1. op[h] \in [at : {"update"}, x : Assessment, max : Points]
    BY <1>2 DEF GradeBook!UpdateAssessment, GradeBook!At, GradeRequest, GradeBook!idle, GradesInv, GradesTyped
  <2>2. CASE op[h].x # x \/ ~GradeBook!Exists(op[h].x)
    BY <1>0, <1>2, <2>1, <2>2 DEF GradeBook!UpdateAssessment
  <2>3. CASE op[h].x = x /\ GradeBook!Exists(x)
    <3>1. assessments[x] \in [row : {"live"}, course : Subject, max : Points]
      BY <2>3, Rows DEF GradesInv
    <3>2. /\ assessments'[x].row = "live" /\ assessments'[x].max = op[h].max
          /\ lowered' = IF op[h].max < assessments[x].max THEN lowered \cup {x} ELSE lowered
      BY <1>0, <1>2, <2>3, <3>1 DEF GradeBook!UpdateAssessment
    <3>3. op[h].max \in Nat /\ assessments[x].max \in Nat /\ points \in Nat
      BY <1>0, <2>1, <3>1
    <3>4. Fits(x, points)
      BY <2>3
    <3>5. CASE op[h].max < assessments[x].max
      BY <3>2, <3>5
    <3>6. CASE ~(op[h].max < assessments[x].max)
      BY <3>2, <3>3, <3>4, <3>6
    <3> QED
      BY <3>5, <3>6
  <2> QED
    BY <2>2, <2>3
<1>3. ASSUME NEW h \in Handler, GradeBook!DeleteAssessment(h)
      PROVE  Once(x, points)'
  BY <1>0, <1>3 DEF GradeBook!DeleteAssessment, GradeBook!deleted
<1>4. CASE UNCHANGED <<assessments, lowered>>
  BY <1>4
<1> QED
  BY <1>1, <1>2, <1>3, <1>4 DEF GradeBook!Next, GradeBook!Update, GradeBook!Delete, GradeBook!Submit,
                                GradeBook!FindAssessment, GradeBook!FindEnrolment,
                                GradeBook!UpsertGrade, GradeBook!RequestEnds

(* A submission under way has just been checked, or was under way before.  *)
LEMMA Submissions ==
    ASSUME GradesInv, GradeBook!Next, NEW g \in Handler, op'[g].at \in {"enrolment", "upsert"}
    PROVE  \/ /\ op[g].at \in {"enrolment", "upsert"}
              /\ op'[g].x = op[g].x /\ op'[g].score = op[g].score
           \/ /\ UNCHANGED <<assessments, lowered>>
              /\ GradeBook!Exists(op'[g].x) /\ op'[g].score <= assessments[op'[g].x].max
<1>0. op \in [Handler -> GradeRequest]
  BY DEF GradesInv, GradesTyped
<1>1. CASE UNCHANGED op
  BY <1>1
<1>2. ASSUME NEW h \in Handler, GradeBook!Finish(h)
      PROVE  op'[g] = op[g]
  BY <1>0, <1>2 DEF GradeBook!Finish, GradeBook!idle
<1>3. ASSUME NEW h \in Handler, GradeBook!FindEnrolment(h)
      PROVE  /\ op[g].at \in {"enrolment", "upsert"}
             /\ op'[g].x = op[g].x /\ op'[g].score = op[g].score
  <2>1. op[h] \in [at : {"enrolment", "upsert"}, x : Assessment, e : Member, score : Points]
    BY <1>0, <1>3 DEF GradeBook!FindEnrolment, GradeBook!At, GradeRequest, GradeBook!idle
  <2> QED
    BY <1>0, <1>3, <2>1 DEF GradeBook!FindEnrolment, GradeBook!At
<1>4. ASSUME NEW h \in Handler, NEW a \in Marker, NEW x \in Assessment, NEW e \in Member,
             NEW n \in Points, GradeBook!Submit(h, a, x, e, n)
      PROVE  \/ op'[g] = op[g]
             \/ /\ UNCHANGED <<assessments, lowered>>
                /\ GradeBook!Exists(op'[g].x) /\ op'[g].score <= assessments[op'[g].x].max
  BY <1>0, <1>4 DEF GradeBook!Submit, GradeBook!FindAssessment, GradeBook!Begin
<1>5. ASSUME NEW h \in Handler, NEW a \in Marker, NEW x \in Assessment, NEW n \in Points,
             GradeBook!Update(h, a, x, n)
      PROVE  op'[g] = op[g]
  BY <1>0, <1>5 DEF GradeBook!Update, GradeBook!FindAssessment, GradeBook!Begin
<1>6. ASSUME NEW h \in Handler, NEW a \in Marker, NEW x \in Assessment, GradeBook!Delete(h, a, x)
      PROVE  op'[g] = op[g]
  BY <1>0, <1>6 DEF GradeBook!Delete, GradeBook!FindAssessment, GradeBook!Begin
<1> QED
  BY <1>1, <1>2, <1>3, <1>4, <1>5, <1>6 DEF GradeBook!Next, GradeBook!CreateAssessment,
                                            GradeBook!UpdateAssessment, GradeBook!DeleteAssessment,
                                            GradeBook!UpsertGrade, GradeBook!RequestEnds

(* Every step keeps the checks of the submissions under way.               *)
LEMMA CheckedStep == ASSUME GradeBook!GradesAssumption, GradesInv, GradeBook!Next PROVE Checked'
<1> SUFFICES ASSUME NEW g \in Handler, op'[g].at \in {"enrolment", "upsert"}
             PROVE  Once(op[g].x, op[g].score)'
  BY DEF Checked
<1>1. op[g] \in GradeRequest /\ op'[g] \in GradeRequest
  BY GradesTypedStep DEF GradesInv, GradesTyped
<1>2. CASE /\ op[g].at \in {"enrolment", "upsert"}
           /\ op'[g].x = op[g].x /\ op'[g].score = op[g].score
  <2>0. op[g].x \in Assessment /\ op[g].score \in Points
    BY <1>1, <1>2 DEF GradeRequest, GradeBook!idle
  <2>1. op[g].x \in Assessment /\ op[g].score \in Nat
    BY <2>0 DEF GradeBook!GradesAssumption
  <2>2. Once(op[g].x, op[g].score)
    BY <1>2 DEF GradesInv, Checked
  <2>3. ASSUME NEW x \in Assessment, NEW points \in Nat, Once(x, points)
        PROVE  Once(x, points)'
    BY <2>3, OnceStays
  <2>4. PICK x \in Assessment, points \in Nat : x = op[g].x /\ points = op[g].score
    BY <2>1
  <2>5. Once(x, points)'
    BY <2>2, <2>3, <2>4
  <2> QED
    BY <1>2, <2>4, <2>5 DEF Once, Fits, GradeBook!Exists
<1>3. CASE /\ UNCHANGED <<assessments, lowered>>
           /\ GradeBook!Exists(op'[g].x) /\ op'[g].score <= assessments[op'[g].x].max
  BY <1>3 DEF Once, Fits, GradeBook!Exists
<1> QED
  BY <1>2, <1>3, Submissions

(* Every step keeps the stored grades within their bounds: a grade that    *)
(* stays fits by OnceStays, one just stored by its check, and the deletion *)
(* of an assessment takes its grades along.                                *)
LEMMA StoredStep == ASSUME GradeBook!GradesAssumption, GradesInv, GradeBook!Next PROVE Stored'
<1> SUFFICES ASSUME NEW x \in Assessment, NEW e \in Member, grades'[<<x, e>>].given
             PROVE  Fits(x, grades[<<x, e>>].score)'
  BY DEF Stored
<1> DEFINE g == <<x, e>>
<1>0. /\ grades \in [Assessment \X Member -> GradeRow] /\ op \in [Handler -> GradeRequest]
      /\ assessments \in [Assessment -> AssessmentRow] /\ g \in Assessment \X Member
  BY DEF GradesInv, GradesTyped
<1>1. CASE grades'[g] = grades[g] /\ assessments'[x].row # "deleted"
  <2>1. Fits(x, grades[g].score)
    BY <1>0, <1>1 DEF GradesInv, Stored
  <2>2. PICK points \in Nat : points = grades[g].score
    BY <1>0 DEF GradeRow, GradeBook!GradesAssumption
  <2>3. Once(x, points)'
    BY <2>1, <2>2, OnceStays DEF Once
  <2>4. Fits(x, points)'
    BY <1>1, <2>3 DEF Once
  <2> QED
    BY <1>1, <2>2, <2>4 DEF Fits, GradeBook!Exists
<1>2. ASSUME UNCHANGED grades
      PROVE  grades'[g] = grades[g] /\ assessments[x].row = "live"
  BY <1>0, <1>2 DEF GradesInv, Stored, Fits, GradeBook!Exists
<1>3. ASSUME NEW a \in Marker, NEW c \in Subject, NEW y \in Assessment, NEW n \in Points,
             GradeBook!CreateAssessment(a, c, y, n)
      PROVE  grades'[g] = grades[g] /\ assessments'[x].row # "deleted"
  BY <1>0, <1>2, <1>3 DEF GradeBook!CreateAssessment
<1>4. ASSUME NEW h \in Handler, GradeBook!UpdateAssessment(h)
      PROVE  grades'[g] = grades[g] /\ assessments'[x].row # "deleted"
  <2>1. op[h] \in [at : {"update"}, x : Assessment, max : Points]
    BY <1>0, <1>4 DEF GradeBook!UpdateAssessment, GradeBook!At, GradeRequest, GradeBook!idle
  <2>2. grades'[g] = grades[g] /\ assessments[x] \in [row : {"live"}, course : Subject, max : Points]
    BY <1>2, <1>4, Rows DEF GradeBook!UpdateAssessment, GradesInv, GradeBook!Exists
  <2> QED
    BY <1>0, <1>4, <2>1, <2>2 DEF GradeBook!UpdateAssessment
<1>5. ASSUME NEW h \in Handler, GradeBook!DeleteAssessment(h)
      PROVE  grades'[g] = grades[g] /\ assessments'[x].row # "deleted"
  <2>1. op[h] \in [at : {"delete"}, x : Assessment]
    BY <1>0, <1>5 DEF GradeBook!DeleteAssessment, GradeBook!At, GradeRequest, GradeBook!idle
  <2>2. grades'[g] = IF x = op[h].x THEN GradeBook!noGrade ELSE grades[g]
    BY <1>0, <1>5 DEF GradeBook!DeleteAssessment
  <2>3. x # op[h].x /\ grades'[g] = grades[g]
    BY <2>2 DEF GradeBook!noGrade
  <2>4. assessments[x].row = "live"
    BY <1>0, <2>3 DEF GradesInv, Stored, Fits, GradeBook!Exists
  <2> QED
    BY <1>0, <1>5, <2>1, <2>3, <2>4 DEF GradeBook!DeleteAssessment
<1>6. ASSUME NEW h \in Handler, GradeBook!UpsertGrade(h)
      PROVE  Fits(x, grades[g].score)'
  <2>1. op[h] \in [at : {"upsert", "enrolment"}, x : Assessment, e : Member, score : Points]
    BY <1>0, <1>6 DEF GradeBook!UpsertGrade, GradeBook!At, GradeRequest, GradeBook!idle
  <2>2. CASE <<op[h].x, op[h].e>> = g /\ GradeBook!Exists(op[h].x)
    <3>1. grades'[g].score = op[h].score /\ UNCHANGED <<assessments, lowered>> /\ op[h].x = x
      BY <1>0, <1>6, <2>1, <2>2 DEF GradeBook!UpsertGrade, GradeBook!given
    <3>2. Once(op[h].x, op[h].score)
      BY <1>6 DEF GradeBook!UpsertGrade, GradeBook!At, GradesInv, Checked
    <3> QED
      BY <2>2, <3>1, <3>2 DEF Once, Fits, GradeBook!Exists
  <2>3. CASE ~(<<op[h].x, op[h].e>> = g /\ GradeBook!Exists(op[h].x))
    <3>1. grades'[g] = grades[g] /\ UNCHANGED assessments
      BY <1>0, <1>6, <2>1, <2>3 DEF GradeBook!UpsertGrade
    <3>2. assessments[x].row = "live"
      BY <1>0, <3>1 DEF GradesInv, Stored, Fits, GradeBook!Exists
    <3> QED
      BY <1>1, <3>1, <3>2
  <2> QED
    BY <2>2, <2>3
<1>7. CASE UNCHANGED <<assessments, grades>>
  BY <1>1, <1>2, <1>7
<1> QED
  BY <1>1, <1>3, <1>4, <1>5, <1>6, <1>7 DEF GradeBook!Next, GradeBook!Update, GradeBook!Delete,
                                            GradeBook!Submit, GradeBook!FindAssessment,
                                            GradeBook!FindEnrolment, GradeBook!RequestEnds

(* A stored grade exceeds the bound of its assessment only where the bound *)
(* was lowered, and never outlives the assessment, although it is stored   *)
(* on a check two calls old (assessment.service.ts, update, delete,        *)
(* submitGrade).                                                           *)
THEOREM GradesStayInBounds == Spec => []GradesFitTheirBound
<1> DEFINE Inv == scene = "grades" => GradesInv
<1>1. Init => Inv
  BY GradesInit, CampusAssumption DEF Init
<1>2. Inv /\ [Next]_vars => Inv'
  <2> SUFFICES ASSUME Inv, [Next]_vars, scene' = "grades"
               PROVE  GradesInv'
    OBVIOUS
  <2>1. CASE Next
    BY <2>1, Scenes, CampusAssumption, GradesTypedStep, CheckedStep, StoredStep DEF GradesInv
  <2>2. CASE UNCHANGED vars
    BY <2>2 DEF vars, marks, GradesInv, GradesTyped, Checked, Stored, Once, Fits, GradeBook!Exists
  <2> QED
    BY <2>1, <2>2
<1>3. Inv => GradesFitTheirBound
  BY DEF GradesInv, GradesTyped, Stored, Fits, GradeBook!GradesFitTheirBound, GradesFitTheirBound
<1> QED
  BY <1>1, <1>2, <1>3, PTL DEF Spec

-----------------------------------------------------------------------------
(* The dropout risk.  Until the two files were published or read in halves *)
(* the pair on the disk fits, or one training is between its copies and    *)
(* nobody else is, and who has read the model will find its scaler.        *)
ModelPair == [model : Nat, scaler : Nat]
Trainer == [at : {"idle", "model", "scaler", "loadModel", "loadScaler"}, version : Nat]
Between(p) == trainer[p].at = "scaler"

ModelsTyped ==
    /\ disk \in ModelPair
    /\ memory \in [Dropout!Process -> ModelPair]
    /\ trainer \in [Dropout!Process -> Trainer]
    /\ trained \in Nat

DiskFits == disk.scaler = disk.model \/ \E p \in Dropout!Process : Between(p)
OneBetween == \A p, q \in Dropout!Process : Between(p) => trainer[p].version = disk.model /\ (Between(q) => q = p)
HalfLoaded ==
    \A p \in Dropout!Process : trainer[p].at = "loadScaler" =>
        \/ memory[p].model = 0
        \/ memory[p].model = disk.model /\ \A q \in Dropout!Process : ~Between(q)
Fitted ==
    \A p \in Dropout!Process : trainer[p].at = "idle" /\ memory[p].model # 0 =>
        memory[p].scaler = memory[p].model

ModelsInv == ModelsTyped /\ (uneven \/ (DiskFits /\ OneBetween /\ HalfLoaded /\ Fitted))

(* No process has a model at first, and there is none on the disk.         *)
LEMMA ModelsInit == ASSUME Dropout!Init PROVE ModelsInv
  BY DEF Dropout!Init, Dropout!none, Dropout!idle, ModelsInv, ModelsTyped, ModelPair, Trainer,
         DiskFits, OneBetween, Between, HalfLoaded, Fitted

(* The steps that touch the files or the processes.                        *)
Training(p) ==
    \/ Dropout!Train(p) \/ Dropout!PublishModel(p) \/ Dropout!PublishScaler(p)
    \/ Dropout!LoadModel(p) \/ Dropout!LoadModelFails(p)
    \/ Dropout!LoadScaler(p) \/ Dropout!LoadScalerFails(p) \/ Dropout!Restart(p)

LEMMA Trainings ==
    ASSUME Dropout!Next
    PROVE  (\E p \in Dropout!Process : Training(p)) \/ UNCHANGED <<disk, memory, trainer, trained, uneven>>
  BY DEF Dropout!Next, Training, Dropout!models, Dropout!Start, Dropout!NextRow, Dropout!Update,
         Dropout!Deadlock, Dropout!StatementFails, Dropout!RowRefused, Dropout!Commit,
         Dropout!CommitFails, Dropout!Notify, Dropout!TrainLegacy

LEMMA ModelsTypedStep ==
    ASSUME ModelsTyped, NEW p \in Dropout!Process, Training(p)
    PROVE  ModelsTyped'
<1> USE DEF ModelsTyped, ModelPair, Trainer, Dropout!Step, Dropout!idle, Dropout!none
<1>1. CASE Dropout!Train(p)
  BY <1>1 DEF Dropout!Train
<1>2. CASE Dropout!PublishModel(p)
  BY <1>2 DEF Dropout!PublishModel
<1>3. CASE Dropout!PublishScaler(p)
  BY <1>3 DEF Dropout!PublishScaler
<1>4. CASE Dropout!LoadModel(p)
  BY <1>4 DEF Dropout!LoadModel
<1>5. CASE Dropout!LoadModelFails(p)
  BY <1>5 DEF Dropout!LoadModelFails
<1>6. CASE Dropout!LoadScaler(p)
  BY <1>6 DEF Dropout!LoadScaler
<1>7. CASE Dropout!LoadScalerFails(p)
  BY <1>7 DEF Dropout!LoadScalerFails
<1>8. CASE Dropout!Restart(p)
  BY <1>8 DEF Dropout!Restart
<1> QED
  BY <1>1, <1>2, <1>3, <1>4, <1>5, <1>6, <1>7, <1>8 DEF Training

LEMMA PairStep ==
    ASSUME ModelsTyped, NEW p \in Dropout!Process, Training(p), ~uneven', ~uneven => DiskFits /\ OneBetween /\ HalfLoaded /\ Fitted
    PROVE  DiskFits' /\ OneBetween' /\ HalfLoaded' /\ Fitted'
<1> USE DEF ModelsTyped, ModelPair, Trainer, Dropout!Step, Dropout!idle, Dropout!none, DiskFits, OneBetween, Between, HalfLoaded, Fitted, Dropout!OtherAt
<1>1. CASE Dropout!Train(p)
  BY <1>1 DEF Dropout!Train
<1>2. CASE Dropout!PublishModel(p)
  BY <1>2 DEF Dropout!PublishModel
<1>3. CASE Dropout!PublishScaler(p)
  BY <1>3 DEF Dropout!PublishScaler
<1>4. CASE Dropout!LoadModel(p)
  BY <1>4 DEF Dropout!LoadModel
<1>5. CASE Dropout!LoadModelFails(p)
  BY <1>5 DEF Dropout!LoadModelFails
<1>6. CASE Dropout!LoadScaler(p)
  BY <1>6 DEF Dropout!LoadScaler
<1>7. CASE Dropout!LoadScalerFails(p)
  BY <1>7 DEF Dropout!LoadScalerFails
<1>8. CASE Dropout!Restart(p)
  BY <1>8 DEF Dropout!Restart
<1> QED
  BY <1>1, <1>2, <1>3, <1>4, <1>5, <1>6, <1>7, <1>8 DEF Training

(* A process at rest scores with a model and the scaler it was fitted with,
   for any numbers of processes and trainings, unless trainings overlapped,
   a process read or stopped between the two files, or could not read the
   second (train.py, train_model; ml_model.py, load_model). *)
THEOREM ModelsMeetTheirScalers == Spec => []ModelFitsScaler
<1> DEFINE Inv == scene = "risk" => ModelsInv
<1>1. Init => Inv
  BY ModelsInit DEF Init
<1>2. Inv /\ [Next]_vars => Inv'
  <2> SUFFICES ASSUME Inv, [Next]_vars, scene' = "risk"
               PROVE  ModelsInv'
    OBVIOUS
  <2>1. CASE Next
    <3>1. Dropout!Next /\ ModelsInv
      BY <2>1, Scenes
    <3>2. CASE UNCHANGED <<disk, memory, trainer, trained, uneven>>
      BY <3>1, <3>2 DEF ModelsInv, ModelsTyped, DiskFits, OneBetween, Between, HalfLoaded, Fitted
    <3>3. ASSUME NEW p \in Dropout!Process, Training(p)
          PROVE  ModelsInv'
      BY <3>1, <3>3, ModelsTypedStep, PairStep DEF ModelsInv
    <3> QED
      BY <3>1, <3>2, <3>3, Trainings
  <2>2. CASE UNCHANGED vars
    BY <2>2 DEF vars, risk, ModelsInv, ModelsTyped, DiskFits, OneBetween, Between, HalfLoaded, Fitted
  <2> QED
    BY <2>1, <2>2
<1>3. Inv => ModelFitsScaler
  BY DEF ModelsInv, ModelFitsScaler, Dropout!ModelFitsScaler, Fitted, Dropout!idle
<1> QED
  BY <1>1, <1>2, <1>3, PTL DEF Spec

-----------------------------------------------------------------------------
(* The runs and batches that score.  What a run holds as high it wrote, a  *)
(* row once, and an aborted run wrote nothing; two transactions under way  *)
(* are two starts.                                                         *)
Written == Member \X (-4..10)
Transaction ==
    [at : {"scoring", "notify"}, kind : {"nightly", "batch"}, by : Dropout!Process, todo : SUBSET Member,
     row : Member \cup {Dropout!None}, wrote : SUBSET Written, high : SUBSET Written, aborted : BOOLEAN,
     fitted : BOOLEAN]

RunsTyped ==
    /\ score \in [Member -> {Dropout!Nothing} \cup -4..10]
    /\ tx \in [Tx -> {Dropout!idleTx} \cup Transaction]
    /\ starts \in Nat

(* The rows that a transaction wrote, the one it is at, and those to come. *)
RowsOnce(r) ==
    /\ \A v, w \in r.wrote : v[1] = w[1] => v = w
    /\ \A w \in r.wrote : w[1] \notin r.todo
    /\ r.row # Dropout!None => r.row \notin r.todo /\ \A w \in r.wrote : w[1] # r.row
Counted(r) == IF r.aborted THEN r.wrote = {} ELSE r.high \subseteq r.wrote

Scoring(t) == tx[t].at # "idle"
Consistent == \A t \in Tx : tx[t].at = "scoring" => RowsOnce(tx[t])
CountsWritten == \A t \in Tx : Scoring(t) => Counted(tx[t])
Started == \A t, u \in Tx : Scoring(t) => starts >= 1 /\ (Scoring(u) /\ u # t => starts > 1)
StoredFor(t) ==
    \A w \in tx[t].high : w \in tx[t].wrote /\ score[w[1]] # Dropout!Nothing /\ (score[w[1]] = w[2] \/ starts > 1)
Told == \A t \in Tx : tx[t].at = "notify" /\ ~tx[t].aborted => StoredFor(t)

RunsInv == RunsTyped /\ Consistent /\ CountsWritten /\ Started /\ Told

(* No run is under way at first.                                           *)
LEMMA RunsInit == ASSUME Dropout!Init PROVE RunsInv
  BY DEF Dropout!Init, Dropout!idleTx, RunsInv, RunsTyped, Consistent, CountsWritten, Started, Told, Scoring

(* The scores of a row, by rule and by model.                              *)
LEMMA Scores ==
    ASSUME Dropout!RiskAssumption, NEW p, NEW e \in Member
    PROVE  /\ Dropout!RuleScore(Facts[e]) \in -4..10 /\ Dropout!PredictScore(p, Facts[e]) \subseteq -4..10
           /\ \A fitted : Dropout!BatchScore(fitted, Facts[e]) \subseteq -4..10
<1>1. PICK f \in [att : 0..1, grade : 0..2, away : 0..1] : f = Facts[e]
  BY DEF Dropout!RiskAssumption
<1>2. f.att \in 0..1 /\ f.grade \in 0..2 /\ f.away \in 0..1
  BY <1>1
<1>3. Dropout!RuleScore(f) \in -4..10
  BY <1>2 DEF Dropout!RuleScore
<1>4. Dropout!Clamp(Dropout!RuleScore(f)) \in -4..10
  BY <1>3 DEF Dropout!Clamp
<1> QED
  BY <1>1, <1>3, <1>4 DEF Dropout!PredictScore, Dropout!BatchScore

(* The transaction that a step moves, and what it makes of it.             *)
Moved(t) ==
    \/ \E p \in Dropout!Process : Dropout!Start(t, "nightly", p) \/ Dropout!Start(t, "batch", p)
    \/ \E e \in Member : Dropout!NextRow(t, e)
    \/ Dropout!Update(t) \/ Dropout!Deadlock(t) \/ Dropout!StatementFails(t) \/ Dropout!RowRefused(t)
    \/ Dropout!Commit(t) \/ Dropout!CommitFails(t) \/ Dropout!Notify(t)

LEMMA RunSteps ==
    ASSUME Dropout!Next, RunsTyped
    PROVE  (\E t \in Tx : Moved(t)) \/ (UNCHANGED <<score, starts>> /\ tx' \in [Tx -> {Dropout!idleTx} \cup Transaction]
                                        /\ \A t \in Tx : tx'[t] \in {tx[t], Dropout!idleTx})
<1>1. ASSUME NEW p \in Dropout!Process, Dropout!Restart(p)
      PROVE  /\ UNCHANGED <<score, starts>> /\ tx' \in [Tx -> {Dropout!idleTx} \cup Transaction]
             /\ \A t \in Tx : tx'[t] \in {tx[t], Dropout!idleTx}
  BY <1>1 DEF Dropout!Restart, RunsTyped
<1>2. ASSUME UNCHANGED <<score, tx, starts>>
      PROVE  /\ UNCHANGED <<score, starts>> /\ tx' \in [Tx -> {Dropout!idleTx} \cup Transaction]
             /\ \A t \in Tx : tx'[t] \in {tx[t], Dropout!idleTx}
  BY <1>2 DEF RunsTyped
<1> QED
  BY <1>1, <1>2 DEF Dropout!Next, Moved, Dropout!TrainLegacy, Dropout!Train, Dropout!PublishModel, Dropout!PublishScaler,
         Dropout!LoadModel, Dropout!LoadModelFails, Dropout!LoadScaler, Dropout!LoadScalerFails

(* What a transaction is after a step of its own: it holds what it wrote   *)
(* once, and it is told only after a commit.                               *)
Idle == Dropout!idleTx
Fine(r) ==
    /\ r \in {Idle} \cup Transaction
    /\ r.at = "scoring" => RowsOnce(r)
    /\ r # Idle => Counted(r)
Quiet(t) ==
    /\ \E r : tx' = [tx EXCEPT ![t] = r] /\ Fine(r) /\ r.at # "notify"
    /\ UNCHANGED score

LEMMA ScoringRow ==
    ASSUME RunsInv, NEW t \in Tx, tx[t].at = "scoring"
    PROVE  tx[t] \in Transaction /\ RowsOnce(tx[t]) /\ Counted(tx[t])
  BY DEF RunsInv, RunsTyped, Consistent, CountsWritten, Scoring, Dropout!idleTx

LEMMA StartQuiet ==
    ASSUME RunsInv, NEW t \in Tx, NEW p \in Dropout!Process, NEW kind \in {"nightly", "batch"}, Dropout!Start(t, kind, p)
    PROVE  Quiet(t) /\ starts' = starts + 1
<1> DEFINE r == [at |-> "scoring", kind |-> kind, by |-> p, todo |-> Member,
                 row |-> Dropout!None, wrote |-> {}, high |-> {}, aborted |-> FALSE, fitted |-> p \in legacy]
<1>1. r \in Transaction /\ r # Idle /\ r.at = "scoring"
  BY DEF Transaction, Dropout!idleTx, Idle
<1>2. RowsOnce(r) /\ Counted(r)
  BY DEF RowsOnce, Counted
<1> QED
  BY <1>1, <1>2 DEF Quiet, Fine, Dropout!Start

LEMMA NextRowQuiet ==
    ASSUME RunsInv, NEW t \in Tx, NEW e \in Member, Dropout!NextRow(t, e)
    PROVE  Quiet(t) /\ starts' = starts
<1> DEFINE r == [tx[t] EXCEPT !.row = e, !.todo = @ \ {e}]
<1>1. tx[t] \in Transaction /\ RowsOnce(tx[t]) /\ Counted(tx[t]) /\ tx[t].at = "scoring"
  BY ScoringRow DEF Dropout!NextRow
<1>2. r \in Transaction /\ r.at = "scoring"
  BY <1>1 DEF Transaction
<1>3. RowsOnce(r) /\ Counted(r)
  BY <1>1 DEF RowsOnce, Counted, Transaction, Dropout!NextRow
<1> QED
  BY <1>2, <1>3 DEF Quiet, Fine, Dropout!NextRow

LEMMA UpdateQuiet ==
    ASSUME Dropout!RiskAssumption, RunsInv, NEW t \in Tx, Dropout!Update(t)
    PROVE  Quiet(t) /\ starts' = starts
<1>1. tx[t] \in Transaction /\ RowsOnce(tx[t]) /\ Counted(tx[t]) /\ tx[t].at = "scoring"
  BY ScoringRow DEF Dropout!Update
<1> DEFINE e == tx[t].row
<1>2. e \in Member /\ tx[t].kind \in {"nightly", "batch"} /\ ~tx[t].aborted
  BY <1>1 DEF Dropout!Update, Transaction
<1>3. PICK s \in -4..10 :
        tx' = [tx EXCEPT ![t].row = Dropout!None, ![t].wrote = @ \cup {<<e, s>>},
                         ![t].high = IF Dropout!High(s) THEN @ \cup {<<e, s>>} ELSE @]
  <2>1. (IF tx[t].kind = "nightly" THEN Dropout!PredictScore(tx[t].by, Facts[e])
                                   ELSE Dropout!BatchScore(tx[t].fitted, Facts[e])) \subseteq -4..10
    BY <1>2, Scores
  <2> QED
    BY <2>1 DEF Dropout!Update
<1> DEFINE r == [tx[t] EXCEPT !.row = Dropout!None, !.wrote = @ \cup {<<e, s>>},
                              !.high = IF Dropout!High(s) THEN @ \cup {<<e, s>>} ELSE @]
<1>4. <<e, s>> \in Written
  BY <1>2 DEF Written
<1>5. r \in Transaction /\ r.at = "scoring"
  BY <1>1, <1>4 DEF Transaction
<1>6. RowsOnce(r)
  <2>1. r.wrote = tx[t].wrote \cup {<<e, s>>} /\ r.todo = tx[t].todo /\ r.row = Dropout!None
    BY <1>1 DEF Transaction
  <2> QED
    BY <1>1, <1>2, <2>1 DEF RowsOnce, Dropout!Update
<1>7. Counted(r)
  BY <1>1, <1>2 DEF Counted, Transaction
<1>8. tx' = [tx EXCEPT ![t] = r]
  BY <1>3
<1> QED
  BY <1>5, <1>6, <1>7, <1>8 DEF Quiet, Fine, Dropout!Update

LEMMA AbortQuiet ==
    ASSUME RunsInv, NEW t \in Tx, Dropout!Deadlock(t) \/ Dropout!StatementFails(t)
    PROVE  Quiet(t) /\ starts' = starts
<1>1. tx[t] \in Transaction /\ RowsOnce(tx[t]) /\ Counted(tx[t]) /\ tx[t].at = "scoring"
  BY ScoringRow DEF Dropout!Deadlock, Dropout!StatementFails, Dropout!WaitsFor
<1> DEFINE r == [tx[t] EXCEPT !.row = Dropout!None, !.wrote = {}, !.aborted = TRUE]
<1>2. r \in Transaction /\ r.at = "scoring"
  BY <1>1 DEF Transaction
<1>3. r.wrote = {} /\ r.aborted /\ r.row = Dropout!None
  BY <1>1 DEF Transaction
<1>4. Fine(r) /\ r.at # "notify"
  BY <1>2, <1>3 DEF Fine, RowsOnce, Counted
<1>5. Fine(Idle) /\ Idle.at # "notify"
  BY DEF Fine, Idle, Dropout!idleTx
<1>6. Dropout!Abort(t) /\ UNCHANGED <<score, starts>>
  BY DEF Dropout!Deadlock, Dropout!StatementFails
<1>7. tx' = [tx EXCEPT ![t] = Idle] \/ tx' = [tx EXCEPT ![t] = r]
  BY <1>6 DEF Dropout!Abort, Idle
<1> QED
  BY <1>4, <1>5, <1>6, <1>7 DEF Quiet

LEMMA RefusedQuiet ==
    ASSUME RunsInv, NEW t \in Tx, Dropout!RowRefused(t)
    PROVE  Quiet(t) /\ starts' = starts
<1>1. tx[t] \in Transaction /\ RowsOnce(tx[t]) /\ Counted(tx[t]) /\ tx[t].at = "scoring"
  BY ScoringRow DEF Dropout!RowRefused
<1> DEFINE r == [tx[t] EXCEPT !.row = Dropout!None]
<1>2. r \in Transaction /\ r.at = "scoring"
  BY <1>1 DEF Transaction
<1>3. RowsOnce(r) /\ Counted(r)
  BY <1>1 DEF RowsOnce, Counted, Transaction
<1> QED
  BY <1>2, <1>3 DEF Quiet, Fine, Dropout!RowRefused

LEMMA CommitFailsQuiet ==
    ASSUME RunsInv, NEW t \in Tx, Dropout!CommitFails(t)
    PROVE  Quiet(t) /\ starts' = starts
<1>1. tx[t] \in Transaction /\ tx[t].at = "scoring"
  BY ScoringRow DEF Dropout!CommitFails, Dropout!AllRows
<1> DEFINE r == [tx[t] EXCEPT !.todo = Member, !.wrote = {}, !.high = {}, !.aborted = FALSE]
<1>2. r \in Transaction /\ r.at = "scoring"
  BY <1>1 DEF Transaction
<1>3. r.wrote = {} /\ r.high = {} /\ r.row = Dropout!None
  BY <1>1 DEF Transaction, Dropout!CommitFails, Dropout!AllRows
<1>4. Fine(r) /\ r.at # "notify"
  BY <1>2, <1>3 DEF Fine, RowsOnce, Counted
<1>5. Fine(Idle) /\ Idle.at # "notify"
  BY DEF Fine, Idle, Dropout!idleTx
<1>7. tx' = [tx EXCEPT ![t] = Idle] \/ tx' = [tx EXCEPT ![t] = r]
  BY DEF Dropout!CommitFails, Idle
<1> QED
  BY <1>4, <1>5, <1>7 DEF Quiet, Dropout!CommitFails

LEMMA NotifyQuiet ==
    ASSUME RunsInv, NEW t \in Tx, Dropout!Notify(t)
    PROVE  Quiet(t) /\ starts' = starts
<1>1. Fine(Idle) /\ Idle.at # "notify"
  BY DEF Fine, Idle, Dropout!idleTx
<1> QED
  BY <1>1 DEF Quiet, Dropout!Notify, Idle

(* A commit stores what the run wrote, each row once.                      *)
LEMMA CommitStores ==
    ASSUME RunsInv, NEW t \in Tx, Dropout!Commit(t)
    PROVE  /\ starts' = starts
           /\ score' \in [Member -> {Dropout!Nothing} \cup -4..10]
           /\ \A e \in Member : score'[e] = score[e] \/ score'[e] # Dropout!Nothing
           /\ \A w \in tx[t].wrote : score'[w[1]] = w[2] /\ score'[w[1]] # Dropout!Nothing
           /\ \E r : /\ tx' = [tx EXCEPT ![t] = r] /\ Fine(r)
                     /\ r.at # "scoring" /\ (r.at = "notify" => r = [tx[t] EXCEPT !.at = "notify"])
<1>1. tx[t] \in Transaction /\ RowsOnce(tx[t]) /\ Counted(tx[t]) /\ tx[t].at = "scoring"
  BY ScoringRow DEF Dropout!Commit, Dropout!AllRows
<1>2. ASSUME NEW e \in Member, Dropout!Holds(t, e)
      PROVE  (CHOOSE w \in tx[t].wrote : w[1] = e)[2] \in -4..10
  <2>1. \E w \in tx[t].wrote : w[1] = e
    BY <1>2 DEF Dropout!Holds
  <2>2. (CHOOSE w \in tx[t].wrote : w[1] = e) \in tx[t].wrote
    BY <2>1
  <2> QED
    BY <1>1, <2>2 DEF Transaction, Written
<1>3. score' = [e \in Member |->
                  IF Dropout!Holds(t, e) THEN (CHOOSE w \in tx[t].wrote : w[1] = e)[2] ELSE score[e]]
  BY DEF Dropout!Commit
<1>4. score \in [Member -> {Dropout!Nothing} \cup -4..10]
  BY DEF RunsInv, RunsTyped
<1>5. \A e \in Member : score'[e] = score[e] \/ score'[e] \in -4..10
  BY <1>2, <1>3
<1>6. score' \in [Member -> {Dropout!Nothing} \cup -4..10]
  BY <1>3, <1>4, <1>5
<1>7. ASSUME NEW w \in tx[t].wrote
      PROVE  score'[w[1]] = w[2] /\ score'[w[1]] # Dropout!Nothing
  <2>1. w[1] \in Member /\ w[2] \in -4..10
    BY <1>1 DEF Transaction, Written
  <2>2. Dropout!Holds(t, w[1])
    BY <1>1 DEF Dropout!Holds
  <2>3. (CHOOSE v \in tx[t].wrote : v[1] = w[1]) = w
    BY <1>1 DEF RowsOnce
  <2>4. score'[w[1]] = w[2]
    BY <1>3, <2>1, <2>2, <2>3
  <2> QED
    BY <2>1, <2>4 DEF Dropout!Nothing
<1> DEFINE r == [tx[t] EXCEPT !.at = "notify"]
<1>8. r \in Transaction /\ r.at = "notify"
  BY <1>1 DEF Transaction
<1>9. Counted(r)
  BY <1>1 DEF Counted, Transaction
<1>10. Fine(r) /\ Fine(Idle) /\ Idle.at \notin {"scoring", "notify"}
  BY <1>8, <1>9 DEF Fine, Idle, Dropout!idleTx
<1>11. tx' = [tx EXCEPT ![t] = Idle] \/ tx' = [tx EXCEPT ![t] = r]
  BY DEF Dropout!Commit, Dropout!Ended, Idle
<1>12. \A e \in Member : score'[e] = score[e] \/ score'[e] # Dropout!Nothing
  BY <1>5 DEF Dropout!Nothing
<1>13. \E q : /\ tx' = [tx EXCEPT ![t] = q] /\ Fine(q)
              /\ q.at # "scoring" /\ (q.at = "notify" => q = [tx[t] EXCEPT !.at = "notify"])
  BY <1>8, <1>10, <1>11
<1> QED
  BY <1>6, <1>7, <1>12, <1>13 DEF Dropout!Commit

LEMMA OthersStay ==
    ASSUME RunsInv, NEW t \in Tx, NEW r, tx' = [tx EXCEPT ![t] = r], Fine(r),
           IF Scoring(t) THEN starts' = starts ELSE starts' = starts + 1,
           score' \in [Member -> {Dropout!Nothing} \cup -4..10]
    PROVE  RunsTyped' /\ Consistent' /\ CountsWritten' /\ Started'
<1>1. RunsTyped'
  BY DEF RunsInv, RunsTyped, Fine, Idle
<1>2. tx'[t] = r /\ \A u \in Tx : u # t => tx'[u] = tx[u]
  BY DEF RunsInv, RunsTyped
<1>3. Consistent'
  BY <1>2 DEF RunsInv, Consistent, Fine
<1>4. CountsWritten'
  BY <1>2 DEF RunsInv, CountsWritten, Scoring, Fine, Idle, Dropout!idleTx
<1>5. Started'
  <2>1. starts \in Nat /\ starts' \in Nat
    BY <1>1 DEF RunsInv, RunsTyped
  <2>2. CASE Scoring(t)
    BY <1>2, <2>1, <2>2 DEF RunsInv, Started, Scoring
  <2>3. CASE ~Scoring(t)
    BY <1>2, <2>1, <2>3 DEF RunsInv, Started, Scoring
  <2> QED
    BY <2>2, <2>3
<1> QED
  BY <1>1, <1>3, <1>4, <1>5

(* What a waiting notice tells of stays stored, or another run replaced it. *)
LEMMA QuietStep ==
    ASSUME RunsInv, NEW t \in Tx, Quiet(t), IF Scoring(t) THEN starts' = starts ELSE starts' = starts + 1
    PROVE  RunsInv'
<1>1. PICK r : tx' = [tx EXCEPT ![t] = r] /\ Fine(r) /\ r.at # "notify"
  BY DEF Quiet
<1>2. score' = score /\ score \in [Member -> {Dropout!Nothing} \cup -4..10]
  BY DEF Quiet, RunsInv, RunsTyped
<1>3. RunsTyped' /\ Consistent' /\ CountsWritten' /\ Started'
  BY <1>1, <1>2, OthersStay
<1>4. ASSUME NEW u \in Tx, tx'[u].at = "notify", ~tx'[u].aborted
      PROVE  StoredFor(u)'
  <2>1. tx'[u] = tx[u]
    BY <1>1, <1>4 DEF RunsInv, RunsTyped
  <2>2. StoredFor(u)
    BY <1>4, <2>1 DEF RunsInv, Told
  <2>3. starts \in Nat /\ (starts' = starts \/ starts' = starts + 1)
    BY DEF RunsInv, RunsTyped
  <2> QED
    BY <1>2, <2>1, <2>2, <2>3 DEF StoredFor
<1> QED
  BY <1>3, <1>4 DEF RunsInv, Told

LEMMA CommitStep ==
    ASSUME RunsInv, NEW t \in Tx, Dropout!Commit(t)
    PROVE  RunsInv'
<1>1. PICK r : /\ tx' = [tx EXCEPT ![t] = r] /\ Fine(r)
               /\ r.at # "scoring" /\ (r.at = "notify" => r = [tx[t] EXCEPT !.at = "notify"])
  BY CommitStores
<1>2. Scoring(t) /\ starts' = starts
  BY CommitStores DEF Dropout!Commit, Dropout!AllRows, Scoring
<1>3. RunsTyped' /\ Consistent' /\ CountsWritten' /\ Started'
  BY <1>1, <1>2, CommitStores, OthersStay
<1>4. ASSUME NEW u \in Tx, tx'[u].at = "notify", ~tx'[u].aborted
      PROVE  StoredFor(u)'
  <2>1. CASE u = t
    <3>1. tx'[t] = [tx[t] EXCEPT !.at = "notify"]
      BY <1>1, <1>4, <2>1 DEF RunsInv, RunsTyped
    <3>2. tx[t] \in Transaction /\ Counted(tx[t])
      BY ScoringRow DEF Dropout!Commit, Dropout!AllRows
    <3>3. tx'[t].high = tx[t].high /\ tx'[t].wrote = tx[t].wrote /\ tx'[t].aborted = tx[t].aborted
      BY <3>1, <3>2 DEF Transaction
    <3>4. tx[t].high \subseteq tx[t].wrote
      BY <1>4, <2>1, <3>2, <3>3 DEF Counted
    <3> QED
      BY <2>1, <3>3, <3>4, CommitStores DEF StoredFor
  <2>2. CASE u # t
    <3>1. tx'[u] = tx[u]
      BY <1>1, <2>2 DEF RunsInv, RunsTyped
    <3>2. StoredFor(u) /\ Scoring(u)
      BY <1>4, <3>1 DEF RunsInv, Told, Scoring
    <3>3. starts > 1
      BY <1>2, <2>2, <3>2 DEF RunsInv, Started
    <3>4. tx[u].high \subseteq Written
      BY <3>2 DEF RunsInv, RunsTyped, Scoring, Transaction, Dropout!idleTx
    <3>5. ASSUME NEW w \in tx[u].high
          PROVE  score'[w[1]] # Dropout!Nothing
      <4>1. w[1] \in Member
        BY <3>4 DEF Written
      <4> QED
        BY <3>2, <4>1, CommitStores DEF StoredFor
    <3> QED
      BY <1>2, <3>1, <3>2, <3>3, <3>5 DEF StoredFor
  <2> QED
    BY <2>1, <2>2
<1> QED
  BY <1>3, <1>4 DEF RunsInv, Told

LEMMA RunsStep ==
    ASSUME Dropout!RiskAssumption, RunsInv, Dropout!Next
    PROVE  RunsInv'
<1>0. RunsTyped
  BY DEF RunsInv
<1>1. ASSUME NEW t \in Tx, Moved(t)
      PROVE  RunsInv'
  <2>1. ASSUME NEW p \in Dropout!Process, NEW kind \in {"nightly", "batch"}, Dropout!Start(t, kind, p)
        PROVE  RunsInv'
    <3>1. ~Scoring(t)
      BY <2>1 DEF Dropout!Start, Scoring
    <3> QED
      BY <2>1, <3>1, StartQuiet, QuietStep
  <2>2. ASSUME NEW e \in Member, Dropout!NextRow(t, e)
        PROVE  RunsInv'
    BY <2>2, NextRowQuiet, QuietStep DEF Dropout!NextRow, Scoring
  <2>3. CASE Dropout!Update(t)
    BY <2>3, UpdateQuiet, QuietStep DEF Dropout!Update, Scoring
  <2>4. CASE Dropout!Deadlock(t) \/ Dropout!StatementFails(t)
    BY <2>4, AbortQuiet, QuietStep DEF Dropout!Deadlock, Dropout!WaitsFor, Dropout!StatementFails, Scoring
  <2>5. CASE Dropout!RowRefused(t)
    BY <2>5, RefusedQuiet, QuietStep DEF Dropout!RowRefused, Scoring
  <2>6. CASE Dropout!Commit(t)
    BY <2>6, CommitStep
  <2>7. CASE Dropout!CommitFails(t)
    BY <2>7, CommitFailsQuiet, QuietStep DEF Dropout!CommitFails, Dropout!AllRows, Scoring
  <2>8. CASE Dropout!Notify(t)
    BY <2>8, NotifyQuiet, QuietStep DEF Dropout!Notify, Scoring
  <2> QED
    BY <1>1, <2>1, <2>2, <2>3, <2>4, <2>5, <2>6, <2>7, <2>8 DEF Moved
<1>2. ASSUME UNCHANGED <<score, starts>>, tx' \in [Tx -> {Dropout!idleTx} \cup Transaction],
             \A t \in Tx : tx'[t] \in {tx[t], Dropout!idleTx}
      PROVE  RunsInv'
  <2>1. RunsTyped'
    BY <1>2 DEF RunsInv, RunsTyped
  <2>2. \A t \in Tx : tx'[t].at # "idle" => tx'[t] = tx[t]
    BY <1>2 DEF Dropout!idleTx
  <2>3. Consistent' /\ CountsWritten' /\ Started' /\ Told'
    BY <1>2, <2>2 DEF RunsInv, Consistent, CountsWritten, Started, Told, StoredFor, Scoring
  <2> QED
    BY <2>1, <2>3 DEF RunsInv
<1> QED
  BY <1>0, <1>1, <1>2, RunSteps

(* The administrators hear of a risk only if the run stored it and nobody
   but another run or batch replaced it since, for any numbers of runs,
   enrolments and failures; a run whose transaction was aborted stored
   nothing (etl_tasks.py, nightly_risk_calculation, _notify_high_risk). *)
THEOREM NoticesTellOfStoredScores == Spec => []NoticeTellsOfStoredScores
<1> DEFINE Inv == scene = "risk" => RunsInv
<1>1. Init => Inv
  BY RunsInit DEF Init
<1>2. Inv /\ [Next]_vars => Inv'
  <2> SUFFICES ASSUME Inv, [Next]_vars, scene' = "risk"
               PROVE  RunsInv'
    OBVIOUS
  <2>1. CASE Next
    BY <2>1, Scenes, RunsStep, CampusAssumption
  <2>2. CASE UNCHANGED vars
    BY <2>2 DEF vars, risk, RunsInv, RunsTyped, Consistent, CountsWritten, Started, Told, StoredFor, Scoring
  <2> QED
    BY <2>1, <2>2
<1>3. Inv => NoticeTellsOfStoredScores
  BY DEF RunsInv, CountsWritten, Counted, Told, StoredFor, Scoring,
         NoticeTellsOfStoredScores, Dropout!NoticeTellsOfStoredScores
<1> QED
  BY <1>1, <1>2, <1>3, PTL DEF Spec

-----------------------------------------------------------------------------
(* Names and states.  A request that leaves the slug alone carries the     *)
(* title of the row, a toggle carries the other status than the row's,     *)
(* unless another request wrote the row since they read it.                *)
NamedCourse == {Names!noCourse} \cup [row : {TRUE}, title : Title, slug : Names!Slug]
Passwords == Password \cup {CHOOSE p \in Password : TRUE}
NamedUser == [row : {TRUE}, email : Email, active : {0, 1}, password : Passwords]
Renaming == [at : {"slug", "write"}, id : Subject, title : Title, n : Suffix, new : BOOLEAN, slug : BOOLEAN]
Inserting == [at : {"insertUser"}, id : User, email : Email]
Toggling == [at : {"toggle"}, id : User, active : {0, 1}]
NewPassword == [at : {"password"}, id : User, new : Password]

CoursesTyped ==
    /\ catalogue \in [Subject -> NamedCourse]
    /\ op \in [Handler -> {Names!idle} \cup Renaming \cup Inserting \cup Toggling \cup NewPassword]
UsersTyped ==
    /\ users \in [User -> {Names!noUser} \cup NamedUser]
    /\ acked \in [User -> {0, 1}]

Renames(h) == op[h].at \in {"slug", "write"}
KeptTitles ==
    \A h \in Handler : Renames(h) /\ ~op[h].slug =>
        catalogue[op[h].id].row /\ (op[h].title = catalogue[op[h].id].title \/ op[h].id \in stale)
Toggles(h, u) == op[h].at = "toggle" /\ op[h].id = u
Opposites ==
    \A h \in Handler, u \in User : Toggles(h, u) =>
        users[u].row /\ (op[h].active = 1 - users[u].active \/ u \in crossed)
Inserts(h, u) == op[h].at = "insertUser" /\ op[h].id = u
Fresh ==
    /\ \A u \in User : ~users[u].row => acked[u] = 0
    /\ \A h \in Handler, u \in User : Inserts(h, u) =>
          ~users[u].row /\ \A g \in Handler : Inserts(g, u) => g = h

NamesTyped == CoursesTyped /\ UsersTyped
NamesInv == NamesTyped /\ KeptTitles /\ Opposites /\ Fresh /\ Names!StaleWritesExplained

(* No row and no request at first.                                         *)
LEMMA NamesInit == ASSUME Names!Init PROVE NamesInv
<1>1. CoursesTyped /\ UsersTyped
  BY DEF Names!Init, CoursesTyped, UsersTyped, NamedCourse
<1>2. \A h \in Handler : op[h].at = "idle"
  BY DEF Names!Init, Names!idle
<1>3. (\A c \in Subject : ~catalogue[c].row) /\ (\A u \in User : ~users[u].row /\ acked[u] = 0)
  BY DEF Names!Init, Names!noCourse, Names!noUser
<1>4. KeptTitles /\ Opposites /\ Fresh
  BY <1>2, <1>3 DEF KeptTitles, Renames, Opposites, Toggles, Fresh, Inserts
<1>5. Names!SlugFollowsTitle /\ Names!TogglesCount
  BY <1>3 DEF Names!SlugFollowsTitle, Names!TogglesCount
<1> QED
  BY <1>1, <1>4, <1>5 DEF NamesInv, NamesTyped, Names!StaleWritesExplained

(* A step that leaves the tables alone: a request ends, starts on the      *)
(* strength of the rows it sees, or tries the next slug.                   *)
Replaced(h, r) == op' = [op EXCEPT ![h] = r]
Asks(h) ==
    \/ Replaced(h, Names!idle)
    \/ \E r \in Renaming : Replaced(h, r) /\ op[h].at = "idle" /\ (~r.slug => catalogue[r.id].row /\ r.title = catalogue[r.id].title)
    \/ \E r \in Renaming : Replaced(h, r) /\ Renames(h) /\ r.id = op[h].id /\ r.title = op[h].title /\ r.slug = op[h].slug
    \/ \E r \in Inserting : Replaced(h, r) /\ op[h].at = "idle" /\ ~users[r.id].row /\ ~Names!Busy(r.id)
    \/ \E r \in Toggling : Replaced(h, r) /\ op[h].at = "idle" /\ users[r.id].row /\ r.active = 1 - users[r.id].active
    \/ \E r \in NewPassword : Replaced(h, r) /\ op[h].at = "idle" /\ users[r.id].row

LEMMA NamesSteps ==
    ASSUME Names!CatalogueAssumption, NamesTyped, Names!Next
    PROVE  \E h \in Handler :
              \/ UNCHANGED <<catalogue, stale, users, crossed, acked>> /\ Asks(h)
              \/ Names!WriteCourse(h) \/ Names!InsertUser(h) \/ Names!WriteStatus(h) \/ Names!WritePassword(h)
<1>1. PICK h \in Handler :
    \/ \E c \in Subject, title \in Title : Names!Create(h, c, title) \/ Names!Update(h, c, title)
    \/ Names!TrySlug(h) \/ Names!WriteCourse(h)
    \/ \E u \in User, email \in Email : Names!CreateUser(h, u, email)
    \/ \E u \in User : Names!ToggleStatus(h, u)
    \/ \E u \in User, old, new \in Password : old # new /\ Names!ChangePassword(h, u, old, new)
    \/ Names!InsertUser(h) \/ Names!WriteStatus(h) \/ Names!WritePassword(h) \/ Names!RequestEnds(h)
  BY DEF Names!Next
<1>2. op \in [Handler -> {Names!idle} \cup Renaming \cup Inserting \cup Toggling \cup NewPassword]
  BY DEF NamesTyped, CoursesTyped
<1>3. ASSUME NEW c \in Subject, NEW title \in Title, Names!Create(h, c, title)
      PROVE  UNCHANGED <<catalogue, stale, users, crossed, acked>> /\ op[h].at = "idle"
             /\ \E r \in Renaming : Replaced(h, r) /\ (~r.slug => catalogue[r.id].row /\ r.title = catalogue[r.id].title)
  <2> DEFINE r == [at |-> "slug", id |-> c, title |-> title, n |-> 1, new |-> TRUE, slug |-> TRUE]
  <2>1. r \in Renaming /\ r.slug
    BY DEF Renaming, Names!CatalogueAssumption
  <2> QED
    BY <1>3, <2>1 DEF Names!Create, Names!Begin, Names!At, Names!history, Replaced
<1>4. ASSUME NEW c \in Subject, NEW title \in Title, Names!Update(h, c, title)
      PROVE  UNCHANGED <<catalogue, stale, users, crossed, acked>> /\ op[h].at = "idle"
             /\ \E r \in Renaming : Replaced(h, r) /\ (~r.slug => catalogue[r.id].row /\ r.title = catalogue[r.id].title)
  <2> DEFINE renamed == catalogue[c].title # title
             r == [at |-> IF renamed THEN "slug" ELSE "write", id |-> c, title |-> title,
                   n |-> 1, new |-> FALSE, slug |-> renamed]
  <2>1. r \in Renaming
    BY DEF Renaming, Names!CatalogueAssumption
  <2>2. ~r.slug => catalogue[r.id].row /\ r.title = catalogue[r.id].title
    BY <1>4 DEF Names!Update
  <2> QED
    BY <1>4, <2>1, <2>2 DEF Names!Update, Names!Begin, Names!At, Names!history, Replaced
<1>5. ASSUME Names!TrySlug(h)
      PROVE  UNCHANGED <<catalogue, stale, users, crossed, acked>> /\ Renames(h)
             /\ \E r \in Renaming : Replaced(h, r) /\ r.id = op[h].id /\ r.title = op[h].title /\ r.slug = op[h].slug
  <2>1. op[h] \in Renaming /\ op[h].at = "slug"
    BY <1>2, <1>5 DEF Names!TrySlug, Names!At, Names!idle, Renaming, Inserting, Toggling, NewPassword
  <2> DEFINE more == [op[h] EXCEPT !.n = @ + 1]
             found == [op[h] EXCEPT !.at = "write"]
  <2>2. found \in Renaming /\ found.id = op[h].id /\ found.title = op[h].title /\ found.slug = op[h].slug
    BY <2>1 DEF Renaming
  <2>3. op[h].n + 1 \in Suffix => more \in Renaming /\ more.id = op[h].id /\ more.title = op[h].title /\ more.slug = op[h].slug
    BY <2>1 DEF Renaming
  <2>4. (op[h].n + 1 \in Suffix /\ op' = [op EXCEPT ![h] = more]) \/ op' = [op EXCEPT ![h] = found]
    BY <1>5 DEF Names!TrySlug
  <2> QED
    BY <1>5, <2>1, <2>2, <2>3, <2>4 DEF Names!TrySlug, Names!history, Replaced, Renames
<1>6. ASSUME NEW u \in User, NEW email \in Email, Names!CreateUser(h, u, email)
      PROVE  UNCHANGED <<catalogue, stale, users, crossed, acked>> /\ op[h].at = "idle"
             /\ \E r \in Inserting : Replaced(h, r) /\ ~users[r.id].row /\ ~Names!Busy(r.id)
  <2>1. [at |-> "insertUser", id |-> u, email |-> email] \in Inserting
    BY DEF Inserting
  <2> QED
    BY <1>6, <2>1 DEF Names!CreateUser, Names!Begin, Names!At, Names!history, Replaced
<1>7. ASSUME NEW u \in User, Names!ToggleStatus(h, u)
      PROVE  UNCHANGED <<catalogue, stale, users, crossed, acked>> /\ op[h].at = "idle"
             /\ \E r \in Toggling : Replaced(h, r) /\ users[r.id].row /\ r.active = 1 - users[r.id].active
  <2>0. users[u] \in {Names!noUser} \cup NamedUser
    BY DEF NamesTyped, UsersTyped
  <2>1. users[u].active \in {0, 1}
    <3>1. users[u] # Names!noUser
      BY <1>7 DEF Names!ToggleStatus, Names!noUser
    <3> QED
      BY <2>0, <3>1 DEF NamedUser
  <2>2. [at |-> "toggle", id |-> u, active |-> 1 - users[u].active] \in Toggling
    BY <2>1 DEF Toggling
  <2> QED
    BY <1>7, <2>2 DEF Names!ToggleStatus, Names!Begin, Names!At, Names!history, Replaced
<1>8. ASSUME NEW u \in User, NEW old \in Password, NEW new \in Password, Names!ChangePassword(h, u, old, new)
      PROVE  UNCHANGED <<catalogue, stale, users, crossed, acked>> /\ op[h].at = "idle"
             /\ \E r \in NewPassword : Replaced(h, r) /\ users[r.id].row
  <2>1. [at |-> "password", id |-> u, new |-> new] \in NewPassword
    BY DEF NewPassword
  <2> QED
    BY <1>8, <2>1 DEF Names!ChangePassword, Names!Begin, Names!At, Names!history, Replaced
<1>9. ASSUME Names!RequestEnds(h)
      PROVE  UNCHANGED <<catalogue, stale, users, crossed, acked>> /\ Replaced(h, Names!idle)
  BY <1>9 DEF Names!RequestEnds, Names!Finish, Names!history, Replaced
<1> QED
  BY <1>1, <1>3, <1>4, <1>5, <1>6, <1>7, <1>8, <1>9 DEF Asks

(* A request may become r in the place of h without harm.                  *)
Sound(h, r) ==
    /\ r \in {Names!idle} \cup Renaming \cup Inserting \cup Toggling \cup NewPassword
    /\ r.at \in {"slug", "write"} /\ ~r.slug =>
          catalogue[r.id].row /\ (r.title = catalogue[r.id].title \/ r.id \in stale)
    /\ r.at = "toggle" => users[r.id].row /\ (r.active = 1 - users[r.id].active \/ r.id \in crossed)
    /\ r.at = "insertUser" => ~users[r.id].row /\ \A g \in Handler : g # h => ~Inserts(g, r.id)

LEMMA SoundStep ==
    ASSUME NamesInv, NEW h \in Handler, NEW r, Replaced(h, r), Sound(h, r),
           UNCHANGED <<catalogue, stale, users, crossed, acked>>
    PROVE  NamesInv'
<1>1. NamesTyped' /\ op'[h] = r /\ \A g \in Handler : g # h => op'[g] = op[g]
  BY DEF NamesInv, NamesTyped, CoursesTyped, UsersTyped, Replaced, Sound
<1>2. KeptTitles'
  BY <1>1 DEF NamesInv, KeptTitles, Renames, Sound
<1>3. Opposites'
  BY <1>1 DEF NamesInv, Opposites, Toggles, Sound
<1>4. Fresh'
  BY <1>1 DEF NamesInv, Fresh, Inserts, Sound
<1>5. Names!StaleWritesExplained'
  BY DEF NamesInv, Names!StaleWritesExplained, Names!SlugFollowsTitle, Names!TogglesCount, Names!Taken
<1> QED
  BY <1>1, <1>2, <1>3, <1>4, <1>5 DEF NamesInv

(* The request that writes ends; the others stand as they did.             *)
LEMMA Ends ==
    ASSUME NamesInv, NEW h \in Handler, Names!Finish(h)
    PROVE  /\ op' \in [Handler -> {Names!idle} \cup Renaming \cup Inserting \cup Toggling \cup NewPassword]
           /\ op'[h].at = "idle"
           /\ \A g \in Handler : op'[g].at # "idle" => g # h /\ op'[g] = op[g]
  BY DEF NamesInv, NamesTyped, CoursesTyped, Names!Finish, Names!idle

LEMMA RenamingRow ==
    ASSUME NamesTyped, NEW h \in Handler, Renames(h)
    PROVE  op[h] \in Renaming
<1>1. op[h] \in {Names!idle} \cup Renaming \cup Inserting \cup Toggling \cup NewPassword
  BY DEF NamesTyped, CoursesTyped
<1>2. Names!idle.at = "idle"
  BY DEF Names!idle
<1>3. \A r \in Inserting \cup Toggling \cup NewPassword : r.at \in {"insertUser", "toggle", "password"}
  BY DEF Inserting, Toggling, NewPassword
<1> QED
  BY <1>1, <1>2, <1>3 DEF Renames

LEMMA WriteCourseStep ==
    ASSUME NamesInv, NEW h \in Handler, Names!WriteCourse(h)
    PROVE  NamesInv'
<1>1. Names!Finish(h) /\ UNCHANGED <<users, crossed, acked>> /\ op[h] \in Renaming /\ Renames(h)
  BY RenamingRow DEF Names!WriteCourse, Names!At, Renames, NamesInv
<1> DEFINE c == op[h].id
           title == op[h].title
           slug == <<op[h].title, op[h].n>>
           new == [row |-> TRUE, title |-> op[h].title,
                   slug |-> IF op[h].slug THEN slug ELSE catalogue[c].slug]
<1>2. c \in Subject /\ title \in Title /\ slug \in Names!Slug /\ op[h].slug \in BOOLEAN
  BY <1>1 DEF Renaming, Names!Slug
<1>3. ASSUME NEW d \in Subject, catalogue[d].row
      PROVE  catalogue[d] \in [row : {TRUE}, title : Title, slug : Names!Slug]
  <2>1. catalogue[d] \in NamedCourse
    BY DEF NamesInv, NamesTyped, CoursesTyped
  <2>2. catalogue[d] # Names!noCourse
    BY <1>3 DEF Names!noCourse
  <2> QED
    BY <2>1, <2>2 DEF NamedCourse
<1>4. ~op[h].slug => catalogue[c].row /\ (title = catalogue[c].title \/ c \in stale)
  BY <1>1 DEF NamesInv, KeptTitles
<1>5. CASE op[h].slug /\ Names!Taken(slug, c)
  <2>1. UNCHANGED <<catalogue, stale>>
    BY <1>5 DEF Names!WriteCourse
  <2> QED
    BY <1>1, <2>1, SoundStep DEF Names!Finish, Replaced, Sound, Names!idle
<1>6. CASE ~(op[h].slug /\ Names!Taken(slug, c))
  <2>1. catalogue' = [catalogue EXCEPT ![c] = new]
    BY <1>6 DEF Names!WriteCourse
  <2>2. stale' = IF \E g \in Handler \ {h} : op[g].at \in {"slug", "write"} /\ op[g].id = c
                 THEN stale \cup {c} ELSE stale
    BY <1>6 DEF Names!WriteCourse
  <2>3. new.row /\ new.title = title /\ new.slug = (IF op[h].slug THEN slug ELSE catalogue[c].slug)
    OBVIOUS
  <2>4. new \in [row : {TRUE}, title : Title, slug : Names!Slug]
    BY <1>2, <1>3, <1>4
  <2>5. catalogue \in [Subject -> NamedCourse]
    BY DEF NamesInv, NamesTyped, CoursesTyped
  <2>6. catalogue' \in [Subject -> NamedCourse] /\ catalogue'[c] = new /\ \A d \in Subject : d # c => catalogue'[d] = catalogue[d]
    BY <1>2, <2>1, <2>4, <2>5 DEF NamedCourse
  <2>7. NamesTyped'
    BY <1>1, <2>6, Ends DEF NamesInv, NamesTyped, CoursesTyped, UsersTyped
  <2>8. KeptTitles'
    <3> SUFFICES ASSUME NEW g \in Handler, Renames(g)', ~op'[g].slug
                 PROVE  catalogue'[op'[g].id].row /\ (op'[g].title = catalogue'[op'[g].id].title \/ op'[g].id \in stale')
      BY DEF KeptTitles
    <3>1. g # h /\ op'[g] = op[g] /\ Renames(g) /\ op[g].id \in Subject
      BY <1>1, Ends, RenamingRow DEF Renames, Renaming, NamesInv
    <3>2. catalogue[op[g].id].row /\ (op[g].title = catalogue[op[g].id].title \/ op[g].id \in stale)
      BY <3>1 DEF NamesInv, KeptTitles
    <3>3. CASE op[g].id = c
      BY <2>2, <2>3, <2>6, <3>1, <3>3 DEF Renames
    <3>4. CASE op[g].id # c
      BY <2>2, <2>6, <3>1, <3>2, <3>4
    <3> QED
      BY <3>3, <3>4
  <2>9. Opposites' /\ Fresh' /\ Names!TogglesCount'
    BY <1>1, Ends DEF NamesInv, Opposites, Toggles, Fresh, Inserts, Names!StaleWritesExplained, Names!TogglesCount
  <2>10. ASSUME NEW d \in Subject, catalogue'[d].row
         PROVE  /\ \A b \in Subject \ {d} : catalogue'[b].row => catalogue'[b].slug # catalogue'[d].slug
                /\ catalogue'[d].slug[1] = catalogue'[d].title \/ d \in stale'
    <3>1. \A a, b \in Subject : a # b /\ catalogue[a].row /\ catalogue[b].row => catalogue[a].slug # catalogue[b].slug
      BY DEF NamesInv, Names!StaleWritesExplained, Names!SlugFollowsTitle, Names!Taken
    <3>2. \A a \in Subject : catalogue[a].row => catalogue[a].slug[1] = catalogue[a].title \/ a \in stale
      BY DEF NamesInv, Names!StaleWritesExplained, Names!SlugFollowsTitle
    <3>3. op[h].slug => \A b \in Subject \ {c} : catalogue[b].row => catalogue[b].slug # slug
      BY <1>6 DEF Names!Taken
    <3>4. \A b \in Subject \ {c} : catalogue[b].row => catalogue[b].slug # new.slug
      BY <1>2, <1>4, <2>3, <3>1, <3>3
    <3>5. new.slug[1] = title \/ c \in stale
      BY <1>2, <1>4, <2>3, <3>2
    <3>6. \A b \in Subject \ {d} : catalogue'[b].row => catalogue'[b].slug # catalogue'[d].slug
      BY <2>6, <2>10, <3>1, <3>4
    <3>7. catalogue'[d].slug[1] = catalogue'[d].title \/ d \in stale'
      BY <2>2, <2>3, <2>6, <2>10, <3>2, <3>5
    <3> QED
      BY <3>6, <3>7
  <2>11. Names!SlugFollowsTitle'
    BY <2>10 DEF Names!SlugFollowsTitle, Names!Taken
  <2> QED
    BY <2>7, <2>8, <2>9, <2>11 DEF NamesInv, Names!StaleWritesExplained
<1> QED
  BY <1>5, <1>6

LEMMA UserRow ==
    ASSUME NamesTyped, NEW u \in User, users[u].row
    PROVE  users[u] \in NamedUser
<1>1. users[u] \in {Names!noUser} \cup NamedUser
  BY DEF NamesTyped, UsersTyped
<1>2. users[u] # Names!noUser
  BY DEF Names!noUser
<1> QED
  BY <1>1, <1>2

(* What an insertion, a toggle or a new password does to the users.        *)
LEMMA UsersStep ==
    ASSUME NamesInv, NEW h \in Handler, Names!Finish(h), UNCHANGED <<catalogue, stale>>,
           UsersTyped', Opposites', Fresh', Names!TogglesCount'
    PROVE  NamesInv'
<1>1. NamesTyped'
  BY Ends DEF NamesInv, NamesTyped, CoursesTyped
<1>2. KeptTitles'
  BY Ends DEF NamesInv, KeptTitles, Renames
<1>3. Names!SlugFollowsTitle'
  BY DEF NamesInv, Names!StaleWritesExplained, Names!SlugFollowsTitle, Names!Taken
<1> QED
  BY <1>1, <1>2, <1>3 DEF NamesInv, Names!StaleWritesExplained

LEMMA InsertUserStep ==
    ASSUME NamesInv, NEW h \in Handler, Names!InsertUser(h)
    PROVE  NamesInv'
<1>1. Names!Finish(h) /\ UNCHANGED <<catalogue, stale, crossed, acked>> /\ op[h].at = "insertUser"
  BY DEF Names!InsertUser, Names!At, Names!history
<1>2. op[h] \in Inserting
  <2>1. op[h] \in {Names!idle} \cup Renaming \cup Inserting \cup Toggling \cup NewPassword
    BY DEF NamesInv, NamesTyped, CoursesTyped
  <2>2. Names!idle.at = "idle" /\ \A r \in Renaming \cup Toggling \cup NewPassword : r.at \in {"slug", "write", "toggle", "password"}
    BY DEF Names!idle, Renaming, Toggling, NewPassword
  <2> QED
    BY <1>1, <2>1, <2>2
<1>3. op[h].id \in User /\ op[h].email \in Email
  BY <1>2 DEF Inserting
<1> DEFINE u == op[h].id
           new == [row |-> TRUE, email |-> op[h].email, active |-> 1, password |-> CHOOSE p \in Password : TRUE]
<1>4. ~users[u].row /\ acked[u] = 0 /\ (\A g \in Handler : Inserts(g, u) => g = h)
  BY <1>1, <1>3 DEF NamesInv, Fresh, Inserts
<1>5. CASE Names!EmailTaken(op[h].email)
  <2>1. UNCHANGED users
    BY <1>5 DEF Names!InsertUser
  <2> QED
    BY <1>1, <2>1, SoundStep DEF Names!Finish, Replaced, Sound, Names!idle
<1>6. CASE ~Names!EmailTaken(op[h].email)
  <2>1. users' = [users EXCEPT ![u] = new]
    BY <1>6 DEF Names!InsertUser
  <2>2. new \in NamedUser /\ new.row /\ new.active = 1
    BY <1>3 DEF NamedUser, Passwords
  <2>3. UsersTyped /\ UsersTyped' /\ users'[u] = new /\ \A v \in User : v # u => users'[v] = users[v]
    BY <1>1, <1>3, <2>1, <2>2 DEF NamesInv, NamesTyped, UsersTyped
  <2>4. Opposites'
    <3> SUFFICES ASSUME NEW g \in Handler, NEW v \in User, Toggles(g, v)'
                 PROVE  users'[v].row /\ (op'[g].active = 1 - users'[v].active \/ v \in crossed)
      BY <1>1 DEF Opposites
    <3>1. op'[g] = op[g] /\ Toggles(g, v)
      BY <1>1, Ends DEF Toggles
    <3>2. users[v].row /\ (op[g].active = 1 - users[v].active \/ v \in crossed)
      BY <3>1 DEF NamesInv, Opposites
    <3> QED
      BY <1>4, <2>3, <3>1, <3>2
  <2>5. Fresh'
    <3>1. \A v \in User : ~users'[v].row => acked'[v] = 0
      BY <1>1, <2>2, <2>3 DEF NamesInv, Fresh
    <3>2. ASSUME NEW g \in Handler, NEW v \in User, Inserts(g, v)'
          PROVE  ~users'[v].row /\ \A k \in Handler : Inserts(k, v)' => k = g
      <4>1. g # h /\ Inserts(g, v) /\ \A k \in Handler : Inserts(k, v)' => Inserts(k, v)
        BY <1>1, <3>2, Ends DEF Inserts
      <4>2. v # u
        BY <1>4, <4>1
      <4> QED
        BY <2>3, <4>1, <4>2 DEF NamesInv, Fresh
    <3> QED
      BY <3>1, <3>2 DEF Fresh
  <2>6. Names!TogglesCount'
    <3> SUFFICES ASSUME NEW v \in User, users'[v].row
                 PROVE  users'[v].active = 1 - acked'[v] \/ v \in crossed'
      BY DEF Names!TogglesCount
    <3>1. CASE v = u
      BY <1>1, <1>4, <2>2, <2>3, <3>1
    <3>2. CASE v # u
      BY <1>1, <2>3, <3>2 DEF NamesInv, Names!StaleWritesExplained, Names!TogglesCount
    <3> QED
      BY <3>1, <3>2
  <2> QED
    BY <1>1, <2>3, <2>4, <2>5, <2>6, UsersStep
<1> QED
  BY <1>5, <1>6

LEMMA WriteStatusStep ==
    ASSUME NamesInv, NEW h \in Handler, Names!WriteStatus(h)
    PROVE  NamesInv'
<1>1. Names!Finish(h) /\ UNCHANGED <<catalogue, stale>> /\ op[h].at = "toggle"
  BY DEF Names!WriteStatus, Names!At
<1>2. op[h] \in Toggling
  <2>1. op[h] \in {Names!idle} \cup Renaming \cup Inserting \cup Toggling \cup NewPassword
    BY DEF NamesInv, NamesTyped, CoursesTyped
  <2>2. Names!idle.at = "idle" /\ \A r \in Renaming \cup Inserting \cup NewPassword : r.at \in {"slug", "write", "insertUser", "password"}
    BY DEF Names!idle, Renaming, Inserting, NewPassword
  <2> QED
    BY <1>1, <2>1, <2>2
<1>3. PICK u \in User, n \in {0, 1} : op[h].id = u /\ op[h].active = n
  BY <1>2 DEF Toggling
<1>4. Toggles(h, u) /\ users[u].row /\ (n = 1 - users[u].active \/ u \in crossed)
  BY <1>1, <1>3 DEF NamesInv, Opposites, Toggles
<1>5. users[u] \in NamedUser
  BY <1>4, UserRow DEF NamesInv
<1> DEFINE new == [users[u] EXCEPT !.active = n]
<1>6. users' = [users EXCEPT ![u] = new] /\ acked' = [acked EXCEPT ![u] = 1 - @]
  BY <1>3 DEF Names!WriteStatus
<1>7. new \in NamedUser /\ new.row /\ new.active = n
  BY <1>5 DEF NamedUser
<1>8. UsersTyped /\ acked[u] \in {0, 1}
  BY DEF NamesInv, NamesTyped, UsersTyped
<1>9. acked' \in [User -> {0, 1}] /\ acked'[u] = 1 - acked[u] /\ \A v \in User : v # u => acked'[v] = acked[v]
  BY <1>6, <1>8 DEF UsersTyped
<1>10. UsersTyped' /\ users'[u] = new /\ \A v \in User : v # u => users'[v] = users[v]
  BY <1>6, <1>7, <1>8, <1>9 DEF UsersTyped
<1>11. crossed' = IF \E g \in Handler \ {h} : Toggles(g, u) THEN crossed \cup {u} ELSE crossed
  BY <1>3 DEF Names!WriteStatus, Names!At, Toggles
<1>12. Opposites'
  <2> SUFFICES ASSUME NEW g \in Handler, NEW v \in User, Toggles(g, v)'
               PROVE  users'[v].row /\ (op'[g].active = 1 - users'[v].active \/ v \in crossed')
    BY DEF Opposites
  <2>1. g # h /\ op'[g] = op[g] /\ Toggles(g, v)
    BY <1>1, Ends DEF Toggles
  <2>2. users[v].row /\ (op[g].active = 1 - users[v].active \/ v \in crossed)
    BY <2>1 DEF NamesInv, Opposites
  <2>3. CASE v = u
    BY <1>7, <1>10, <1>11, <2>1, <2>3
  <2>4. CASE v # u
    BY <1>10, <1>11, <2>1, <2>2, <2>4
  <2> QED
    BY <2>3, <2>4
<1>13. Fresh'
  <2>1. \A v \in User : ~users'[v].row => acked'[v] = 0
    BY <1>7, <1>9, <1>10 DEF NamesInv, Fresh
  <2>2. ASSUME NEW g \in Handler, NEW v \in User, Inserts(g, v)'
        PROVE  ~users'[v].row /\ \A k \in Handler : Inserts(k, v)' => k = g
    <3>1. Inserts(g, v) /\ \A k \in Handler : Inserts(k, v)' => Inserts(k, v)
      BY <1>1, <2>2, Ends DEF Inserts
    <3>2. ~users[v].row /\ \A k \in Handler : Inserts(k, v) => k = g
      BY <3>1 DEF NamesInv, Fresh
    <3> QED
      BY <1>4, <1>10, <3>1, <3>2
  <2> QED
    BY <2>1, <2>2 DEF Fresh
<1>14. Names!TogglesCount'
  <2> SUFFICES ASSUME NEW v \in User, users'[v].row
               PROVE  users'[v].active = 1 - acked'[v] \/ v \in crossed'
    BY DEF Names!TogglesCount
  <2>0. users[v].row => users[v].active = 1 - acked[v] \/ v \in crossed
    BY DEF NamesInv, Names!StaleWritesExplained, Names!TogglesCount
  <2>1. CASE v = u
    <3>1. (n = 1 - users[u].active /\ users[u].active = 1 - acked[u]) \/ u \in crossed
      BY <1>4, <2>0, <2>1
    <3> QED
      BY <1>7, <1>8, <1>9, <1>10, <1>11, <2>1, <3>1
  <2>2. CASE v # u
    BY <1>9, <1>10, <1>11, <2>0, <2>2
  <2> QED
    BY <2>1, <2>2
<1> QED
  BY <1>1, <1>10, <1>12, <1>13, <1>14, UsersStep

LEMMA WritePasswordStep ==
    ASSUME NamesInv, NEW h \in Handler, Names!WritePassword(h)
    PROVE  NamesInv'
<1>1. Names!Finish(h) /\ UNCHANGED <<catalogue, stale, crossed, acked>> /\ op[h].at = "password"
  BY DEF Names!WritePassword, Names!At, Names!history
<1>2. op[h] \in NewPassword
  <2>1. op[h] \in {Names!idle} \cup Renaming \cup Inserting \cup Toggling \cup NewPassword
    BY DEF NamesInv, NamesTyped, CoursesTyped
  <2>2. Names!idle.at = "idle" /\ \A r \in Renaming \cup Inserting \cup Toggling : r.at \in {"slug", "write", "insertUser", "toggle"}
    BY DEF Names!idle, Renaming, Inserting, Toggling
  <2> QED
    BY <1>1, <2>1, <2>2
<1>3. PICK u \in User, p \in Password : op[h].id = u /\ op[h].new = p
  BY <1>2 DEF NewPassword
<1> DEFINE new == [users[u] EXCEPT !.password = p]
<1>4. users' = [users EXCEPT ![u] = new]
  BY <1>3 DEF Names!WritePassword
<1>5. users \in [User -> {Names!noUser} \cup NamedUser] /\ acked \in [User -> {0, 1}]
  BY DEF NamesInv, NamesTyped, UsersTyped
<1>6. new \in {Names!noUser} \cup NamedUser /\ (new.row = users[u].row) /\ (users[u].row => new.active = users[u].active)
  <2>1. CASE users[u] = Names!noUser
    <3>1. new = users[u] /\ ~users[u].row
      BY <2>1 DEF Names!noUser
    <3> QED
      BY <2>1, <3>1
  <2>2. CASE users[u] \in NamedUser
    BY <2>2 DEF NamedUser, Passwords
  <2> QED
    BY <1>5, <2>1, <2>2
<1>7. /\ UsersTyped'
      /\ \A v \in User : (users'[v].row = users[v].row) /\ (users[v].row => users'[v].active = users[v].active)
  BY <1>1, <1>4, <1>5, <1>6 DEF UsersTyped
<1>8. Opposites'
  BY <1>1, <1>7, Ends DEF NamesInv, Opposites, Toggles
<1>9. Fresh'
  BY <1>1, <1>7, Ends DEF NamesInv, Fresh, Inserts
<1>10. Names!TogglesCount'
  BY <1>1, <1>7 DEF NamesInv, Names!StaleWritesExplained, Names!TogglesCount
<1> QED
  BY <1>1, <1>7, <1>8, <1>9, <1>10, UsersStep

LEMMA NamesStep ==
    ASSUME Names!CatalogueAssumption, NamesInv, Names!Next
    PROVE  NamesInv'
<1>1. PICK h \in Handler :
      \/ UNCHANGED <<catalogue, stale, users, crossed, acked>> /\ Asks(h)
      \/ Names!WriteCourse(h) \/ Names!InsertUser(h) \/ Names!WriteStatus(h) \/ Names!WritePassword(h)
  BY NamesSteps DEF NamesInv
<1>2. CASE Names!WriteCourse(h) \/ Names!InsertUser(h) \/ Names!WriteStatus(h) \/ Names!WritePassword(h)
  BY <1>2, WriteCourseStep, InsertUserStep, WriteStatusStep, WritePasswordStep
<1>3. ASSUME NEW r, Replaced(h, r), Sound(h, r), UNCHANGED <<catalogue, stale, users, crossed, acked>>
      PROVE  NamesInv'
  BY <1>3, SoundStep
<1>4. Sound(h, Names!idle)
  BY DEF Sound, Names!idle
<1>5. ASSUME NEW r \in Renaming, ~r.slug => catalogue[r.id].row /\ r.title = catalogue[r.id].title
      PROVE  Sound(h, r)
  BY <1>5 DEF Sound, Renaming
<1>6. ASSUME NEW r \in Renaming, Renames(h), r.id = op[h].id, r.title = op[h].title, r.slug = op[h].slug
      PROVE  Sound(h, r)
  BY <1>6 DEF Sound, Renaming, NamesInv, KeptTitles
<1>7. ASSUME NEW r \in Inserting, ~users[r.id].row, ~Names!Busy(r.id)
      PROVE  Sound(h, r)
  BY <1>7 DEF Sound, Inserting, Inserts, Names!Busy, Names!At
<1>8. ASSUME NEW r \in Toggling, users[r.id].row, r.active = 1 - users[r.id].active
      PROVE  Sound(h, r)
  BY <1>8 DEF Sound, Toggling
<1>9. ASSUME NEW r \in NewPassword
      PROVE  Sound(h, r)
  BY DEF Sound, NewPassword
<1> QED
  BY <1>1, <1>2, <1>3, <1>4, <1>5, <1>6, <1>7, <1>8, <1>9 DEF Asks

(* The slug of a course follows its title and is its own, and every answered
   toggle counts, for any numbers of requests, courses and users, but where
   two requests for one row overlapped (course.service.ts, update;
   user.service.ts, toggleStatus; slug.ts, uniqueSlug). *)
THEOREM StaleWritesHaveAReason == Spec => []StaleWritesExplained
<1> DEFINE Inv == scene = "names" => NamesInv
<1>1. Init => Inv
  BY NamesInit DEF Init
<1>2. Inv /\ [Next]_vars => Inv'
  <2> SUFFICES ASSUME Inv, [Next]_vars, scene' = "names"
               PROVE  NamesInv'
    OBVIOUS
  <2>1. CASE Next
    BY <2>1, Scenes, NamesStep, CampusAssumption
  <2>2. CASE UNCHANGED vars
    BY <2>2 DEF vars, names, NamesInv, NamesTyped, CoursesTyped, UsersTyped, KeptTitles, Renames, Opposites, Toggles,
                Fresh, Inserts, Names!StaleWritesExplained, Names!SlugFollowsTitle, Names!Taken, Names!TogglesCount
  <2> QED
    BY <2>1, <2>2
<1>3. Inv => StaleWritesExplained
  BY DEF NamesInv, StaleWritesExplained
<1> QED
  BY <1>1, <1>2, <1>3, PTL DEF Spec

-----------------------------------------------------------------------------
(* The login guard.  A request keeps its user and its address to its end.  *)
LoginRequest == [at : Guard!Step \ {"idle"}, user : User, ip : Ip, n : Nat]
GuardTyped ==
    /\ brute \in [Ip -> Nat] /\ tried \in [Ip -> Nat]
    /\ devices \in [User -> SUBSET Ip] /\ \A u \in User : IsFiniteSet(devices[u])
    /\ alarms \in [Guard!Kind -> Nat] /\ faults \in Nat
    /\ op \in [Handler -> {Guard!idle} \cup LoginRequest]

LEMMA GuardTypedInit == ASSUME Guard!Init PROVE GuardTyped
  BY FS_EmptySet DEF Guard!Init, GuardTyped

(* Request h goes to another step, or ends.                                *)
Turned(h, s) ==
    /\ op' \in [Handler -> {Guard!idle} \cup LoginRequest]
    /\ op'[h].at = s /\ \A k \in Handler : k # h => op'[k] = op[k]
    /\ s # "idle" => op'[h].user = op[h].user /\ op'[h].ip = op[h].ip

LEMMA UnderWay ==
    ASSUME GuardTyped, NEW h \in Handler, op[h].at # "idle"
    PROVE  op[h] \in LoginRequest /\ op[h].user \in User /\ op[h].ip \in Ip
  BY DEF GuardTyped, LoginRequest, Guard!idle

LEMMA Turns ==
    ASSUME GuardTyped, NEW h \in Handler
    PROVE  /\ Guard!Finish(h) => Turned(h, "idle")
           /\ \A s \in Guard!Step \ {"idle"} : op[h].at # "idle" /\ Guard!Goto(h, s) => Turned(h, s)
<1>1. op \in [Handler -> {Guard!idle} \cup LoginRequest]
  BY DEF GuardTyped
<1>2. Guard!Finish(h) => Turned(h, "idle")
  BY <1>1 DEF Guard!Finish, Guard!idle, Turned
<1>3. ASSUME NEW s \in Guard!Step \ {"idle"}, op[h].at # "idle", Guard!Goto(h, s)
      PROVE  Turned(h, s)
  <2>1. [op[h] EXCEPT !.at = s] \in LoginRequest
    BY <1>3, UnderWay DEF LoginRequest
  <2>2. op' = [op EXCEPT ![h] = [op[h] EXCEPT !.at = s]]
    BY <1>3 DEF Guard!Goto
  <2>3. [op[h] EXCEPT !.at = s].at = s /\ [op[h] EXCEPT !.at = s].user = op[h].user /\ [op[h] EXCEPT !.at = s].ip = op[h].ip
    BY <1>3, UnderWay DEF LoginRequest
  <2> QED
    BY <1>1, <2>1, <2>2, <2>3 DEF Turned
<1> QED
  BY <1>2, <1>3

(* An alert is stored or the request counts as failed.                     *)
LEMMA Raises ==
    ASSUME GuardTyped, NEW h \in Handler, op[h].at # "idle", NEW kind \in Guard!Kind, NEW s \in Guard!Step, Guard!Raise(h, kind, s)
    PROVE  /\ UNCHANGED <<brute, blocked, devices, deletes>> /\ Turned(h, s)
           /\ alarms' \in [Guard!Kind -> Nat] /\ faults' \in {faults, faults + 1}
<1>1. alarms' \in [Guard!Kind -> Nat]
  BY DEF Guard!Raise, GuardTyped
<1>2. faults' \in {faults, faults + 1}
  BY DEF Guard!Raise
<1>3. Turned(h, s)
  BY Turns DEF Guard!Raise
<1> QED
  BY <1>1, <1>2, <1>3 DEF Guard!Raise, Guard!keys

(* What a step does beside turning its request: the keys it leaves alone.  *)
Elsewhere(h) ==
    \/ \E s \in Guard!Step : Turned(h, s) /\ op[h].at \notin {"scard", "deviceAlert", "password", "incr", "block", "clear", "check"}
                             /\ s \notin {"password", "incr", "block", "clear"}
    \/ op[h].at = "idle" /\ op' \in [Handler -> {Guard!idle} \cup LoginRequest]
       /\ (\A k \in Handler : k # h => op'[k] = op[k]) /\ op'[h].at \in {"check", "session", "backup", "srem", "deleteIncr"}

Untouched == UNCHANGED <<brute, blocked, devices, tried, noticed>> /\ alarms' \in [Guard!Kind -> Nat] /\ faults' \in {faults, faults + 1}

LEMMA GuardSteps ==
    ASSUME GuardTyped, Guard!Next
    PROVE  \/ \E h \in Handler :
              \/ Untouched /\ Elsewhere(h)
              \/ Guard!CheckIpBlocked(h) \/ Guard!ComparePassword(h) \/ Guard!RecordFailedLogin(h)
              \/ Guard!BlockIp(h) \/ Guard!ClearCount(h) \/ Guard!ResetLoginAttempts(h) \/ Guard!AddDevice(h)
              \/ Guard!CountDevices(h) \/ Guard!AlertMultiDevice(h) \/ Guard!ForgetDevice(h) \/ Guard!RequestEnds(h)
           \/ \E i \in Ip : Guard!BruteWindowEnds(i) \/ Guard!BlockEnds(i)
           \/ \E u \in User : Guard!DevicesForgotten(u) \/ Guard!TicketsEnd(u) \/ Guard!DeleteWindowEnds(u)
<1>0. op \in [Handler -> {Guard!idle} \cup LoginRequest] /\ alarms \in [Guard!Kind -> Nat]
  BY DEF GuardTyped
<1>1. ASSUME NEW h \in Handler, NEW u \in User, NEW i \in Ip, NEW s \in {"check", "session", "backup", "srem", "deleteIncr"},
             Guard!Arrive(h, u, i, s)
      PROVE  Untouched /\ Elsewhere(h)
  <2>1. [at |-> s, user |-> u, ip |-> i, n |-> 0] \in LoginRequest
    BY DEF LoginRequest, Guard!Step
  <2> QED
    BY <1>0, <1>1, <2>1 DEF Guard!Arrive, Guard!At, Guard!keys, Guard!history, Untouched, Elsewhere
<1>2. ASSUME NEW h \in Handler, Guard!CheckUnusualHour(h)
      PROVE  Untouched /\ Elsewhere(h)
  <2>1. op[h].at = "hour" /\ (Turned(h, "hourAlert") \/ Turned(h, "idle"))
    BY <1>2, Turns DEF Guard!CheckUnusualHour, Guard!At, Guard!Step
  <2> QED
    BY <1>0, <1>2, <2>1 DEF Guard!CheckUnusualHour, Guard!keys, Guard!history, Guard!counts, Guard!Step, Untouched, Elsewhere
<1>3. ASSUME NEW h \in Handler, Guard!CheckBulkDelete(h)
      PROVE  Untouched /\ Elsewhere(h)
  <2>1. op[h].at = "deleteIncr" /\ (Turned(h, "deleteAlert") \/ Turned(h, "idle"))
    BY <1>3, Turns DEF Guard!CheckBulkDelete, Guard!At, Guard!Step
  <2> QED
    BY <1>0, <1>3, <2>1 DEF Guard!CheckBulkDelete, Guard!keys, Guard!history, Guard!counts, Guard!Step, Untouched, Elsewhere
<1>4. ASSUME NEW h \in Handler, Guard!AlertBruteForce(h) \/ Guard!AlertUnusualHour(h) \/ Guard!AlertBulkDelete(h)
      PROVE  Untouched /\ Elsewhere(h)
  <2>1. op[h].at \in {"bruteAlert", "hourAlert", "deleteAlert"} /\ UNCHANGED <<tried, noticed>>
    BY <1>4 DEF Guard!AlertBruteForce, Guard!AlertUnusualHour, Guard!AlertBulkDelete, Guard!At, Guard!history
  <2>2. PICK kind \in Guard!Kind : Guard!Raise(h, kind, "idle")
    BY <1>4 DEF Guard!AlertBruteForce, Guard!AlertUnusualHour, Guard!AlertBulkDelete, Guard!Kind
  <2>3. "idle" \in Guard!Step
    BY DEF Guard!Step
  <2> QED
    BY <2>1, <2>2, <2>3, Raises DEF Untouched, Elsewhere
<1>5. ASSUME NEW h \in Handler, Guard!OpenSession(h)
      PROVE  Untouched /\ Elsewhere(h)
  <2>1. op[h].at = "session" /\ Turned(h, "sadd")
    BY <1>5, Turns DEF Guard!OpenSession, Guard!At, Guard!Step
  <2> QED
    BY <1>0, <1>5, <2>1 DEF Guard!OpenSession, Guard!keys, Guard!counts, Guard!Step, Untouched, Elsewhere
<1>6. ASSUME NEW h \in Handler, Guard!OpenByBackupCode(h)
      PROVE  Untouched /\ Elsewhere(h)
  <2>1. op[h].at = "backup" /\ Turned(h, "idle")
    BY <1>6, Turns DEF Guard!OpenByBackupCode, Guard!At
  <2> QED
    BY <1>0, <1>6, <2>1 DEF Guard!OpenByBackupCode, Guard!keys, Guard!counts, Guard!Step, Untouched, Elsewhere
<1>7. ASSUME NEW h \in Handler, NEW u \in User, NEW i \in Ip,
             \/ Guard!Login(h, u, i) \/ Guard!VerifyTwoFactor(h, u, i) \/ Guard!VerifyBackupCode(h, u, i)
             \/ Guard!Logout(h, u, i) \/ Guard!DeleteSomething(h, u, i)
      PROVE  Untouched /\ Elsewhere(h)
  <2>1. \E s \in {"check", "session", "backup", "srem", "deleteIncr"} : Guard!Arrive(h, u, i, s)
    BY <1>7 DEF Guard!Login, Guard!VerifyTwoFactor, Guard!VerifyBackupCode, Guard!Logout, Guard!DeleteSomething
  <2> QED
    BY <1>1, <2>1
<1> QED
  BY <1>2, <1>3, <1>4, <1>5, <1>6, <1>7 DEF Guard!Next, Guard!Request

LEMMA GuardTypedStep == ASSUME GuardTyped, Guard!Next PROVE GuardTyped' /\ faults' >= faults
<1>0. /\ op \in [Handler -> {Guard!idle} \cup LoginRequest] /\ alarms \in [Guard!Kind -> Nat] /\ faults \in Nat
      /\ brute \in [Ip -> Nat] /\ tried \in [Ip -> Nat]
      /\ devices \in [User -> SUBSET Ip] /\ \A u \in User : IsFiniteSet(devices[u])
  BY DEF GuardTyped
<1>a. ASSUME UNCHANGED <<devices, alarms>>, faults' \in {faults, faults + 1}, brute' \in [Ip -> Nat], tried' \in [Ip -> Nat],
             op' \in [Handler -> {Guard!idle} \cup LoginRequest]
      PROVE  GuardTyped' /\ faults' >= faults
  BY <1>0, <1>a DEF GuardTyped
<1>1. ASSUME NEW h \in Handler, Untouched, Elsewhere(h)
      PROVE  GuardTyped' /\ faults' >= faults
  BY <1>0, <1>1 DEF Untouched, Elsewhere, Turned, GuardTyped
<1>2. ASSUME NEW h \in Handler, Guard!CheckIpBlocked(h) \/ Guard!ComparePassword(h) \/ Guard!BlockIp(h) \/ Guard!CountDevices(h)
                                 \/ Guard!RequestEnds(h)
      PROVE  GuardTyped' /\ faults' >= faults
  <2>1. \E s \in Guard!Step : Turned(h, s)
    BY <1>2, Turns DEF Guard!CheckIpBlocked, Guard!ComparePassword, Guard!BlockIp, Guard!CountDevices, Guard!RequestEnds,
                       Guard!At, Guard!Step
  <2> QED
    BY <1>0, <1>a, <1>2, <2>1 DEF Guard!CheckIpBlocked, Guard!ComparePassword, Guard!BlockIp, Guard!CountDevices, Guard!RequestEnds,
                       Guard!keys, Guard!history, Guard!counts, Turned
<1>3. ASSUME NEW h \in Handler, Guard!RecordFailedLogin(h)
      PROVE  GuardTyped' /\ faults' >= faults
  <2>1. op[h] \in LoginRequest /\ op[h].ip \in Ip /\ brute[op[h].ip] + 1 \in Nat /\ tried[op[h].ip] + 1 \in Nat
    BY <1>0, <1>3, UnderWay DEF Guard!RecordFailedLogin, Guard!At
  <2>2. brute' \in [Ip -> Nat] /\ tried' \in [Ip -> Nat]
    BY <1>0, <1>3, <2>1 DEF Guard!RecordFailedLogin
  <2>3. [op[h] EXCEPT !.at = "block", !.n = brute[op[h].ip] + 1] \in LoginRequest
    BY <2>1 DEF LoginRequest, Guard!Step
  <2>4. op' \in [Handler -> {Guard!idle} \cup LoginRequest]
    BY <1>0, <1>3, <2>3 DEF Guard!RecordFailedLogin, Guard!Finish
  <2> QED
    BY <1>a, <1>3, <2>2, <2>4 DEF Guard!RecordFailedLogin, Guard!counts
<1>4. ASSUME NEW h \in Handler, Guard!ClearCount(h) \/ Guard!ResetLoginAttempts(h)
      PROVE  GuardTyped' /\ faults' >= faults
  <2>1. \E s \in Guard!Step : Turned(h, s)
    BY <1>4, Turns DEF Guard!ClearCount, Guard!ResetLoginAttempts, Guard!At, Guard!Step
  <2> QED
    BY <1>0, <1>a, <1>4, <2>1 DEF Guard!ClearCount, Guard!ResetLoginAttempts, Guard!history, Guard!counts, Turned
<1>5. ASSUME NEW h \in Handler, Guard!AddDevice(h)
      PROVE  GuardTyped' /\ faults' >= faults
  <2>1. Turned(h, "scard") /\ op[h].user \in User /\ op[h].ip \in Ip
    BY <1>5, Turns, UnderWay DEF Guard!AddDevice, Guard!At, Guard!Step
  <2>2. IsFiniteSet(devices[op[h].user] \cup {op[h].ip})
    BY <1>0, <2>1, FS_AddElement
  <2>3. devices' \in [User -> SUBSET Ip] /\ \A u \in User : IsFiniteSet(devices'[u])
    BY <1>0, <1>5, <2>1, <2>2 DEF Guard!AddDevice
  <2> QED
    <3>1. UNCHANGED <<brute, tried, alarms, faults>>
      BY <1>5 DEF Guard!AddDevice, Guard!history, Guard!counts
    <3>2. op' \in [Handler -> {Guard!idle} \cup LoginRequest]
      BY <2>1 DEF Turned
    <3> QED
      BY <1>0, <2>3, <3>1, <3>2 DEF GuardTyped
<1>6. ASSUME NEW h \in Handler, Guard!AlertMultiDevice(h)
      PROVE  GuardTyped' /\ faults' >= faults
  <2>1. Guard!Raise(h, "MULTI_DEVICE", "hour") /\ op[h].at # "idle" /\ "hour" \in Guard!Step /\ "MULTI_DEVICE" \in Guard!Kind /\ tried' = tried
    BY <1>6 DEF Guard!AlertMultiDevice, Guard!At, Guard!Step, Guard!Kind
  <2>2. UNCHANGED <<brute, devices>> /\ Turned(h, "hour") /\ alarms' \in [Guard!Kind -> Nat] /\ faults' \in {faults, faults + 1}
    BY <2>1, Raises
  <2> QED
    BY <1>0, <2>1, <2>2 DEF Turned, GuardTyped
<1>7. ASSUME NEW h \in Handler, Guard!ForgetDevice(h)
      PROVE  GuardTyped' /\ faults' >= faults
  <2>1. Turned(h, "idle") /\ op[h].user \in User /\ op[h].ip \in Ip
    BY <1>7, Turns, UnderWay DEF Guard!ForgetDevice, Guard!At
  <2>2. IsFiniteSet(devices[op[h].user] \ {op[h].ip})
    BY <1>0, <2>1, FS_Subset
  <2>3. devices' \in [User -> SUBSET Ip] /\ \A u \in User : IsFiniteSet(devices'[u])
    BY <1>0, <1>7, <2>1, <2>2 DEF Guard!ForgetDevice
  <2>4. UNCHANGED <<brute, tried, alarms, faults>>
    BY <1>7 DEF Guard!ForgetDevice, Guard!counts
  <2>5. op' \in [Handler -> {Guard!idle} \cup LoginRequest]
    BY <2>1 DEF Turned
  <2> QED
    BY <1>0, <2>3, <2>4, <2>5 DEF GuardTyped
<1>8. ASSUME NEW i \in Ip, Guard!BruteWindowEnds(i) \/ Guard!BlockEnds(i)
      PROVE  GuardTyped' /\ faults' >= faults
  <2>1. UNCHANGED <<devices, alarms, faults, op>>
    BY <1>8 DEF Guard!BruteWindowEnds, Guard!BlockEnds, Guard!counts
  <2>2. brute' = brute \/ brute' = [brute EXCEPT ![i] = 0]
    BY <1>8 DEF Guard!BruteWindowEnds, Guard!BlockEnds
  <2>3. tried' = [tried EXCEPT ![i] = 0]
    BY <1>8 DEF Guard!BruteWindowEnds, Guard!BlockEnds
  <2>4. brute' \in [Ip -> Nat] /\ tried' \in [Ip -> Nat]
    BY <1>0, <2>2, <2>3 DEF GuardTyped
  <2> QED
    BY <1>0, <2>1, <2>4 DEF GuardTyped
<1>9. ASSUME NEW u \in User, Guard!DevicesForgotten(u) \/ Guard!TicketsEnd(u) \/ Guard!DeleteWindowEnds(u)
      PROVE  GuardTyped' /\ faults' >= faults
  <2>1. UNCHANGED <<brute, tried, alarms, faults, op>>
    BY <1>9 DEF Guard!DevicesForgotten, Guard!TicketsEnd, Guard!DeleteWindowEnds, Guard!counts, Guard!history
  <2>2. devices' \in [User -> SUBSET Ip] /\ \A v \in User : devices'[v] = {} \/ devices'[v] = devices[v]
    BY <1>0, <1>9 DEF Guard!DevicesForgotten, Guard!TicketsEnd, Guard!DeleteWindowEnds
  <2>3. \A v \in User : IsFiniteSet(devices'[v])
    BY <1>0, <2>2, FS_EmptySet
  <2> QED
    BY <1>0, <2>1, <2>2, <2>3 DEF GuardTyped
<1> QED
  BY GuardSteps, <1>1, <1>2, <1>3, <1>4, <1>5, <1>6, <1>7, <1>8, <1>9

(* Signed in from too many addresses, a user is noticed, or a login of his *)
(* has yet to count or to alert.                                           *)
Crowded(u) == ~(Cardinality(devices[u]) <= SessionIpLimit)
Expected(u) == \E h \in Handler : op[h].at \in {"scard", "deviceAlert"} /\ op[h].user = u
Noticed == \A u \in User : Crowded(u) => u \in noticed \/ faults > 0 \/ Expected(u)

LEMMA ExpectedStays ==
    ASSUME GuardTyped, NEW h \in Handler, \A k \in Handler : k # h => op'[k] = op[k],
           op[h].at \notin {"scard", "deviceAlert"}, NEW u, Expected(u)
    PROVE  Expected(u)'
  BY DEF Expected

LEMMA NoticedFrom ==
    ASSUME Noticed, faults > 0 => faults' > 0,
           \A u \in User : Crowded(u)' =>
               \/ u \in noticed'
               \/ Expected(u)'
               \/ Crowded(u) /\ (u \in noticed => u \in noticed') /\ (Expected(u) => Expected(u)')
    PROVE  Noticed'
  BY DEF Noticed

LEMMA NoticedStep ==
    ASSUME Guard!GuardAssumption, GuardTyped, Noticed, Guard!Next
    PROVE  Noticed'
<1>0. GuardTyped' /\ faults' >= faults /\ faults \in Nat /\ faults' \in Nat /\ (faults > 0 => faults' > 0)
  BY GuardTypedStep DEF GuardTyped
<1>1. /\ op \in [Handler -> {Guard!idle} \cup LoginRequest]
      /\ devices \in [User -> SUBSET Ip] /\ \A u \in User : IsFiniteSet(devices[u])
  BY DEF GuardTyped
<1>2. ASSUME NEW h \in Handler, op[h].at \notin {"scard", "deviceAlert"}, \A k \in Handler : k # h => op'[k] = op[k],
             UNCHANGED <<devices, noticed>>
      PROVE  Noticed'
  BY <1>0, <1>2, ExpectedStays DEF Noticed, Crowded
<1>3. ASSUME NEW h \in Handler, Untouched, Elsewhere(h)
      PROVE  Noticed'
  BY <1>2, <1>3 DEF Untouched, Elsewhere, Turned
<1>4. ASSUME NEW h \in Handler, Guard!CheckIpBlocked(h) \/ Guard!ComparePassword(h) \/ Guard!BlockIp(h) \/ Guard!ClearCount(h)
                                 \/ Guard!ResetLoginAttempts(h)
      PROVE  Noticed'
  <2>1. op[h].at \notin {"scard", "deviceAlert"} /\ UNCHANGED <<devices, noticed>>
    BY <1>4 DEF Guard!CheckIpBlocked, Guard!ComparePassword, Guard!BlockIp, Guard!ClearCount, Guard!ResetLoginAttempts,
                Guard!At, Guard!keys, Guard!history
  <2>2. \E s \in Guard!Step : Turned(h, s)
    BY <1>4, Turns DEF Guard!CheckIpBlocked, Guard!ComparePassword, Guard!BlockIp, Guard!ClearCount, Guard!ResetLoginAttempts,
                       Guard!At, Guard!Step
  <2> QED
    BY <1>2, <2>1, <2>2 DEF Turned
<1>5. ASSUME NEW h \in Handler, Guard!RecordFailedLogin(h)
      PROVE  Noticed'
  BY <1>1, <1>2, <1>5 DEF Guard!RecordFailedLogin, Guard!At, Guard!Finish
<1>6. ASSUME NEW h \in Handler, Guard!AddDevice(h)
      PROVE  Noticed'
  <2>1. op[h].at = "sadd" /\ Turned(h, "scard") /\ op[h].user \in User /\ noticed' = noticed
    BY <1>6, Turns, UnderWay DEF Guard!AddDevice, Guard!At, Guard!Step, Guard!history
  <2>0. PICK v \in User : v = op[h].user
    BY <2>1
  <2>2. Expected(v)'
    BY <2>0, <2>1 DEF Expected, Turned
  <2>3. \A u \in User : u # v => devices'[u] = devices[u]
    BY <1>1, <1>6, <2>0 DEF Guard!AddDevice
  <2>4. \A u \in User : Expected(u) => Expected(u)'
    BY <2>1, ExpectedStays DEF Turned
  <2>5. \A u \in User : u # v => (Crowded(u)' => Crowded(u))
    BY <2>3 DEF Crowded
  <2> QED
    BY <1>0, <2>1, <2>2, <2>4, <2>5, NoticedFrom
<1>7. ASSUME NEW h \in Handler, Guard!CountDevices(h)
      PROVE  Noticed'
  <2>1. op[h].user \in User /\ UNCHANGED <<devices, noticed>> /\ op[h].at = "scard"
    BY <1>7, UnderWay DEF Guard!CountDevices, Guard!At, Guard!keys, Guard!history
  <2>0. PICK v \in User : v = op[h].user
    BY <2>1
  <2>2. \A u \in User : u # v => (Expected(u) => Expected(u)')
    BY <1>1, <1>7, <2>0 DEF Expected, Guard!CountDevices, Guard!Goto
  <2>3. Crowded(v) => Expected(v)'
    <3>1. Cardinality(devices[v]) \in Nat /\ SessionIpLimit \in Nat
      BY <1>1, FS_CardinalityType DEF Guard!GuardAssumption
    <3>2. Crowded(v) => Guard!Goto(h, "deviceAlert")
      BY <1>7, <2>0, <3>1, Counting DEF Crowded, Guard!CountDevices
    <3>3. Guard!Goto(h, "deviceAlert") => Turned(h, "deviceAlert")
      BY <2>1, Turns DEF Guard!Step
    <3> QED
      BY <2>0, <3>2, <3>3 DEF Turned, Expected
  <2>4. \A u \in User : Crowded(u)' => Crowded(u)
    BY <2>1 DEF Crowded
  <2> QED
    BY <1>0, <2>1, <2>2, <2>3, <2>4, NoticedFrom
<1>8. ASSUME NEW h \in Handler, Guard!AlertMultiDevice(h)
      PROVE  Noticed'
  <2>1. /\ Guard!Raise(h, "MULTI_DEVICE", "hour") /\ op[h].at = "deviceAlert" /\ "hour" \in Guard!Step
        /\ "MULTI_DEVICE" \in Guard!Kind /\ noticed' = noticed \cup {op[h].user}
    BY <1>8 DEF Guard!AlertMultiDevice, Guard!At, Guard!Step, Guard!Kind
  <2>2. devices' = devices /\ Turned(h, "hour")
    BY <2>1, Raises
  <2>3. \A u \in User : u # op[h].user => (Expected(u) => Expected(u)')
    BY <2>2 DEF Expected, Turned
  <2>4. \A u \in User : Crowded(u)' => Crowded(u)
    BY <2>2 DEF Crowded
  <2> QED
    BY <1>0, <2>1, <2>3, <2>4, NoticedFrom
<1>9. ASSUME NEW h \in Handler, Guard!ForgetDevice(h)
      PROVE  Noticed'
  <2>1. op[h].at = "srem" /\ Turned(h, "idle") /\ op[h].user \in User /\ op[h].ip \in Ip
    BY <1>9, Turns, UnderWay DEF Guard!ForgetDevice, Guard!At
  <2>2. \A u \in User : Expected(u) => Expected(u)'
    BY <2>1, ExpectedStays DEF Turned
  <2>0. PICK v \in User : v = op[h].user
    BY <2>1
  <2>3. devices'[v] = devices[v] \ {op[h].ip} /\ \A u \in User : u # v => devices'[u] = devices[u]
    BY <1>1, <1>9, <2>0 DEF Guard!ForgetDevice
  <2>4. noticed' = IF Cardinality(devices'[v]) <= SessionIpLimit THEN noticed \ {v} ELSE noticed
    BY <1>9, <2>0, Counting DEF Guard!ForgetDevice
  <2>5. Crowded(v)' => Crowded(v) /\ noticed' = noticed
    <3>1. IsFiniteSet(devices[v]) /\ Cardinality(devices'[v]) <= Cardinality(devices[v])
      BY <1>1, <2>3, FS_Subset
    <3>2. Cardinality(devices[v]) \in Nat /\ Cardinality(devices'[v]) \in Nat /\ SessionIpLimit \in Nat
      BY <1>0, <1>1, FS_CardinalityType DEF Guard!GuardAssumption, GuardTyped
    <3>3. ASSUME NEW a \in Nat, NEW b \in Nat, NEW c \in Nat, a <= b, ~(a <= c)
          PROVE  ~(b <= c)
      BY <3>3
    <3>4. Crowded(v)' => Crowded(v)
      BY <3>1, <3>2, <3>3 DEF Crowded
    <3> QED
      BY <2>4, <3>4 DEF Crowded
  <2>6. \A u \in User : u # v => (u \in noticed => u \in noticed')
    BY <2>4
  <2>7. \A u \in User : u # v => (Crowded(u)' => Crowded(u))
    BY <2>3 DEF Crowded
  <2> QED
    BY <1>0, <2>2, <2>5, <2>6, <2>7, NoticedFrom
<1>10. ASSUME NEW h \in Handler, Guard!RequestEnds(h)
       PROVE  Noticed'
  BY <1>0, <1>10 DEF Guard!RequestEnds, Noticed
<1>11. ASSUME NEW i \in Ip, Guard!BruteWindowEnds(i) \/ Guard!BlockEnds(i)
       PROVE  Noticed'
  BY <1>11 DEF Guard!BruteWindowEnds, Guard!BlockEnds, Guard!counts, Noticed, Crowded, Expected
<1>12. ASSUME NEW u \in User, Guard!DevicesForgotten(u) \/ Guard!TicketsEnd(u) \/ Guard!DeleteWindowEnds(u)
       PROVE  Noticed'
  <2>1. CASE Guard!DevicesForgotten(u)
    <3>1. devices'[u] = {} /\ \A v \in User : v # u => devices'[v] = devices[v]
      BY <1>1, <2>1 DEF Guard!DevicesForgotten
    <3>2. ~Crowded(u)'
      BY <3>1, FS_EmptySet DEF Crowded, Guard!GuardAssumption
    <3> QED
      BY <2>1, <3>1, <3>2 DEF Guard!DevicesForgotten, Guard!counts, Noticed, Crowded, Expected
  <2>2. CASE Guard!TicketsEnd(u) \/ Guard!DeleteWindowEnds(u)
    BY <2>2 DEF Guard!TicketsEnd, Guard!DeleteWindowEnds, Guard!history, Guard!counts, Noticed, Crowded, Expected
  <2> QED
    BY <1>12, <2>1, <2>2
<1> QED
  BY GuardSteps, <1>3, <1>4, <1>5, <1>6, <1>7, <1>8, <1>9, <1>10, <1>11, <1>12

(* A counted address of a session is among the devices of its user, or its *)
(* login is about to add it.                                               *)
SignedTyped == signedIn \in [User -> SUBSET Ip] /\ uncounted \in [User -> SUBSET Ip]
Adding(u, i) == \E h \in Handler : op[h].at = "sadd" /\ op[h].user = u /\ op[h].ip = i
Tallied == \A u \in User, i \in Ip : i \in signedIn[u] \ uncounted[u] => i \in devices[u] \/ Adding(u, i) \/ faults > 0

LEMMA AddingStays ==
    ASSUME NEW h \in Handler, \A k \in Handler : k # h => op'[k] = op[k], op[h].at # "sadd", NEW u, NEW i, Adding(u, i)
    PROVE  Adding(u, i)'
  BY DEF Adding

LEMMA TalliedFrom ==
    ASSUME Tallied, faults > 0 => faults' > 0,
           \A u \in User, i \in Ip : i \in signedIn'[u] \ uncounted'[u] =>
               \/ i \in devices'[u] \/ Adding(u, i)'
               \/ /\ i \in signedIn[u] \ uncounted[u] /\ (i \in devices[u] => i \in devices'[u])
                  /\ Adding(u, i) => Adding(u, i)'
    PROVE  Tallied'
  BY DEF Tallied

LEMMA TalliedStep ==
    ASSUME GuardTyped, SignedTyped, Tallied, Guard!Next
    PROVE  SignedTyped' /\ Tallied'
<1>0. faults' >= faults /\ faults \in Nat /\ faults' \in Nat /\ (faults > 0 => faults' > 0)
  BY GuardTypedStep DEF GuardTyped
<1>1. /\ op \in [Handler -> {Guard!idle} \cup LoginRequest] /\ devices \in [User -> SUBSET Ip]
      /\ signedIn \in [User -> SUBSET Ip] /\ uncounted \in [User -> SUBSET Ip]
  BY DEF GuardTyped, SignedTyped
<1>2. ASSUME NEW h \in Handler, op[h].at # "sadd", \A k \in Handler : k # h => op'[k] = op[k],
             UNCHANGED <<devices, signedIn, uncounted>>
      PROVE  SignedTyped' /\ Tallied'
  <2>1. SignedTyped'
    BY <1>2 DEF SignedTyped
  <2> QED
    BY <1>0, <1>2, <2>1, AddingStays, TalliedFrom
<1>3. ASSUME NEW h \in Handler, NEW u \in User, NEW i \in Ip,
             \/ Guard!Login(h, u, i) \/ Guard!VerifyTwoFactor(h, u, i) \/ Guard!VerifyBackupCode(h, u, i)
             \/ Guard!Logout(h, u, i) \/ Guard!DeleteSomething(h, u, i)
      PROVE  SignedTyped' /\ Tallied'
  <2>1. PICK s : Guard!Arrive(h, u, i, s)
    BY <1>3 DEF Guard!Login, Guard!VerifyTwoFactor, Guard!VerifyBackupCode, Guard!Logout, Guard!DeleteSomething
  <2> QED
    BY <1>1, <1>2, <2>1 DEF Guard!Arrive, Guard!At, Guard!keys, Guard!history
<1>4. ASSUME NEW h \in Handler, \/ Guard!CheckIpBlocked(h) \/ Guard!ComparePassword(h) \/ Guard!BlockIp(h) \/ Guard!ClearCount(h)
                                \/ Guard!ResetLoginAttempts(h) \/ Guard!CountDevices(h) \/ Guard!CheckUnusualHour(h)
                                \/ Guard!CheckBulkDelete(h)
      PROVE  SignedTyped' /\ Tallied'
  <2>1. op[h].at # "sadd" /\ UNCHANGED <<devices, signedIn, uncounted>>
    BY <1>4 DEF Guard!CheckIpBlocked, Guard!ComparePassword, Guard!BlockIp, Guard!ClearCount, Guard!ResetLoginAttempts,
                Guard!CountDevices, Guard!CheckUnusualHour, Guard!CheckBulkDelete, Guard!At, Guard!keys, Guard!history
  <2>2. \E s \in Guard!Step : Turned(h, s)
    BY <1>4, Turns DEF Guard!CheckIpBlocked, Guard!ComparePassword, Guard!BlockIp, Guard!ClearCount, Guard!ResetLoginAttempts,
                Guard!CountDevices, Guard!CheckUnusualHour, Guard!CheckBulkDelete, Guard!At, Guard!Step
  <2> QED
    BY <1>2, <2>1, <2>2 DEF Turned
<1>5. ASSUME NEW h \in Handler, Guard!RecordFailedLogin(h)
      PROVE  SignedTyped' /\ Tallied'
  BY <1>1, <1>2, <1>5 DEF Guard!RecordFailedLogin, Guard!At, Guard!Finish
<1>6. ASSUME NEW h \in Handler, \/ Guard!AlertBruteForce(h) \/ Guard!AlertUnusualHour(h) \/ Guard!AlertBulkDelete(h)
                                \/ Guard!AlertMultiDevice(h)
      PROVE  SignedTyped' /\ Tallied'
  <2>1. op[h].at \in {"bruteAlert", "hourAlert", "deleteAlert", "deviceAlert"} /\ UNCHANGED <<signedIn, uncounted>>
    BY <1>6 DEF Guard!AlertBruteForce, Guard!AlertUnusualHour, Guard!AlertBulkDelete, Guard!AlertMultiDevice, Guard!At, Guard!history
  <2>2. PICK kind \in Guard!Kind, s \in Guard!Step : Guard!Raise(h, kind, s)
    BY <1>6 DEF Guard!AlertBruteForce, Guard!AlertUnusualHour, Guard!AlertBulkDelete, Guard!AlertMultiDevice,
                Guard!Kind, Guard!Step
  <2> QED
    BY <1>2, <2>1, <2>2, Raises DEF Turned
<1>7. ASSUME NEW h \in Handler, Guard!RequestEnds(h)
      PROVE  SignedTyped' /\ Tallied'
  BY <1>0, <1>7 DEF Guard!RequestEnds, Guard!history, SignedTyped, Tallied
<1>8. ASSUME NEW h \in Handler, Guard!OpenSession(h)
      PROVE  SignedTyped' /\ Tallied'
  <2>1. op[h].at = "session" /\ Turned(h, "sadd") /\ UNCHANGED <<devices, uncounted>>
    BY <1>8, Turns DEF Guard!OpenSession, Guard!At, Guard!Step, Guard!keys
  <2>2. PICK v \in User, a \in Ip : v = op[h].user /\ a = op[h].ip
    BY <2>1, UnderWay
  <2>3. signedIn' = [signedIn EXCEPT ![v] = @ \cup {a}]
    BY <1>8, <2>2 DEF Guard!OpenSession, Guard!Opens
  <2>4. Adding(v, a)'
    BY <2>1, <2>2 DEF Turned, Adding
  <2>5. \A u \in User, i \in Ip : i \in signedIn'[u] => i \in signedIn[u] \/ (u = v /\ i = a)
    BY <1>1, <2>3
  <2>6. \A u \in User, i \in Ip : Adding(u, i) => Adding(u, i)'
    BY <2>1, AddingStays DEF Turned
  <2>7. SignedTyped'
    BY <1>1, <2>1, <2>3 DEF SignedTyped
  <2> QED
    BY <1>0, <2>1, <2>4, <2>5, <2>6, <2>7, TalliedFrom
<1>9. ASSUME NEW h \in Handler, Guard!OpenByBackupCode(h)
      PROVE  SignedTyped' /\ Tallied'
  <2>1. op[h].at = "backup" /\ Turned(h, "idle") /\ devices' = devices
    BY <1>9, Turns DEF Guard!OpenByBackupCode, Guard!At, Guard!keys
  <2>2. PICK v \in User, a \in Ip : v = op[h].user /\ a = op[h].ip
    BY <2>1, UnderWay
  <2>3. /\ signedIn' = [signedIn EXCEPT ![v] = @ \cup {a}]
        /\ uncounted' = [uncounted EXCEPT ![v] = @ \cup ({a} \ (signedIn[v] \cup devices[v]))]
    BY <1>9, <2>2 DEF Guard!OpenByBackupCode, Guard!Opens
  <2>4. SignedTyped'
    BY <1>1, <2>3 DEF SignedTyped
  <2>5. \A u \in User, i \in Ip : i \in signedIn'[u] \ uncounted'[u] => i \in devices[u] \/ i \in signedIn[u] \ uncounted[u]
    BY <1>1, <2>3
  <2>6. \A u \in User, i \in Ip : Adding(u, i) => Adding(u, i)'
    BY <2>1, AddingStays DEF Turned
  <2> QED
    BY <1>0, <2>1, <2>4, <2>5, <2>6, TalliedFrom
<1>10. ASSUME NEW h \in Handler, Guard!AddDevice(h)
       PROVE  SignedTyped' /\ Tallied'
  <2>1. op[h].at = "sadd" /\ Turned(h, "scard") /\ signedIn' = signedIn
    BY <1>10, Turns DEF Guard!AddDevice, Guard!At, Guard!Step
  <2>2. PICK v \in User, a \in Ip : v = op[h].user /\ a = op[h].ip
    BY <2>1, UnderWay
  <2>3. devices' = [devices EXCEPT ![v] = @ \cup {a}] /\ uncounted' = [uncounted EXCEPT ![v] = @ \ {a}]
    BY <1>10, <2>2 DEF Guard!AddDevice
  <2>4. SignedTyped'
    BY <1>1, <2>1, <2>3 DEF SignedTyped
  <2>5. \A u \in User, i \in Ip : i \in devices[u] \/ (u = v /\ i = a) => i \in devices'[u]
    BY <1>1, <2>3
  <2>6. \A u \in User, i \in Ip : i \notin uncounted'[u] => i \notin uncounted[u] \/ (u = v /\ i = a)
    BY <1>1, <2>3
  <2>7. \A u \in User, i \in Ip : Adding(u, i) => Adding(u, i)' \/ (u = v /\ i = a)
    BY <2>1, <2>2 DEF Turned, Adding
  <2> QED
    BY <1>0, <2>1, <2>4, <2>5, <2>6, <2>7, TalliedFrom
<1>11. ASSUME NEW h \in Handler, Guard!ForgetDevice(h)
       PROVE  SignedTyped' /\ Tallied'
  <2>1. op[h].at = "srem" /\ Turned(h, "idle")
    BY <1>11, Turns DEF Guard!ForgetDevice, Guard!At
  <2>2. PICK v \in User, a \in Ip : v = op[h].user /\ a = op[h].ip
    BY <2>1, UnderWay
  <2>3. /\ devices' = [devices EXCEPT ![v] = @ \ {a}] /\ signedIn' = [signedIn EXCEPT ![v] = @ \ {a}]
        /\ uncounted' = [uncounted EXCEPT ![v] = @ \ {a}]
    BY <1>11, <2>2 DEF Guard!ForgetDevice
  <2>4. SignedTyped'
    BY <1>1, <2>3 DEF SignedTyped
  <2>5. \A u \in User, i \in Ip : i \in signedIn'[u] \ uncounted'[u] =>
            i \in signedIn[u] \ uncounted[u] /\ (i \in devices[u] => i \in devices'[u])
    BY <1>1, <2>3
  <2>6. \A u \in User, i \in Ip : Adding(u, i) => Adding(u, i)'
    BY <2>1, AddingStays DEF Turned
  <2> QED
    BY <1>0, <2>4, <2>5, <2>6, TalliedFrom
<1>12. ASSUME NEW i \in Ip, Guard!BruteWindowEnds(i) \/ Guard!BlockEnds(i)
       PROVE  SignedTyped' /\ Tallied'
  BY <1>12 DEF Guard!BruteWindowEnds, Guard!BlockEnds, Guard!counts, SignedTyped, Tallied, Adding
<1>13. ASSUME NEW u \in User, Guard!TicketsEnd(u) \/ Guard!DeleteWindowEnds(u)
       PROVE  SignedTyped' /\ Tallied'
  BY <1>13 DEF Guard!TicketsEnd, Guard!DeleteWindowEnds, Guard!counts, Guard!history, SignedTyped, Tallied, Adding
<1>14. ASSUME NEW v \in User, Guard!DevicesForgotten(v)
       PROVE  SignedTyped' /\ Tallied'
  <2>1. /\ devices' = [devices EXCEPT ![v] = {}] /\ signedIn' = [signedIn EXCEPT ![v] = {}]
        /\ uncounted' = [uncounted EXCEPT ![v] = {}] /\ op' = op
    BY <1>14 DEF Guard!DevicesForgotten
  <2>2. SignedTyped'
    BY <1>1, <2>1 DEF SignedTyped
  <2>3. \A u \in User, i \in Ip : i \in signedIn'[u] \ uncounted'[u] =>
            i \in signedIn[u] \ uncounted[u] /\ (i \in devices[u] => i \in devices'[u])
    BY <1>1, <2>1
  <2>4. \A u \in User, i \in Ip : Adding(u, i) => Adding(u, i)'
    BY <2>1 DEF Adding
  <2> QED
    BY <1>0, <2>2, <2>3, <2>4, TalliedFrom
<1> QED
  BY <1>3, <1>4, <1>5, <1>6, <1>7, <1>8, <1>9, <1>10, <1>11, <1>12, <1>13, <1>14 DEF Guard!Next, Guard!Request

(* However the logins, their second steps and the logouts of a user
   interleave, for any numbers of users, addresses and requests: once he has
   sessions from too many addresses, those left out that only a backup code
   or the set-up of the second factor opened, an alert was raised, or a login
   of his is about to count or to alert, or a request failed
   (securityMonitor.ts, checkMultiDevice, removeSessionIp; auth.service.ts,
   verifyBackupCode). *)
THEOREM NoDeviceGoesUnnoticed == Spec => []NoDeviceUnnoticed
<1> DEFINE Inv == scene = "login" => GuardTyped /\ Noticed /\ SignedTyped /\ Tallied
<1>1. Init => Inv
  <2>1. Guard!Init => Noticed
    BY FS_EmptySet, CampusAssumption DEF Guard!Init, Noticed, Crowded, CampusAssumption, Guard!GuardAssumption
  <2>2. Guard!Init => SignedTyped /\ Tallied
    BY DEF Guard!Init, SignedTyped, Tallied
  <2> QED
    BY <2>1, <2>2, GuardTypedInit DEF Init
<1>2. Inv /\ [Next]_vars => Inv'
  <2> SUFFICES ASSUME Inv, [Next]_vars, scene' = "login"
               PROVE  GuardTyped' /\ Noticed' /\ SignedTyped' /\ Tallied'
    OBVIOUS
  <2>1. CASE Next
    BY <2>1, Scenes, GuardTypedStep, NoticedStep, TalliedStep, CampusAssumption DEF CampusAssumption
  <2>2. CASE UNCHANGED vars
    BY <2>2 DEF vars, guard, GuardTyped, Noticed, Crowded, Expected, SignedTyped, Tallied, Adding
  <2> QED
    BY <2>1, <2>2
<1>3. Inv => NoDeviceUnnoticed
  <2> SUFFICES ASSUME Inv, scene = "login", NEW u \in User
               PROVE  \/ Guard!Cardinality(signedIn[u] \ uncounted[u]) <= SessionIpLimit
                      \/ u \in noticed \/ faults > 0
                      \/ \E h \in Handler : op[h].at \in {"sadd", "scard", "deviceAlert"} /\ op[h].user = u
    BY DEF NoDeviceUnnoticed, Guard!NoDeviceUnnoticed
  <2>1. CASE \E i \in Ip : Adding(u, i)
    BY <2>1 DEF Adding
  <2>2. CASE faults > 0 \/ u \in noticed \/ Expected(u)
    BY <2>2 DEF Expected
  <2>3. CASE (\A i \in Ip : ~Adding(u, i)) /\ ~(faults > 0) /\ ~Crowded(u)
    <3>1. signedIn[u] \ uncounted[u] \subseteq devices[u] /\ IsFiniteSet(devices[u])
      BY <2>3 DEF Tallied, SignedTyped, GuardTyped
    <3>2. /\ Cardinality(signedIn[u] \ uncounted[u]) <= Cardinality(devices[u])
          /\ IsFiniteSet(signedIn[u] \ uncounted[u])
      BY <3>1, FS_Subset
    <3>3. /\ Cardinality(signedIn[u] \ uncounted[u]) \in Nat /\ Cardinality(devices[u]) \in Nat
          /\ SessionIpLimit \in Nat
      BY <3>1, <3>2, FS_CardinalityType, CampusAssumption DEF CampusAssumption, Guard!GuardAssumption
    <3>4. Cardinality(devices[u]) <= SessionIpLimit
      BY <2>3 DEF Crowded
    <3>5. Cardinality(signedIn[u] \ uncounted[u]) <= SessionIpLimit
      BY <3>2, <3>3, <3>4
    <3> QED
      BY <3>5, Counting
  <2> QED
    BY <2>1, <2>2, <2>3 DEF Noticed
<1> QED
  BY <1>1, <1>2, <1>3, PTL DEF Spec

(* Until an address is blocked, its wrong passwords are counted, and one   *)
(* beyond the limit has a request that is about to block, or that failed.  *)
(* Once it is blocked only those past the check go on.                     *)
Guessing(i) == {h \in Handler : op[h].at \in {"password", "incr"} /\ op[h].ip = i}
Blocking(i) == {h \in Handler : op[h].at = "block" /\ op[h].ip = i}
Before(i) == tried[i] <= brute[i] /\ tried[i] < BruteLimit + Cardinality(Blocking(i)) + faults
After(i) == tried[i] + Cardinality(Guessing(i)) < BruteLimit + Cardinality(Handler) + faults
Limited == \A i \in Ip : IF i \in blocked THEN After(i) ELSE Before(i)
Clearing == \A h \in Handler : op[h].at = "clear" => op[h].ip \in blocked

LEMMA Sizes ==
    /\ IsFiniteSet(Handler) /\ Cardinality(Handler) \in Nat /\ BruteLimit \in Nat /\ BruteLimit > 1
    /\ \A S \in SUBSET Handler : IsFiniteSet(S) /\ Cardinality(S) \in Nat /\ Cardinality(S) <= Cardinality(Handler)
    /\ \A S, T \in SUBSET Handler : S \subseteq T => Cardinality(S) <= Cardinality(T)
    /\ \A S, T \in SUBSET Handler, h \in Handler : S \subseteq T \cup {h} => Cardinality(S) <= Cardinality(T) + 1
    /\ \A S, T \in SUBSET Handler : \A h \in T : S \subseteq T \ {h} => Cardinality(S) + 1 <= Cardinality(T)
    /\ \A S, T \in SUBSET Handler : S \cap T = {} => Cardinality(S) + Cardinality(T) <= Cardinality(Handler)
<1>1. IsFiniteSet(Handler) /\ BruteLimit \in Nat /\ BruteLimit > 1
  BY CampusAssumption, Counting DEF CampusAssumption, Lessons!RegisterAssumption, Guard!GuardAssumption
<1>2. Cardinality(Handler) \in Nat
  BY <1>1, FS_CardinalityType
<1>3. \A S \in SUBSET Handler : IsFiniteSet(S) /\ Cardinality(S) \in Nat /\ Cardinality(S) <= Cardinality(Handler)
  BY <1>1, FS_Subset, FS_CardinalityType
<1>4. \A S, T \in SUBSET Handler : S \subseteq T => Cardinality(S) <= Cardinality(T)
  BY <1>3, FS_Subset
<1>5. ASSUME NEW S \in SUBSET Handler, NEW T \in SUBSET Handler, NEW h \in Handler, S \subseteq T \cup {h}
      PROVE  Cardinality(S) <= Cardinality(T) + 1
  <2>1. T \cup {h} \in SUBSET Handler
    OBVIOUS
  <2>2. Cardinality(S) <= Cardinality(T \cup {h})
    BY <1>4, <1>5, <2>1
  <2>3. Cardinality(T \cup {h}) \in {Cardinality(T), Cardinality(T) + 1}
    BY <1>3, FS_AddElement
  <2>4. Cardinality(S) \in Nat /\ Cardinality(T) \in Nat
    BY <1>3
  <2> QED
    BY <2>2, <2>3, <2>4
<1>6. ASSUME NEW S \in SUBSET Handler, NEW T \in SUBSET Handler, NEW h \in T, S \subseteq T \ {h}
      PROVE  Cardinality(S) + 1 <= Cardinality(T)
  <2>1. T \ {h} \in SUBSET Handler
    OBVIOUS
  <2>2. Cardinality(S) <= Cardinality(T \ {h})
    BY <1>4, <1>6, <2>1
  <2>3. Cardinality(T \ {h}) = Cardinality(T) - 1
    BY <1>3, FS_RemoveElement
  <2>4. Cardinality(S) \in Nat /\ Cardinality(T) \in Nat
    BY <1>3
  <2> QED
    BY <2>2, <2>3, <2>4
<1>7. ASSUME NEW S \in SUBSET Handler, NEW T \in SUBSET Handler, S \cap T = {}
      PROVE  Cardinality(S) + Cardinality(T) <= Cardinality(Handler)
  <2>1. IsFiniteSet(S) /\ IsFiniteSet(T) /\ S \cup T \in SUBSET Handler
    BY <1>3
  <2>2. Cardinality(S \cup T) = Cardinality(S) + Cardinality(T) - Cardinality(S \cap T)
    BY <2>1, FS_Union
  <2>3. Cardinality(S \cap T) = 0
    BY <1>7, FS_EmptySet
  <2>4. Cardinality(S) \in Nat /\ Cardinality(T) \in Nat /\ Cardinality(S \cup T) <= Cardinality(Handler)
    BY <1>3, <2>1
  <2> QED
    BY <1>2, <2>2, <2>3, <2>4
<1> QED
  BY <1>1, <1>2, <1>3, <1>4, <1>5, <1>6, <1>7

LEMMA Groups ==
    /\ \A i : Guessing(i) \in SUBSET Handler /\ Blocking(i) \in SUBSET Handler /\ Guessing(i) \cap Blocking(i) = {}
    /\ \A i : Guessing(i)' \in SUBSET Handler /\ Blocking(i)' \in SUBSET Handler
  BY DEF Guessing, Blocking

(* Who leaves the counts of an address alone keeps its limit.              *)
LEMMA LimitStays ==
    ASSUME GuardTyped, GuardTyped', NEW i \in Ip, IF i \in blocked THEN After(i) ELSE Before(i),
           tried'[i] = tried[i], brute'[i] = brute[i], i \in blocked' <=> i \in blocked, faults' >= faults,
           i \in blocked => Guessing(i)' \subseteq Guessing(i),
           Blocking(i) \subseteq Blocking(i)' \/ (faults' = faults + 1 /\ \E h \in Handler : Blocking(i) \subseteq Blocking(i)' \cup {h})
    PROVE  IF i \in blocked' THEN After(i)' ELSE Before(i)'
<1>1. tried[i] \in Nat /\ brute[i] \in Nat /\ faults \in Nat /\ faults' \in Nat
  BY DEF GuardTyped
<1>2. /\ Cardinality(Guessing(i)) \in Nat /\ Cardinality(Guessing(i)') \in Nat
      /\ Cardinality(Blocking(i)) \in Nat /\ Cardinality(Blocking(i)') \in Nat
      /\ Cardinality(Handler) \in Nat /\ BruteLimit \in Nat
  BY Sizes, Groups
<1>3. CASE i \in blocked
  <2>1. Cardinality(Guessing(i)') <= Cardinality(Guessing(i))
    BY <1>3, Sizes, Groups
  <2>2. \A t, g, k, l, n, f, e \in Nat : t + g < l + n + f /\ k <= g /\ e >= f => t + k < l + n + e
    OBVIOUS
  <2>3. After(i)'
    BY <1>1, <1>2, <1>3, <2>1, <2>2 DEF After
  <2> QED
    BY <1>3, <2>3
<1>4. CASE i \notin blocked
  <2>1. \/ Cardinality(Blocking(i)) <= Cardinality(Blocking(i)')
        \/ faults' = faults + 1 /\ Cardinality(Blocking(i)) <= Cardinality(Blocking(i)') + 1
    BY Sizes, Groups
  <2>2. \A t, b, c, l, f, e \in Nat : t < l + b + f /\ ((b <= c /\ e >= f) \/ (e = f + 1 /\ b <= c + 1)) => t < l + c + e
    OBVIOUS
  <2>3. Before(i)'
    BY <1>1, <1>2, <1>4, <2>1, <2>2 DEF Before
  <2> QED
    BY <1>4, <2>3
<1> QED
  BY <1>3, <1>4

(* A request that neither guesses nor blocks goes on; or it fails.         *)
LEMMA CalmStep ==
    ASSUME GuardTyped, GuardTyped', Limited, Clearing, faults' >= faults, UNCHANGED <<brute, blocked, tried>>,
           NEW h \in Handler, \A k \in Handler : k # h => op'[k] = op[k],
           op[h].at = "block" => faults' = faults + 1,
           op'[h].at \notin {"password", "incr", "block", "clear"}
    PROVE  Limited' /\ Clearing'
<1>1. ASSUME NEW i \in Ip
      PROVE  IF i \in blocked' THEN After(i)' ELSE Before(i)'
  <2>1. Guessing(i)' \subseteq Guessing(i)
    BY DEF Guessing
  <2>2. Blocking(i) \subseteq Blocking(i)' \/ (faults' = faults + 1 /\ Blocking(i) \subseteq Blocking(i)' \cup {h})
    BY DEF Blocking
  <2> QED
    BY <2>1, <2>2, LimitStays DEF Limited
<1>2. Clearing'
  BY DEF Clearing
<1> QED
  BY <1>1, <1>2 DEF Limited

(* An address forgiven has its whole limit again.                          *)
LEMMA Forgiven ==
    ASSUME GuardTyped', NEW i \in Ip, tried'[i] = 0
    PROVE  IF i \in blocked' THEN After(i)' ELSE Before(i)'
<1>1. /\ Cardinality(Guessing(i)') \in Nat /\ Cardinality(Blocking(i)') \in Nat /\ Cardinality(Handler) \in Nat
      /\ Cardinality(Guessing(i)') <= Cardinality(Handler) /\ BruteLimit \in Nat /\ BruteLimit > 1
      /\ faults' \in Nat /\ brute'[i] \in Nat
  BY Sizes, Groups DEF GuardTyped
<1>2. \A g, n, l, f \in Nat : g <= n /\ l > 1 => 0 + g < l + n + f
  OBVIOUS
<1>3. \A b, l, f \in Nat : l > 1 => 0 < l + b + f
  OBVIOUS
<1>4. \A b \in Nat : 0 <= b
  OBVIOUS
<1> QED
  BY <1>1, <1>2, <1>3, <1>4 DEF After, Before

LEMMA GuessStep ==
    ASSUME GuardTyped, Limited, Clearing, NEW h \in Handler, Guard!RecordFailedLogin(h), GuardTyped'
    PROVE  Limited' /\ Clearing'
<1>0. op[h].at = "incr" /\ faults' = faults /\ blocked' = blocked /\ op[h].ip \in Ip
  BY UnderWay DEF Guard!RecordFailedLogin, Guard!At, Guard!counts
<1>1. PICK i \in Ip : i = op[h].ip
  BY <1>0
<1>2. /\ brute'[i] = brute[i] + 1 /\ tried'[i] = tried[i] + 1
      /\ \A j \in Ip : j # i => brute'[j] = brute[j] /\ tried'[j] = tried[j]
  BY <1>1 DEF Guard!RecordFailedLogin, GuardTyped
<1>3. /\ \A k \in Handler : k # h => op'[k] = op[k]
      /\ brute[i] + 1 >= BruteLimit => op'[h].at = "block" /\ op'[h].ip = i
      /\ op'[h].at \in {"idle", "block"} /\ (op'[h].at = "block" => op'[h].ip = i)
  <2>1. op[h] \in LoginRequest /\ op \in [Handler -> {Guard!idle} \cup LoginRequest]
    BY <1>0, UnderWay DEF GuardTyped
  <2>2. CASE brute[i] + 1 >= BruteLimit
    <3>1. op' = [op EXCEPT ![h] = [op[h] EXCEPT !.at = "block", !.n = brute[i] + 1]]
      BY <1>1, <2>2 DEF Guard!RecordFailedLogin
    <3>2. op'[h] = [op[h] EXCEPT !.at = "block", !.n = brute[i] + 1]
      BY <2>1, <3>1
    <3> QED
      BY <1>1, <2>1, <3>1, <3>2 DEF LoginRequest
  <2>3. CASE ~(brute[i] + 1 >= BruteLimit)
    BY <1>1, <2>1, <2>3 DEF Guard!RecordFailedLogin, Guard!Finish, Guard!idle
  <2> QED
    BY <2>2, <2>3
<1>4. /\ tried[i] \in Nat /\ brute[i] \in Nat /\ faults \in Nat
      /\ Cardinality(Guessing(i)) \in Nat /\ Cardinality(Guessing(i)') \in Nat
      /\ Cardinality(Blocking(i)) \in Nat /\ Cardinality(Blocking(i)') \in Nat
      /\ Cardinality(Handler) \in Nat /\ BruteLimit \in Nat
  BY Sizes, Groups DEF GuardTyped
<1>5. ASSUME i \in blocked
      PROVE  After(i)'
  <2>1. After(i) /\ h \in Guessing(i)
    BY <1>0, <1>1, <1>5 DEF Limited, Guessing
  <2>2. Guessing(i)' \subseteq Guessing(i) \ {h}
    BY <1>3 DEF Guessing
  <2>3. Cardinality(Guessing(i)') + 1 <= Cardinality(Guessing(i))
    BY <2>1, <2>2, Sizes, Groups
  <2>4. \A t, g, k, l, n, f \in Nat : t + g < l + n + f /\ k + 1 <= g => (t + 1) + k < l + n + f
    OBVIOUS
  <2>5. tried[i] + Cardinality(Guessing(i)) < BruteLimit + Cardinality(Handler) + faults
    BY <2>1 DEF After
  <2>6. (tried[i] + 1) + Cardinality(Guessing(i)') < BruteLimit + Cardinality(Handler) + faults
    BY <1>4, <2>3, <2>4, <2>5
  <2> QED
    BY <1>0, <1>2, <2>6 DEF After
<1>6. ASSUME i \notin blocked
      PROVE  Before(i)'
  <2>1. Before(i) /\ Blocking(i) \subseteq Blocking(i)'
    BY <1>0, <1>3, <1>6 DEF Limited, Blocking
  <2>2. Cardinality(Blocking(i)) <= Cardinality(Blocking(i)')
    BY <2>1, Sizes, Groups
  <2>3. tried[i] <= brute[i] /\ tried[i] < BruteLimit + Cardinality(Blocking(i)) + faults
    BY <2>1 DEF Before
  <2>4. tried[i] + 1 <= brute[i] + 1
    BY <1>4, <2>3
  <2>5. CASE brute[i] + 1 >= BruteLimit
    <3>1. h \in Blocking(i)' /\ Blocking(i) \subseteq Blocking(i)' \ {h}
      BY <1>0, <1>3, <2>1, <2>5 DEF Blocking
    <3>2. Cardinality(Blocking(i)) + 1 <= Cardinality(Blocking(i)')
      BY <3>1, Sizes, Groups
    <3>3. \A t, b, c, l, f \in Nat : t < l + b + f /\ b + 1 <= c => t + 1 < l + c + f
      OBVIOUS
    <3>4. tried[i] + 1 < BruteLimit + Cardinality(Blocking(i)') + faults
      BY <1>4, <2>3, <3>2, <3>3
    <3> QED
      BY <1>0, <1>2, <2>4, <3>4 DEF Before
  <2>6. CASE ~(brute[i] + 1 >= BruteLimit)
    <3>1. \A t, b, c, l, f \in Nat : t <= b /\ ~(b + 1 >= l) => t + 1 < l + c + f
      OBVIOUS
    <3>2. tried[i] + 1 < BruteLimit + Cardinality(Blocking(i)') + faults
      BY <1>4, <2>3, <2>6, <3>1
    <3> QED
      BY <1>0, <1>2, <2>4, <3>2 DEF Before
  <2> QED
    BY <2>5, <2>6
<1>7. ASSUME NEW j \in Ip, j # i
      PROVE  IF j \in blocked' THEN After(j)' ELSE Before(j)'
  <2>1. Guessing(j)' \subseteq Guessing(j) /\ Blocking(j) \subseteq Blocking(j)'
    BY <1>0, <1>1, <1>3, <1>7 DEF Guessing, Blocking
  <2>2. faults' >= faults
    BY <1>0, <1>4
  <2> QED
    BY <1>0, <1>2, <1>7, <2>1, <2>2, LimitStays DEF Limited
<1>8. Clearing'
  BY <1>0, <1>3 DEF Clearing
<1> QED
  BY <1>0, <1>5, <1>6, <1>7, <1>8 DEF Limited

LEMMA BlockStep ==
    ASSUME GuardTyped, Limited, Clearing, NEW h \in Handler, Guard!BlockIp(h), GuardTyped'
    PROVE  Limited' /\ Clearing'
<1>0. /\ op[h].at = "block" /\ UNCHANGED <<brute, tried, faults>> /\ blocked' = blocked \cup {op[h].ip}
      /\ Turned(h, "clear") /\ op[h].ip \in Ip
  BY Turns, UnderWay DEF Guard!BlockIp, Guard!At, Guard!Step, Guard!history, Guard!counts
<1>1. PICK i \in Ip : i = op[h].ip
  BY <1>0
<1>2. /\ \A k \in Handler : k # h => op'[k] = op[k]
      /\ op'[h].at = "clear" /\ op'[h].ip = i
  BY <1>0, <1>1 DEF Turned
<1>3. /\ tried[i] \in Nat /\ brute[i] \in Nat /\ faults \in Nat
      /\ Cardinality(Guessing(i)) \in Nat /\ Cardinality(Guessing(i)') \in Nat
      /\ Cardinality(Blocking(i)) \in Nat /\ Cardinality(Handler) \in Nat /\ BruteLimit \in Nat
  BY Sizes, Groups DEF GuardTyped
<1>4. After(i)
  <2>1. CASE i \in blocked
    BY <2>1 DEF Limited
  <2>2. CASE i \notin blocked
    <3>1. tried[i] < BruteLimit + Cardinality(Blocking(i)) + faults
      BY <2>2 DEF Limited, Before
    <3>2. Cardinality(Guessing(i)) + Cardinality(Blocking(i)) <= Cardinality(Handler)
      BY Sizes, Groups
    <3>3. \A t, g, b, l, n, f \in Nat : t < l + b + f /\ g + b <= n => t + g < l + n + f
      OBVIOUS
    <3> QED
      BY <1>3, <3>1, <3>2, <3>3 DEF After
  <2> QED
    BY <2>1, <2>2
<1>5. After(i)'
  <2>1. Guessing(i)' \subseteq Guessing(i)
    BY <1>2 DEF Guessing
  <2>2. Cardinality(Guessing(i)') <= Cardinality(Guessing(i))
    BY <2>1, Sizes, Groups
  <2>3. \A t, g, k, l, n, f \in Nat : t + g < l + n + f /\ k <= g => t + k < l + n + f
    OBVIOUS
  <2>4. tried[i] + Cardinality(Guessing(i)') < BruteLimit + Cardinality(Handler) + faults
    BY <1>3, <1>4, <2>2, <2>3 DEF After
  <2> QED
    BY <1>0, <2>4 DEF After
<1>6. ASSUME NEW j \in Ip, j # i
      PROVE  IF j \in blocked' THEN After(j)' ELSE Before(j)'
  <2>1. Guessing(j)' \subseteq Guessing(j) /\ Blocking(j) \subseteq Blocking(j)'
    BY <1>0, <1>1, <1>2, <1>6 DEF Guessing, Blocking
  <2>2. (j \in blocked' <=> j \in blocked) /\ faults' >= faults
    BY <1>0, <1>1, <1>3, <1>6
  <2> QED
    BY <1>0, <2>1, <2>2, LimitStays DEF Limited
<1>7. Clearing'
  BY <1>0, <1>1, <1>2 DEF Clearing
<1> QED
  BY <1>0, <1>1, <1>5, <1>6, <1>7 DEF Limited

LEMMA LimitedStep ==
    ASSUME GuardTyped, Limited, Clearing, Guard!Next
    PROVE  Limited' /\ Clearing'
<1>0. GuardTyped' /\ faults' >= faults /\ faults \in Nat
  BY GuardTypedStep DEF GuardTyped
<1>1. ASSUME NEW h \in Handler, Untouched, Elsewhere(h)
      PROVE  Limited' /\ Clearing'
  <2>1. UNCHANGED <<brute, blocked, tried>>
    BY <1>1 DEF Untouched
  <2>2. /\ \A k \in Handler : k # h => op'[k] = op[k]
        /\ op[h].at # "block" /\ op'[h].at \notin {"password", "incr", "block", "clear"}
    BY <1>1 DEF Elsewhere, Turned
  <2> QED
    BY <1>0, <2>1, <2>2, CalmStep
<1>2. ASSUME NEW h \in Handler, Guard!CountDevices(h) \/ Guard!AddDevice(h) \/ Guard!ForgetDevice(h) \/ Guard!RequestEnds(h)
      PROVE  Limited' /\ Clearing'
  <2>1. \E s \in {"scard", "deviceAlert", "hour", "idle"} : Turned(h, s)
    BY <1>2, Turns DEF Guard!CountDevices, Guard!AddDevice, Guard!ForgetDevice, Guard!RequestEnds, Guard!At, Guard!Step
  <2>2. UNCHANGED <<brute, blocked, tried>> /\ (op[h].at = "block" => faults' = faults + 1)
    BY <1>2 DEF Guard!CountDevices, Guard!AddDevice, Guard!ForgetDevice, Guard!RequestEnds, Guard!At,
                Guard!keys, Guard!history
  <2> QED
    BY <1>0, <2>1, <2>2, CalmStep DEF Turned
<1>3. ASSUME NEW h \in Handler, Guard!AlertMultiDevice(h)
      PROVE  Limited' /\ Clearing'
  <2>1. Guard!Raise(h, "MULTI_DEVICE", "hour") /\ op[h].at = "deviceAlert" /\ "hour" \in Guard!Step /\ "MULTI_DEVICE" \in Guard!Kind /\ tried' = tried
    BY <1>3 DEF Guard!AlertMultiDevice, Guard!At, Guard!Step, Guard!Kind
  <2>2. UNCHANGED <<brute, blocked>> /\ Turned(h, "hour")
    BY <2>1, Raises
  <2> QED
    BY <1>0, <2>1, <2>2, CalmStep DEF Turned
<1>4. ASSUME NEW h \in Handler, Guard!CheckIpBlocked(h)
      PROVE  Limited' /\ Clearing'
  <2>1. op[h].at = "check" /\ UNCHANGED <<brute, blocked, tried, faults>> /\ op[h].ip \in Ip
    BY <1>4, UnderWay DEF Guard!CheckIpBlocked, Guard!At, Guard!keys, Guard!history, Guard!counts
  <2>2. CASE op[h].ip \in blocked
    <3>1. Turned(h, "idle")
      BY <1>4, <2>2, Turns DEF Guard!CheckIpBlocked
    <3> QED
      BY <1>0, <2>1, <3>1, CalmStep DEF Turned
  <2>3. CASE op[h].ip \notin blocked
    <3>1. Turned(h, "password")
      BY <1>4, <2>1, <2>3, Turns DEF Guard!CheckIpBlocked, Guard!Step
    <3>2. ASSUME NEW i \in Ip
          PROVE  IF i \in blocked' THEN After(i)' ELSE Before(i)'
      <4>1. i \in blocked => Guessing(i)' \subseteq Guessing(i)
        BY <2>3, <3>1 DEF Guessing, Turned
      <4>2. Blocking(i) \subseteq Blocking(i)'
        BY <2>1, <3>1 DEF Blocking, Turned
      <4> QED
        BY <1>0, <2>1, <4>1, <4>2, LimitStays DEF Limited
    <3>3. Clearing'
      BY <2>1, <3>1 DEF Clearing, Turned
    <3> QED
      BY <3>2, <3>3 DEF Limited
  <2> QED
    BY <2>2, <2>3
<1>5. ASSUME NEW h \in Handler, Guard!ComparePassword(h)
      PROVE  Limited' /\ Clearing'
  <2>1. op[h].at = "password" /\ UNCHANGED <<brute, blocked, tried, faults>>
    BY <1>5 DEF Guard!ComparePassword, Guard!At, Guard!keys, Guard!history, Guard!counts
  <2>2. Turned(h, "incr") \/ Turned(h, "reset")
    BY <1>5, <2>1, Turns DEF Guard!ComparePassword, Guard!Step
  <2>3. ASSUME NEW i \in Ip
        PROVE  IF i \in blocked' THEN After(i)' ELSE Before(i)'
    <3>1. Guessing(i)' \subseteq Guessing(i) /\ Blocking(i) \subseteq Blocking(i)'
      BY <2>1, <2>2 DEF Guessing, Blocking, Turned
    <3> QED
      BY <1>0, <2>1, <3>1, LimitStays DEF Limited
  <2>4. Clearing'
    BY <2>1, <2>2 DEF Clearing, Turned
  <2> QED
    BY <2>3, <2>4 DEF Limited
<1>6. ASSUME NEW h \in Handler, Guard!ClearCount(h)
      PROVE  Limited' /\ Clearing'
  <2>1. op[h].at = "clear" /\ UNCHANGED <<blocked, tried, faults>> /\ op[h].ip \in Ip /\ Turned(h, "bruteAlert")
    BY <1>6, Turns, UnderWay DEF Guard!ClearCount, Guard!At, Guard!Step, Guard!history, Guard!counts
  <2>2. op[h].ip \in blocked /\ \A i \in Ip : i \notin blocked => brute'[i] = brute[i]
    BY <1>6, <2>1 DEF Clearing, Guard!ClearCount, GuardTyped
  <2>3. ASSUME NEW i \in Ip
        PROVE  IF i \in blocked' THEN After(i)' ELSE Before(i)'
    <3>1. Guessing(i)' = Guessing(i) /\ Blocking(i)' = Blocking(i)
      BY <2>1 DEF Guessing, Blocking, Turned
    <3> QED
      BY <2>1, <2>2, <3>1 DEF Limited, After, Before
  <2>4. Clearing'
    BY <2>1 DEF Clearing, Turned
  <2> QED
    BY <2>3, <2>4 DEF Limited
<1>7. ASSUME NEW h \in Handler, Guard!ResetLoginAttempts(h)
      PROVE  Limited' /\ Clearing'
  <2>1. op[h].at = "reset" /\ UNCHANGED <<blocked, faults>> /\ op[h].ip \in Ip /\ (Turned(h, "session") \/ Turned(h, "idle"))
    BY <1>7, Turns, UnderWay DEF Guard!ResetLoginAttempts, Guard!At, Guard!Step, Guard!counts
  <2>2. /\ tried'[op[h].ip] = 0 /\ \A i \in Ip : i # op[h].ip => tried'[i] = tried[i] /\ brute'[i] = brute[i]
    BY <1>7, <2>1 DEF Guard!ResetLoginAttempts, GuardTyped
  <2>3. ASSUME NEW i \in Ip
        PROVE  IF i \in blocked' THEN After(i)' ELSE Before(i)'
    <3>1. Guessing(i)' \subseteq Guessing(i) /\ Blocking(i) \subseteq Blocking(i)'
      BY <2>1 DEF Guessing, Blocking, Turned
    <3>2. CASE i = op[h].ip
      BY <1>0, <2>2, <3>2, Forgiven
    <3>3. CASE i # op[h].ip
      BY <1>0, <2>1, <2>2, <3>1, <3>3, LimitStays DEF Limited
    <3> QED
      BY <3>2, <3>3
  <2>4. Clearing'
    BY <2>1 DEF Clearing, Turned
  <2> QED
    BY <2>3, <2>4 DEF Limited
<1>8. ASSUME NEW j \in Ip, Guard!BruteWindowEnds(j) \/ Guard!BlockEnds(j)
      PROVE  Limited' /\ Clearing'
  <2>1. /\ op' = op /\ faults' = faults /\ tried'[j] = 0
        /\ \A i \in Ip : i # j => tried'[i] = tried[i] /\ brute'[i] = brute[i] /\ (i \in blocked' <=> i \in blocked)
    BY <1>8 DEF Guard!BruteWindowEnds, Guard!BlockEnds, Guard!counts, GuardTyped
  <2>2. ASSUME NEW i \in Ip
        PROVE  IF i \in blocked' THEN After(i)' ELSE Before(i)'
    <3>1. Guessing(i)' \subseteq Guessing(i) /\ Blocking(i) \subseteq Blocking(i)'
      BY <2>1 DEF Guessing, Blocking
    <3>2. CASE i = j
      BY <1>0, <2>1, <3>2, Forgiven
    <3>3. CASE i # j
      BY <1>0, <2>1, <3>1, <3>3, LimitStays DEF Limited
    <3> QED
      BY <3>2, <3>3
  <2>3. Clearing'
    BY <1>8, <2>1 DEF Clearing, Guard!BruteWindowEnds, Guard!BlockEnds, Guard!At
  <2> QED
    BY <2>2, <2>3 DEF Limited
<1>9. ASSUME NEW u \in User, Guard!DevicesForgotten(u) \/ Guard!TicketsEnd(u) \/ Guard!DeleteWindowEnds(u)
      PROVE  Limited' /\ Clearing'
  BY <1>9 DEF Guard!DevicesForgotten, Guard!TicketsEnd, Guard!DeleteWindowEnds, Guard!history, Guard!counts, Limited, Clearing, After, Before, Guessing, Blocking
<1> QED
  BY GuardSteps, <1>0, <1>1, <1>2, <1>3, <1>4, <1>5, <1>6, <1>7, <1>8, <1>9, GuessStep, BlockStep

(* An address gets at most one wrong password short of the limit, and one
   for each request that may be under way, before it is forgiven, whatever
   the interleaving of check, counter, block and reset; a request that fails
   costs one more (securityMonitor.ts, checkIpBlocked, recordFailedLogin,
   resetLoginAttempts). *)
THEOREM GuessesAreBounded == Spec => []GuessesBounded
<1> DEFINE Inv == scene = "login" => GuardTyped /\ Limited /\ Clearing
<1>1. Init => Inv
  <2> SUFFICES ASSUME Init
               PROVE  GuardTyped /\ Limited /\ Clearing
    OBVIOUS
  <2>1. /\ GuardTyped /\ faults = 0 /\ blocked = {}
        /\ \A i \in Ip : tried[i] = 0 /\ brute[i] = 0
        /\ \A h \in Handler : op[h].at = "idle"
    BY GuardTypedInit DEF Init, Guard!Init, Guard!idle
  <2>2. ASSUME NEW i \in Ip
        PROVE  Before(i)
    <3>1. Cardinality(Blocking(i)) \in Nat /\ BruteLimit \in Nat /\ BruteLimit > 1
      BY Sizes, Groups
    <3>2. \A b, l \in Nat : l > 1 => 0 <= 0 /\ 0 < l + b + 0
      OBVIOUS
    <3> QED
      BY <2>1, <3>1, <3>2 DEF Before
  <2> QED
    BY <2>1, <2>2 DEF Limited, Clearing
<1>2. Inv /\ [Next]_vars => Inv'
  <2> SUFFICES ASSUME Inv, [Next]_vars, scene' = "login"
               PROVE  GuardTyped' /\ Limited' /\ Clearing'
    OBVIOUS
  <2>1. CASE Next
    BY <2>1, Scenes, GuardTypedStep, LimitedStep
  <2>2. CASE UNCHANGED vars
    BY <2>2 DEF vars, guard, GuardTyped, Limited, Clearing, After, Before, Guessing, Blocking
  <2> QED
    BY <2>1, <2>2
<1>3. Inv => GuessesBounded
  <2> SUFFICES ASSUME GuardTyped, Limited, NEW i \in Ip
               PROVE  tried[i] <= BruteLimit - 1 + Cardinality(Handler) + faults
    BY Counting DEF GuessesBounded, Guard!GuessesBounded
  <2>1. /\ tried[i] \in Nat /\ faults \in Nat /\ Cardinality(Guessing(i)) \in Nat /\ Cardinality(Handler) \in Nat
        /\ Cardinality(Blocking(i)) \in Nat /\ Cardinality(Blocking(i)) <= Cardinality(Handler) /\ BruteLimit \in Nat
    BY Sizes, Groups DEF GuardTyped
  <2>2. CASE i \in blocked
    <3>1. tried[i] + Cardinality(Guessing(i)) < BruteLimit + Cardinality(Handler) + faults
      BY <2>2 DEF Limited, After
    <3> QED
      BY <2>1, <3>1
  <2>3. CASE i \notin blocked
    <3>1. tried[i] < BruteLimit + Cardinality(Blocking(i)) + faults
      BY <2>3 DEF Limited, Before
    <3> QED
      BY <2>1, <3>1
  <2> QED
    BY <2>2, <2>3
<1> QED
  BY <1>1, <1>2, <1>3, PTL DEF Spec

-----------------------------------------------------------------------------
(* The notifications.  The rows of a list have consecutive ids, so a row   *)
(* of one of its recipients that is newer than one of them is newer than   *)
(* all, was stored while the list waited for its re-read, and has marked   *)
(* them as passed.                                                         *)
NoticeRow == [to : Reader, pushed : Nat, passed : BOOLEAN]
Sending ==
    {Bulletin!idle}
    \cup [at : {"insert"}, to : Seq(Reader), one : BOOLEAN]
    \cup [at : {"emit", "reread"}, to : Seq(Reader), ids : SUBSET Nat]

NoticesTyped == rows \in Seq(NoticeRow) /\ op \in [Handler -> Sending]

(* The rows of list lie at ids, one for each recipient.                    *)
StoredAt(list, ids) ==
    \E b \in Nat :
        /\ b + Len(list) <= Len(rows)
        /\ ids = (b + 1)..(b + Len(list))
        /\ \A k \in 1..Len(list) : rows[b + k].to = list[k]

Storing(h) == op[h].at \in {"emit", "reread"}
ListsStored == \A h \in Handler : Storing(h) => StoredAt(op[h].to, op[h].ids)

(* Newer rows for one of its recipients have passed a list.                *)
NewerPass ==
    \A h \in Handler : op[h].at = "reread" =>
        \A i \in op[h].ids, j \in DOMAIN rows :
            j > i /\ j \notin op[h].ids /\ rows[j].to \in Bulletin!Members(op[h].to) => rows[i].passed

NoticesInv == NoticesTyped /\ ListsStored /\ NewerPass /\ Bulletin!UnpushedExplained

(* Nothing is stored at first.                                             *)
LEMMA NoticesInit == ASSUME Bulletin!Init PROVE NoticesInv
<1>1. NoticesTyped
  BY DEF Bulletin!Init, NoticesTyped, Sending
<1> QED
  BY <1>1 DEF Bulletin!Init, Bulletin!idle, NoticesInv, ListsStored, NewerPass, Storing,
         Bulletin!UnpushedExplained, Bulletin!Ids

LEMMA Senders ==
    ASSUME NoticesTyped, NEW h \in Handler
    PROVE  /\ op[h].at \in {"idle", "insert", "emit", "reread"}
           /\ op[h].at # "idle" => op[h].to \in Seq(Reader)
           /\ Storing(h) => op[h].ids \subseteq Nat
  BY DEF NoticesTyped, Sending, Bulletin!idle, Storing

LEMMA RowFields ==
    ASSUME NoticesTyped
    PROVE  \A i \in 1..Len(rows) : rows[i].pushed \in Nat
<1> TAKE i \in 1..Len(rows)
<1>1. rows[i] \in NoticeRow
  BY DEF NoticesTyped
<1> QED
  BY <1>1 DEF NoticeRow

(* How a request moves on.                                                 *)
Sent(h, s) ==
    /\ op' \in [Handler -> Sending]
    /\ op'[h].at = s /\ \A g \in Handler : g # h => op'[g] = op[g]

LEMMA Lists ==
    ASSUME NEW list \in Bulletin!Lists
    PROVE  list \in Seq(Reader)
<1>1. \A u \in Reader : <<u>> \in Seq(Reader)
  OBVIOUS
<1>2. \A u, v \in Reader : <<u, v>> \in Seq(Reader)
  OBVIOUS
<1>3. CASE list \in {<<u>> : u \in Reader}
  BY <1>1, <1>3
<1>4. CASE list \in {<<u, v>> : u, v \in Reader}
  <2>1. PICK u \in Reader, v \in Reader : list = <<u, v>>
    BY <1>4
  <2> QED
    BY <1>2, <2>1
<1> QED
  BY <1>3, <1>4 DEF Bulletin!Lists

LEMMA Finishes ==
    ASSUME NoticesTyped, NEW h \in Handler, Bulletin!Finish(h)
    PROVE  Sent(h, "idle")
  BY DEF NoticesTyped, Bulletin!Finish, Sent, Sending, Bulletin!idle

LEMMA Begins ==
    ASSUME NoticesTyped, NEW h \in Handler, NEW list \in Seq(Reader), NEW one \in BOOLEAN,
           Bulletin!Begin(h, [at |-> "insert", to |-> list, one |-> one])
    PROVE  op[h].at = "idle" /\ Sent(h, "insert")
<1>1. [at |-> "insert", to |-> list, one |-> one] \in Sending
  BY DEF Sending
<1>2. [at |-> "insert", to |-> list, one |-> one].at = "insert"
  OBVIOUS
<1> DEFINE r == [at |-> "insert", to |-> list, one |-> one]
<1>3. op' = [op EXCEPT ![h] = r] /\ op[h].at = "idle"
  BY DEF Bulletin!Begin, Bulletin!At
<1> HIDE DEF r
<1> QED
  BY <1>1, <1>2, <1>3 DEF NoticesTyped, Sent, r

(* What a step does.                                                       *)
LEMMA NoticeSteps ==
    ASSUME NoticesTyped, Bulletin!Next
    PROVE  \E h \in Handler :
              \/ op[h].at = "idle" /\ Sent(h, "insert") /\ UNCHANGED <<rows, faults, lost>>
              \/ Bulletin!InsertRows(h) \/ Bulletin!EmitOne(h) \/ Bulletin!EmitNewest(h)
              \/ Bulletin!CallFails(h)
<1>1. PICK h \in Handler :
        \/ \E u \in Reader : Bulletin!Create(h, u)
        \/ \E list \in Bulletin!Lists : Bulletin!CreateMany(h, list) \/ Bulletin!NotifyAdmins(h, list)
        \/ Bulletin!InsertRows(h) \/ Bulletin!EmitOne(h) \/ Bulletin!EmitNewest(h)
        \/ Bulletin!CallFails(h)
  BY DEF Bulletin!Next
<1>2. ASSUME NEW u \in Reader, Bulletin!Create(h, u)
      PROVE  op[h].at = "idle" /\ Sent(h, "insert") /\ UNCHANGED <<rows, faults, lost>>
  <2>1. <<u>> \in Seq(Reader) /\ TRUE \in BOOLEAN
    OBVIOUS
  <2>2. Bulletin!Begin(h, [at |-> "insert", to |-> <<u>>, one |-> TRUE]) /\ UNCHANGED <<rows, faults, lost>>
    BY <1>2 DEF Bulletin!Create
  <2> QED
    BY <2>1, <2>2, Begins, Zenon
<1>3. ASSUME NEW list \in Bulletin!Lists, Bulletin!CreateMany(h, list)
      PROVE  op[h].at = "idle" /\ Sent(h, "insert") /\ UNCHANGED <<rows, faults, lost>>
  BY <1>3, Begins, Lists DEF Bulletin!CreateMany
<1>4. \A list : Bulletin!NotifyAdmins(h, list) => Bulletin!CreateMany(h, list)
  BY DEF Bulletin!NotifyAdmins
<1> QED
  BY <1>1, <1>2, <1>3, <1>4

(* One list after another.                                                 *)
LEMMA Joined ==
    ASSUME NEW S, NEW s \in Seq(S), NEW t \in Seq(S)
    PROVE  /\ s \o t \in Seq(S) /\ Len(s \o t) = Len(s) + Len(t)
           /\ \A i \in 1..Len(s) : (s \o t)[i] = s[i]
           /\ \A k \in 1..Len(t) : (s \o t)[Len(s) + k] = t[k]
  OBVIOUS

(* What the insertion of the rows of a list does.                          *)
LEMMA Stores ==
    ASSUME NoticesTyped, NEW h \in Handler, Bulletin!InsertRows(h)
    PROVE  LET list == op[h].to IN
           /\ Sent(h, IF op[h].one THEN "emit" ELSE "reread")
           /\ op'[h].to = list /\ op'[h].ids = (Len(rows) + 1)..(Len(rows) + Len(list))
           /\ rows' \in Seq(NoticeRow) /\ Len(rows') = Len(rows) + Len(list)
           /\ \A i \in 1..Len(rows) :
                /\ rows'[i].to = rows[i].to /\ rows'[i].pushed = rows[i].pushed
                /\ rows[i].passed \/ i \in Bulletin!PassedBy(list) => rows'[i].passed
           /\ \A k \in 1..Len(list) : rows'[Len(rows) + k].to = list[k] /\ rows'[Len(rows) + k].pushed = 0
<1> DEFINE list == op[h].to
           ids == (Len(rows) + 1)..(Len(rows) + Len(list))
           marked(i) == IF i \in Bulletin!PassedBy(list) THEN [rows[i] EXCEPT !.passed = TRUE] ELSE rows[i]
           stored == [i \in 1..Len(rows) |-> marked(i)]
           added == [k \in 1..Len(list) |-> Bulletin!Row(list[k])]
           request == [at |-> IF op[h].one THEN "emit" ELSE "reread", to |-> list, ids |-> ids]
<1>1. list \in Seq(Reader) /\ rows \in Seq(NoticeRow) /\ op \in [Handler -> Sending]
  BY Senders DEF Bulletin!InsertRows, Bulletin!At, NoticesTyped
<1>2. rows' = stored \o added
  <2>1. Bulletin!Ids = 1..Len(rows)
    BY <1>1 DEF Bulletin!Ids
  <2>2. rows' = [i \in Bulletin!Ids |-> marked(i)] \o added
    BY Zenon DEF Bulletin!InsertRows
  <2> QED
    BY <2>1, <2>2, Zenon
<1>3. op' = [op EXCEPT ![h] = request]
  BY DEF Bulletin!InsertRows
<1>4. ASSUME NEW i \in 1..Len(rows)
      PROVE  /\ marked(i) \in NoticeRow
             /\ marked(i).to = rows[i].to /\ marked(i).pushed = rows[i].pushed
             /\ rows[i].passed \/ i \in Bulletin!PassedBy(list) => marked(i).passed
  <2>1. rows[i] \in NoticeRow
    BY <1>1
  <2> QED
    BY <2>1 DEF NoticeRow
<1> HIDE DEF marked
<1>5. stored \in Seq(NoticeRow) /\ Len(stored) = Len(rows) /\ \A i \in 1..Len(rows) : stored[i] = marked(i)
  BY <1>1, <1>4
<1>6. ASSUME NEW k \in 1..Len(list)
      PROVE  Bulletin!Row(list[k]) \in NoticeRow /\ Bulletin!Row(list[k]).to = list[k] /\ Bulletin!Row(list[k]).pushed = 0
  BY <1>1 DEF Bulletin!Row, NoticeRow
<1>7. added \in Seq(NoticeRow) /\ Len(added) = Len(list) /\ \A k \in 1..Len(list) : added[k].to = list[k] /\ added[k].pushed = 0
  BY <1>1, <1>6
<1> HIDE DEF stored, added
<1>8. /\ rows' \in Seq(NoticeRow) /\ Len(rows') = Len(rows) + Len(list)
      /\ \A i \in 1..Len(rows) : rows'[i] = stored[i]
      /\ \A k \in 1..Len(list) : rows'[Len(rows) + k] = added[k]
  <2>1. stored \in Seq(NoticeRow) /\ added \in Seq(NoticeRow) /\ Len(stored) = Len(rows) /\ Len(added) = Len(list)
    BY <1>5, <1>7
  <2> HIDE DEF list
  <2>2. /\ stored \o added \in Seq(NoticeRow) /\ Len(stored \o added) = Len(stored) + Len(added)
        /\ \A i \in 1..Len(stored) : (stored \o added)[i] = stored[i]
        /\ \A k \in 1..Len(added) : (stored \o added)[Len(stored) + k] = added[k]
    <3> DEFINE Follows(s, t) == 
          /\ s \o t \in Seq(NoticeRow) /\ Len(s \o t) = Len(s) + Len(t)
          /\ \A i \in 1..Len(s) : (s \o t)[i] = s[i]
          /\ \A k \in 1..Len(t) : (s \o t)[Len(s) + k] = t[k]
    <3>1. \A s, t \in Seq(NoticeRow) : Follows(s, t)
      BY Joined
    <3> HIDE DEF Follows
    <3>2. Follows(stored, added)
      BY <2>1, <3>1
    <3> QED
      BY <3>2, Zenon DEF Follows
  <2> QED
    BY <1>2, <2>1, <2>2, Zenon
<1>9. request \in Sending
  <2>1. ids \in SUBSET Nat
    BY <1>1
  <2>2. (IF op[h].one THEN "emit" ELSE "reread") \in {"emit", "reread"}
    OBVIOUS
  <2> HIDE DEF ids, list
  <2> QED
    BY <1>1, <2>1, <2>2 DEF Sending
<1>10. request.at = (IF op[h].one THEN "emit" ELSE "reread") /\ request.to = list /\ request.ids = ids
  OBVIOUS
<1> HIDE DEF request, ids
<1>11. /\ Sent(h, IF op[h].one THEN "emit" ELSE "reread")
       /\ op'[h].to = list /\ op'[h].ids = ids
  BY <1>1, <1>3, <1>9, <1>10 DEF Sent
<1> QED
  BY <1>4, <1>5, <1>7, <1>8, <1>11 DEF ids

(* What a push does.                                                       *)
LEMMA Pushes ==
    ASSUME NoticesTyped, NEW ids, Bulletin!Push(ids)
    PROVE  /\ rows' \in Seq(NoticeRow) /\ Len(rows') = Len(rows)
           /\ \A i \in 1..Len(rows) :
                /\ rows'[i].to = rows[i].to /\ rows'[i].passed = rows[i].passed
                /\ rows'[i].pushed = IF i \in ids THEN rows[i].pushed + 1 ELSE rows[i].pushed
<1> DEFINE pushed(i) == IF i \in ids THEN [rows[i] EXCEPT !.pushed = @ + 1] ELSE rows[i]
<1>1. rows \in Seq(NoticeRow) /\ Bulletin!Ids = 1..Len(rows)
  BY DEF NoticesTyped, Bulletin!Ids
<1>2. rows' = [i \in 1..Len(rows) |-> pushed(i)]
  BY <1>1, Zenon DEF Bulletin!Push
<1>3. ASSUME NEW i \in 1..Len(rows)
      PROVE  /\ pushed(i) \in NoticeRow
             /\ pushed(i).to = rows[i].to /\ pushed(i).passed = rows[i].passed
             /\ pushed(i).pushed = IF i \in ids THEN rows[i].pushed + 1 ELSE rows[i].pushed
  <2>1. rows[i] \in NoticeRow
    BY <1>1
  <2> QED
    BY <2>1 DEF NoticeRow
<1> HIDE DEF pushed
<1>4. Len(rows) \in Nat
  BY <1>1
<1>5. rows' \in Seq(NoticeRow) /\ Len(rows') = Len(rows) /\ \A i \in 1..Len(rows) : rows'[i] = pushed(i)
  BY <1>2, <1>3, <1>4
<1> QED
  BY <1>3, <1>5

(* No row is lost or loses its owner or a push.                            *)
Grown ==
    /\ rows' \in Seq(NoticeRow) /\ Len(rows') >= Len(rows)
    /\ \A i \in 1..Len(rows) :
        /\ rows'[i].to = rows[i].to /\ rows'[i].pushed >= rows[i].pushed
        /\ rows[i].passed => rows'[i].passed

LEMMA StoredStays ==
    ASSUME NoticesTyped, Grown, NEW list \in Seq(Reader), NEW ids, StoredAt(list, ids)
    PROVE  StoredAt(list, ids)'
<1>1. PICK b \in Nat : /\ b + Len(list) <= Len(rows)
                       /\ ids = (b + 1)..(b + Len(list))
                       /\ \A k \in 1..Len(list) : rows[b + k].to = list[k]
  BY DEF StoredAt
<1>2. Len(rows) \in Nat /\ Len(rows') \in Nat /\ Len(list) \in Nat
  BY DEF NoticesTyped, Grown
<1>3. b + Len(list) <= Len(rows')
  BY <1>1, <1>2 DEF Grown
<1>4. ASSUME NEW k \in 1..Len(list)
      PROVE  rows'[b + k].to = list[k]
  <2>1. b + k \in 1..Len(rows)
    BY <1>1, <1>2
  <2> QED
    BY <1>1, <2>1 DEF Grown
<1> QED
  BY <1>1, <1>3, <1>4 DEF StoredAt

(* The ids of a list are those of rows.                                    *)
LEMMA StoredIds ==
    ASSUME NoticesTyped, ListsStored, NEW h \in Handler, Storing(h), NEW i \in op[h].ids
    PROVE  i \in 1..Len(rows) /\ rows[i].to \in Bulletin!Members(op[h].to)
<1>1. op[h].to \in Seq(Reader)
  BY Senders DEF Storing
<1>2. PICK b \in Nat : /\ b + Len(op[h].to) <= Len(rows)
                       /\ op[h].ids = (b + 1)..(b + Len(op[h].to))
                       /\ \A k \in 1..Len(op[h].to) : rows[b + k].to = op[h].to[k]
  BY DEF ListsStored, StoredAt
<1>3. Len(rows) \in Nat /\ Len(op[h].to) \in Nat
  BY <1>1 DEF NoticesTyped
<1>4. i - b \in 1..Len(op[h].to) /\ i \in 1..Len(rows) /\ b + (i - b) = i
  BY <1>2, <1>3
<1>5. rows[i].to = op[h].to[i - b]
  BY <1>2, <1>4
<1>6. i - b \in DOMAIN op[h].to
  BY <1>1, <1>4
<1> QED
  BY <1>4, <1>5, <1>6 DEF Bulletin!Members

(* A request that goes on or ends leaves the lists of the others.          *)
LEMMA OthersSend ==
    ASSUME NoticesInv, NEW h \in Handler, NEW s \in {"idle", "insert"}, Sent(h, s), Grown, Len(rows') = Len(rows)
    PROVE  NoticesTyped' /\ ListsStored' /\ NewerPass'
<1>1. NoticesTyped'
  BY DEF NoticesInv, NoticesTyped, Grown, Sent
<1>2. ASSUME NEW g \in Handler, Storing(g)'
      PROVE  op'[g] = op[g] /\ Storing(g) /\ op[g].to \in Seq(Reader) /\ g # h
  BY <1>2, Senders DEF Storing, Sent, NoticesInv
<1>3. ListsStored'
  BY <1>2, StoredStays DEF ListsStored, NoticesInv
<1>4. NewerPass'
  <2> SUFFICES ASSUME NEW g \in Handler, op'[g].at = "reread", NEW i \in op'[g].ids, NEW j \in DOMAIN rows',
                      j > i, j \notin op'[g].ids, rows'[j].to \in Bulletin!Members(op'[g].to)
               PROVE  rows'[i].passed
    BY DEF NewerPass, Bulletin!Members
  <2>1. op'[g] = op[g] /\ Storing(g)
    BY <1>2 DEF Storing
  <2>2. DOMAIN rows' = 1..Len(rows) /\ DOMAIN rows = 1..Len(rows)
    BY DEF NoticesInv, NoticesTyped, Grown
  <2>3. i \in 1..Len(rows)
    BY <2>1, StoredIds DEF NoticesInv
  <2>4. rows[j].to \in Bulletin!Members(op[g].to)
    BY <2>1, <2>2 DEF Grown
  <2>5. rows[i].passed
    BY <2>1, <2>2, <2>4 DEF NoticesInv, NewerPass
  <2> QED
    BY <2>3, <2>5 DEF Grown
<1> QED
  BY <1>1, <1>3, <1>4

(* A row nobody has passed is among the newest of its recipients.          *)
LEMMA NewestHas ==
    ASSUME NoticesInv, NEW h \in Handler, op[h].at = "reread", NEW i \in op[h].ids, ~rows[i].passed
    PROVE  i \in Bulletin!Newest(UNION {Bulletin!Own(u) : u \in Bulletin!Members(op[h].to)}, Len(op[h].to))
<1> DEFINE list == op[h].to
           mine == UNION {Bulletin!Own(u) : u \in Bulletin!Members(list)}
           newer == {j \in mine : j > i}
<1>0. NoticesTyped /\ ListsStored /\ NewerPass /\ Storing(h)
  BY DEF NoticesInv, Storing
<1>1. list \in Seq(Reader) /\ Len(list) \in Nat
  BY <1>0, Senders DEF Storing
<1>2. PICK b \in Nat : op[h].ids = (b + 1)..(b + Len(list))
  BY <1>0 DEF ListsStored, StoredAt
<1>3. i \in Bulletin!Ids /\ rows[i].to \in Bulletin!Members(list) /\ i \in Nat
  BY <1>0, StoredIds DEF NoticesTyped, Bulletin!Ids
<1>4. i \in mine
  BY <1>3 DEF Bulletin!Own
<1>5. ASSUME NEW j \in newer
      PROVE  j \in op[h].ids \ {i}
  <2>1. j \in DOMAIN rows /\ rows[j].to \in Bulletin!Members(list) /\ j > i
    BY <1>5 DEF Bulletin!Own, Bulletin!Ids
  <2>2. j \in Nat
    BY <2>1 DEF NoticesInv, NoticesTyped
  <2> QED
    BY <1>0, <1>3, <2>1, <2>2 DEF NewerPass
<1>6. IsFiniteSet(op[h].ids) /\ Cardinality(op[h].ids) = Len(list)
  <2>1. b + 1 <= b + Len(list) + 1 /\ b + 1 \in Int /\ b + Len(list) \in Int
    BY <1>1
  <2>2. \A m, n \in Int : m <= n + 1 => IsFiniteSet(m..n) /\ Cardinality(m..n) = n - m + 1
    BY FS_Interval
  <2>3. (b + Len(list)) - (b + 1) + 1 = Len(list)
    BY <1>1
  <2> QED
    BY <1>2, <2>1, <2>2, <2>3
<1>7. IsFiniteSet(op[h].ids \ {i}) /\ Cardinality(op[h].ids \ {i}) = Len(list) - 1
  BY <1>6, FS_RemoveElement
<1>8. newer \subseteq op[h].ids \ {i}
  BY <1>5
<1>9. IsFiniteSet(newer) /\ Cardinality(newer) <= Cardinality(op[h].ids \ {i})
  BY <1>7, <1>8, FS_Subset
<1>10. Cardinality(newer) \in Nat
  BY <1>9, FS_CardinalityType
<1>11. Bulletin!Cardinality(newer) < Len(list)
  BY <1>1, <1>7, <1>9, <1>10, Counting
<1> QED
  BY <1>4, <1>11 DEF Bulletin!Newest

(* A request that has pushed its rows leaves nothing unexplained.          *)
LEMMA PushStep ==
    ASSUME NoticesInv, NEW h \in Handler, NEW ids, Storing(h), Bulletin!Push(ids), Bulletin!Finish(h), UNCHANGED lost,
           \A i \in op[h].ids : rows[i].passed \/ i \in ids
    PROVE  NoticesInv'
<1>0. NoticesTyped /\ ListsStored /\ Bulletin!UnpushedExplained
  BY DEF NoticesInv
<1>1. Sent(h, "idle")
  BY <1>0, Finishes
<1>2. /\ rows' \in Seq(NoticeRow) /\ Len(rows') = Len(rows)
      /\ \A i \in 1..Len(rows) :
           /\ rows'[i].to = rows[i].to /\ rows'[i].passed = rows[i].passed
           /\ rows'[i].pushed = IF i \in ids THEN rows[i].pushed + 1 ELSE rows[i].pushed
  BY <1>0, Pushes
<1>3. \A i \in 1..Len(rows) : rows[i].pushed \in Nat
  BY <1>0, RowFields
<1>4. Grown
  BY <1>0, <1>2, <1>3 DEF Grown, NoticesTyped
<1>5. NoticesTyped' /\ ListsStored' /\ NewerPass'
  BY <1>1, <1>2, <1>4, OthersSend
<1>6. Bulletin!UnpushedExplained'
  <2> SUFFICES ASSUME NEW i \in DOMAIN rows', rows'[i].pushed = 0
               PROVE  \/ \E g \in Handler : op'[g].at \in {"reread", "emit"} /\ i \in op'[g].ids
                      \/ rows'[i].passed
                      \/ i \in lost'
    BY DEF Bulletin!UnpushedExplained, Bulletin!Ids
  <2>1. i \in 1..Len(rows) /\ i \in DOMAIN rows
    BY <1>0, <1>2 DEF NoticesTyped
  <2>2. i \notin ids /\ rows[i].pushed = 0
    BY <1>2, <1>3, <2>1
  <2>3. CASE \E g \in Handler : op[g].at \in {"reread", "emit"} /\ i \in op[g].ids
    BY <1>1, <1>2, <2>1, <2>2, <2>3 DEF Sent
  <2> QED
    BY <1>0, <1>2, <2>1, <2>2, <2>3 DEF Bulletin!UnpushedExplained, Bulletin!Ids
<1> QED
  BY <1>5, <1>6 DEF NoticesInv

(* A request that begins or fails.                                         *)
LEMMA OtherStep ==
    ASSUME NoticesInv, NEW h \in Handler, NEW s \in {"idle", "insert"}, Sent(h, s), UNCHANGED rows,
           lost \subseteq lost', Storing(h) => op[h].ids \subseteq lost'
    PROVE  NoticesInv'
<1>0. NoticesTyped /\ Bulletin!UnpushedExplained
  BY DEF NoticesInv
<1>1. \A i \in 1..Len(rows) : rows[i].pushed \in Nat
  BY <1>0, RowFields
<1>2. Grown
  BY <1>0, <1>1 DEF Grown, NoticesTyped
<1>3. NoticesTyped' /\ ListsStored' /\ NewerPass'
  BY <1>2, OthersSend
<1>4. Bulletin!UnpushedExplained'
  <2>1. \A g \in Handler : op[g].at \in {"reread", "emit"} => Storing(g) /\ (g # h => op'[g] = op[g])
    BY DEF Storing, Sent
  <2> QED
    BY <1>0, <2>1 DEF Bulletin!UnpushedExplained, Bulletin!Ids
<1> QED
  BY <1>3, <1>4 DEF NoticesInv

(* The insertion of a list marks what it passes.                           *)
LEMMA InsertStep ==
    ASSUME NoticesInv, NEW h \in Handler, Bulletin!InsertRows(h)
    PROVE  NoticesInv'
<1> DEFINE list == op[h].to
<1>0. NoticesTyped /\ ListsStored /\ NewerPass /\ Bulletin!UnpushedExplained
  BY DEF NoticesInv
<1>1. /\ Sent(h, IF op[h].one THEN "emit" ELSE "reread")
      /\ op'[h].to = list /\ op'[h].ids = (Len(rows) + 1)..(Len(rows) + Len(list))
      /\ rows' \in Seq(NoticeRow) /\ Len(rows') = Len(rows) + Len(list)
      /\ \A i \in 1..Len(rows) :
           /\ rows'[i].to = rows[i].to /\ rows'[i].pushed = rows[i].pushed
           /\ rows[i].passed \/ i \in Bulletin!PassedBy(list) => rows'[i].passed
      /\ \A k \in 1..Len(list) : rows'[Len(rows) + k].to = list[k]
  BY <1>0, Stores
<1>2. /\ op[h].at = "insert" /\ list \in Seq(Reader) /\ Len(list) \in Nat /\ Len(rows) \in Nat
      /\ op'[h].at \in {"emit", "reread"} /\ lost' = lost
      /\ \A g \in Handler : g # h => op'[g] = op[g]
  <2>1. op[h].at = "insert" /\ lost' = lost
    BY DEF Bulletin!InsertRows, Bulletin!At
  <2>2. list \in Seq(Reader)
    BY <1>0, <2>1, Senders
  <2> QED
    BY <1>0, <1>1, <2>1, <2>2 DEF NoticesTyped, Sent
<1> HIDE DEF list
<1>3. \A i \in 1..Len(rows) : rows[i].pushed \in Nat
  BY <1>0, RowFields
<1>4. Grown
  BY <1>1, <1>2, <1>3 DEF Grown
<1>5. NoticesTyped'
  BY <1>1 DEF NoticesTyped, Sent
<1>6. ListsStored'
  <2> SUFFICES ASSUME NEW g \in Handler, op'[g].at \in {"emit", "reread"}
               PROVE  \E b \in Nat :
                        /\ b + Len(op'[g].to) <= Len(rows')
                        /\ op'[g].ids = (b + 1)..(b + Len(op'[g].to))
                        /\ \A k \in 1..Len(op'[g].to) : rows'[b + k].to = op'[g].to[k]
    BY DEF ListsStored, Storing, StoredAt
  <2>1. CASE g = h
    <3>1. op'[g].to = list /\ op'[g].ids = (Len(rows) + 1)..(Len(rows) + Len(list))
      BY <1>1, <2>1
    <3>2. Len(rows) + Len(list) <= Len(rows')
      BY <1>1, <1>2
    <3>3. \A k \in 1..Len(list) : rows'[Len(rows) + k].to = list[k]
      BY <1>1
    <3> QED
      BY <1>2, <3>1, <3>2, <3>3
  <2>2. CASE g # h
    <3>1. op'[g] = op[g] /\ Storing(g) /\ op[g].to \in Seq(Reader) /\ StoredAt(op[g].to, op[g].ids)
      BY <1>0, <1>2, <2>2, Senders DEF ListsStored, Storing
    <3>2. \A l, ids : l = op[g].to /\ ids = op[g].ids => StoredAt(l, ids)'
      BY <1>0, <1>4, <3>1, StoredStays
    <3>3. \A l, ids : l = op[g].to /\ ids = op[g].ids =>
            \E b \in Nat :
               /\ b + Len(l) <= Len(rows')
               /\ ids = (b + 1)..(b + Len(l))
               /\ \A k \in 1..Len(l) : rows'[b + k].to = l[k]
      BY <3>2, Zenon DEF StoredAt
    <3> QED
      BY <3>1, <3>3, Zenon
  <2> QED
    BY <2>1, <2>2
<1>7. NewerPass'
  <2> SUFFICES ASSUME NEW g \in Handler, op'[g].at = "reread", NEW i \in op'[g].ids, NEW j \in DOMAIN rows',
                      j > i, j \notin op'[g].ids, rows'[j].to \in Bulletin!Members(op'[g].to)
               PROVE  rows'[i].passed
    BY DEF NewerPass, Bulletin!Members
  <2>1. j \in 1..(Len(rows) + Len(list))
    BY <1>1
  <2>2. g # h
    BY <1>1, <1>2, <2>1
  <2>3. op'[g] = op[g] /\ Storing(g) /\ op[g].at = "reread"
    BY <1>2, <2>2 DEF Storing
  <2>4. i \in 1..Len(rows) /\ rows[i].to \in Bulletin!Members(op[g].to)
    BY <1>0, <2>3, StoredIds
  <2>5. CASE j \in 1..Len(rows)
    <3>1. j \in DOMAIN rows /\ rows[j].to \in Bulletin!Members(op[g].to)
      BY <1>1, <1>2, <2>3, <2>5 DEF NoticesTyped
    <3>2. rows[i].passed
      BY <1>0, <2>3, <3>1 DEF NewerPass
    <3> QED
      BY <1>1, <2>4, <3>2
  <2>6. CASE j \notin 1..Len(rows)
    <3>1. j - Len(rows) \in 1..Len(list) /\ Len(rows) + (j - Len(rows)) = j
      BY <1>2, <2>1, <2>6
    <3>2. rows'[j].to = list[j - Len(rows)] /\ j - Len(rows) \in DOMAIN list
      BY <1>1, <1>2, <3>1
    <3>3. rows'[j].to \in Bulletin!Members(list)
      BY <3>2 DEF Bulletin!Members
    <3>4. Bulletin!Members(op[g].to) \cap Bulletin!Members(list) # {}
      BY <2>3, <3>3
    <3>5. i \in Bulletin!PassedBy(list)
      BY <2>3, <3>4 DEF Bulletin!PassedBy, Bulletin!At
    <3> QED
      BY <1>1, <2>4, <3>5
  <2> QED
    BY <2>5, <2>6
<1>8. Bulletin!UnpushedExplained'
  <2> SUFFICES ASSUME NEW i \in DOMAIN rows', rows'[i].pushed = 0
               PROVE  \/ \E g \in Handler : op'[g].at \in {"reread", "emit"} /\ i \in op'[g].ids
                      \/ rows'[i].passed
                      \/ i \in lost'
    BY DEF Bulletin!UnpushedExplained, Bulletin!Ids
  <2>1. i \in 1..(Len(rows) + Len(list)) /\ DOMAIN rows = 1..Len(rows)
    BY <1>0, <1>1 DEF NoticesTyped
  <2>2. CASE i \in 1..Len(rows)
    <3>1. rows[i].pushed = 0 /\ i \in DOMAIN rows
      BY <1>1, <2>1, <2>2
    <3>2. \/ \E g \in Handler : op[g].at \in {"reread", "emit"} /\ i \in op[g].ids
          \/ rows[i].passed
          \/ i \in lost
      BY <1>0, <3>1 DEF Bulletin!UnpushedExplained, Bulletin!Ids
    <3> QED
      BY <1>1, <1>2, <2>2, <3>2
  <2>3. CASE i \notin 1..Len(rows)
    <3>1. i \in (Len(rows) + 1)..(Len(rows) + Len(list))
      BY <1>2, <2>1, <2>3
    <3> QED
      BY <1>1, <1>2, <3>1
  <2> QED
    BY <2>2, <2>3
<1> QED
  BY <1>5, <1>6, <1>7, <1>8 DEF NoticesInv

LEMMA NoticesStep == ASSUME NoticesInv, Bulletin!Next PROVE NoticesInv'
<1>0. NoticesTyped
  BY DEF NoticesInv
<1>1. PICK h \in Handler :
        \/ op[h].at = "idle" /\ Sent(h, "insert") /\ UNCHANGED <<rows, faults, lost>>
        \/ Bulletin!InsertRows(h) \/ Bulletin!EmitOne(h) \/ Bulletin!EmitNewest(h)
        \/ Bulletin!CallFails(h)
  BY <1>0, NoticeSteps
<1>2. CASE op[h].at = "idle" /\ Sent(h, "insert") /\ UNCHANGED <<rows, faults, lost>>
  BY <1>2, OtherStep DEF Storing
<1>3. CASE Bulletin!InsertRows(h)
  BY <1>3, InsertStep
<1>4. CASE Bulletin!EmitOne(h)
  BY <1>4, PushStep DEF Bulletin!EmitOne, Bulletin!At, Storing
<1>5. CASE Bulletin!EmitNewest(h)
  <2> DEFINE ids == Bulletin!Newest(UNION {Bulletin!Own(u) : u \in Bulletin!Members(op[h].to)}, Len(op[h].to))
  <2>1. op[h].at = "reread" /\ Storing(h) /\ Bulletin!Push(ids) /\ Bulletin!Finish(h) /\ lost' = lost
    BY <1>5 DEF Bulletin!EmitNewest, Bulletin!At, Storing
  <2>2. \A i \in op[h].ids : rows[i].passed \/ i \in ids
    BY <2>1, NewestHas
  <2> HIDE DEF ids
  <2> QED
    BY <2>1, <2>2, PushStep
<1>6. CASE Bulletin!CallFails(h)
  <2>1. Sent(h, "idle") /\ rows' = rows
    BY <1>0, <1>6, Finishes DEF Bulletin!CallFails
  <2>2. lost \subseteq lost' /\ (Storing(h) => op[h].ids \subseteq lost')
    BY <1>6 DEF Bulletin!CallFails, Bulletin!At, Storing
  <2> QED
    BY <2>1, <2>2, OtherStep
<1> QED
  BY <1>1, <1>2, <1>3, <1>4, <1>5, <1>6

(* A stored notification nobody was told of was passed by a newer one of   *)
(* one of its recipients between the insert and the re-read, or its        *)
(* request failed, or is about to push it (notification.service.ts,        *)
(* createMany).                                                            *)
THEOREM UnpushedHasAReason == Spec => []UnpushedExplained
<1> DEFINE Inv == scene = "notices" => NoticesInv
<1>1. Init => Inv
  BY NoticesInit DEF Init
<1>2. Inv /\ [Next]_vars => Inv'
  <2> SUFFICES ASSUME Inv, [Next]_vars, scene' = "notices"
               PROVE  NoticesInv'
    OBVIOUS
  <2>1. CASE Next
    BY <2>1, Scenes, NoticesStep
  <2>2. CASE UNCHANGED vars
    BY <2>2 DEF vars, notices, NoticesInv, NoticesTyped, ListsStored, NewerPass, Storing, StoredAt,
                Bulletin!UnpushedExplained, Bulletin!Ids
  <2> QED
    BY <2>1, <2>2
<1>3. Inv => UnpushedExplained
  BY DEF NoticesInv, UnpushedExplained
<1> QED
  BY <1>1, <1>2, <1>3, PTL DEF Spec

-----------------------------------------------------------------------------
(* The rooms.  What is on the wire of a client will leave the room as the  *)
(* page wants it, and when nothing is on the wire, the room and the checks *)
(* under way do; a connection that is not up has neither.                  *)
WireTyped == wire \in [Client -> Seq({"join", "leave"})]
SocketTyped ==
    /\ WireTyped
    /\ checks \in [Client -> Nat] /\ link \in [Client -> {"out", "up", "down", "off"}]

(* The last message on the wire of a client says what the page is.         *)
LastWord(c) ==
    wire[c] # <<>> /\ link[c] \in {"up", "down"} => (wire[c][Len(wire[c])] = "join" <=> c \in page)

(* The server knows nothing of a client without a connection.              *)
Forgotten(c) ==
    /\ link[c] \in {"out", "down"} => checks[c] = 0 /\ c \notin room
    /\ link[c] = "out" => wire[c] = <<>>

(* Nobody comes in whose page is closed, but for an overtaken leave.       *)
StaysOut(c) ==
    link[c] = "up" /\ wire[c] = <<>> /\ c \notin page \cup overtaken => checks[c] = 0 /\ c \notin room

(* Whose page is open is in or comes in, but for a break.                  *)
ComesIn(c) ==
    link[c] \in {"up", "down"} /\ wire[c] = <<>> /\ c \in page \ cut =>
        checks[c] > 0 \/ (Gateway!MayJoinCourse(c) => c \in room)

RoomInv == SocketTyped /\ \A c \in Client : LastWord(c) /\ Forgotten(c) /\ StaysOut(c) /\ ComesIn(c)

(* Nothing is on the wire at first.                                        *)
LEMMA RoomInit == ASSUME Gateway!Init PROVE RoomInv
  BY DEF Gateway!Init, RoomInv, SocketTyped, WireTyped, LastWord, Forgotten, StaysOut, ComesIn

(* What a message that is sent, and one that arrives, makes of the wire.   *)
LEMMA Messages ==
    ASSUME NEW w \in Seq({"join", "leave"}), NEW m \in {"join", "leave"}
    PROVE  /\ Append(w, m) \in Seq({"join", "leave"}) /\ Append(w, m) # <<>>
           /\ Append(w, m)[Len(Append(w, m))] = m
           /\ <<m>> \in Seq({"join", "leave"}) /\ <<m>> # <<>> /\ <<m>>[Len(<<m>>)] = m
           /\ w # <<>> => Tail(w) \in Seq({"join", "leave"})
           /\ w # <<>> /\ Tail(w) # <<>> => Tail(w)[Len(Tail(w))] = w[Len(w)]
           /\ w # <<>> /\ Tail(w) = <<>> => Head(w) = w[Len(w)]
<1>1. Append(w, m) \in Seq({"join", "leave"}) /\ Append(w, m) # <<>> /\ Append(w, m)[Len(Append(w, m))] = m
  OBVIOUS
<1>2. <<m>> \in Seq({"join", "leave"}) /\ <<m>> # <<>> /\ <<m>>[Len(<<m>>)] = m
  OBVIOUS
<1>3. ASSUME w # <<>>
      PROVE  /\ Len(w) > 0 /\ Tail(w) \in Seq({"join", "leave"}) /\ Len(Tail(w)) = Len(w) - 1
             /\ \A k \in 1..(Len(w) - 1) : Tail(w)[k] = w[k + 1]
             /\ Head(w) = w[1]
  BY <1>3
<1>4. w # <<>> /\ Tail(w) # <<>> => Tail(w)[Len(Tail(w))] = w[Len(w)]
  <2> SUFFICES ASSUME w # <<>>, Tail(w) # <<>> PROVE Tail(w)[Len(Tail(w))] = w[Len(w)]
    OBVIOUS
  <2>1. Len(Tail(w)) > 0
    BY <1>3
  <2> QED
    BY <1>3, <2>1
<1>5. w # <<>> /\ Tail(w) = <<>> => Head(w) = w[Len(w)]
  <2> SUFFICES ASSUME w # <<>>, Tail(w) = <<>> PROVE Head(w) = w[Len(w)]
    OBVIOUS
  <2>1. Len(Tail(w)) = 0
    <3>1. Len(<<>>) = 0
      OBVIOUS
    <3> QED
      BY <3>1, Zenon
  <2>2. Len(w) = 1
    BY <1>3, <2>1
  <2> QED
    BY <1>3, <2>2
<1> QED
  BY <1>1, <1>2, <1>3, <1>4, <1>5

(* A message that is sent says what the page becomes.                      *)
LEMMA SendStep ==
    ASSUME SocketTyped, NEW c \in Client, NEW m \in {"join", "leave"}, Gateway!Send(c, m)
    PROVE  /\ WireTyped'
           /\ \A d \in Client : d # c => wire'[d] = wire[d]
           /\ link[c] \in {"up", "down"} => wire'[c] # <<>> /\ wire'[c][Len(wire'[c])] = m
           /\ link[c] \notin {"up", "down"} => wire'[c] = wire[c]
  BY Messages DEF SocketTyped, WireTyped, Gateway!Send

LEMMA ArriveStep ==
    ASSUME SocketTyped, NEW c \in Client, NEW m \in {"join", "leave"}, Gateway!Arrives(c, m)
    PROVE  /\ WireTyped' /\ link[c] = "up"
           /\ \A d \in Client : d # c => wire'[d] = wire[d]
           /\ wire[c] # <<>>
           /\ wire'[c] # <<>> => wire'[c][Len(wire'[c])] = wire[c][Len(wire[c])]
           /\ wire'[c] = <<>> => wire[c][Len(wire[c])] = m
  BY Messages DEF SocketTyped, WireTyped, Gateway!Arrives

LEMMA GatewayStep == ASSUME RoomInv, Gateway!Next PROVE RoomInv'
<1> USE DEF RoomInv
<1>1. PICK c \in Client :
        \/ Gateway!Connect(c) \/ Gateway!TokenExpires(c) \/ Gateway!Disconnect(c) \/ Gateway!Reconnect(c)
        \/ Gateway!OpenPage(c) \/ Gateway!ClosePage(c) \/ Gateway!Enrolled(c)
        \/ Gateway!JoinCourse(c) \/ Gateway!CheckAnswered(c) \/ Gateway!CheckFails(c) \/ Gateway!LeaveCourse(c)
  BY DEF Gateway!Next
<1> USE DEF LastWord, Forgotten, StaysOut, ComesIn, Gateway!MayJoinCourse, Gateway!client, Gateway!history
<1>2. CASE Gateway!Connect(c)
  <2>1. /\ wire' \in [Client -> Seq({"join", "leave"})]
        /\ c \in page => wire'[c] # <<>> /\ wire'[c][Len(wire'[c])] = "join"
        /\ c \notin page => wire'[c] = <<>>
        /\ \A d \in Client : d # c => wire'[d] = wire[d]
    BY <1>2, Messages DEF Gateway!Connect, SocketTyped, WireTyped
  <2>2. SocketTyped'
    BY <1>2, <2>1 DEF Gateway!Connect, SocketTyped, WireTyped
  <2> QED
    BY <1>2, <2>1, <2>2 DEF Gateway!Connect, SocketTyped
<1>3. CASE Gateway!TokenExpires(c)
  BY <1>3 DEF Gateway!TokenExpires, SocketTyped, WireTyped
<1>4. CASE Gateway!Disconnect(c)
  BY <1>4 DEF Gateway!Disconnect, SocketTyped, WireTyped
<1>5. CASE Gateway!Reconnect(c)
  BY <1>5 DEF Gateway!Reconnect, SocketTyped, WireTyped
<1>6. CASE Gateway!OpenPage(c)
  <2>1. Gateway!Send(c, "join")
    BY <1>6 DEF Gateway!OpenPage
  <2> QED
    BY <1>6, <2>1, SendStep DEF Gateway!OpenPage, SocketTyped
<1>7. CASE Gateway!ClosePage(c)
  <2>1. Gateway!Send(c, "leave")
    BY <1>7 DEF Gateway!ClosePage
  <2> QED
    BY <1>7, <2>1, SendStep DEF Gateway!ClosePage, SocketTyped
<1>8. CASE Gateway!Enrolled(c)
  BY <1>8 DEF Gateway!Enrolled, SocketTyped, WireTyped
<1>9. CASE Gateway!JoinCourse(c)
  <2>1. Gateway!Arrives(c, "join")
    BY <1>9 DEF Gateway!JoinCourse
  <2> QED
    BY <1>9, <2>1, ArriveStep DEF Gateway!JoinCourse, SocketTyped
<1>10. CASE Gateway!CheckAnswered(c)
  BY <1>10 DEF Gateway!CheckAnswered, SocketTyped, WireTyped
<1>11. CASE Gateway!CheckFails(c)
  BY <1>11 DEF Gateway!CheckFails, SocketTyped, WireTyped
<1>12. CASE Gateway!LeaveCourse(c)
  <2>1. Gateway!Arrives(c, "leave")
    BY <1>12 DEF Gateway!LeaveCourse
  <2> QED
    BY <1>12, <2>1, ArriveStep DEF Gateway!LeaveCourse, SocketTyped
<1> QED
  BY <1>1, <1>2, <1>3, <1>4, <1>5, <1>6, <1>7, <1>8, <1>9, <1>10, <1>11, <1>12

(* At rest the room of a course has the clients whose page is open and     *)
(* nobody else, but for a leave that overtook the check of its join, and a *)
(* connection or check that broke, whatever is sent and lost meanwhile     *)
(* (gateway.ts, join:course and leave:course).                             *)
THEOREM RoomsFollowPages == Spec => []RoomFollowsPage
<1> DEFINE Inv == scene = "rooms" => RoomInv
<1>1. Init => Inv
  BY RoomInit DEF Init
<1>2. Inv /\ [Next]_vars => Inv'
  <2> SUFFICES ASSUME Inv, [Next]_vars, scene' = "rooms"
               PROVE  RoomInv'
    OBVIOUS
  <2>1. CASE Next
    BY <2>1, Scenes, GatewayStep
  <2>2. CASE UNCHANGED vars
    BY <2>2 DEF vars, sockets, RoomInv, SocketTyped, WireTyped, LastWord, Forgotten, StaysOut, ComesIn,
                Gateway!MayJoinCourse
  <2> QED
    BY <2>1, <2>2
<1>3. Inv => RoomFollowsPage
  BY DEF RoomInv, SocketTyped, StaysOut, ComesIn, Gateway!RoomFollowsPage, Gateway!Settled, RoomFollowsPage
<1> QED
  BY <1>1, <1>2, <1>3, PTL DEF Spec

-----------------------------------------------------------------------------
(* The export.  Rows are only written, and as the newest, so the rank of a *)
(* row never falls: one that was not on the pages read, and shares its     *)
(* time with none, still lies behind them.                                 *)
Newer(r) == {s \in Download!Written : log[s] > log[r]}
Shared(r) == \E s \in Download!Written \ {r} : log[s] = log[r]
Missing == begun \ file

LogTyped ==
    /\ Download!TypeOK /\ IsFiniteSet(Download!Written)
    /\ \A r \in Entry : log[r] <= now

LiesBehind ==
    state = "reading" =>
        next > 0 /\ \A r \in Missing : Shared(r) \/ Cardinality(Newer(r)) >= (next - 1) * PageSize

ExportInv == LogTyped /\ LiesBehind /\ Download!ExportMissesNothing

(* The pages up to the number a reply tells of hold all rows.              *)
LEMMA Quotient ==
    ASSUME NEW a \in Nat, NEW b \in Nat, b > 0
    PROVE  a \div b \in Nat /\ (a \div b) * b > a - b
  OBVIOUS
LEMMA Times ==
    ASSUME NEW p \in Nat, NEW q \in Nat, NEW b \in Nat, p >= q
    PROVE  p * b >= q * b
  OBVIOUS
LEMMA LastPage ==
    ASSUME NEW n \in Nat, NEW p \in Nat, p >= Download!Ceiling(n)
    PROVE  p * PageSize >= n
<1>1. PageSize \in Nat /\ PageSize > 0
  BY CampusAssumption DEF CampusAssumption, Download!ExportAssumption
<1> DEFINE q == (n + PageSize - 1) \div PageSize
<1>2. q \in Nat /\ q * PageSize > (n + PageSize - 1) - PageSize
  BY <1>1, Quotient
<1>3. p >= q
  BY DEF Download!Ceiling
<1> HIDE DEF q
<1>4. p * PageSize >= q * PageSize
  BY <1>1, <1>2, <1>3, Times
<1>5. p * PageSize \in Nat /\ q * PageSize \in Nat
  BY <1>1, <1>2
<1> QED
  BY <1>1, <1>2, <1>4, <1>5

LEMMA Pages == PageSize \in Nat /\ PageSize > 0 /\ MaxPages \in Nat /\ MaxTime \in Nat /\ MaxTime > 0
  BY CampusAssumption DEF CampusAssumption, Download!ExportAssumption

(* Nothing is written at first.                                            *)
LEMMA ExportInit == ASSUME Download!Init PROVE ExportInv
<1>1. Download!Written = {} /\ IsFiniteSet(Download!Written)
  BY FS_EmptySet DEF Download!Init, Download!Written
<1>2. Download!TypeOK
  BY <1>1, Pages DEF Download!Init, Download!TypeOK
<1> QED
  BY <1>1, <1>2 DEF Download!Init, ExportInv, LogTyped, LiesBehind, Download!ExportMissesNothing

(* The rank of a row.                                                      *)
LEMMA Ranks ==
    ASSUME LogTyped, NEW r \in Entry
    PROVE  /\ IsFiniteSet(Newer(r)) /\ Cardinality(Newer(r)) \in Nat
           /\ Cardinality(Download!Written) \in Nat
           /\ r \in Download!Written => Cardinality(Newer(r)) < Cardinality(Download!Written)
<1>0. IsFiniteSet(Download!Written) /\ log \in [Entry -> Nat]
  BY DEF LogTyped, Download!TypeOK
<1>1. Newer(r) \subseteq Download!Written
  BY DEF Newer
<1>2. r \in Download!Written => Newer(r) \subseteq Download!Written \ {r}
  BY <1>0 DEF Newer, Download!Written
<1>3. IsFiniteSet(Newer(r)) /\ Cardinality(Newer(r)) \in Nat /\ Cardinality(Download!Written) \in Nat
  BY <1>0, <1>1, FS_Subset, FS_CardinalityType
<1>4. ASSUME r \in Download!Written
      PROVE  Cardinality(Newer(r)) < Cardinality(Download!Written)
  <2>1. IsFiniteSet(Download!Written \ {r}) /\ Cardinality(Download!Written \ {r}) = Cardinality(Download!Written) - 1
    BY <1>0, <1>4, FS_RemoveElement
  <2>2. Cardinality(Newer(r)) <= Cardinality(Download!Written \ {r})
    BY <1>2, <1>4, <2>1, FS_Subset
  <2> QED
    BY <1>3, <2>1, <2>2
<1> QED
  BY <1>3, <1>4

(* A step that writes nothing and reads nothing.                           *)
LEMMA StillStep ==
    ASSUME ExportInv, UNCHANGED <<log, begun, file>>, now' \in 1..MaxTime, now' >= now,
           UNCHANGED next \/ (state' \in {"saved", "failed"}), next' \in 0..(MaxPages + 1), last' \in Nat,
           state' \in {"idle", "reading", "saved", "failed"},
           state' = "reading" => state = "reading",
           state' = "saved" => (state = "saved" /\ next' = next) \/ next' > MaxPages
    PROVE  ExportInv'
<1>1. Download!Written' = Download!Written
  BY DEF Download!Written
<1>2. LogTyped'
  BY <1>1, Pages DEF ExportInv, LogTyped, Download!TypeOK
<1>3. \A r : Newer(r)' = Newer(r) /\ (Shared(r)' <=> Shared(r))
  BY <1>1 DEF Newer, Shared
<1>4. LiesBehind'
  BY <1>3 DEF ExportInv, LiesBehind, Missing
<1>5. Download!ExportMissesNothing'
  BY <1>1, Pages DEF ExportInv, Download!ExportMissesNothing, LogTyped, Download!TypeOK
<1> QED
  BY <1>2, <1>4, <1>5 DEF ExportInv

(* A row is written at the end.                                            *)
LEMMA EntryStep == ASSUME ExportInv, NEW e \in Entry, Download!Write(e) PROVE ExportInv'
<1>0. LogTyped /\ log \in [Entry -> 0..MaxTime] /\ now \in 1..MaxTime /\ MaxTime \in Nat
  BY Pages DEF ExportInv, LogTyped, Download!TypeOK
<1>1. /\ log[e] = 0 /\ log' \in [Entry -> 0..MaxTime] /\ log'[e] = now
      /\ \A r \in Entry : r # e => log'[r] = log[r]
      /\ UNCHANGED <<now, next, last, file, begun, state>>
  BY <1>0 DEF Download!Write
<1>2. Download!Written' = Download!Written \cup {e} /\ e \notin Download!Written
  BY <1>0, <1>1 DEF Download!Written
<1>3. IsFiniteSet(Download!Written')
  BY <1>0, <1>2, FS_AddElement DEF LogTyped
<1>4. LogTyped'
  BY <1>0, <1>1, <1>2, <1>3 DEF LogTyped, Download!TypeOK
<1> DEFINE SharedNow(r) == \E s \in Download!Written' \ {r} : log'[s] = log'[r]
           NewerNow(r) == {s \in Download!Written' : log'[s] > log'[r]}
<1>5. ASSUME NEW r \in Missing
      PROVE  /\ Shared(r) => SharedNow(r)
             /\ Cardinality(NewerNow(r)) >= Cardinality(Newer(r))
             /\ Cardinality(Newer(r)) \in Nat /\ Cardinality(NewerNow(r)) \in Nat
  <2>1. r \in Entry /\ r \in Download!Written /\ r # e
    BY <1>0, <1>2 DEF LogTyped, Download!TypeOK, Missing, Download!Written
  <2>2. Shared(r) => SharedNow(r)
    BY <1>1, <1>2, <2>1 DEF Shared, Download!Written
  <2>3. Newer(r) \subseteq NewerNow(r)
    BY <1>1, <1>2, <2>1 DEF Newer, Download!Written
  <2>4. IsFiniteSet(NewerNow(r)) /\ Cardinality(NewerNow(r)) \in Nat
    <3>1. NewerNow(r) \subseteq Download!Written'
      OBVIOUS
    <3> QED
      BY <1>3, <3>1, FS_Subset, FS_CardinalityType
  <2>5. Cardinality(Newer(r)) \in Nat
    BY <1>0, <2>1, Ranks
  <2> QED
    BY <2>2, <2>3, <2>4, <2>5, FS_Subset
<1>6. LiesBehind'
  <2> SUFFICES ASSUME state = "reading"
               PROVE  next > 0 /\ \A r \in Missing : SharedNow(r) \/ Cardinality(NewerNow(r)) >= (next - 1) * PageSize
    BY <1>1 DEF LiesBehind, Missing, Shared, Newer
  <2>1. next > 0 /\ \A r \in Missing : Shared(r) \/ Cardinality(Newer(r)) >= (next - 1) * PageSize
    BY DEF ExportInv, LiesBehind
  <2> DEFINE first == (next - 1) * PageSize
  <2>2. first \in Int
    BY Pages DEF ExportInv, LogTyped, Download!TypeOK
  <2> HIDE DEF first, SharedNow, NewerNow
  <2>3. ASSUME NEW r \in Missing
        PROVE  SharedNow(r) \/ Cardinality(NewerNow(r)) >= first
    <3>1. Shared(r) \/ Cardinality(Newer(r)) >= first
      BY <2>1 DEF first
    <3> QED
      BY <1>5, <2>2, <3>1
  <2> QED
    BY <2>1, <2>3 DEF first
<1>7. Download!ExportMissesNothing'
  <2>1. state = "saved" /\ next <= MaxPages => \A r \in Missing : Shared(r)
    BY DEF ExportInv, Download!ExportMissesNothing, Missing, Shared
  <2>2. state = "saved" /\ next <= MaxPages => \A r \in Missing : SharedNow(r)
    BY <1>5, <2>1
  <2> QED
    BY <1>1, <2>2 DEF Download!ExportMissesNothing, Missing
<1> QED
  BY <1>4, <1>6, <1>7 DEF ExportInv

(* The export begins with the rows there are.                              *)
LEMMA BeginStep == ASSUME ExportInv, Download!Begin PROVE ExportInv'
<1>0. LogTyped
  BY DEF ExportInv
<1>1. Download!Written' = Download!Written /\ begun' = Download!Written /\ next' = 1 /\ state' = "reading"
      /\ UNCHANGED <<now, log, last, file>>
  BY DEF Download!Begin, Download!Written
<1>2. LogTyped'
  BY <1>0, <1>1, Pages DEF LogTyped, Download!TypeOK
<1>3. LiesBehind'
  <2>1. ASSUME NEW r \in Missing'
        PROVE  Cardinality(Newer(r)') >= (next' - 1) * PageSize
    <3>1. r \in Entry /\ Newer(r)' = Newer(r)
      BY <1>1 DEF Missing, Download!Written, Newer
    <3>2. Cardinality(Newer(r)) \in Nat
      BY <1>0, <3>1, Ranks
    <3>3. (next' - 1) * PageSize = 0
      BY <1>1, Pages
    <3> QED
      BY <3>1, <3>2, <3>3
  <2> QED
    BY <1>1, <2>1 DEF LiesBehind
<1> QED
  BY <1>1, <1>2, <1>3 DEF ExportInv, Download!ExportMissesNothing

(* The rows a page is certain to have.                                     *)
LEMMA OnThePage ==
    ASSUME LogTyped, NEW p \in Nat, p > 0, NEW found \in Download!PagesOf(p), NEW r \in Download!Written, ~Shared(r),
           Cardinality(Newer(r)) >= (p - 1) * PageSize, Cardinality(Newer(r)) < p * PageSize
    PROVE  r \in found
<1> DEFINE newer(s) == Download!Cardinality({t \in Download!Written : log[t] > log[s]})
           same(s) == {t \in Download!Written : log[t] = log[s]}
           from == (p - 1) * PageSize
           certain == {s \in Download!Written : newer(s) >= from /\ newer(s) + Download!Cardinality(same(s)) <= from + PageSize}
<1>1. certain \subseteq found
  BY Zenon DEF Download!PagesOf
<1>2. newer(r) = Cardinality(Newer(r))
  BY Counting DEF Newer
<1>3. same(r) = {r}
  BY DEF Shared
<1>4. Download!Cardinality(same(r)) = 1
  BY <1>3, Counting, FS_Singleton
<1>5. r \in Entry /\ Cardinality(Newer(r)) \in Nat
  BY Ranks DEF Download!Written
<1>6. from \in Int /\ p * PageSize = from + PageSize
  BY Pages
<1> HIDE DEF from
<1>7. newer(r) >= from /\ newer(r) + 1 <= from + PageSize
  BY <1>2, <1>5, <1>6, Pages DEF from
<1>8. r \in certain
  BY <1>4, <1>7
<1> QED
  BY <1>1, <1>8

(* A page is read.                                                         *)
LEMMA ReadStep == ASSUME ExportInv, Download!ReadPage PROVE ExportInv'
<1>0. LogTyped /\ LiesBehind /\ state = "reading" /\ next <= MaxPages /\ next \in Nat /\ next > 0
      /\ UNCHANGED <<now, log, begun>>
  BY DEF ExportInv, LogTyped, LiesBehind, Download!TypeOK, Download!ReadPage
<1>1. PICK found \in Download!PagesOf(next) : file' = file \cup found
  BY DEF Download!ReadPage
<1>2. last' = Download!Ceiling(Cardinality(Download!Written))
  BY Counting DEF Download!ReadPage
<1>3. \/ next >= last' /\ state' = "saved" /\ next' = next
      \/ next' = next + 1 /\ state' = "reading"
  BY <1>0 DEF Download!ReadPage
<1>4. Download!Written' = Download!Written /\ found \subseteq Download!Written
  <2>1. Download!Written' = Download!Written
    BY <1>0 DEF Download!Written
  <2>2. found \subseteq Download!Written
    BY DEF Download!PagesOf
  <2> QED
    BY <2>1, <2>2
<1>5. Cardinality(Download!Written) \in Nat
  BY <1>0, FS_CardinalityType DEF LogTyped
<1>6. LogTyped'
  <2>1. last' \in Nat
    <3>1. Cardinality(Download!Written) + PageSize - 1 \in Nat
      BY <1>5, Pages
    <3> QED
      BY <1>2, <3>1, Pages, Quotient DEF Download!Ceiling
  <2> QED
    BY <1>0, <1>1, <1>3, <1>4, <2>1, Pages DEF LogTyped, Download!TypeOK
<1>7. ASSUME NEW r \in Missing', ~Shared(r)
      PROVE  /\ r \in Entry /\ r \in Download!Written
             /\ Cardinality(Newer(r)) \in Nat /\ Cardinality(Newer(r)) >= next * PageSize
  <2>1. r \in Missing /\ r \notin found /\ r \in Download!Written /\ r \in Entry
    BY <1>0, <1>1 DEF Missing, LogTyped, Download!TypeOK, Download!Written
  <2>2. Cardinality(Newer(r)) \in Nat
    BY <1>0, <2>1, Ranks
  <2>3. Cardinality(Newer(r)) >= (next - 1) * PageSize
    BY <1>0, <1>7, <2>1 DEF LiesBehind
  <2>4. ~(Cardinality(Newer(r)) < next * PageSize)
    BY <1>0, <1>7, <2>1, <2>3, OnThePage
  <2>5. next * PageSize \in Nat
    BY <1>0, Pages
  <2> QED
    BY <2>1, <2>2, <2>4, <2>5
<1>8. \A r : Newer(r)' = Newer(r) /\ (Shared(r)' <=> Shared(r))
  BY <1>0, <1>4 DEF Newer, Shared
<1>9. LiesBehind'
  <2> SUFFICES ASSUME state' = "reading"
               PROVE  next' > 0 /\ \A r \in Missing' : Shared(r) \/ Cardinality(Newer(r)) >= (next' - 1) * PageSize
    BY <1>8 DEF LiesBehind
  <2>1. next' = next + 1 /\ next' - 1 = next
    BY <1>0, <1>3
  <2> QED
    BY <1>0, <1>7, <2>1
<1>10. Download!ExportMissesNothing'
  <2> SUFFICES ASSUME state' = "saved", NEW r \in Missing', ~Shared(r)
               PROVE  FALSE
    BY <1>0, <1>4 DEF Download!ExportMissesNothing, Shared, Missing
  <2>1. next >= Download!Ceiling(Cardinality(Download!Written))
    BY <1>2, <1>3
  <2>2. next * PageSize >= Cardinality(Download!Written)
    BY <1>0, <1>5, <2>1, LastPage
  <2>3. Cardinality(Newer(r)) \in Nat /\ Cardinality(Newer(r)) >= next * PageSize /\ r \in Download!Written /\ r \in Entry
    BY <1>7
  <2>4. Cardinality(Newer(r)) < Cardinality(Download!Written)
    BY <1>0, <2>3, Ranks
  <2>5. next * PageSize \in Nat
    BY <1>0, Pages
  <2> QED
    BY <1>5, <2>2, <2>3, <2>4, <2>5
<1> QED
  BY <1>6, <1>9, <1>10 DEF ExportInv

LEMMA ExportStep == ASSUME ExportInv, Download!Next PROVE ExportInv'
<1>0. now \in 1..MaxTime /\ next \in 0..(MaxPages + 1) /\ last \in Nat /\ MaxTime \in Nat /\ MaxPages \in Nat
      /\ state \in {"idle", "reading", "saved", "failed"}
  BY Pages DEF ExportInv, LogTyped, Download!TypeOK
<1>1. CASE Download!Tick
  BY <1>0, <1>1, StillStep DEF Download!Tick
<1>2. CASE \E r \in Entry : Download!Write(r)
  BY <1>2, EntryStep
<1>3. CASE Download!Begin
  BY <1>3, BeginStep
<1>4. CASE Download!ReadPage
  BY <1>4, ReadStep
<1>5. CASE Download!Truncate
  BY <1>0, <1>5, StillStep DEF Download!Truncate
<1>6. CASE Download!Abandon
  BY <1>0, <1>6, StillStep DEF Download!Abandon
<1> QED
  BY <1>1, <1>2, <1>3, <1>4, <1>5, <1>6 DEF Download!Next

(* A saved export that was not cut short has every row there was when it   *)
(* began, however many are written meanwhile, but for rows of one and the  *)
(* same time (audit/page.tsx, exportCsv).                                  *)
THEOREM ExportsMissNothing == Spec => []ExportMissesNothing
<1> DEFINE Inv == scene = "export" => ExportInv
<1>1. Init => Inv
  BY ExportInit DEF Init
<1>2. Inv /\ [Next]_vars => Inv'
  <2> SUFFICES ASSUME Inv, [Next]_vars, scene' = "export"
               PROVE  ExportInv'
    OBVIOUS
  <2>1. CASE Next
    BY <2>1, Scenes, ExportStep
  <2>2. CASE UNCHANGED vars
    BY <2>2 DEF vars, export, ExportInv, LogTyped, LiesBehind, Missing, Shared, Newer, Download!TypeOK,
                Download!Written, Download!ExportMissesNothing
  <2> QED
    BY <2>1, <2>2
<1>3. Inv => ExportMissesNothing
  BY DEF ExportInv, ExportMissesNothing
<1> QED
  BY <1>1, <1>2, <1>3, PTL DEF Spec

-----------------------------------------------------------------------------
(* The figures.  What a half-counted answer has counted differs from what  *)
(* there is now by no more than the rows written since.                    *)
Asking ==
    {Figures!idle}
    \cup [at : {"half"}, kind : {"total", "statuses", "report", "risk"}, count : Nat, during : Nat]
    \cup [at : {"done"}, answer : Figures!Answers]

StatsTyped ==
    /\ mark \in [Member \X Lesson -> Figures!Status \cup {Figures!None}]
    /\ high \subseteq Member
    /\ ask \in [Handler -> Asking]
    /\ kept \in [Figures!Key -> Figures!Answers \cup {Figures!NoAnswer}]
    /\ writes \in 0..MaxWrites /\ asks \in 0..MaxAsks

Drift(h) ==
    /\ ask[h].kind = "total" => Figures!CountHere <= ask[h].count + ask[h].during
    /\ ask[h].kind \in {"statuses", "report"} => ask[h].count <= Figures!CountAll + ask[h].during
    /\ ask[h].kind = "risk" => ask[h].count <= Figures!Cardinality(high) + ask[h].during

StatsInv ==
    /\ StatsTyped
    /\ \A h \in Handler : ask[h].at = "half" => Drift(h)
    /\ Figures!RatesWithinBounds

(* The rows that are counted.                                              *)
LEMMA CountedRows ==
    /\ IsFiniteSet(Member) /\ IsFiniteSet(Member \X Lesson)
    /\ \A S : IsFiniteSet(Figures!Cells(S)) /\ Figures!Cardinality(Figures!Cells(S)) \in Nat
<1>1. IsFiniteSet(Member) /\ IsFiniteSet(Lesson)
  BY CampusAssumption, Counting DEF CampusAssumption, Figures!StatsAssumption
<1>2. IsFiniteSet(Member \X Lesson)
  BY <1>1, FS_Product
<1>3. ASSUME NEW S
      PROVE  IsFiniteSet(Figures!Cells(S)) /\ Figures!Cardinality(Figures!Cells(S)) \in Nat
  <2>1. Figures!Cells(S) \subseteq Member \X Lesson
    BY DEF Figures!Cells
  <2> QED
    BY <1>2, <2>1, FS_Subset, FS_CardinalityType, Counting
<1> QED
  BY <1>1, <1>2, <1>3

LEMMA Joins ==
    ASSUME NEW S, NEW T, S \subseteq T
    PROVE  /\ Figures!Cardinality(Figures!JoinedRows(S)) \in Nat
           /\ Figures!Cardinality(Figures!JoinedRows(S)) <= Figures!Cardinality(Figures!JoinedRows(T))
<1>1. ASSUME NEW U
      PROVE  IsFiniteSet(Figures!JoinedRows(U))
  <2> DEFINE groups == {{c} \X Figures!Copies(c) : c \in Figures!Cells(U)}
  <2>1. IsFiniteSet(groups)
    <3> DEFINE f == [c \in Figures!Cells(U) |-> {c} \X Figures!Copies(c)]
    <3>1. f \in Surjection(Figures!Cells(U), groups)
      BY DEF Surjection
    <3> QED
      BY <3>1, CountedRows, FS_Surjection
  <2>2. ASSUME NEW g \in groups
        PROVE  IsFiniteSet(g)
    <3>1. PICK c \in Figures!Cells(U) : g = {c} \X Figures!Copies(c)
      BY <2>2
    <3>2. c[1] \in Member
      BY DEF Figures!Cells
    <3>3. IsFiniteSet(Figures!Copies(c))
      BY <3>2, FS_Interval, CampusAssumption DEF Figures!Copies, CampusAssumption, Figures!StatsAssumption
    <3> QED
      BY <3>1, <3>3, FS_Singleton, FS_Product
  <2> QED
    BY <2>1, <2>2, FS_UNION DEF Figures!JoinedRows
<1>2. Figures!JoinedRows(S) \subseteq Figures!JoinedRows(T)
  BY DEF Figures!JoinedRows, Figures!Cells
<1> QED
  BY <1>1, <1>2, FS_Subset, FS_CardinalityType, Counting

(* Nothing is marked at first.                                             *)
LEMMA StatsInit == ASSUME Figures!Init PROVE StatsInv
<1>0. MaxWrites \in Nat /\ MaxAsks \in Nat
  BY CampusAssumption DEF CampusAssumption, Figures!StatsAssumption
<1>1. ask \in [Handler -> Asking] /\ \A h \in Handler : ask[h].at = "idle"
  BY DEF Figures!Init, Asking, Figures!idle
<1>2. kept = [k \in Figures!Key |-> Figures!NoAnswer] /\ Figures!Bounded(Figures!NoAnswer)
  BY DEF Figures!Init, Figures!NoAnswer, Figures!Bounded
<1>3. StatsTyped
  BY <1>0, <1>1, <1>2 DEF Figures!Init, StatsTyped
<1>4. Figures!RatesWithinBounds
  BY <1>1, <1>2 DEF Figures!RatesWithinBounds
<1> QED
  BY <1>1, <1>3, <1>4 DEF StatsInv

(* A question that is asked, half answered or answered.                    *)
LEMMA Answering ==
    ASSUME NEW part \in Nat, NEW whole \in Nat, NEW during \in Nat
    PROVE  /\ Figures!Answer(part, whole, during) \in Figures!Answers
           /\ Figures!Bounded(Figures!Answer(part, whole, during)) <=> part <= whole + during
  BY DEF Figures!Answer, Figures!Answers, Figures!Bounded

LEMMA FinishStep ==
    ASSUME StatsTyped, NEW h \in Handler, NEW a \in Figures!Answers \cup {Figures!NoAnswer}, a # Figures!NoAnswer,
           Figures!Bounded(a), Figures!Finish(h, a)
    PROVE  /\ ask' \in [Handler -> Asking]
           /\ ask'[h].at = "done" /\ ask'[h].answer = a
           /\ \A g \in Handler : g # h => ask'[g] = ask[g]
<1> DEFINE r == [at |-> "done", answer |-> a]
<1>1. r \in Asking /\ r.at = "done" /\ r.answer = a
  BY DEF Asking
<1>2. ask' = [ask EXCEPT ![h] = r]
  BY DEF Figures!Finish
<1> HIDE DEF r
<1> QED
  BY <1>1, <1>2 DEF StatsTyped

LEMMA HalfStep ==
    ASSUME StatsTyped, NEW h \in Handler, NEW kind \in {"total", "statuses", "report", "risk"}, NEW n \in Nat,
           Figures!Half(h, kind, n)
    PROVE  /\ ask' \in [Handler -> Asking]
           /\ ask'[h].at = "half" /\ ask'[h].kind = kind /\ ask'[h].count = n /\ ask'[h].during = 0
           /\ \A g \in Handler : g # h => ask'[g] = ask[g]
<1> DEFINE r == [at |-> "half", kind |-> kind, count |-> n, during |-> 0]
<1>1. r \in Asking /\ r.at = "half" /\ r.kind = kind /\ r.count = n /\ r.during = 0
  BY DEF Asking
<1>2. ask' = [ask EXCEPT ![h] = r]
  BY DEF Figures!Half
<1> HIDE DEF r
<1> QED
  BY <1>1, <1>2 DEF StatsTyped

(* What is half counted.                                                   *)
LEMMA Halves ==
    ASSUME StatsTyped, NEW h \in Handler, ask[h].at = "half"
    PROVE  ask[h].kind \in {"total", "statuses", "report", "risk"} /\ ask[h].count \in Nat /\ ask[h].during \in Nat
  BY DEF StatsTyped, Asking, Figures!idle

(* What is here is among what is marked.                                   *)
LEMMA HereIsMarked == Figures!CountHere <= Figures!CountAll /\ Figures!CountHere \in Nat /\ Figures!CountAll \in Nat
                      /\ Figures!CountMarked \in Nat
<1>1. Figures!Cells(Figures!Here) \subseteq Figures!Cells(Figures!Status)
  BY DEF Figures!Cells, Figures!Here, Figures!Status
<1> QED
  BY <1>1, CountedRows, FS_Subset, Counting DEF Figures!CountHere, Figures!CountAll, Figures!CountMarked

(* What a write does to the questions.                                     *)
LEMMA MarkWrites ==
    ASSUME StatsTyped, Figures!Write
    PROVE  /\ ask' \in [Handler -> Asking] /\ kept' = kept
           /\ writes' \in 0..MaxWrites /\ asks' \in 0..MaxAsks
           /\ \A h \in Handler :
                /\ ask[h].at # "half" => ask'[h] = ask[h]
                /\ ask[h].at = "half" =>
                     /\ ask'[h].at = "half" /\ ask'[h].kind = ask[h].kind /\ ask'[h].count = ask[h].count
                     /\ ask'[h].during = ask[h].during + 1
<1> DEFINE later(h) == IF ask[h].at = "half" THEN [ask[h] EXCEPT !.during = @ + 1] ELSE ask[h]
<1>1. ask' = [h \in Handler |-> later(h)]
  BY DEF Figures!Write
<1>2. ASSUME NEW h \in Handler, ask[h].at = "half"
      PROVE  /\ later(h) \in Asking /\ later(h).at = "half" /\ later(h).kind = ask[h].kind
             /\ later(h).count = ask[h].count /\ later(h).during = ask[h].during + 1
  <2>1. ask[h] \in [at : {"half"}, kind : {"total", "statuses", "report", "risk"}, count : Nat, during : Nat]
    BY <1>2 DEF StatsTyped, Asking, Figures!idle
  <2>2. later(h) = [ask[h] EXCEPT !.during = @ + 1]
    BY <1>2
  <2>3. [ask[h] EXCEPT !.during = @ + 1] \in [at : {"half"}, kind : {"total", "statuses", "report", "risk"}, count : Nat, during : Nat]
    BY <2>1
  <2> HIDE DEF later
  <2>4. later(h).at = "half" /\ later(h).kind = ask[h].kind
        /\ later(h).count = ask[h].count /\ later(h).during = ask[h].during + 1
    BY <2>1, <2>2
  <2> QED
    BY <2>2, <2>3, <2>4 DEF Asking
<1>3. ASSUME NEW h \in Handler, ask[h].at # "half"
      PROVE  later(h) = ask[h] /\ later(h) \in Asking
  BY <1>3 DEF StatsTyped
<1> HIDE DEF later
<1>4. ask' \in [Handler -> Asking] /\ \A h \in Handler : ask'[h] = later(h)
  BY <1>1, <1>2, <1>3
<1>5. kept' = kept /\ writes' \in 0..MaxWrites /\ asks' \in 0..MaxAsks
  BY CampusAssumption DEF Figures!Write, StatsTyped, CampusAssumption, Figures!StatsAssumption
<1> QED
  BY <1>2, <1>3, <1>4, <1>5

(* One mark is one more of something at most, and no mark is taken away.   *)
LEMMA MarkCounts ==
    ASSUME StatsTyped, NEW c \in Member \X Lesson, NEW s \in Figures!Status, mark' = [mark EXCEPT ![c] = s]
    PROVE  /\ Figures!CountHere' <= Figures!CountHere + 1 /\ Figures!CountAll' >= Figures!CountAll
           /\ Figures!CountHere' \in Nat /\ Figures!CountAll' \in Nat
<1> DEFINE now_(S) == {d \in Member \X Lesson : mark'[d] \in S}
<1>1. \A S : IsFiniteSet(now_(S)) /\ Cardinality(now_(S)) \in Nat
  <2> TAKE S
  <2>1. now_(S) \subseteq Member \X Lesson
    OBVIOUS
  <2> QED
    BY <2>1, CountedRows, FS_Subset, FS_CardinalityType
<1>2. \A S : IsFiniteSet(Figures!Cells(S)) /\ Cardinality(Figures!Cells(S)) \in Nat
  BY CountedRows, Counting
<1>3. \A d \in Member \X Lesson : mark'[d] = IF d = c THEN s ELSE mark[d]
  BY DEF StatsTyped
<1>4. now_(Figures!Here) \subseteq Figures!Cells(Figures!Here) \cup {c}
  BY <1>3 DEF Figures!Cells
<1>5. Figures!Cells(Figures!Status) \subseteq now_(Figures!Status)
  BY <1>3 DEF Figures!Cells
<1>6. Figures!CountHere' = Cardinality(now_(Figures!Here)) /\ Figures!CountAll' = Cardinality(now_(Figures!Status))
  BY Counting DEF Figures!CountHere, Figures!CountAll, Figures!Cells, Figures!Here, Figures!Status
<1>7. Figures!CountHere = Cardinality(Figures!Cells(Figures!Here)) /\ Figures!CountAll = Cardinality(Figures!Cells(Figures!Status))
  BY Counting DEF Figures!CountHere, Figures!CountAll
<1> HIDE DEF now_
<1>8. /\ IsFiniteSet(Figures!Cells(Figures!Here) \cup {c})
      /\ Cardinality(Figures!Cells(Figures!Here) \cup {c}) \in {Cardinality(Figures!Cells(Figures!Here)), Cardinality(Figures!Cells(Figures!Here)) + 1}
  BY <1>2, FS_AddElement
<1>9. Cardinality(now_(Figures!Here)) <= Cardinality(Figures!Cells(Figures!Here) \cup {c})
  BY <1>4, <1>8, FS_Subset
<1>10. Cardinality(Figures!Cells(Figures!Status)) <= Cardinality(now_(Figures!Status))
  BY <1>1, <1>5, FS_Subset
<1> QED
  BY <1>1, <1>2, <1>6, <1>7, <1>8, <1>9, <1>10

(* A score moves one student at most.                                      *)
LEMMA ScoreCounts ==
    ASSUME high \subseteq Member, NEW e \in Member, high' = (high \ {e}) \cup ({e} \ high)
    PROVE  /\ Figures!Cardinality(high) <= Figures!Cardinality(high') + 1 /\ Figures!Cardinality(high') \in Nat
           /\ Figures!Cardinality(high) \in Nat /\ high' \subseteq Member
<1>1. high' \subseteq Member /\ high \subseteq high' \cup {e}
  OBVIOUS
<1>2. IsFiniteSet(high) /\ IsFiniteSet(high') /\ Cardinality(high) \in Nat /\ Cardinality(high') \in Nat
  BY <1>1, CountedRows, FS_Subset, FS_CardinalityType
<1>3. IsFiniteSet(high' \cup {e}) /\ Cardinality(high' \cup {e}) \in {Cardinality(high'), Cardinality(high') + 1}
  BY <1>2, FS_AddElement
<1>4. Cardinality(high) <= Cardinality(high' \cup {e})
  BY <1>1, <1>3, FS_Subset
<1> QED
  BY <1>1, <1>2, <1>3, <1>4, Counting

LEMMA MarkStep ==
    ASSUME StatsInv, Figures!Write,
           \/ \E c \in Member \X Lesson, s \in Figures!Status : mark' = [mark EXCEPT ![c] = s] /\ UNCHANGED high
           \/ \E e \in Member : high' = (high \ {e}) \cup ({e} \ high) /\ UNCHANGED mark
    PROVE  StatsInv'
<1>0. StatsTyped
  BY DEF StatsInv
<1>1. /\ mark' \in [Member \X Lesson -> Figures!Status \cup {Figures!None}] /\ high' \subseteq Member
      /\ Figures!CountHere' <= Figures!CountHere + 1 /\ Figures!CountAll' >= Figures!CountAll
      /\ Figures!CountHere' \in Nat /\ Figures!CountAll' \in Nat
      /\ Figures!Cardinality(high) <= Figures!Cardinality(high') + 1
      /\ Figures!Cardinality(high) \in Nat /\ Figures!Cardinality(high') \in Nat
  <2>1. CASE \E c \in Member \X Lesson, s \in Figures!Status : mark' = [mark EXCEPT ![c] = s] /\ UNCHANGED high
    <3>1. PICK c \in Member \X Lesson, s \in Figures!Status : mark' = [mark EXCEPT ![c] = s] /\ UNCHANGED high
      BY <2>1
    <3>2. mark' \in [Member \X Lesson -> Figures!Status \cup {Figures!None}] /\ high' = high /\ high \subseteq Member
      BY <1>0, <3>1 DEF StatsTyped
    <3>3. Figures!Cardinality(high) \in Nat /\ Figures!Cardinality(high') = Figures!Cardinality(high)
      BY <3>2, CountedRows, FS_Subset, FS_CardinalityType, Counting
    <3>4. /\ Figures!CountHere' <= Figures!CountHere + 1 /\ Figures!CountAll' >= Figures!CountAll
          /\ Figures!CountHere' \in Nat /\ Figures!CountAll' \in Nat
      BY <1>0, <3>1, MarkCounts, Zenon
    <3>5. Figures!Cardinality(high) <= Figures!Cardinality(high') + 1
      BY <3>3
    <3> QED
      BY <3>2, <3>3, <3>4, <3>5
  <2>2. CASE \E e \in Member : high' = (high \ {e}) \cup ({e} \ high) /\ UNCHANGED mark
    <3>1. mark' = mark /\ mark \in [Member \X Lesson -> Figures!Status \cup {Figures!None}] /\ high \subseteq Member
      BY <1>0, <2>2 DEF StatsTyped
    <3>2. Figures!CountHere' = Figures!CountHere /\ Figures!CountAll' = Figures!CountAll
      BY <3>1 DEF Figures!CountHere, Figures!CountAll, Figures!Cells
    <3> QED
      BY <2>2, <3>1, <3>2, ScoreCounts, HereIsMarked
  <2> QED
    BY <2>1, <2>2
<1>2. /\ ask' \in [Handler -> Asking] /\ kept' = kept
      /\ writes' \in 0..MaxWrites /\ asks' \in 0..MaxAsks
      /\ \A h \in Handler :
           /\ ask[h].at # "half" => ask'[h] = ask[h]
           /\ ask[h].at = "half" =>
                /\ ask'[h].at = "half" /\ ask'[h].kind = ask[h].kind /\ ask'[h].count = ask[h].count
                /\ ask'[h].during = ask[h].during + 1
  BY <1>0, MarkWrites
<1>3. StatsTyped'
  BY <1>0, <1>1, <1>2 DEF StatsTyped
<1>4. ASSUME NEW h \in Handler, ask'[h].at = "half"
      PROVE  Drift(h)'
  <2>1. ask[h].at = "half" /\ Drift(h)
    BY <1>2, <1>4 DEF StatsInv
  <2>2. /\ ask[h].kind \in {"total", "statuses", "report", "risk"} /\ ask[h].count \in Nat /\ ask[h].during \in Nat
        /\ ask'[h].kind = ask[h].kind /\ ask'[h].count = ask[h].count /\ ask'[h].during = ask[h].during + 1
    BY <1>0, <1>2, <2>1, Halves
  <2> QED
    BY <1>1, <2>1, <2>2, HereIsMarked DEF Drift
<1>5. Figures!RatesWithinBounds'
  BY <1>2 DEF StatsInv, Figures!RatesWithinBounds, Figures!Bounded
<1> QED
  BY <1>3, <1>4, <1>5 DEF StatsInv

(* A question is asked, half answered, answered or forgotten while no row  *)
(* is written.                                                             *)
LEMMA AskStep ==
    ASSUME StatsInv, UNCHANGED <<mark, high, writes>>, asks' \in 0..MaxAsks, ask' \in [Handler -> Asking],
           kept' \in [Figures!Key -> Figures!Answers \cup {Figures!NoAnswer}],
           \A k \in Figures!Key : Figures!Bounded(kept'[k]),
           \A h \in Handler : ask'[h] = ask[h] \/ ask'[h].at = "idle"
               \/ (ask'[h].at = "done" /\ Figures!Bounded(ask'[h].answer))
               \/ (ask'[h].at = "half" /\ Drift(h)')
    PROVE  StatsInv'
<1>1. StatsTyped'
  BY DEF StatsInv, StatsTyped
<1>2. Figures!CountHere' = Figures!CountHere /\ Figures!CountAll' = Figures!CountAll
  BY DEF Figures!CountHere, Figures!CountAll, Figures!Cells
<1>3. ASSUME NEW h \in Handler, ask'[h].at = "half"
      PROVE  Drift(h)'
  BY <1>2, <1>3 DEF StatsInv, Drift
<1>4. Figures!RatesWithinBounds'
  BY DEF StatsInv, Figures!RatesWithinBounds, Figures!Bounded
<1> QED
  BY <1>1, <1>3, <1>4 DEF StatsInv

(* The question of h is answered, and may go to the cache.                 *)
LEMMA AnswerStep ==
    ASSUME StatsInv, UNCHANGED <<mark, high, writes>>, asks' \in 0..MaxAsks, NEW h \in Handler,
           NEW a \in Figures!Answers, Figures!Bounded(a), Figures!Finish(h, a),
           kept' = kept \/ \E k \in Figures!Key : kept' = [kept EXCEPT ![k] = a]
    PROVE  StatsInv'
<1>0. StatsTyped /\ Figures!RatesWithinBounds
  BY DEF StatsInv
<1>1. a # Figures!NoAnswer
  BY DEF Figures!Answers, Figures!NoAnswer
<1>2. /\ ask' \in [Handler -> Asking]
      /\ ask'[h].at = "done" /\ ask'[h].answer = a
      /\ \A g \in Handler : g # h => ask'[g] = ask[g]
  BY <1>0, <1>1, FinishStep
<1>3. kept' \in [Figures!Key -> Figures!Answers \cup {Figures!NoAnswer}] /\ \A k \in Figures!Key : kept'[k] \in {kept[k], a}
  BY <1>0 DEF StatsTyped
<1>4. \A k \in Figures!Key : Figures!Bounded(kept'[k])
  BY <1>0, <1>3 DEF Figures!RatesWithinBounds
<1> QED
  BY <1>2, <1>3, <1>4, AskStep

(* The first half of the question of h is counted.                         *)
LEMMA FirstHalf ==
    ASSUME StatsInv, UNCHANGED <<mark, high, writes, kept>>, asks' \in 0..MaxAsks, NEW h \in Handler,
           NEW kind \in {"total", "statuses", "report", "risk"}, NEW n \in Nat, Figures!Half(h, kind, n),
           /\ kind = "total" => Figures!CountHere <= n
           /\ kind \in {"statuses", "report"} => n <= Figures!CountAll
           /\ kind = "risk" => n <= Figures!Cardinality(high)
    PROVE  StatsInv'
<1>0. StatsTyped /\ Figures!RatesWithinBounds
  BY DEF StatsInv
<1>1. /\ ask' \in [Handler -> Asking]
      /\ ask'[h].at = "half" /\ ask'[h].kind = kind /\ ask'[h].count = n /\ ask'[h].during = 0
      /\ \A g \in Handler : g # h => ask'[g] = ask[g]
  BY <1>0, HalfStep
<1>2. Figures!Cardinality(high) \in Nat
  BY <1>0, CountedRows, FS_Subset, FS_CardinalityType, Counting DEF StatsTyped
<1>3. /\ Figures!CountHere' = Figures!CountHere /\ Figures!CountAll' = Figures!CountAll
      /\ Figures!CountHere \in Nat /\ Figures!CountAll \in Nat
  BY HereIsMarked DEF Figures!CountHere, Figures!CountAll, Figures!Cells
<1>4. Drift(h)'
  BY <1>1, <1>2, <1>3 DEF Drift
<1>5. kept' \in [Figures!Key -> Figures!Answers \cup {Figures!NoAnswer}] /\ \A k \in Figures!Key : Figures!Bounded(kept'[k])
  BY <1>0 DEF StatsTyped, Figures!RatesWithinBounds
<1>6. \A g \in Handler : ask'[g] = ask[g] \/ (ask'[g].at = "half" /\ Drift(g)')
  BY <1>1, <1>4 DEF Drift
<1> QED
  BY <1>1, <1>5, <1>6, AskStep

LEMMA StatsStep == ASSUME StatsInv, Figures!Next PROVE StatsInv'
<1>0. /\ StatsTyped /\ asks \in 0..MaxAsks /\ MaxAsks \in Nat
      /\ Figures!CountHere \in Nat /\ Figures!CountAll \in Nat /\ Figures!CountHere <= Figures!CountAll
      /\ Figures!Cardinality(high) \in Nat
  BY HereIsMarked, CountedRows, FS_Subset, FS_CardinalityType, Counting, CampusAssumption
     DEF StatsInv, StatsTyped, CampusAssumption, Figures!StatsAssumption
<1>1. CASE \E c \in Member \X Lesson, s \in Figures!Status : Figures!Mark(c, s)
  <2>1. PICK c \in Member \X Lesson, s \in Figures!Status : Figures!Mark(c, s)
    BY <1>1
  <2>2. Figures!Write /\ mark' = [mark EXCEPT ![c] = s] /\ UNCHANGED high
    BY <2>1, Zenon DEF Figures!Mark
  <2> QED
    BY <2>2, MarkStep, Zenon
<1>2. CASE \E e \in Member : Figures!Score(e)
  BY <1>2, MarkStep DEF Figures!Score
<1>3. CASE Figures!DailyCache
  <2>1. Figures!Answer(Figures!CountHere, Figures!CountAll, 0) \in Figures!Answers
        /\ Figures!Bounded(Figures!Answer(Figures!CountHere, Figures!CountAll, 0))
    BY <1>0, Answering
  <2>2. kept' \in [Figures!Key -> Figures!Answers \cup {Figures!NoAnswer}] /\ \A k \in Figures!Key : Figures!Bounded(kept'[k])
    BY <1>0, <1>3, <2>1 DEF Figures!DailyCache, StatsTyped, StatsInv, Figures!RatesWithinBounds
  <2> QED
    BY <1>0, <1>3, <2>2, AskStep DEF Figures!DailyCache, Figures!Rows, StatsTyped
<1>4. CASE \E k \in Figures!Key : Figures!Expires(k)
  <2>1. Figures!Bounded(Figures!NoAnswer)
    BY DEF Figures!NoAnswer, Figures!Bounded
  <2>2. kept' \in [Figures!Key -> Figures!Answers \cup {Figures!NoAnswer}] /\ \A k \in Figures!Key : Figures!Bounded(kept'[k])
    BY <1>0, <1>4, <2>1 DEF Figures!Expires, StatsTyped, StatsInv, Figures!RatesWithinBounds
  <2> QED
    BY <1>0, <1>4, <2>2, AskStep DEF Figures!Expires, Figures!Rows, StatsTyped
<1>5. ASSUME NEW h \in Handler, Figures!Asks(h) \/ asks' = asks
      PROVE  asks' \in 0..MaxAsks
  BY <1>0, <1>5 DEF Figures!Asks
<1>6. ASSUME NEW h \in Handler, Figures!RateOf(h) \/ Figures!CourseStats(h)
      PROVE  StatsInv'
  <2> DEFINE a == Figures!Answer(Figures!CountHere, Figures!CountAll, 0)
  <2>1. a \in Figures!Answers /\ Figures!Bounded(a)
    BY <1>0, Answering
  <2>2. /\ Figures!Finish(h, a) /\ UNCHANGED <<mark, high, writes>> /\ asks' \in 0..MaxAsks
        /\ kept' = kept \/ \E k \in Figures!Key : kept' = [kept EXCEPT ![k] = a]
    BY <1>5, <1>6 DEF Figures!RateOf, Figures!CourseStats, Figures!Store, Figures!Rows, Figures!Key
  <2> HIDE DEF a
  <2> QED
    BY <2>1, <2>2, AnswerStep
<1>7. ASSUME NEW h \in Handler, Figures!LegacyRate(h)
      PROVE  StatsInv'
  <2> DEFINE a == Figures!Answer(Figures!Cardinality(Figures!JoinedRows({"PRESENT"})), Figures!Cardinality(Figures!JoinedRows(Figures!Status)), 0)
  <2>1. a \in Figures!Answers /\ Figures!Bounded(a)
    <3>1. {"PRESENT"} \subseteq Figures!Status
      BY DEF Figures!Status
    <3> QED
      BY <3>1, Joins, Answering
  <2>2. /\ Figures!Finish(h, a) /\ UNCHANGED <<mark, high, writes>> /\ asks' \in 0..MaxAsks /\ kept' = kept
    BY <1>5, <1>7 DEF Figures!LegacyRate, Figures!Rows
  <2> HIDE DEF a
  <2> QED
    BY <2>1, <2>2, AnswerStep
<1>8. ASSUME NEW h \in Handler, \/ Figures!DashboardTotal(h) \/ Figures!DashboardStatuses(h)
                                \/ Figures!ReportSummary(h) \/ Figures!HighRiskRows(h)
      PROVE  StatsInv'
  <2>1. UNCHANGED <<mark, high, writes, kept>> /\ asks' \in 0..MaxAsks
    BY <1>5, <1>8 DEF Figures!DashboardTotal, Figures!DashboardStatuses, Figures!ReportSummary, Figures!HighRiskRows,
                      Figures!Rows
  <2>2. \/ Figures!Half(h, "total", Figures!CountAll) \/ Figures!Half(h, "statuses", Figures!CountHere)
        \/ Figures!Half(h, "report", Figures!CountAll) \/ Figures!Half(h, "risk", Figures!Cardinality(high))
    BY <1>8 DEF Figures!DashboardTotal, Figures!DashboardStatuses, Figures!ReportSummary, Figures!HighRiskRows
  <2>3. CASE Figures!Half(h, "total", Figures!CountAll)
    BY <1>0, <2>1, <2>3, FirstHalf
  <2>4. CASE Figures!Half(h, "statuses", Figures!CountHere)
    BY <1>0, <2>1, <2>4, FirstHalf
  <2>5. CASE Figures!Half(h, "report", Figures!CountAll)
    BY <1>0, <2>1, <2>5, FirstHalf
  <2>6. CASE Figures!Half(h, "risk", Figures!Cardinality(high))
    BY <1>0, <2>1, <2>6, FirstHalf
  <2> QED
    BY <2>2, <2>3, <2>4, <2>5, <2>6
<1>9. ASSUME NEW h \in Handler, Figures!Dashboard(h) \/ Figures!Report(h) \/ Figures!HighRisk(h)
      PROVE  StatsInv'
  <2>1. /\ ask[h].at = "half" /\ Drift(h)
        /\ ask[h].kind \in {"total", "statuses", "report", "risk"} /\ ask[h].count \in Nat /\ ask[h].during \in Nat
    BY <1>0, <1>9, Halves DEF StatsInv, Figures!Dashboard, Figures!Report, Figures!HighRisk
  <2>2. PICK part \in Nat, whole \in Nat :
          /\ part <= whole + ask[h].during
          /\ LET a == Figures!Answer(part, whole, ask[h].during) IN
             /\ Figures!Finish(h, a) /\ UNCHANGED <<mark, high, writes>> /\ asks' = asks
             /\ kept' = kept \/ \E k \in Figures!Key : kept' = [kept EXCEPT ![k] = a]
    <3>1. CASE Figures!Dashboard(h) /\ ask[h].kind = "total"
      BY <1>0, <2>1, <3>1 DEF Figures!Dashboard, Drift, Figures!Rows
    <3>2. CASE Figures!Dashboard(h) /\ ask[h].kind = "statuses"
      BY <1>0, <2>1, <3>2 DEF Figures!Dashboard, Drift, Figures!Rows
    <3>3. CASE Figures!Report(h)
      BY <1>0, <2>1, <3>3 DEF Figures!Report, Drift, Figures!Rows
    <3>4. CASE Figures!HighRisk(h)
      BY <1>0, <2>1, <3>4 DEF Figures!HighRisk, Drift, Figures!Rows, Figures!Store, Figures!Key
    <3> QED
      BY <1>9, <3>1, <3>2, <3>3, <3>4 DEF Figures!Dashboard
  <2> DEFINE a == Figures!Answer(part, whole, ask[h].during)
  <2>3. a \in Figures!Answers /\ Figures!Bounded(a)
    BY <2>1, <2>2, Answering
  <2>4. /\ Figures!Finish(h, a) /\ UNCHANGED <<mark, high, writes>> /\ asks' \in 0..MaxAsks
        /\ kept' = kept \/ \E k \in Figures!Key : kept' = [kept EXCEPT ![k] = a]
    BY <1>0, <2>2
  <2>5. \E b \in Figures!Answers : b = a
    BY <2>3
  <2> HIDE DEF a
  <2> QED
    BY <2>3, <2>4, AnswerStep
<1>10. ASSUME NEW h \in Handler, NEW k \in Figures!Key, Figures!Cached(h, k)
       PROVE  StatsInv'
  <2>1. kept[k] \in Figures!Answers /\ Figures!Bounded(kept[k])
    BY <1>0, <1>10 DEF Figures!Cached, StatsTyped, StatsInv, Figures!RatesWithinBounds
  <2>2. /\ Figures!Finish(h, kept[k]) /\ UNCHANGED <<mark, high, writes>> /\ asks' \in 0..MaxAsks /\ kept' = kept
    BY <1>5, <1>10 DEF Figures!Cached, Figures!Rows
  <2> QED
    BY <2>1, <2>2, AnswerStep
<1>11. ASSUME NEW h \in Handler, Figures!Read(h)
       PROVE  StatsInv'
  <2>1. /\ ask' = [ask EXCEPT ![h] = Figures!idle] /\ UNCHANGED <<mark, high, writes, kept, asks>>
    BY <1>11 DEF Figures!Read, Figures!Rows
  <2>2. Figures!idle \in Asking /\ Figures!idle.at = "idle"
    BY DEF Figures!idle, Asking
  <2>3. ask' \in [Handler -> Asking] /\ \A g \in Handler : ask'[g] = ask[g] \/ ask'[g].at = "idle"
    BY <1>0, <2>1, <2>2 DEF StatsTyped
  <2>4. kept' \in [Figures!Key -> Figures!Answers \cup {Figures!NoAnswer}] /\ \A k \in Figures!Key : Figures!Bounded(kept'[k])
    BY <1>0, <2>1 DEF StatsTyped, StatsInv, Figures!RatesWithinBounds
  <2> QED
    BY <1>0, <2>1, <2>3, <2>4, AskStep
<1>12. CASE \E h \in Handler :
              \/ Figures!RateOf(h) \/ Figures!LegacyRate(h) \/ Figures!CourseStats(h) \/ Figures!Read(h)
              \/ Figures!DashboardTotal(h) \/ Figures!DashboardStatuses(h) \/ Figures!Dashboard(h)
              \/ Figures!ReportSummary(h) \/ Figures!Report(h) \/ Figures!HighRiskRows(h) \/ Figures!HighRisk(h)
              \/ \E k \in Figures!Key : Figures!Cached(h, k)
  BY <1>6, <1>7, <1>8, <1>9, <1>10, <1>11, <1>12, Zenon
<1> QED
  BY <1>1, <1>2, <1>3, <1>4, <1>12, Zenon DEF Figures!Next

(* No figure shows more of something than there is of it, but for the rows *)
(* written between the two counts it was made of, whatever else is counted *)
(* and kept meanwhile (analytics.service.ts, dashboard).                   *)
THEOREM RatesStayWithinBounds == Spec => []RatesWithinBounds
<1> DEFINE Inv == scene = "stats" => StatsInv
<1>1. Init => Inv
  BY StatsInit DEF Init
<1>2. Inv /\ [Next]_vars => Inv'
  <2> SUFFICES ASSUME Inv, [Next]_vars, scene' = "stats"
               PROVE  StatsInv'
    OBVIOUS
  <2>1. CASE Next
    BY <2>1, Scenes, StatsStep
  <2>2. CASE UNCHANGED vars
    <3>1. UNCHANGED <<mark, high, ask, kept, writes, asks>> /\ StatsInv
      BY <2>2 DEF vars, stats
    <3> QED
      BY <3>1 DEF StatsInv, StatsTyped, Drift, Figures!RatesWithinBounds, Figures!CountHere, Figures!CountAll, Figures!Cells
  <2> QED
    BY <2>1, <2>2
<1>3. Inv => RatesWithinBounds
  BY DEF StatsInv, RatesWithinBounds
<1> QED
  BY <1>1, <1>2, <1>3, PTL DEF Spec

-----------------------------------------------------------------------------
(* The types, of the variables that no property above is about.  Most are  *)
(* plain; a row of the sheet needs that its enrolment has one, for which   *)
(* the requests that mark must have seen it, and the numbers of pushes and *)
(* checks are bounded by the requests and pages they come from.            *)
GuardRest ==
    /\ blocked \subseteq Ip /\ deletes \in [User -> Nat] /\ noticed \subseteq User /\ waiting \subseteq User
    /\ ops \in 0..MaxCalls /\ faults \in 0..MaxFaults

LEMMA GuardRestStep ==
    ASSUME GuardTyped, GuardRest, Guard!Next
    PROVE  GuardRest'
<1>0. MaxCalls \in Nat /\ MaxFaults \in Nat
  BY CampusAssumption DEF CampusAssumption, Guard!GuardAssumption
<1>1. ASSUME NEW h \in Handler, op[h].at # "idle"
      PROVE  op[h].user \in User /\ op[h].ip \in Ip
  BY <1>1, UnderWay
<1> USE DEF GuardRest, Guard!keys, Guard!history, Guard!counts
<1>2. ASSUME NEW h \in Handler, NEW u \in User, NEW i \in Ip, NEW s, Guard!Arrive(h, u, i, s)
      PROVE  GuardRest'
  BY <1>0, <1>2 DEF Guard!Arrive
<1>3. ASSUME NEW h \in Handler, NEW kind \in Guard!Kind, NEW s, Guard!Raise(h, kind, s), noticed' \subseteq User
      PROVE  GuardRest'
  <2>1. alarms' # alarms \/ faults < MaxFaults
    BY <1>3 DEF Guard!Raise, GuardTyped
  <2>2. faults' \in 0..MaxFaults
    BY <1>0, <1>3, <2>1 DEF Guard!Raise
  <2> QED
    BY <1>3, <2>2 DEF Guard!Raise
<1>4. ASSUME NEW h \in Handler, Guard!BlockIp(h)
      PROVE  GuardRest'
  BY <1>1, <1>4 DEF Guard!BlockIp, Guard!At
<1>5. ASSUME NEW h \in Handler, Guard!AlertMultiDevice(h)
      PROVE  GuardRest'
  <2>1. op[h].user \in User
    BY <1>1, <1>5 DEF Guard!AlertMultiDevice, Guard!At
  <2> QED
    BY <1>3, <1>5, <2>1 DEF Guard!AlertMultiDevice, Guard!Kind
<1>6. ASSUME NEW h \in Handler, Guard!AlertBruteForce(h) \/ Guard!AlertUnusualHour(h) \/ Guard!AlertBulkDelete(h)
      PROVE  GuardRest'
  BY <1>3, <1>6 DEF Guard!AlertBruteForce, Guard!AlertUnusualHour, Guard!AlertBulkDelete, Guard!Kind
<1>7. ASSUME NEW h \in Handler, Guard!ForgetDevice(h)
      PROVE  GuardRest'
  BY <1>7 DEF Guard!ForgetDevice
<1>8. ASSUME NEW h \in Handler, Guard!CheckBulkDelete(h)
      PROVE  GuardRest'
  <2>1. op[h].user \in User
    BY <1>1, <1>8 DEF Guard!CheckBulkDelete, Guard!At
  <2> QED
    BY <1>8, <2>1 DEF Guard!CheckBulkDelete
<1>9. ASSUME NEW h \in Handler, Guard!RequestEnds(h)
      PROVE  GuardRest'
  BY <1>0, <1>9 DEF Guard!RequestEnds
<1>10. ASSUME NEW h \in Handler, \/ Guard!CheckIpBlocked(h) \/ Guard!ComparePassword(h) \/ Guard!RecordFailedLogin(h)
                                 \/ Guard!ClearCount(h) \/ Guard!AddDevice(h) \/ Guard!OpenSession(h)
                                 \/ Guard!OpenByBackupCode(h) \/ Guard!CountDevices(h) \/ Guard!CheckUnusualHour(h)
       PROVE  GuardRest'
  BY <1>10 DEF Guard!CheckIpBlocked, Guard!ComparePassword, Guard!RecordFailedLogin, Guard!ClearCount,
               Guard!AddDevice, Guard!OpenSession, Guard!OpenByBackupCode, Guard!CountDevices, Guard!CheckUnusualHour
<1>11. ASSUME NEW i \in Ip, Guard!BruteWindowEnds(i) \/ Guard!BlockEnds(i)
       PROVE  GuardRest'
  BY <1>11 DEF Guard!BruteWindowEnds, Guard!BlockEnds
<1>12. ASSUME NEW u \in User, Guard!DevicesForgotten(u) \/ Guard!TicketsEnd(u) \/ Guard!DeleteWindowEnds(u)
       PROVE  GuardRest'
  BY <1>12 DEF Guard!DevicesForgotten, Guard!TicketsEnd, Guard!DeleteWindowEnds
<1>13. ASSUME NEW h \in Handler, Guard!ResetLoginAttempts(h)
       PROVE  GuardRest'
  <2>1. op[h].user \in User
    BY <1>1, <1>13 DEF Guard!ResetLoginAttempts, Guard!At
  <2> QED
    BY <1>13, <2>1 DEF Guard!ResetLoginAttempts
<1>14. ASSUME NEW h \in Handler, NEW u \in User, NEW i \in Ip,
             \/ Guard!Login(h, u, i) \/ Guard!VerifyTwoFactor(h, u, i) \/ Guard!VerifyBackupCode(h, u, i)
             \/ Guard!Logout(h, u, i) \/ Guard!DeleteSomething(h, u, i)
       PROVE  GuardRest'
  <2>1. PICK s : Guard!Arrive(h, u, i, s)
    BY <1>14 DEF Guard!Login, Guard!VerifyTwoFactor, Guard!VerifyBackupCode, Guard!Logout, Guard!DeleteSomething
  <2> QED
    BY <1>2, <2>1
<1> HIDE DEF GuardRest
<1> QED
  BY <1>4, <1>5, <1>6, <1>7, <1>8, <1>9, <1>10, <1>11, <1>12, <1>13, <1>14 DEF Guard!Next, Guard!Request

(* A row of the sheet, and a request that may write one, has an enrolment. *)
Existing ==
    /\ \A h \in Handler, e \in Lessons!Enrolment : Lessons!Marking(h, e) => enrolled[e] # "none"
    /\ \A k \in Lessons!Enrolment \X Lesson :
          sheet[k] # Lessons!noRow => enrolled[k[1]] # "none" /\ sheet[k].status \in Lessons!AttendanceStatus
SheetRest ==
    /\ most \in [Course -> Seats] /\ readmitted \subseteq Lessons!Enrolment /\ overtaken \subseteq Lessons!Enrolment
    /\ ops \in 0..MaxOps /\ faults \in 0..MaxFaults

LEMMA SheetRestStep ==
    ASSUME Typed, SheetRest, Lessons!Next
    PROVE  SheetRest'
<1>0. MaxOps \in Nat /\ MaxFaults \in Nat
  BY CampusAssumption DEF CampusAssumption, Lessons!RegisterAssumption
<1> USE DEF SheetRest, Lessons!tables, Lessons!history
<1>1. ASSUME NEW h \in Handler, Lessons!Arrives(h)
      PROVE  SheetRest'
  BY <1>0, <1>1 DEF Lessons!Arrives, Lessons!Enroll, Lessons!FindEnrolment, Lessons!Mark, Lessons!MarkBulk,
                    Lessons!MarkByQr, Lessons!Begin
<1>2. ASSUME NEW h \in Handler, Lessons!SetEnrolmentStatus(h)
      PROVE  SheetRest'
  <2>1. op[h].e \in Lessons!Enrolment
    BY <1>2, Fields DEF Lessons!SetEnrolmentStatus, Lessons!At
  <2> QED
    BY <1>2, <2>1 DEF Lessons!SetEnrolmentStatus
<1>3. ASSUME NEW h \in Handler, Lessons!RequestEnds(h)
      PROVE  SheetRest'
  BY <1>0, <1>3 DEF Lessons!RequestEnds
<1>4. ASSUME NEW h \in Handler, Lessons!RequestStep(h), ~Lessons!SetEnrolmentStatus(h), ~Lessons!RequestEnds(h)
      PROVE  SheetRest'
  BY <1>4 DEF Lessons!RequestStep, Lessons!CountEnrolled, Lessons!FindExisting, Lessons!InsertEnrolment,
              Lessons!FindMarked, Lessons!FindMark, Lessons!InsertMark, Lessons!UpsertMarks,
              Lessons!FindQrEnrolment, Lessons!FindQrMark, Lessons!InsertQrMark, Lessons!DeleteQrToken
<1>5. ASSUME NEW a \in Staff, NEW c \in Course, NEW n \in Seats, Lessons!UpdateSeats(a, c, n)
      PROVE  SheetRest'
  BY <1>0, <1>5 DEF Lessons!UpdateSeats
<1>6. ASSUME NEW a \in Staff, NEW c \in Course, NEW status, Lessons!ChangeCourseStatus(a, c, status)
      PROVE  SheetRest'
  BY <1>0, <1>6 DEF Lessons!ChangeCourseStatus
<1>7. ASSUME NEW a \in Staff, NEW c \in Course, NEW l \in Lesson, NEW t \in Token, Lessons!GenerateQrToken(a, c, l, t)
      PROVE  SheetRest'
  BY <1>0, <1>7 DEF Lessons!GenerateQrToken
<1>8. ASSUME NEW t \in Token, Lessons!QrTokenExpires(t)
      PROVE  SheetRest'
  BY <1>8 DEF Lessons!QrTokenExpires
<1> HIDE DEF SheetRest
<1> QED
  BY <1>1, <1>2, <1>3, <1>4, <1>5, <1>6, <1>7, <1>8 DEF Lessons!Next

LEMMA EnrolledStays ==
    ASSUME Typed, Lessons!Next, NEW e \in Lessons!Enrolment, enrolled[e] # "none"
    PROVE  enrolled'[e] # "none"
<1>1. ASSUME NEW h \in Handler, Lessons!InsertEnrolment(h)
      PROVE  enrolled'[e] # "none"
  BY <1>1 DEF Lessons!InsertEnrolment, Typed
<1>2. ASSUME NEW h \in Handler, Lessons!SetEnrolmentStatus(h)
      PROVE  enrolled'[e] # "none"
  <2>1. op[h].e \in Lessons!Enrolment /\ op[h].new \in Lessons!EnrollmentStatus /\ enrolled' = [enrolled EXCEPT ![op[h].e] = op[h].new]
    BY <1>2, Fields DEF Lessons!SetEnrolmentStatus, Lessons!At
  <2> QED
    BY <2>1 DEF Typed, Lessons!EnrollmentStatus
<1>3. CASE UNCHANGED enrolled
  BY <1>3
<1> QED
  BY <1>1, <1>2, <1>3, Arrivals DEF Lessons!Next, Lessons!RequestStep, Lessons!CountEnrolled,
                                    Lessons!FindExisting, Lessons!FindMarked, Lessons!FindMark,
                                    Lessons!InsertMark, Lessons!UpsertMarks, Lessons!FindQrEnrolment,
                                    Lessons!FindQrMark, Lessons!InsertQrMark, Lessons!DeleteQrToken,
                                    Lessons!RequestEnds, Lessons!UpdateSeats,
                                    Lessons!ChangeCourseStatus, Lessons!GenerateQrToken,
                                    Lessons!QrTokenExpires, Lessons!tables

LEMMA ExistingStep ==
    ASSUME Typed, Existing, Lessons!Next
    PROVE  Existing'
<1>1. ASSUME NEW h \in Handler, NEW e \in Lessons!Enrolment, Lessons!Marking(h, e)'
      PROVE  enrolled'[e] # "none"
  BY <1>1, Markers, EnrolledStays DEF Existing
<1>2. ASSUME NEW k \in Lessons!Enrolment \X Lesson, sheet'[k] # Lessons!noRow
      PROVE  enrolled'[k[1]] # "none" /\ sheet'[k].status \in Lessons!AttendanceStatus
  <2>0. k[1] \in Lessons!Enrolment /\ sheet \in [Lessons!Enrolment \X Lesson -> SheetRow]
    BY DEF Typed
  <2>1. CASE sheet'[k] = sheet[k]
    BY <1>2, <2>0, <2>1, EnrolledStays DEF Existing
  <2>2. ASSUME NEW h \in Handler, Lessons!InsertMark(h), sheet'[k] # sheet[k]
        PROVE  enrolled'[k[1]] # "none" /\ sheet'[k].status \in Lessons!AttendanceStatus
    <3>1. op[h].e \in Lessons!Enrolment /\ op[h].l \in Lesson /\ op[h].status \in Lessons!AttendanceStatus
      BY <2>2, Fields DEF Lessons!InsertMark, Lessons!At, Writing
    <3>2. k = <<op[h].e, op[h].l>> /\ sheet'[k] = Lessons!Row(op[h].e, op[h].status, "none")
      BY <2>0, <2>2, <3>1 DEF Lessons!InsertMark
    <3>3. Lessons!Marking(h, k[1])
      BY <2>2, <3>1, <3>2 DEF Lessons!InsertMark, Lessons!At, Lessons!Marking
    <3> QED
      BY <2>0, <3>1, <3>2, <3>3, EnrolledStays DEF Existing, Lessons!Row
  <2>3. ASSUME NEW h \in Handler, Lessons!InsertQrMark(h), sheet'[k] # sheet[k]
        PROVE  enrolled'[k[1]] # "none" /\ sheet'[k].status \in Lessons!AttendanceStatus
    <3>1. op[h].e \in Lessons!Enrolment /\ op[h].l \in Lesson
      BY <2>3, Fields DEF Lessons!InsertQrMark, Lessons!At, Writing
    <3>2. k = <<op[h].e, op[h].l>> /\ sheet'[k] = Lessons!Row(op[h].e, "PRESENT", op[h].token)
      BY <2>0, <2>3, <3>1 DEF Lessons!InsertQrMark
    <3>3. Lessons!Marking(h, k[1])
      BY <2>3, <3>1, <3>2 DEF Lessons!InsertQrMark, Lessons!At, Lessons!Marking
    <3> QED
      BY <2>0, <3>1, <3>2, <3>3, EnrolledStays DEF Existing, Lessons!Row, Lessons!AttendanceStatus
  <2>4. ASSUME NEW h \in Handler, Lessons!UpsertMarks(h), sheet'[k] # sheet[k]
        PROVE  enrolled'[k[1]] # "none" /\ sheet'[k].status \in Lessons!AttendanceStatus
    <3>1. op[h].all \subseteq Lessons!Enrolment /\ op[h].l \in Lesson /\ op[h].status \in Lessons!AttendanceStatus
      BY <2>4, Fields DEF Lessons!UpsertMarks, Lessons!At
    <3>2. /\ k \in {<<e, op[h].l>> : e \in op[h].all}
          /\ \/ sheet'[k] = Lessons!Row(k[1], op[h].status, "none")
             \/ sheet'[k] = [sheet[k] EXCEPT !.status = op[h].status]
      BY <2>0, <2>4 DEF Lessons!UpsertMarks
    <3>3. Lessons!Marking(h, k[1])
      BY <2>4, <3>2 DEF Lessons!UpsertMarks, Lessons!At, Lessons!Marking
    <3>4. [sheet[k] EXCEPT !.status = op[h].status].status = op[h].status
      BY <2>0 DEF SheetRow
    <3>5. sheet'[k].status = op[h].status
      <4>1. Lessons!Row(k[1], op[h].status, "none").status = op[h].status
        BY DEF Lessons!Row
      <4> QED
        BY <3>2, <3>4, <4>1, Zenon
    <3> QED
      BY <2>0, <3>1, <3>3, <3>5, EnrolledStays DEF Existing
  <2>5. sheet'[k] = sheet[k] \/ \E h \in Handler : Lessons!InsertMark(h) \/ Lessons!InsertQrMark(h) \/ Lessons!UpsertMarks(h)
    BY Arrivals DEF Lessons!Next, Lessons!RequestStep, Lessons!CountEnrolled, Lessons!FindExisting,
                    Lessons!InsertEnrolment, Lessons!SetEnrolmentStatus, Lessons!FindMarked, Lessons!FindMark,
                    Lessons!FindQrEnrolment, Lessons!FindQrMark, Lessons!DeleteQrToken, Lessons!RequestEnds,
                    Lessons!UpdateSeats, Lessons!ChangeCourseStatus, Lessons!GenerateQrToken,
                    Lessons!QrTokenExpires, Lessons!tables
  <2> QED
    BY <2>1, <2>2, <2>3, <2>4, <2>5
<1> QED
  BY <1>1, <1>2 DEF Existing

(* The names: what NamesSteps says of the tables, and the counters.        *)
NamesRest ==
    /\ stale \subseteq Subject /\ crossed \subseteq User
    /\ ops \in 0..MaxCalls /\ faults \in 0..MaxFaults

LEMMA NamesRestStep ==
    ASSUME NamesTyped, NamesRest, Names!Next
    PROVE  NamesRest'
<1>0. MaxCalls \in Nat /\ MaxFaults \in Nat
  BY CampusAssumption DEF CampusAssumption, Names!CatalogueAssumption
<1> USE DEF NamesRest, Names!history
<1>1. ASSUME NEW h \in Handler, NEW r, Names!Begin(h, r), faults' = faults, stale' = stale, crossed' = crossed
      PROVE  NamesRest'
  BY <1>0, <1>1 DEF Names!Begin
<1>2. ASSUME NEW h \in Handler, NEW c \in Subject, NEW title \in Title, Names!Create(h, c, title) \/ Names!Update(h, c, title)
      PROVE  NamesRest'
  <2>1. CASE Names!Create(h, c, title)
    BY <1>1, <2>1 DEF Names!Create
  <2>2. CASE Names!Update(h, c, title)
    BY <1>1, <2>2 DEF Names!Update
  <2> QED
    BY <1>2, <2>1, <2>2
<1>3. ASSUME NEW h \in Handler, NEW u \in User, NEW email \in Email, Names!CreateUser(h, u, email)
      PROVE  NamesRest'
  BY <1>1, <1>3 DEF Names!CreateUser
<1>4. ASSUME NEW h \in Handler, NEW u \in User, Names!ToggleStatus(h, u)
      PROVE  NamesRest'
  BY <1>1, <1>4 DEF Names!ToggleStatus
<1>5. ASSUME NEW h \in Handler, NEW u \in User, NEW old \in Password, NEW new \in Password, Names!ChangePassword(h, u, old, new)
      PROVE  NamesRest'
  BY <1>1, <1>5 DEF Names!ChangePassword
<1>6. ASSUME NEW h \in Handler, Names!WriteCourse(h)
      PROVE  NamesRest'
  <2>1. op[h].id \in Subject
    BY <1>6 DEF Names!WriteCourse, Names!At, NamesTyped, CoursesTyped, Names!idle, Renaming, Inserting, Toggling, NewPassword
  <2> QED
    BY <1>6, <2>1 DEF Names!WriteCourse
<1>7. ASSUME NEW h \in Handler, Names!WriteStatus(h)
      PROVE  NamesRest'
  <2>1. op[h].id \in User
    BY <1>7 DEF Names!WriteStatus, Names!At, NamesTyped, CoursesTyped, Names!idle, Renaming, Inserting, Toggling, NewPassword
  <2> QED
    BY <1>7, <2>1 DEF Names!WriteStatus
<1>8. ASSUME NEW h \in Handler, Names!RequestEnds(h)
      PROVE  NamesRest'
  BY <1>0, <1>8 DEF Names!RequestEnds
<1>9. ASSUME NEW h \in Handler, Names!TrySlug(h) \/ Names!InsertUser(h) \/ Names!WritePassword(h)
      PROVE  NamesRest'
  BY <1>9 DEF Names!TrySlug, Names!InsertUser, Names!WritePassword
<1> HIDE DEF NamesRest
<1> QED
  BY <1>2, <1>3, <1>4, <1>5, <1>6, <1>7, <1>8, <1>9 DEF Names!Next

(* Each request under way may still push a row once.                       *)
Busy == {h \in Handler : op[h].at # "idle"}
PushesBounded ==
    /\ ops \in 0..MaxNotices /\ faults \in 0..MaxFaults /\ lost \subseteq 1..Len(rows)
    /\ Cardinality(Busy) <= ops
    /\ \A i \in 1..Len(rows) : rows[i].pushed + Cardinality(Busy) <= ops

LEMMA BusySets ==
    ASSUME NEW S, S \subseteq Handler
    PROVE  /\ IsFiniteSet(S) /\ Cardinality(S) \in Nat
           /\ \A h : h \notin S => Cardinality(S \cup {h}) = Cardinality(S) + 1
           /\ \A h \in S : Cardinality(S \ {h}) = Cardinality(S) - 1 /\ Cardinality(S) >= 1
<1>1. IsFiniteSet(Handler)
  BY CampusAssumption, Counting DEF CampusAssumption, Lessons!RegisterAssumption
<1>2. IsFiniteSet(S)
  BY <1>1, FS_Subset
<1>3. Cardinality(S) \in Nat
  BY <1>2, FS_CardinalityType
<1>4. \A h : h \notin S => Cardinality(S \cup {h}) = Cardinality(S) + 1
  BY <1>2, FS_AddElement
<1>5. ASSUME NEW h \in S
      PROVE  Cardinality(S \ {h}) = Cardinality(S) - 1 /\ Cardinality(S) >= 1
  <2>1. Cardinality(S \ {h}) = Cardinality(S) - 1
    BY <1>2, FS_RemoveElement
  <2>2. Cardinality(S \ {h}) \in Nat
    BY <1>2, FS_Subset, FS_CardinalityType
  <2> QED
    BY <1>3, <2>1, <2>2
<1> QED
  BY <1>2, <1>3, <1>4, <1>5

LEMMA PushesBoundedStep ==
    ASSUME NoticesInv, PushesBounded, Bulletin!Next
    PROVE  PushesBounded'
<1>0. /\ MaxNotices \in Nat /\ MaxFaults \in Nat /\ NoticesTyped /\ ListsStored
      /\ rows \in Seq(NoticeRow) /\ \A i \in 1..Len(rows) : rows[i].pushed \in Nat
  BY CampusAssumption, RowFields DEF CampusAssumption, Bulletin!NoticesAssumption, NoticesInv, NoticesTyped
<1>1. PICK h \in Handler :
        \/ op[h].at = "idle" /\ Sent(h, "insert") /\ UNCHANGED <<rows, faults, lost>>
        \/ Bulletin!InsertRows(h) \/ Bulletin!EmitOne(h) \/ Bulletin!EmitNewest(h) \/ Bulletin!CallFails(h)
  BY <1>0, NoticeSteps
<1>2. Busy \subseteq Handler /\ Cardinality(Busy) \in Nat
  BY BusySets DEF Busy
<1>3. ASSUME op[h].at = "idle", Sent(h, "insert"), UNCHANGED <<rows, faults, lost>>, ops < MaxNotices, ops' = ops + 1
      PROVE  PushesBounded'
  <2>1. Busy' = Busy \cup {h} /\ h \notin Busy
    BY <1>3 DEF Sent, Busy
  <2>2. Cardinality(Busy') = Cardinality(Busy) + 1
    BY <1>2, <2>1, BusySets
  <2>3. /\ rows' = rows /\ faults' = faults /\ lost' = lost
        /\ ops < MaxNotices /\ ops' = ops + 1 /\ ops \in 0..MaxNotices
    BY <1>3 DEF PushesBounded
  <2> HIDE DEF Busy
  <2>4. ops' \in 0..MaxNotices /\ Cardinality(Busy') <= ops'
    BY <1>0, <1>2, <2>2, <2>3 DEF PushesBounded
  <2>5. ASSUME NEW i \in 1..Len(rows)
        PROVE  rows[i].pushed + Cardinality(Busy') <= ops'
    <3>1. rows[i].pushed + Cardinality(Busy) <= ops /\ rows[i].pushed \in Nat
      BY <1>0, <2>5 DEF PushesBounded
    <3> QED
      BY <1>0, <1>2, <2>2, <2>3, <3>1
  <2> QED
    BY <2>3, <2>4, <2>5 DEF PushesBounded
<1>4. ASSUME op[h].at # "idle", Sent(h, "idle")
      PROVE  Cardinality(Busy') = Cardinality(Busy) - 1 /\ Cardinality(Busy) >= 1
  <2>1. Busy' = Busy \ {h} /\ h \in Busy
    BY <1>4 DEF Sent, Busy
  <2> QED
    BY <1>2, <2>1, BusySets
<1>5. ASSUME NEW ids, op[h].at # "idle", Bulletin!Push(ids), Bulletin!Finish(h), UNCHANGED <<ops, faults, lost>>
      PROVE  PushesBounded'
  <2>1. Sent(h, "idle")
    BY <1>0, <1>5, Finishes
  <2>2. Len(rows') = Len(rows) /\ \A i \in 1..Len(rows) : rows'[i].pushed \in {rows[i].pushed, rows[i].pushed + 1}
    BY <1>0, <1>5, Pushes
  <2> HIDE DEF Busy
  <2> QED
    BY <1>0, <1>2, <1>4, <1>5, <2>1, <2>2 DEF PushesBounded
<1>6. CASE Bulletin!InsertRows(h)
  <2>1. /\ Sent(h, IF op[h].one THEN "emit" ELSE "reread") /\ UNCHANGED <<ops, faults, lost>> /\ op[h].at = "insert"
        /\ Len(rows') = Len(rows) + Len(op[h].to) /\ op[h].to \in Seq(Reader)
        /\ \A i \in 1..Len(rows) : rows'[i].pushed = rows[i].pushed
        /\ \A k \in 1..Len(op[h].to) : rows'[Len(rows) + k].pushed = 0
    BY <1>0, <1>6, Stores, Senders DEF Bulletin!InsertRows, Bulletin!At
  <2>2. Busy' = Busy
    BY <2>1 DEF Sent, Busy
  <2>3. Len(rows) \in Nat /\ Len(op[h].to) \in Nat /\ Len(rows') \in Nat
    BY <1>0, <2>1
  <2>4. ASSUME NEW i \in 1..Len(rows')
        PROVE  rows'[i].pushed + Cardinality(Busy) <= ops
    <3>1. CASE i \in 1..Len(rows)
      BY <2>1, <3>1 DEF PushesBounded
    <3>2. CASE i \notin 1..Len(rows)
      <4>1. i - Len(rows) \in 1..Len(op[h].to) /\ Len(rows) + (i - Len(rows)) = i
        BY <2>1, <2>3, <3>2
      <4>2. rows'[i].pushed = 0
        BY <2>1, <4>1
      <4> HIDE DEF Busy
      <4> QED
        BY <1>2, <4>2 DEF PushesBounded
    <3> QED
      BY <3>1, <3>2
  <2> HIDE DEF Busy
  <2> QED
    BY <2>1, <2>2, <2>3, <2>4 DEF PushesBounded
<1>7. CASE Bulletin!EmitOne(h)
  BY <1>5, <1>7 DEF Bulletin!EmitOne, Bulletin!At
<1>8. CASE Bulletin!EmitNewest(h)
  BY <1>5, <1>8 DEF Bulletin!EmitNewest, Bulletin!At
<1>9. CASE Bulletin!CallFails(h)
  <2>1. Sent(h, "idle") /\ op[h].at # "idle" /\ UNCHANGED <<rows, ops>>
    BY <1>0, <1>9, Finishes DEF Bulletin!CallFails, Bulletin!At
  <2>2. Storing(h) => op[h].ids \subseteq 1..Len(rows)
    BY <1>0, StoredIds
  <2>3. lost' \subseteq 1..Len(rows)
    BY <1>0, <1>9, <2>1, <2>2, Senders DEF Bulletin!CallFails, Bulletin!At, Storing, PushesBounded
  <2>4. faults' \in 0..MaxFaults
    BY <1>0, <1>9 DEF Bulletin!CallFails, PushesBounded
  <2> HIDE DEF Busy
  <2> QED
    BY <1>0, <1>2, <1>4, <2>1, <2>3, <2>4 DEF PushesBounded
<1>10. op[h].at = "idle" /\ Sent(h, "insert") => ops < MaxNotices /\ ops' = ops + 1
  BY DEF Bulletin!Next, Bulletin!Create, Bulletin!CreateMany, Bulletin!NotifyAdmins, Bulletin!Begin,
         Bulletin!InsertRows, Bulletin!EmitOne, Bulletin!EmitNewest, Bulletin!CallFails, Bulletin!Finish, Bulletin!At, Sent
<1> QED
  BY <1>1, <1>3, <1>6, <1>7, <1>8, <1>9, <1>10

LEMMA NoticesTypes ==
    ASSUME NoticesInv, PushesBounded
    PROVE  Bulletin!TypeOK
<1>0. NoticesTyped /\ rows \in Seq(NoticeRow) /\ Bulletin!Ids = 1..Len(rows)
  BY DEF NoticesInv, NoticesTyped, Bulletin!Ids
<1>1. Cardinality(Busy) \in Nat
  BY BusySets DEF Busy
<1>2. ASSUME NEW i \in 1..Len(rows)
      PROVE  rows[i] \in [to : Reader, pushed : 0..MaxNotices, passed : BOOLEAN]
  <2>1. rows[i] \in NoticeRow /\ rows[i].pushed \in 0..MaxNotices
    <3> HIDE DEF Busy
    <3>1. rows[i] \in NoticeRow /\ rows[i].pushed \in Nat
      BY <1>0, RowFields
    <3> QED
      BY <1>1, <3>1, CampusAssumption DEF PushesBounded, CampusAssumption, Bulletin!NoticesAssumption
  <2> QED
    BY <2>1 DEF NoticeRow
<1>3. rows \in Seq([to : Reader, pushed : 0..MaxNotices, passed : BOOLEAN])
  <2> DEFINE R == [to : Reader, pushed : 0..MaxNotices, passed : BOOLEAN]
  <2>1. \A i \in 1..Len(rows) : rows[i] \in R
    BY <1>2
  <2> HIDE DEF R
  <2>2. rows \in Seq(R)
    BY <1>0, <2>1
  <2> QED
    BY <2>2 DEF R
<1> QED
  BY <1>0, <1>3 DEF Bulletin!TypeOK, PushesBounded

(* Each page that was opened brings one check.                             *)
JoinsIn(w) == {k \in 1..Len(w) : w[k] = "join"}
Waiting(w) == Cardinality(JoinsIn(w))
ChecksBounded ==
    /\ fresh \subseteq Client /\ page \subseteq Client /\ room \subseteq Client /\ student \subseteq Client
    /\ overtaken \subseteq Client /\ cut \subseteq Client
    /\ pages \in 0..MaxPages /\ breaks \in 0..MaxBreaks /\ (page # {} => pages > 0)
    /\ \A c \in Client : checks[c] + Waiting(wire[c]) <= pages

LEMMA JoinCounts ==
    ASSUME NEW w \in Seq({"join", "leave"})
    PROVE  /\ Waiting(w) \in Nat
           /\ Waiting(Append(w, "join")) = Waiting(w) + 1
           /\ Waiting(Append(w, "leave")) = Waiting(w)
           /\ w # <<>> => Waiting(Tail(w)) <= Waiting(w) /\ Waiting(Tail(w)) \in Nat
           /\ w # <<>> /\ Head(w) = "join" => Waiting(Tail(w)) + 1 <= Waiting(w)
           /\ Waiting(<<>>) = 0 /\ Waiting(<<"join">>) = 1
<1>0. Len(w) \in Nat
  OBVIOUS
<1>1. IsFiniteSet(JoinsIn(w)) /\ Cardinality(JoinsIn(w)) \in Nat
  <2>1. IsFiniteSet(1..Len(w)) /\ JoinsIn(w) \subseteq 1..Len(w)
    BY <1>0, FS_Interval DEF JoinsIn
  <2> QED
    BY <2>1, FS_Subset, FS_CardinalityType
<1>2. JoinsIn(Append(w, "join")) = JoinsIn(w) \cup {Len(w) + 1} /\ Len(w) + 1 \notin JoinsIn(w)
  BY <1>0 DEF JoinsIn
<1>3. JoinsIn(Append(w, "leave")) = JoinsIn(w)
  BY <1>0 DEF JoinsIn
<1>4. ASSUME w # <<>>
      PROVE  /\ Cardinality(JoinsIn(Tail(w))) <= Cardinality(JoinsIn(w) \ {1})
             /\ Cardinality(JoinsIn(w) \ {1}) <= Cardinality(JoinsIn(w))
             /\ Head(w) = "join" => Cardinality(JoinsIn(w) \ {1}) = Cardinality(JoinsIn(w)) - 1
             /\ Cardinality(JoinsIn(Tail(w))) \in Nat /\ Cardinality(JoinsIn(w) \ {1}) \in Nat
  <2>1. Len(w) > 0 /\ Len(Tail(w)) = Len(w) - 1 /\ (\A k \in 1..(Len(w) - 1) : Tail(w)[k] = w[k + 1]) /\ Head(w) = w[1]
    BY <1>4
  <2>2. IsFiniteSet(JoinsIn(w) \ {1})
    BY <1>1, FS_Subset
  <2> DEFINE f == [k \in JoinsIn(Tail(w)) |-> k + 1]
  <2>3. f \in [JoinsIn(Tail(w)) -> JoinsIn(w) \ {1}]
    BY <1>0, <2>1 DEF JoinsIn
  <2>4. \A j, k \in JoinsIn(Tail(w)) : f[j] = f[k] => j = k
    BY DEF JoinsIn
  <2>5. f \in Injection(JoinsIn(Tail(w)), JoinsIn(w) \ {1})
    BY <2>3, <2>4 DEF Injection, IsInjective
  <2>6. IsFiniteSet(JoinsIn(Tail(w))) /\ Cardinality(JoinsIn(Tail(w))) <= Cardinality(JoinsIn(w) \ {1})
    BY <2>2, <2>5, FS_Injection
  <2>7. Cardinality(JoinsIn(w) \ {1}) <= Cardinality(JoinsIn(w))
    BY <1>1, FS_Subset
  <2>8. Head(w) = "join" => 1 \in JoinsIn(w)
    BY <2>1 DEF JoinsIn
  <2>9. Head(w) = "join" => Cardinality(JoinsIn(w) \ {1}) = Cardinality(JoinsIn(w)) - 1
    BY <1>1, <2>8, FS_RemoveElement
  <2> QED
    BY <2>2, <2>6, <2>7, <2>9, FS_CardinalityType
<1>5. JoinsIn(<<>>) = {} /\ JoinsIn(<<"join">>) = {1}
  BY DEF JoinsIn
<1>6. Cardinality(JoinsIn(w) \cup {Len(w) + 1}) = Cardinality(JoinsIn(w)) + 1
  BY <1>1, <1>2, FS_AddElement
<1>7. Waiting(<<>>) = 0 /\ Waiting(<<"join">>) = 1
  BY <1>5, FS_EmptySet, FS_Singleton DEF Waiting
<1>8. Waiting(w) \in Nat /\ Waiting(Append(w, "leave")) = Waiting(w)
  BY <1>1, <1>3 DEF Waiting
<1>9. Waiting(Append(w, "join")) = Waiting(w) + 1
  BY <1>2, <1>6 DEF Waiting
<1>10. w # <<>> => Waiting(Tail(w)) <= Waiting(w) /\ Waiting(Tail(w)) \in Nat
  <2> SUFFICES ASSUME w # <<>> PROVE Waiting(Tail(w)) <= Waiting(w) /\ Waiting(Tail(w)) \in Nat
    OBVIOUS
  <2> DEFINE b == Cardinality(JoinsIn(w) \ {1})
  <2>1. Waiting(Tail(w)) <= b /\ b <= Waiting(w) /\ Waiting(Tail(w)) \in Nat /\ b \in Nat
    BY <1>4 DEF Waiting
  <2> HIDE DEF b
  <2> QED
    BY <1>8, <2>1
<1>11. w # <<>> /\ Head(w) = "join" => Waiting(Tail(w)) + 1 <= Waiting(w)
  <2> SUFFICES ASSUME w # <<>>, Head(w) = "join" PROVE Waiting(Tail(w)) + 1 <= Waiting(w)
    OBVIOUS
  <2> DEFINE b == Cardinality(JoinsIn(w) \ {1})
  <2>1. Waiting(Tail(w)) <= b /\ b = Waiting(w) - 1 /\ Waiting(Tail(w)) \in Nat /\ b \in Nat
    BY <1>4 DEF Waiting
  <2> HIDE DEF b
  <2> QED
    BY <1>8, <2>1
<1> QED
  BY <1>7, <1>8, <1>9, <1>10, <1>11

LEMMA ChecksBoundedStep ==
    ASSUME RoomInv, ChecksBounded, Gateway!Next
    PROVE  ChecksBounded'
<1>0. /\ MaxPages \in Nat /\ MaxBreaks \in Nat /\ wire \in [Client -> Seq({"join", "leave"})] /\ checks \in [Client -> Nat]
      /\ \A c \in Client : Waiting(wire[c]) \in Nat
      /\ Waiting(<<>>) = 0 /\ Waiting(<<"join">>) = 1
      /\ pages \in Nat /\ \A c \in Client : checks[c] + Waiting(wire[c]) <= pages
  <2>1. wire \in [Client -> Seq({"join", "leave"})] /\ checks \in [Client -> Nat] /\ <<>> \in Seq({"join", "leave"})
    BY DEF RoomInv, SocketTyped, WireTyped
  <2>2. MaxPages \in Nat /\ MaxBreaks \in Nat
    BY CampusAssumption DEF CampusAssumption, Gateway!RoomsAssumption
  <2> QED
    BY <2>1, <2>2, JoinCounts DEF ChecksBounded
<1>1. PICK c \in Client :
        \/ Gateway!Connect(c) \/ Gateway!TokenExpires(c) \/ Gateway!Disconnect(c) \/ Gateway!Reconnect(c)
        \/ Gateway!OpenPage(c) \/ Gateway!ClosePage(c) \/ Gateway!Enrolled(c)
        \/ Gateway!JoinCourse(c) \/ Gateway!CheckAnswered(c) \/ Gateway!CheckFails(c) \/ Gateway!LeaveCourse(c)
  BY DEF Gateway!Next
<1>2. ASSUME \A d \in Client : d # c => wire'[d] = wire[d] /\ checks'[d] = checks[d], pages' >= pages, pages' \in Nat,
             checks'[c] + Waiting(wire'[c]) <= pages', NEW d \in Client
      PROVE  checks'[d] + Waiting(wire'[d]) <= pages'
  <2> DEFINE x == checks[d]
             y == Waiting(wire[d])
  <2>1. CASE d = c
    BY <1>2, <2>1
  <2>2. CASE d # c
    <3>1. checks'[d] = x /\ wire'[d] = wire[d] /\ x \in Nat /\ y \in Nat /\ x + y <= pages
      BY <1>0, <1>2, <2>2
    <3>2. Waiting(wire'[d]) = y
      BY <3>1
    <3> HIDE DEF x, y
    <3> QED
      BY <1>0, <1>2, <3>1, <3>2
  <2> QED
    BY <2>1, <2>2
<1> USE DEF Gateway!client, Gateway!history
<1>3. CASE Gateway!Connect(c)
  <2>1. checks[c] = 0 /\ (c \in page => pages >= 1) /\ pages \in Nat
    BY <1>3 DEF Gateway!Connect, RoomInv, Forgotten, ChecksBounded
  <2>2. wire'[c] = (IF c \in page THEN <<"join">> ELSE <<>>) /\ \A d \in Client : d # c => wire'[d] = wire[d]
    BY <1>0, <1>3 DEF Gateway!Connect
  <2>3. Waiting(wire'[c]) = IF c \in page THEN 1 ELSE 0
    BY <1>0, <2>2
  <2> QED
    BY <1>0, <1>2, <1>3, <2>1, <2>2, <2>3 DEF Gateway!Connect, ChecksBounded
<1>4. CASE Gateway!TokenExpires(c) \/ Gateway!Reconnect(c) \/ Gateway!Enrolled(c)
  BY <1>0, <1>4 DEF Gateway!TokenExpires, Gateway!Reconnect, Gateway!Enrolled, ChecksBounded
<1>5. CASE Gateway!Disconnect(c)
  <2>1. wire'[c] = <<>> /\ checks'[c] = 0 /\ \A d \in Client : d # c => wire'[d] = wire[d] /\ checks'[d] = checks[d]
    BY <1>0, <1>5 DEF Gateway!Disconnect
  <2> QED
    BY <1>0, <1>2, <1>5, <2>1 DEF Gateway!Disconnect, ChecksBounded
<1>6. ASSUME NEW m \in {"join", "leave"}, Gateway!Send(c, m)
      PROVE  /\ \A d \in Client : d # c => wire'[d] = wire[d]
             /\ m = "join" => Waiting(wire'[c]) <= Waiting(wire[c]) + 1 /\ Waiting(wire'[c]) \in Nat
             /\ m = "leave" => Waiting(wire'[c]) = Waiting(wire[c])
  <2>1. wire'[c] \in {wire[c], Append(wire[c], m)} /\ \A d \in Client : d # c => wire'[d] = wire[d]
    BY <1>0, <1>6 DEF Gateway!Send
  <2>2. wire[c] \in Seq({"join", "leave"})
    BY <1>0
  <2>3. /\ Waiting(Append(wire[c], "join")) = Waiting(wire[c]) + 1
        /\ Waiting(Append(wire[c], "leave")) = Waiting(wire[c])
    BY <2>2, JoinCounts
  <2>4. Waiting(wire[c]) \in Nat
    BY <1>0
  <2>5. CASE wire'[c] = wire[c]
    BY <2>1, <2>4, <2>5
  <2>6. CASE wire'[c] = Append(wire[c], m)
    <3>1. CASE m = "join"
      BY <2>1, <2>3, <2>4, <2>6, <3>1
    <3>2. CASE m = "leave"
      BY <2>1, <2>3, <2>4, <2>6, <3>2
    <3> QED
      BY <1>6, <3>1, <3>2
  <2> QED
    BY <2>1, <2>5, <2>6
<1>7. CASE Gateway!OpenPage(c)
  <2>1. pages' = pages + 1 /\ pages' \in 0..MaxPages /\ pages \in Nat /\ Gateway!Send(c, "join") /\ checks' = checks
    BY <1>0, <1>7 DEF Gateway!OpenPage, ChecksBounded
  <2>2. checks'[c] + Waiting(wire'[c]) <= pages'
    BY <1>0, <1>6, <2>1 DEF ChecksBounded
  <2> QED
    BY <1>0, <1>2, <1>6, <1>7, <2>1, <2>2 DEF Gateway!OpenPage, ChecksBounded
<1>8. CASE Gateway!ClosePage(c)
  <2>1. Gateway!Send(c, "leave") /\ checks' = checks /\ pages' = pages /\ pages \in Nat
    BY <1>8 DEF Gateway!ClosePage, ChecksBounded
  <2>2. checks'[c] + Waiting(wire'[c]) <= pages'
    BY <1>0, <1>6, <2>1 DEF ChecksBounded
  <2> QED
    BY <1>0, <1>2, <1>6, <1>8, <2>1, <2>2 DEF Gateway!ClosePage, ChecksBounded
<1>9. ASSUME NEW m \in {"join", "leave"}, Gateway!Arrives(c, m)
      PROVE  /\ \A d \in Client : d # c => wire'[d] = wire[d]
             /\ Waiting(wire'[c]) <= Waiting(wire[c]) /\ Waiting(wire'[c]) \in Nat
             /\ m = "join" => Waiting(wire'[c]) + 1 <= Waiting(wire[c])
  <2>1. wire'[c] = Tail(wire[c]) /\ wire[c] # <<>> /\ Head(wire[c]) = m /\ \A d \in Client : d # c => wire'[d] = wire[d]
    BY <1>0, <1>9 DEF Gateway!Arrives
  <2>2. wire[c] \in Seq({"join", "leave"}) /\ Tail(wire[c]) \in Seq({"join", "leave"})
    BY <1>0, <2>1
  <2> QED
    BY <1>0, <2>1, <2>2, JoinCounts
<1>10. CASE Gateway!JoinCourse(c)
  <2>1. Gateway!Arrives(c, "join") /\ checks'[c] = checks[c] + 1 /\ (\A d \in Client : d # c => checks'[d] = checks[d])
        /\ pages' = pages /\ pages \in Nat
    BY <1>0, <1>10 DEF Gateway!JoinCourse, ChecksBounded
  <2>2. checks'[c] + Waiting(wire'[c]) <= pages'
    BY <1>0, <1>9, <2>1 DEF ChecksBounded
  <2> QED
    BY <1>0, <1>2, <1>9, <1>10, <2>1, <2>2 DEF Gateway!JoinCourse, ChecksBounded
<1>11. CASE Gateway!CheckAnswered(c) \/ Gateway!CheckFails(c)
  <2>1. checks'[c] = checks[c] - 1 /\ (\A d \in Client : d # c => checks'[d] = checks[d])
        /\ pages' = pages /\ pages \in Nat /\ wire' = wire
    BY <1>0, <1>11 DEF Gateway!CheckAnswered, Gateway!CheckFails, ChecksBounded
  <2>2. checks'[c] + Waiting(wire'[c]) <= pages'
    BY <1>0, <2>1 DEF ChecksBounded
  <2> QED
    BY <1>0, <1>2, <1>11, <2>1, <2>2 DEF Gateway!CheckAnswered, Gateway!CheckFails, ChecksBounded
<1>12. CASE Gateway!LeaveCourse(c)
  <2>1. Gateway!Arrives(c, "leave") /\ checks' = checks /\ pages' = pages /\ pages \in Nat
    BY <1>12 DEF Gateway!LeaveCourse, ChecksBounded
  <2>2. checks'[c] + Waiting(wire'[c]) <= pages'
    BY <1>0, <1>9, <2>1 DEF ChecksBounded
  <2> QED
    BY <1>0, <1>2, <1>9, <1>12, <2>1, <2>2 DEF Gateway!LeaveCourse, ChecksBounded
<1> QED
  BY <1>1, <1>3, <1>4, <1>5, <1>7, <1>8, <1>10, <1>11, <1>12

(* What the messages on the wire and the checks bring is bounded by the    *)
(* pages that were opened.                                                 *)
LEMMA RoomsTypes ==
    ASSUME RoomInv, ChecksBounded
    PROVE  Gateway!TypeOK
<1>1. wire \in [Client -> Seq({"join", "leave"})] /\ checks \in [Client -> Nat]
      /\ link \in [Client -> {"out", "up", "down", "off"}]
  BY DEF RoomInv, SocketTyped, WireTyped
<1>2. ASSUME NEW c \in Client
      PROVE  checks[c] \in 0..MaxPages
  <2>1. wire[c] \in Seq({"join", "leave"}) /\ checks[c] \in Nat
    BY <1>1
  <2>2. Waiting(wire[c]) \in Nat
    BY <2>1, JoinCounts
  <2>3. MaxPages \in Nat /\ pages \in 0..MaxPages /\ checks[c] + Waiting(wire[c]) <= pages
    BY CampusAssumption DEF CampusAssumption, Gateway!RoomsAssumption, ChecksBounded
  <2> QED
    BY <2>1, <2>2, <2>3
<1>3. checks \in [Client -> 0..MaxPages]
  BY <1>1, <1>2
<1> QED
  BY <1>1, <1>3 DEF Gateway!TypeOK, ChecksBounded

(* No file and no process has a version that was not trained.              *)
Versions ==
    /\ disk.model <= trained /\ disk.scaler <= trained
    /\ \A p \in Dropout!Process :
          /\ memory[p].model <= trained /\ memory[p].scaler <= trained
          /\ trainer[p].version <= trained
RiskRest ==
    /\ starts \in 0..MaxStarts /\ trained \in 0..MaxTrainings /\ faults \in 0..MaxFaults
    /\ uneven \in BOOLEAN /\ legacy \subseteq Web

LEMMA VersionsStep ==
    ASSUME ModelsTyped, Versions, NEW p \in Dropout!Process, Training(p)
    PROVE  Versions'
<1> USE DEF ModelsTyped, ModelPair, Trainer, Versions, Dropout!Step, Dropout!idle, Dropout!none
<1>1. CASE Dropout!Train(p)
  BY <1>1 DEF Dropout!Train
<1>2. CASE Dropout!PublishModel(p)
  BY <1>2 DEF Dropout!PublishModel
<1>3. CASE Dropout!PublishScaler(p)
  BY <1>3 DEF Dropout!PublishScaler
<1>4. CASE Dropout!LoadModel(p)
  BY <1>4 DEF Dropout!LoadModel
<1>5. CASE Dropout!LoadModelFails(p)
  BY <1>5 DEF Dropout!LoadModelFails
<1>6. CASE Dropout!LoadScaler(p)
  BY <1>6 DEF Dropout!LoadScaler
<1>7. CASE Dropout!LoadScalerFails(p)
  BY <1>7 DEF Dropout!LoadScalerFails
<1>8. CASE Dropout!Restart(p)
  BY <1>8 DEF Dropout!Restart
<1> QED
  BY <1>1, <1>2, <1>3, <1>4, <1>5, <1>6, <1>7, <1>8 DEF Training

LEMMA RiskRestStep ==
    ASSUME RiskRest, Dropout!Next
    PROVE  RiskRest'
<1>0. MaxStarts \in Nat /\ MaxTrainings \in Nat /\ MaxFaults \in Nat
  BY CampusAssumption DEF CampusAssumption, Dropout!RiskAssumption
<1>1. starts' \in 0..MaxStarts
  <2>1. starts' = starts \/ (starts < MaxStarts /\ starts' = starts + 1)
    BY DEF Dropout!Next, Dropout!Start, Dropout!NextRow, Dropout!Update, Dropout!Deadlock, Dropout!StatementFails,
           Dropout!RowRefused, Dropout!Commit, Dropout!CommitFails, Dropout!Notify, Dropout!Train,
           Dropout!PublishModel, Dropout!PublishScaler, Dropout!LoadModel, Dropout!LoadModelFails,
           Dropout!LoadScaler, Dropout!LoadScalerFails, Dropout!TrainLegacy, Dropout!Restart
  <2> QED
    BY <1>0, <2>1 DEF RiskRest
<1>2. trained' \in 0..MaxTrainings
  <2>1. trained' = trained \/ (trained < MaxTrainings /\ trained' = trained + 1)
    BY Trainings DEF Training, Dropout!Train,
           Dropout!PublishModel, Dropout!PublishScaler, Dropout!LoadModel, Dropout!LoadModelFails,
           Dropout!LoadScaler, Dropout!LoadScalerFails, Dropout!Restart
  <2> QED
    BY <1>0, <2>1 DEF RiskRest
<1>3. faults' \in 0..MaxFaults
  <2>1. faults' = faults \/ (faults < MaxFaults /\ faults' = faults + 1)
    BY DEF Dropout!Next, Dropout!Start, Dropout!NextRow, Dropout!Update, Dropout!Deadlock, Dropout!StatementFails,
           Dropout!RowRefused, Dropout!Commit, Dropout!CommitFails, Dropout!Notify, Dropout!Train,
           Dropout!PublishModel, Dropout!PublishScaler, Dropout!LoadModel, Dropout!LoadModelFails,
           Dropout!LoadScaler, Dropout!LoadScalerFails, Dropout!TrainLegacy, Dropout!Restart
  <2> QED
    BY <1>0, <2>1 DEF RiskRest
<1>4. uneven' \in BOOLEAN
  BY Trainings, Zenon DEF RiskRest, Training, Dropout!Train,
           Dropout!PublishModel, Dropout!PublishScaler, Dropout!LoadModel, Dropout!LoadModelFails,
           Dropout!LoadScaler, Dropout!LoadScalerFails, Dropout!Restart
<1>5. legacy' \subseteq Web
  <2>1. legacy' = legacy \/ \E p \in Dropout!Process : legacy' = legacy \ {p} \/ (p \in Web /\ legacy' = legacy \cup {p})
    BY DEF Dropout!Next, Dropout!Start, Dropout!NextRow, Dropout!Update, Dropout!Deadlock, Dropout!StatementFails,
           Dropout!RowRefused, Dropout!Commit, Dropout!CommitFails, Dropout!Notify, Dropout!models, Dropout!Train,
           Dropout!PublishModel, Dropout!PublishScaler, Dropout!LoadModel, Dropout!LoadModelFails,
           Dropout!LoadScaler, Dropout!LoadScalerFails, Dropout!TrainLegacy, Dropout!Restart
  <2> QED
    BY <2>1 DEF RiskRest
<1> QED
  BY <1>1, <1>2, <1>3, <1>4, <1>5 DEF RiskRest

(* A run counts as high what is, and its scores are clamped.               *)
Banded(r) ==
    r # Idle => /\ r.high \subseteq Member \X (7..10)
                /\ r.kind = "nightly" => r.wrote \subseteq Member \X (0..10)

LEMMA Clamped ==
    ASSUME NEW p, NEW e \in Member
    PROVE  Dropout!PredictScore(p, Facts[e]) \subseteq 0..10
<1>0. Dropout!RiskAssumption
  BY CampusAssumption DEF CampusAssumption
<1>1. Dropout!RuleScore(Facts[e]) \in -4..10
  BY <1>0, Scores
<1>2. Dropout!Clamp(Dropout!RuleScore(Facts[e])) \in 0..10
  BY <1>1 DEF Dropout!Clamp
<1> QED
  BY <1>2 DEF Dropout!PredictScore

LEMMA BandedStep ==
    ASSUME RunsInv, \A t \in Tx : Banded(tx[t]), Dropout!Next
    PROVE  \A t \in Tx : Banded(tx'[t])
<1>0. Banded(Idle) /\ RunsTyped /\ tx \in [Tx -> {Dropout!idleTx} \cup Transaction]
  BY DEF Banded, RunsInv, RunsTyped
<1>1. ASSUME NEW t \in Tx, NEW r, tx' = [tx EXCEPT ![t] = r], Banded(r)
      PROVE  \A u \in Tx : Banded(tx'[u])
  BY <1>0, <1>1
<1>2. ASSUME NEW t \in Tx, tx[t].at = "scoring"
      PROVE  tx[t] \in Transaction /\ tx[t] # Idle
  BY <1>2, ScoringRow DEF Idle, Dropout!idleTx
<1>3. ASSUME NEW t \in Tx, NEW p \in Dropout!Process, NEW kind \in {"nightly", "batch"}, Dropout!Start(t, kind, p)
      PROVE  \A u \in Tx : Banded(tx'[u])
  BY <1>1, <1>3 DEF Dropout!Start, Banded
<1>4. ASSUME NEW t \in Tx, NEW e \in Member, Dropout!NextRow(t, e)
      PROVE  \A u \in Tx : Banded(tx'[u])
  <2> DEFINE r == [tx[t] EXCEPT !.row = e, !.todo = @ \ {e}]
  <2>1. tx' = [tx EXCEPT ![t] = r] /\ tx[t] \in Transaction /\ tx[t] # Idle
    BY <1>2, <1>4 DEF Dropout!NextRow
  <2>2. r.high = tx[t].high /\ r.kind = tx[t].kind /\ r.wrote = tx[t].wrote
    BY <2>1 DEF Transaction
  <2>3. Banded(r)
    BY <2>1, <2>2 DEF Banded
  <2> QED
    BY <1>1, <2>1, <2>3
<1>5. ASSUME NEW t \in Tx, Dropout!Update(t)
      PROVE  \A u \in Tx : Banded(tx'[u])
  <2> DEFINE e == tx[t].row
  <2>0. tx[t] \in Transaction /\ tx[t] # Idle /\ e \in Member
    BY <1>2, <1>5 DEF Dropout!Update, Transaction
  <2>1. PICK s \in -4..10 :
          /\ tx[t].kind = "nightly" => s \in 0..10
          /\ tx' = [tx EXCEPT ![t].row = Dropout!None, ![t].wrote = @ \cup {<<e, s>>},
                              ![t].high = IF Dropout!High(s) THEN @ \cup {<<e, s>>} ELSE @]
    <3>1. Dropout!BatchScore(tx[t].fitted, Facts[e]) \subseteq -4..10 /\ Dropout!PredictScore(tx[t].by, Facts[e]) \subseteq 0..10
      BY <2>0, Clamped, Scores, CampusAssumption DEF CampusAssumption
    <3> DEFINE S == IF tx[t].kind = "nightly" THEN Dropout!PredictScore(tx[t].by, Facts[e]) ELSE Dropout!BatchScore(tx[t].fitted, Facts[e])
    <3>2. PICK s \in S :
            tx' = [tx EXCEPT ![t].row = Dropout!None, ![t].wrote = @ \cup {<<e, s>>},
                             ![t].high = IF Dropout!High(s) THEN @ \cup {<<e, s>>} ELSE @]
      BY <1>5, Zenon DEF Dropout!Update
    <3>3. s \in -4..10 /\ (tx[t].kind = "nightly" => s \in 0..10)
      BY <3>1
    <3> QED
      BY <3>2, <3>3
  <2> DEFINE r == [tx[t] EXCEPT !.row = Dropout!None, !.wrote = @ \cup {<<e, s>>},
                                !.high = IF Dropout!High(s) THEN @ \cup {<<e, s>>} ELSE @]
  <2>2. tx' = [tx EXCEPT ![t] = r]
    BY <2>1
  <2>3. /\ r.wrote = tx[t].wrote \cup {<<e, s>>} /\ r.kind = tx[t].kind
        /\ r.high = (IF Dropout!High(s) THEN tx[t].high \cup {<<e, s>>} ELSE tx[t].high)
    BY <2>0 DEF Transaction
  <2>4. Dropout!High(s) => s \in 7..10
    BY DEF Dropout!High
  <2> HIDE DEF r
  <2>5. r.high \subseteq Member \X (7..10)
    BY <2>0, <2>3, <2>4 DEF Banded
  <2>6. r.kind = "nightly" => r.wrote \subseteq Member \X (0..10)
    <3> SUFFICES ASSUME r.kind = "nightly"
                 PROVE  r.wrote \subseteq Member \X (0..10)
      OBVIOUS
    <3>1. s \in 0..10 /\ tx[t].wrote \subseteq Member \X (0..10)
      BY <2>0, <2>1, <2>3 DEF Banded
    <3> QED
      BY <2>0, <2>3, <3>1
  <2>7. Banded(r)
    BY <2>5, <2>6 DEF Banded
  <2> QED
    BY <1>1, <2>2, <2>7
<1>6. ASSUME NEW t \in Tx, Dropout!Deadlock(t) \/ Dropout!StatementFails(t)
      PROVE  \A u \in Tx : Banded(tx'[u])
  <2> DEFINE r == [tx[t] EXCEPT !.row = Dropout!None, !.wrote = {}, !.aborted = TRUE]
  <2>1. tx[t] \in Transaction /\ tx[t] # Idle
    BY <1>2, <1>6 DEF Dropout!Deadlock, Dropout!StatementFails, Dropout!WaitsFor
  <2>2. r.high = tx[t].high /\ r.wrote = {}
    BY <2>1 DEF Transaction
  <2>3. Banded(r)
    BY <2>1, <2>2 DEF Banded
  <2>4. tx' = [tx EXCEPT ![t] = Idle] \/ tx' = [tx EXCEPT ![t] = r]
    BY <1>6 DEF Dropout!Deadlock, Dropout!StatementFails, Dropout!Abort, Idle
  <2> QED
    BY <1>0, <1>1, <2>3, <2>4
<1>7. ASSUME NEW t \in Tx, Dropout!RowRefused(t)
      PROVE  \A u \in Tx : Banded(tx'[u])
  <2> DEFINE r == [tx[t] EXCEPT !.row = Dropout!None]
  <2>1. tx[t] \in Transaction /\ tx[t] # Idle /\ tx' = [tx EXCEPT ![t] = r]
    BY <1>2, <1>7 DEF Dropout!RowRefused
  <2>2. r.high = tx[t].high /\ r.wrote = tx[t].wrote /\ r.kind = tx[t].kind
    BY <2>1 DEF Transaction
  <2>3. Banded(r)
    BY <2>1, <2>2 DEF Banded
  <2> QED
    BY <1>1, <2>1, <2>3
<1>8. ASSUME NEW t \in Tx, Dropout!Commit(t)
      PROVE  \A u \in Tx : Banded(tx'[u])
  <2> DEFINE r == [tx[t] EXCEPT !.at = "notify"]
  <2>1. tx[t] \in Transaction /\ tx[t] # Idle
    BY <1>2, <1>8 DEF Dropout!Commit, Dropout!AllRows
  <2>2. r.high = tx[t].high /\ r.wrote = tx[t].wrote /\ r.kind = tx[t].kind
    BY <2>1 DEF Transaction
  <2>3. Banded(r)
    BY <2>1, <2>2 DEF Banded
  <2>4. tx' = [tx EXCEPT ![t] = Idle] \/ tx' = [tx EXCEPT ![t] = r]
    BY <1>8 DEF Dropout!Commit, Dropout!Ended, Idle
  <2> QED
    BY <1>0, <1>1, <2>3, <2>4
<1>9. ASSUME NEW t \in Tx, Dropout!CommitFails(t)
      PROVE  \A u \in Tx : Banded(tx'[u])
  <2> DEFINE r == [tx[t] EXCEPT !.todo = Member, !.wrote = {}, !.high = {}, !.aborted = FALSE]
  <2>1. tx[t] \in Transaction /\ tx[t] # Idle
    BY <1>2, <1>9 DEF Dropout!CommitFails, Dropout!AllRows
  <2>2. r.high = {} /\ r.wrote = {}
    BY <2>1 DEF Transaction
  <2>3. Banded(r)
    BY <2>2 DEF Banded
  <2>4. tx' = [tx EXCEPT ![t] = Idle] \/ tx' = [tx EXCEPT ![t] = r]
    BY <1>9 DEF Dropout!CommitFails, Idle
  <2> QED
    BY <1>0, <1>1, <2>3, <2>4
<1>10. ASSUME NEW t \in Tx, Dropout!Notify(t)
       PROVE  \A u \in Tx : Banded(tx'[u])
  BY <1>0, <1>1, <1>10 DEF Dropout!Notify, Idle
<1>11. ASSUME \A t \in Tx : tx'[t] \in {tx[t], Dropout!idleTx}
       PROVE  \A u \in Tx : Banded(tx'[u])
  BY <1>0, <1>11 DEF Idle
<1> QED
  BY <1>0, <1>3, <1>4, <1>5, <1>6, <1>7, <1>8, <1>9, <1>10, <1>11, RunSteps DEF Moved

LEMMA RiskTypes ==
    ASSUME RunsInv, ModelsInv, Versions, RiskRest, \A t \in Tx : Banded(tx[t])
    PROVE  Dropout!TypeOK
<1>0. MaxTrainings \in Nat /\ trained \in 0..MaxTrainings
  BY CampusAssumption DEF CampusAssumption, Dropout!RiskAssumption, RiskRest
<1>1. disk \in [model : 0..MaxTrainings, scaler : 0..MaxTrainings]
      /\ memory \in [Dropout!Process -> [model : 0..MaxTrainings, scaler : 0..MaxTrainings]]
  BY <1>0 DEF ModelsInv, ModelsTyped, ModelPair, Versions
<1>2. ASSUME NEW t \in Tx, tx[t] # Dropout!idleTx
      PROVE  /\ tx[t].at \in {"scoring", "notify"} /\ tx[t].by \in Dropout!Process
             /\ tx[t].todo \subseteq Member /\ tx[t].row \in Member \cup {Dropout!None}
             /\ tx[t].high \subseteq Member \X (7..10)
             /\ tx[t].kind = "nightly" => tx[t].wrote \subseteq Member \X (0..10)
  BY <1>2 DEF RunsInv, RunsTyped, Transaction, Banded, Idle
<1> QED
  BY <1>1, <1>2 DEF Dropout!TypeOK, RunsInv, RunsTyped, RiskRest

LEMMA GuardTypes == Spec => [](scene = "login" => Guard!TypeOK)
<1> DEFINE Inv == scene = "login" => GuardTyped /\ GuardRest /\ SignedTyped /\ Tallied
<1>1. Init => Inv
  <2>1. Guard!Init => GuardRest /\ SignedTyped /\ Tallied
    BY CampusAssumption DEF CampusAssumption, Guard!GuardAssumption, Guard!Init, GuardRest, SignedTyped, Tallied
  <2> QED
    BY <2>1, GuardTypedInit DEF Init
<1>2. Inv /\ [Next]_vars => Inv'
  <2> SUFFICES ASSUME Inv, [Next]_vars, scene' = "login"
               PROVE  GuardTyped' /\ GuardRest' /\ SignedTyped' /\ Tallied'
    OBVIOUS
  <2>1. CASE Next
    BY <2>1, Scenes, GuardTypedStep, GuardRestStep, TalliedStep
  <2>2. CASE UNCHANGED vars
    BY <2>2 DEF vars, guard, GuardTyped, GuardRest, SignedTyped, Tallied, Adding
  <2> QED
    BY <2>1, <2>2
<1>3. Inv => (scene = "login" => Guard!TypeOK)
  BY DEF GuardTyped, GuardRest, SignedTyped, LoginRequest, Guard!TypeOK
<1> QED
  BY <1>1, <1>2, <1>3, PTL DEF Spec

LEMMA RegisterTypes == Spec => [](scene = "register" => Lessons!TypeOK)
<1> DEFINE Inv == scene = "register" => Typed /\ Existing /\ SheetRest
<1>1. Init => Inv
  <2>1. Lessons!Init => Typed
    BY InitHolds, CampusAssumption DEF CampusAssumption, SheetInv
  <2>2. Lessons!Init => Existing
    BY DEF Lessons!Init, Existing, Lessons!Marking, Lessons!At, Lessons!idle
  <2>3. Lessons!Init => SheetRest
    BY CampusAssumption DEF CampusAssumption, Lessons!RegisterAssumption, Lessons!Init, SheetRest
  <2> QED
    BY <2>1, <2>2, <2>3 DEF Init
<1>2. Inv /\ [Next]_vars => Inv'
  <2> SUFFICES ASSUME Inv, [Next]_vars, scene' = "register"
               PROVE  Typed' /\ Existing' /\ SheetRest'
    OBVIOUS
  <2>1. CASE Next
    BY <2>1, Scenes, CampusAssumption, TypedStep, ExistingStep, SheetRestStep DEF CampusAssumption
  <2>2. CASE UNCHANGED vars
    BY <2>2 DEF vars, register, Typed, Existing, SheetRest, Lessons!Marking, Lessons!At
  <2> QED
    BY <2>1, <2>2
<1>3. Inv => (scene = "register" => Lessons!TypeOK)
  BY DEF Typed, CourseRow, Key, Existing, SheetRest, Lessons!TypeOK
<1> QED
  BY <1>1, <1>2, <1>3, PTL DEF Spec

LEMMA GradesTypes == Spec => [](scene = "grades" => GradeBook!TypeOK)
<1> DEFINE Inv == scene = "grades" => GradesInv
<1>1. Init => Inv
  BY GradesInit, CampusAssumption DEF Init, CampusAssumption
<1>2. Inv /\ [Next]_vars => Inv'
  <2> SUFFICES ASSUME Inv, [Next]_vars, scene' = "grades"
               PROVE  GradesInv'
    OBVIOUS
  <2>1. CASE Next
    BY <2>1, Scenes, CampusAssumption, GradesTypedStep, CheckedStep, StoredStep DEF GradesInv, CampusAssumption
  <2>2. CASE UNCHANGED vars
    BY <2>2 DEF vars, marks, GradesInv, GradesTyped, Checked, Stored, Once, Fits, GradeBook!Exists
  <2> QED
    BY <2>1, <2>2
<1>3. Inv => (scene = "grades" => GradeBook!TypeOK)
  BY DEF GradesInv, GradesTyped, AssessmentRow, GradeRow, GradeBook!TypeOK
<1> QED
  BY <1>1, <1>2, <1>3, PTL DEF Spec

LEMMA NamesTypes == Spec => [](scene = "names" => Names!TypeOK)
<1> DEFINE Inv == scene = "names" => NamesInv /\ NamesRest
<1>1. Init => Inv
  <2>1. Names!Init => NamesRest
    BY CampusAssumption DEF CampusAssumption, Names!CatalogueAssumption, Names!Init, NamesRest
  <2> QED
    BY <2>1, NamesInit DEF Init
<1>2. Inv /\ [Next]_vars => Inv'
  <2> SUFFICES ASSUME Inv, [Next]_vars, scene' = "names"
               PROVE  NamesInv' /\ NamesRest'
    OBVIOUS
  <2>1. CASE Next
    BY <2>1, Scenes, NamesStep, NamesRestStep, CampusAssumption DEF CampusAssumption, NamesInv
  <2>2. CASE UNCHANGED vars
    BY <2>2 DEF vars, names, NamesRest, NamesInv, NamesTyped, CoursesTyped, UsersTyped, KeptTitles, Renames, Opposites, Toggles,
                Fresh, Inserts, Names!StaleWritesExplained, Names!SlugFollowsTitle, Names!Taken, Names!TogglesCount
  <2> QED
    BY <2>1, <2>2
<1>3. Inv => (scene = "names" => Names!TypeOK)
  <2>1. Passwords = Password
    BY CampusAssumption DEF CampusAssumption, Names!CatalogueAssumption, Passwords
  <2> QED
    BY <2>1 DEF NamesInv, NamesRest, NamesTyped, CoursesTyped, UsersTyped, NamedCourse, NamedUser, Names!TypeOK
<1> QED
  BY <1>1, <1>2, <1>3, PTL DEF Spec

LEMMA NoticesTypesHold == Spec => [](scene = "notices" => Bulletin!TypeOK)
<1> DEFINE Inv == scene = "notices" => NoticesInv /\ PushesBounded
<1>1. Init => Inv
  <2>1. Bulletin!Init => PushesBounded
    <3> SUFFICES ASSUME Bulletin!Init PROVE PushesBounded
      OBVIOUS
    <3>1. Busy = {} /\ rows = <<>> /\ ops = 0 /\ faults = 0 /\ lost = {}
      BY DEF Bulletin!Init, Bulletin!idle, Busy
    <3>2. Cardinality(Busy) = 0
      BY <3>1, FS_EmptySet
    <3> HIDE DEF Busy
    <3> QED
      BY <3>1, <3>2, CampusAssumption DEF CampusAssumption, Bulletin!NoticesAssumption, PushesBounded
  <2> QED
    BY <2>1, NoticesInit DEF Init
<1>2. Inv /\ [Next]_vars => Inv'
  <2> SUFFICES ASSUME Inv, [Next]_vars, scene' = "notices"
               PROVE  NoticesInv' /\ PushesBounded'
    OBVIOUS
  <2>1. CASE Next
    BY <2>1, Scenes, NoticesStep, PushesBoundedStep
  <2>2. CASE UNCHANGED vars
    BY <2>2 DEF vars, notices, NoticesInv, NoticesTyped, ListsStored, NewerPass, Storing, StoredAt,
                Bulletin!UnpushedExplained, Bulletin!Ids, PushesBounded, Busy
  <2> QED
    BY <2>1, <2>2
<1>3. Inv => (scene = "notices" => Bulletin!TypeOK)
  BY NoticesTypes
<1> QED
  BY <1>1, <1>2, <1>3, PTL DEF Spec

LEMMA RoomsTypesHold == Spec => [](scene = "rooms" => Gateway!TypeOK)
<1> DEFINE Inv == scene = "rooms" => RoomInv /\ ChecksBounded
<1>1. Init => Inv
  <2>1. Gateway!Init => ChecksBounded
    <3>1. Waiting(<<>>) = 0
      BY FS_EmptySet DEF Waiting, JoinsIn
    <3> QED
      BY <3>1, CampusAssumption DEF CampusAssumption, Gateway!RoomsAssumption, Gateway!Init, ChecksBounded
  <2> QED
    BY <2>1, RoomInit DEF Init
<1>2. Inv /\ [Next]_vars => Inv'
  <2> SUFFICES ASSUME Inv, [Next]_vars, scene' = "rooms"
               PROVE  RoomInv' /\ ChecksBounded'
    OBVIOUS
  <2>1. CASE Next
    BY <2>1, Scenes, GatewayStep, ChecksBoundedStep
  <2>2. CASE UNCHANGED vars
    BY <2>2 DEF vars, sockets, RoomInv, SocketTyped, WireTyped, LastWord, Forgotten, StaysOut, ComesIn,
                Gateway!MayJoinCourse, ChecksBounded
  <2> QED
    BY <2>1, <2>2
<1>3. Inv => (scene = "rooms" => Gateway!TypeOK)
  BY RoomsTypes
<1> QED
  BY <1>1, <1>2, <1>3, PTL DEF Spec

LEMMA ExportTypes == Spec => [](scene = "export" => Download!TypeOK)
<1> DEFINE Inv == scene = "export" => ExportInv
<1>1. Init => Inv
  BY ExportInit DEF Init
<1>2. Inv /\ [Next]_vars => Inv'
  <2> SUFFICES ASSUME Inv, [Next]_vars, scene' = "export"
               PROVE  ExportInv'
    OBVIOUS
  <2>1. CASE Next
    BY <2>1, Scenes, ExportStep
  <2>2. CASE UNCHANGED vars
    BY <2>2 DEF vars, export, ExportInv, LogTyped, LiesBehind, Missing, Shared, Newer, Download!TypeOK,
                Download!Written, Download!ExportMissesNothing
  <2> QED
    BY <2>1, <2>2
<1>3. Inv => (scene = "export" => Download!TypeOK)
  BY DEF ExportInv, LogTyped
<1> QED
  BY <1>1, <1>2, <1>3, PTL DEF Spec

LEMMA RiskTypesHold == Spec => [](scene = "risk" => Dropout!TypeOK)
<1> DEFINE AllBanded == \A t \in Tx : Banded(tx[t])
           Inv == scene = "risk" => RunsInv /\ ModelsInv /\ Versions /\ RiskRest /\ AllBanded
<1>1. Init => Inv
  <2>1. Dropout!Init => Versions
    BY DEF Dropout!Init, Dropout!none, Dropout!idle, Versions
  <2>3. Dropout!Init => RiskRest
    <3> SUFFICES ASSUME Dropout!Init PROVE RiskRest
      OBVIOUS
    <3>1. starts = 0 /\ trained = 0 /\ faults = 0 /\ uneven = FALSE /\ legacy = {}
      BY DEF Dropout!Init
    <3>2. MaxStarts \in Nat /\ MaxTrainings \in Nat /\ MaxFaults \in Nat
      BY CampusAssumption DEF CampusAssumption, Dropout!RiskAssumption
    <3>3. uneven \in BOOLEAN
      BY <3>1, Zenon
    <3>4. starts \in 0..MaxStarts /\ trained \in 0..MaxTrainings /\ faults \in 0..MaxFaults
      BY <3>1, <3>2
    <3> QED
      BY <3>1, <3>3, <3>4, Zenon DEF RiskRest
  <2>2. Dropout!Init => AllBanded
    BY DEF Dropout!Init, Banded, Idle
  <2> QED
    BY <2>1, <2>2, <2>3, RunsInit, ModelsInit DEF Init
<1>2. Inv /\ [Next]_vars => Inv'
  <2> SUFFICES ASSUME Inv, [Next]_vars, scene' = "risk"
               PROVE  RunsInv' /\ ModelsInv' /\ Versions' /\ RiskRest' /\ AllBanded'
    OBVIOUS
  <2>1. CASE Next
    <3>1. Dropout!Next /\ RunsInv /\ ModelsInv /\ Versions /\ RiskRest /\ AllBanded
      BY <2>1, Scenes
    <3>2. ASSUME UNCHANGED <<disk, memory, trainer, trained, uneven>>
          PROVE  ModelsInv' /\ Versions'
      <4>1. ModelsInv'
        BY <3>1, <3>2 DEF ModelsInv, ModelsTyped, DiskFits, OneBetween, Between, HalfLoaded, Fitted
      <4>2. Versions'
        BY <3>1, <3>2 DEF Versions
      <4> QED
        BY <4>1, <4>2
    <3>3. ASSUME NEW p \in Dropout!Process, Training(p)
          PROVE  ModelsInv' /\ Versions'
      <4>1. ModelsInv'
        BY <3>1, <3>3, ModelsTypedStep, PairStep DEF ModelsInv
      <4>2. ModelsTyped
        BY <3>1 DEF ModelsInv
      <4> QED
        BY <3>1, <3>3, <4>1, <4>2, VersionsStep
    <3>4. ModelsInv' /\ Versions'
      BY <3>1, <3>2, <3>3, Trainings
    <3>5. RunsInv' /\ RiskRest' /\ AllBanded'
      BY <3>1, RunsStep, RiskRestStep, BandedStep, CampusAssumption DEF CampusAssumption
    <3> QED
      BY <3>4, <3>5
  <2>2. CASE UNCHANGED vars
    <3>1. UNCHANGED <<score, tx, disk, memory, trainer, legacy, starts, trained, uneven, faults>>
          /\ RunsInv /\ ModelsInv /\ Versions /\ RiskRest /\ AllBanded
      BY <2>2 DEF vars, risk
    <3>2. RunsInv'
      BY <3>1 DEF RunsInv, RunsTyped, Consistent, CountsWritten, Started, Told, StoredFor, Scoring
    <3>3. ModelsInv' /\ Versions'
      BY <3>1 DEF ModelsInv, ModelsTyped, DiskFits, OneBetween, Between, HalfLoaded, Fitted, Versions
    <3> QED
      BY <3>1, <3>2, <3>3 DEF RiskRest, Banded
  <2> QED
    BY <2>1, <2>2
<1>3. Inv => (scene = "risk" => Dropout!TypeOK)
  BY RiskTypes
<1> QED
  BY <1>1, <1>2, <1>3, PTL DEF Spec

LEMMA StatsTypes == Spec => [](scene = "stats" => Figures!TypeOK)
<1> DEFINE Inv == scene = "stats" => StatsInv
<1>1. Init => Inv
  BY StatsInit DEF Init
<1>2. Inv /\ [Next]_vars => Inv'
  <2> SUFFICES ASSUME Inv, [Next]_vars, scene' = "stats"
               PROVE  StatsInv'
    OBVIOUS
  <2>1. CASE Next
    BY <2>1, Scenes, StatsStep
  <2>2. CASE UNCHANGED vars
    <3>1. UNCHANGED <<mark, high, ask, kept, writes, asks>> /\ StatsInv
      BY <2>2 DEF vars, stats
    <3> QED
      BY <3>1 DEF StatsInv, StatsTyped, Drift, Figures!RatesWithinBounds, Figures!CountHere, Figures!CountAll, Figures!Cells
  <2> QED
    BY <2>1, <2>2
<1>3. Inv => (scene = "stats" => Figures!TypeOK)
  <2> SUFFICES ASSUME StatsTyped PROVE Figures!TypeOK
    BY DEF StatsInv
  <2>1. ASSUME NEW h \in Handler
        PROVE  /\ ask[h].at \in {"idle", "half", "done"}
               /\ ask[h].at = "half" => ask[h].count \in Nat
               /\ ask[h].at = "done" => ask[h].answer \in Figures!Answers
    BY DEF StatsTyped, Asking, Figures!idle
  <2> QED
    BY <2>1 DEF StatsTyped, Figures!TypeOK
<1> QED
  BY <1>1, <1>2, <1>3, PTL DEF Spec

(* Whatever scene runs, and for any numbers of its people, rows, requests
   and failures, its variables keep their types: a row of the sheet names an
   enrolment that exists, a run calls high only what is, and no more pushes
   or checks happen than requests and pages bring. *)
THEOREM CampusTypes == Spec => []TypeOK
<1>1. /\ scene = "login" => Guard!TypeOK
      /\ scene = "register" => Lessons!TypeOK
      /\ scene = "grades" => GradeBook!TypeOK
      /\ scene = "names" => Names!TypeOK
      /\ scene = "notices" => Bulletin!TypeOK
      /\ scene = "rooms" => Gateway!TypeOK
      /\ scene = "export" => Download!TypeOK
      /\ scene = "risk" => Dropout!TypeOK
      /\ scene = "stats" => Figures!TypeOK
      => TypeOK
  BY DEF TypeOK
<1> QED
  BY <1>1, GuardTypes, RegisterTypes, GradesTypes, NamesTypes, NoticesTypesHold, RoomsTypesHold, ExportTypes,
     RiskTypesHold, StatsTypes, PTL
=============================================================================
