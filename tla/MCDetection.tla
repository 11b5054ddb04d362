---------------------------- MODULE MCDetection ----------------------------
(***************************************************************************)
(* Two hooks in flight over the requests of one student and one            *)
(* administrator.  The verdicts are computed by the resolver from a small  *)
(* catalogue of objects and rules rather than enumerated.                  *)
(***************************************************************************)
EXTENDS Detection, TLC

CONSTANTS admin, student, other, h1, h2

MCUser == {admin, student, other}

MCHook == {h1, h2}

OwnerPath == [path |-> "studentId", role |-> "OWNER"]
TeacherPath == [path |-> "course.teacherId", role |-> "CUSTODIAN"]

GradeOf(u) == [type |-> "grades", id |-> u, 
               row |-> ("studentId" :> u @@ "course.teacherId" :> Nobody)]

\* A request for u's grade, classified under the rules the resolver has cached.
GradeRequest(actor, role, u, rules, denied, score) ==
    LET v == ResolveAccess(rules, GradeOf(u), actor, role)
    IN  [user |-> actor, relation |-> v.relation, owner |-> v.owner,
         ownerRule |-> v.ownerRule, safe |-> TRUE, denied |-> denied, score |-> score]

GradeRules == <<OwnerPath, TeacherPath>>

MCRequest ==
    {GradeRequest(student, "STUDENT", other, GradeRules, TRUE, 0),     \* a refused foreign read
     GradeRequest(student, "STUDENT", other, GradeRules, FALSE, 40),   \* a foreign read that went through
     GradeRequest(student, "STUDENT", student, GradeRules, FALSE, 80), \* his own, a strong anomaly
     GradeRequest(admin, "ADMIN", student, GradeRules, FALSE, 0),      \* a privileged reader ...
     GradeRequest(admin, "ADMIN", other, GradeRules, FALSE, 40),       \* ... of another owner
     GradeRequest(Nobody, "STUDENT", other, GradeRules, TRUE, 0)}      \* an anonymous request
============================================================================
