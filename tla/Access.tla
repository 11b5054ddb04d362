------------------------------- MODULE Access -------------------------------
(* What the routes of the API admit: for each file of routes, the calls a  *)
(* viewer gets an answer to other than 403.  A call is named after the     *)
(* client's method (lib/api.ts).  A viewer has a role and a relation to    *)
(* the record the call is about:                                           *)
(*   owner     it is theirs: their own account, the course they teach      *)
(*   member    an enrolled student          former  one who is not any more *)
(*   stranger  none of these                                               *)
EXTENDS FiniteSets

Admins == {"ADMIN", "SUPER_ADMIN"}
Staff == Admins \cup {"TEACHER"}
Roles == Staff \cup {"STUDENT"}
Relations == {"owner", "member", "former", "stranger"}

(* The relations a viewer can have to a course. *)
CourseRelations(role) ==
    CASE role = "TEACHER" -> {"owner", "stranger"}
      [] role = "STUDENT" -> {"member", "former", "stranger"}
      [] OTHER            -> {"stranger"}

When(condition, calls) == IF condition THEN calls ELSE {}
Teaches(role, rel) == role \in Admins \/ (role = "TEACHER" /\ rel = "owner")

UserRoutes(role, rel) ==
    {"users.me", "users.updateMe", "users.changePassword"}
    \cup When(role \in Admins \/ rel = "owner", {"users.getById", "users.update"})
    \cup When(role \in Admins, {"users.list", "users.create", "users.toggleStatus"})
    \cup When(role = "SUPER_ADMIN", {"users.delete"})

CourseRoutes(role, rel) ==
    {"courses.list", "courses.getById"}
    \cup When(role \in Staff, {"courses.create"})
    \cup When(Teaches(role, rel), {"courses.update", "courses.changeStatus"})
    \cup When(role \in Admins, {"courses.delete", "courses.enroll"})

(* A student may change the status of his own enrolment, to DROPPED only. *)
EnrollmentRoutes(role, rel) ==
    {"enrollments.list"}
    \cup When(Teaches(role, rel) \/ rel \in {"member", "former"}, {"enrollments.getById"})
    \cup When(role \in Admins \cup {"STUDENT"}, {"enrollments.enroll"})
    \cup When(Teaches(role, rel) \/ rel \in {"member", "former"}, {"enrollments.changeStatus"})

AttendanceRoutes(role, rel) ==
    {"attendance.list"}
    \cup When(role \in Staff, {"attendance.byCourse"})
    \cup When(Teaches(role, rel), {"attendance.mark", "attendance.markBulk", "attendance.generateQr"})
    \cup When(Teaches(role, rel) \/ rel \in {"member", "former"}, {"attendance.stats"})
    \cup When(role = "STUDENT" /\ rel = "member", {"attendance.markByQr"})

(* A dropped or finished student still sees the grades, not the assessments. *)
GradeReads(role, rel) ==
    When(Teaches(role, rel) \/ rel \in {"member", "former"},
         {"assessments.grades", "assessments.gradesByCourse", "assessments.gradesByEnrollment"})

AssessmentRoutes(role, rel) ==
    When(Teaches(role, rel), {"assessments.create", "assessments.update", "assessments.delete",
                              "assessments.submitGrade"})
    \cup When(Teaches(role, rel) \/ rel = "member", {"assessments.byCourse"})
    \cup GradeReads(role, rel)

AnalyticsRoutes(role, rel) ==
    When(role \in Staff \/ rel = "owner", {"analytics.student", "analytics.studentEnrollment"})
    \cup When(role \in Staff, {"analytics.overview", "analytics.dropoutRisk", "analytics.attendance"})
    \cup When(role \in Admins, {"analytics.dashboard", "analytics.triggerCalculation"})
    \cup When(Teaches(role, rel), {"analytics.courseFull", "analytics.courseSimple", "analytics.teacherKpi"})

SecurityRoutes(role, rel) ==
    {"security.sessions", "security.revokeAll"}
    \cup When(rel = "owner", {"security.revokeSession"})
    \cup When(role \in Admins, {"security.auditLogs", "security.auditLog", "security.alerts",
                                "security.alertStats", "security.resolveAlert",
                                "security.activeSessions", "security.cleanup", "security.refreshProfiles"})
    \cup When(role = "SUPER_ADMIN", {"security.forceRevoke"})

(* Only what belongs to the token's user is ever read or marked. *)
NotificationRoutes == {"notifications.list", "notifications.unreadCount",
                       "notifications.markRead", "notifications.markAllRead"}

TelemetryRoutes == {"telemetry.clientError"}

(* The second-factor calls need a login and no role. *)
AuthRoutes == {"auth.logout", "auth.setup2fa", "auth.confirm2fa"}

Admitted(role, rel) ==
    UNION {UserRoutes(role, rel), CourseRoutes(role, rel), EnrollmentRoutes(role, rel),
           AttendanceRoutes(role, rel), AssessmentRoutes(role, rel), AnalyticsRoutes(role, rel),
           SecurityRoutes(role, rel), NotificationRoutes, TelemetryRoutes, AuthRoutes}
=============================================================================
