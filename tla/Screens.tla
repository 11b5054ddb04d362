------------------------------ MODULE Screens ------------------------------
(* The pages of the web client: whom each admits, the calls it sends when  *)
(* it opens and the calls its buttons send, and how it loads its rows      *)
(* again when the viewer chooses another filter or page of the list.       *)
(* Replies arrive in any order.                                            *)
EXTENDS Access, Naturals

CONSTANTS
    MaxSends, MaxRefusals   \* bounds: loads sent by one page, loads that fail

ScreensAssumption == MaxSends \in Nat \ {0} /\ MaxRefusals \in Nat

VARIABLES
    viewer,   \* role, and relation to the course that the course pages show
    page,
    chosen,   \* the filter and the number of the page of the list
    shown,    \* the choice the rows on screen were loaded for
    pending,  \* loads that wait for a reply: the choice, and when it was sent
    acting,   \* a button's call in flight: the choice its handler closed over
    sent, refusals,
    refused,  \* history: calls of this page the API refuses to this viewer
    lost,     \* history: a link led to a page that turned the viewer back
    newest,   \* history: when the newest accepted reply's load was sent
    excuse    \* history: how rows of another choice may have come on screen

vars == <<viewer, page, chosen, shown, pending, acting, sent, refusals,
          refused, lost, newest, excuse>>

Filters == 1..2
Numbers == 1..2
Choices == Filters \X Numbers
First == <<1, 1>>
None == <<0, 0>>

-----------------------------------------------------------------------------
(* What one component of a page loads when it is drawn, the calls of its   *)
(* buttons and forms, and the pages its links lead to.                     *)
Part(loads, acts, links) == [loads |-> loads, acts |-> acts, links |-> links]

(* A page: whom it admits, whose record its calls are about, its parts, and *)
(*   choices  what the viewer chooses: a filter, a page number of the list, *)
(*            or to load again (a button, or an event that comes in)       *)
(*   mode     plain    loads at every choice                               *)
(*            resets   loads, and once more when it goes back to page 1    *)
(*            cancels  forgets the loads it sent before                    *)
(*   drops    a failed load empties the rows                               *)
(*   reloads  a button's call is followed by a load                        *)
Page(open, about, parts, choices, mode, drops, reloads) ==
    [open |-> open, about |-> about,
     loads |-> UNION {part.loads : part \in parts},
     acts |-> UNION {part.acts : part \in parts},
     links |-> UNION {part.links : part \in parts},
     choices |-> choices, mode |-> mode, drops |-> drops, reloads |-> reloads]

AdminDashboard == Part({"analytics.overview", "security.auditLogs"}, {}, {})
TeacherDashboard == Part({"analytics.teacherKpi", "courses.list"}, {}, {"course"})
StudentDashboard == Part({"analytics.student"}, {}, {"course attendance", "course grades"})
DashboardPage(role) ==
    Page(Roles, "self",
         {CASE role \in Admins  -> AdminDashboard
            [] role = "TEACHER" -> TeacherDashboard
            [] OTHER            -> StudentDashboard},
         {}, "plain", TRUE, FALSE)

canManage(role) == role \in {"ADMIN", "TEACHER"}
CourseCard(role) ==
    Part({}, When(role = "ADMIN", {"courses.changeStatus"}), When(canManage(role), {"course"}))
NewCourse(role) == Part({}, When(canManage(role), {"courses.create"}), {})
CourseList(role) == Part({"courses.list"} \cup When(role = "ADMIN", {"users.list"}), {}, {})
CoursesPage(role) ==
    Page(Roles, "none", {CourseList(role), NewCourse(role), CourseCard(role)},
         {"filter"}, "plain", FALSE, TRUE)

CourseDetail(role) ==
    Part({"courses.getById", "enrollments.list", "assessments.byCourse"}
         \cup When(role = "ADMIN", {"users.list"}), {}, {})
CourseHeader(role) ==
    Part({}, When(role \in Staff, {"attendance.generateQr"}),
         {"courses", "course attendance", "course grades"})
StudentsTab(role) == Part({}, When(role \in Admins, {"courses.enroll"}), {"student"})
GradesTab(role) ==
    Part({}, When(role \in Staff, {"assessments.create", "assessments.delete"}), {"course grades"})
CoursePage(role) ==
    Page(Roles, "course",
         {CourseDetail(role), CourseHeader(role), StudentsTab(role), GradesTab(role)},
         {}, "plain", FALSE, FALSE)

CourseSheet == Part({"courses.getById", "attendance.byCourse", "enrollments.list"}, {}, {})
CourseSheetForms(role) ==
    Part({}, When(role \in Staff, {"attendance.mark", "attendance.generateQr"}), {"course"})
CourseAttendancePage(role) ==
    Page(Roles, "course", {CourseSheet, CourseSheetForms(role)},
         {"filter", "again"}, "plain", FALSE, TRUE)

GradeBook ==
    Part({"courses.getById", "assessments.byCourse", "enrollments.list", "assessments.gradesByCourse"},
         {}, {})
GradeCells(role) ==
    Part({}, When(role \in Staff, {"assessments.submitGrade"}), {"course", "student"})
CourseGradesPage(role) ==
    Page(Roles, "course", {GradeBook, GradeCells(role)}, {}, "plain", TRUE, FALSE)

AttendanceRecords == Part({"attendance.list", "enrollments.list", "courses.list"}, {}, {})
MarkSheet(role) == Part({}, When(role \in Staff, {"attendance.markBulk"}), {})
QrDialog(role) == Part({}, When(role \in Staff, {"attendance.generateQr"}), {})
AttendancePage(role) ==
    Page(Roles, "taught", {AttendanceRecords, MarkSheet(role), QrDialog(role)},
         {}, "plain", FALSE, TRUE)

EnrollmentRows(role) ==
    Part({}, When(role \in Admins, {"enrollments.enroll", "enrollments.changeStatus"}), {})
EnrollmentsPageForAll(role) ==
    Page(Roles, "none",
         {Part({"enrollments.list", "users.list", "courses.list"}, {}, {}), EnrollmentRows(role)},
         {"number"}, "plain", FALSE, TRUE)

EnrollmentsPage(role) ==
    Page(Roles, "none",
         {Part({"enrollments.list"} \cup When(role \in Admins, {"users.list", "courses.list"}), {}, {}),
          EnrollmentRows(role)},
         {"number"}, "plain", FALSE, TRUE)

UserRows == Part({}, {"users.create", "users.toggleStatus"}, {})
UsersPage(role) ==
    Page(Admins, "none", {Part({"users.list"}, {}, {}), UserRows},
         {"filter", "number"}, "resets", FALSE, TRUE)

(* One of its two tabs loads the figures of the enrolment chosen there. *)
StudentTabs == Part({}, {"analytics.studentEnrollment"}, {"course"})
StudentPage(role) ==
    Page(Roles, "account",
         {Part({"users.getById", "enrollments.list", "analytics.student"}, {}, {}), StudentTabs},
         {"filter"}, "plain", FALSE, FALSE)

AdminAnalytics ==
    Part({"analytics.dashboard", "analytics.dropoutRisk", "analytics.overview", "users.list",
          "analytics.teacherKpi"}, {}, {})
AnalyticsControls == Part({}, {"analytics.triggerCalculation"}, {"risk"})
TeacherAnalytics ==
    Part({"courses.list", "analytics.teacherKpi", "analytics.courseFull"},
         {"analytics.triggerCalculation"}, {"student"})
AnalyticsPage(role) ==
    Page(Staff, "self",
         IF role \in Admins THEN {AdminAnalytics, AnalyticsControls} ELSE {TeacherAnalytics},
         {"filter"}, IF role \in Admins THEN "cancels" ELSE "plain", TRUE, FALSE)

RiskRows == Part({}, {}, {"analytics", "student"})
RiskPage(role) ==
    Page(Staff, "none", {Part({"analytics.dropoutRisk", "courses.list"}, {}, {}), RiskRows},
         {"filter", "number", "again"}, "plain", TRUE, FALSE)

SecurityDashboard ==
    Part({"security.alertStats", "security.alerts", "security.activeSessions"}, {}, {})
AlertsCard == Part({}, {"security.resolveAlert"}, {"audit"})
SessionsCard(role) == Part({}, When(role = "SUPER_ADMIN", {"security.forceRevoke"}), {})
SecurityPage(role) ==
    Page(Admins, "none", {SecurityDashboard, AlertsCard, SessionsCard(role)},
         {"filter", "number", "again"}, "resets", FALSE, FALSE)

(* Its search goes back to page 1 in an effect, its other filters at once. *)
AuditRows == Part({}, {}, {"security"})
AuditPage(role) ==
    Page(Admins, "none", {Part({"security.auditLogs"}, {}, {}), AuditRows},
         {"filter", "number", "again"}, "resets", FALSE, FALSE)

ProfileSection == Part({}, {"users.updateMe"}, {})
SecuritySection == Part({"security.auditLogs"}, {"users.changePassword"}, {})
SessionList == Part({}, {"security.sessions", "security.revokeSession"}, {})
TwoFaModal == Part({}, {"auth.setup2fa", "auth.confirm2fa"}, {})
SettingsPage(role) ==
    Page(Roles, "self", {ProfileSection, SecuritySection, SessionList, TwoFaModal},
         {}, "plain", FALSE, FALSE)

Pages == {"dashboard", "courses", "course", "course attendance", "course grades", "attendance",
          "enrollments", "users", "student", "analytics", "risk", "security", "audit", "settings"}

PageOf(p, role) ==
    CASE p = "dashboard" -> DashboardPage(role)     [] p = "courses" -> CoursesPage(role)
      [] p = "course" -> CoursePage(role)           [] p = "course attendance" -> CourseAttendancePage(role)
      [] p = "course grades" -> CourseGradesPage(role) [] p = "attendance" -> AttendancePage(role)
      [] p = "enrollments" -> EnrollmentsPage(role) [] p = "users" -> UsersPage(role)
      [] p = "student" -> StudentPage(role)         [] p = "analytics" -> AnalyticsPage(role)
      [] p = "risk" -> RiskPage(role)               [] p = "security" -> SecurityPage(role)
      [] p = "audit" -> AuditPage(role)             [] p = "settings" -> SettingsPage(role)

(* On every page: the calls of the bell, its entries, the menu of the user, *)
(* and the side bar.                                                       *)
LayoutCalls(role) == {"notifications.list"} \cup When(role \in Admins, {"security.auditLogs"})
BellItems(role) ==
    {"dashboard", "course", "course grades", "attendance"} \cup When(role \in Admins, {"security", "audit"})
UserMenu == {"settings"}
SideBar(role) ==
    {"dashboard", "courses", "settings"}
    \cup When(role \in Admins, {"users", "security"})
    \cup When(role # "SUPER_ADMIN", {"attendance"})
    \cup When(role \in Staff, {"analytics"})

(* What the search, the shortcuts and the foot of the bell offer everyone. *)
SearchAndShortcuts ==
    {"dashboard", "courses", "users", "attendance", "analytics", "security", "settings"}

(* The viewer's relation to what the page is about. *)
RelationTo(about) ==
    CASE about = "course"  -> viewer.rel
      [] about = "account" -> IF viewer.role = "STUDENT" THEN "owner" ELSE "stranger"
      [] about \in {"self", "taught"} -> "owner"
      [] OTHER -> "stranger"

Load(choice, at) == [of |-> choice, at |-> at]
Here == PageOf(page, viewer.role)
RefusedOf(pg, calls) == calls \ Admitted(viewer.role, RelationTo(pg.about))

-----------------------------------------------------------------------------
(* A login leads to the dashboard. *)
Init ==
    /\ viewer \in {[role |-> role, rel |-> rel] : role \in Roles, rel \in Relations}
    /\ viewer.rel \in CourseRelations(viewer.role)
    /\ page = "dashboard" /\ chosen = First /\ shown = None /\ acting = None
    /\ pending = {Load(First, 1)} /\ sent = 1 /\ refusals = 0
    /\ refused = RefusedOf(Here, Here.loads \cup LayoutCalls(viewer.role))
    /\ lost = FALSE /\ newest = 0 /\ excuse = {}

(* A page opens: everything the page before had in flight is forgotten. *)
Show(p) ==
    LET pg == PageOf(p, viewer.role) IN
    /\ page' = p
    /\ chosen' = First /\ shown' = None /\ acting' = None
    /\ pending' = {Load(First, 1)} /\ sent' = 1
    /\ refused' = RefusedOf(pg, pg.loads \cup LayoutCalls(viewer.role))
    /\ newest' = 0 /\ excuse' = {}

(* RoleGuard turns a viewer back whom the page does not admit. *)
ShowIfAdmitted(p) == Show(IF viewer.role \in PageOf(p, viewer.role).open THEN p ELSE "dashboard")

(* The viewer types an address, *)
Open(p) ==
    /\ page # p
    /\ ShowIfAdmitted(p)
    /\ UNCHANGED <<viewer, refusals, lost>>

(* takes what is offered to everyone, *)
Jump(p) == p \in SearchAndShortcuts /\ Open(p)

(* or follows a link he is shown. *)
Links == Here.links \cup SideBar(viewer.role) \cup UserMenu \cup BellItems(viewer.role)
FollowLink(p) ==
    /\ page # p /\ p \in Links
    /\ ShowIfAdmitted(p)
    /\ lost' = (lost \/ viewer.role \notin PageOf(p, viewer.role).open)
    /\ UNCHANGED <<viewer, refusals>>

Send(choice) ==
    /\ sent' = sent + 1
    /\ pending' = (IF Here.mode = "cancels" THEN {} ELSE pending) \cup {Load(choice, sent + 1)}

ChooseSwapped(f) ==
    /\ "filter" \in Here.choices /\ f # chosen[1] /\ sent + 1 < MaxSends
    /\ chosen' = <<f, 1>>
    /\ IF Here.mode = "resets" /\ chosen[2] # 1
       THEN /\ sent' = sent + 2
            /\ pending' = pending \cup {Load(<<f, 1>>, sent + 1), Load(<<f, chosen[2]>>, sent + 2)}
       ELSE Send(<<f, 1>>)
    /\ UNCHANGED <<viewer, page, shown, acting, refusals, refused, lost, newest, excuse>>

(* Another filter starts at page 1. Where the effect that resets the page  *)
(* runs after the render with the new filter, the old page number of the   *)
(* new filter is loaded first.                                             *)
Choose(f) ==
    /\ "filter" \in Here.choices /\ f # chosen[1] /\ sent + 1 < MaxSends
    /\ chosen' = <<f, 1>>
    /\ IF Here.mode = "resets" /\ chosen[2] # 1
       THEN /\ sent' = sent + 2
            /\ pending' = pending \cup {Load(<<f, chosen[2]>>, sent + 1), Load(<<f, 1>>, sent + 2)}
       ELSE Send(<<f, 1>>)
    /\ UNCHANGED <<viewer, page, shown, acting, refusals, refused, lost, newest, excuse>>

TurnPage(n) ==
    /\ "number" \in Here.choices /\ n # chosen[2] /\ sent < MaxSends
    /\ chosen' = <<chosen[1], n>>
    /\ Send(chosen')
    /\ UNCHANGED <<viewer, page, shown, acting, refusals, refused, lost, newest, excuse>>

(* The button that loads again, and the events security:alert and          *)
(* attendance:marked, whose handler is that of the last render.            *)
LoadAgain ==
    /\ "again" \in Here.choices /\ sent < MaxSends
    /\ Send(chosen)
    /\ UNCHANGED <<viewer, page, chosen, shown, acting, refusals, refused, lost, newest, excuse>>

(* A button: its handler, and the load after it, see the choice of the     *)
(* render in which it was clicked.                                         *)
Press(call) ==
    /\ acting = None /\ call \in Here.acts
    /\ refused' = refused \cup RefusedOf(Here, {call})
    /\ acting' = IF Here.reloads /\ refused' = refused THEN chosen ELSE None
    /\ UNCHANGED <<viewer, page, chosen, shown, pending, sent, refusals, lost, newest, excuse>>

Done ==
    /\ acting # None
    /\ acting' = None
    /\ IF sent < MaxSends THEN Send(acting) ELSE UNCHANGED <<sent, pending>>
    /\ excuse' = excuse \cup When(acting # chosen, {"old handler"})
    /\ UNCHANGED <<viewer, page, chosen, shown, refusals, refused, lost, newest>>

Accept(load) ==
    /\ pending' = pending \ {load}
    /\ newest' = IF load.at > newest THEN load.at ELSE newest

Reply(load) ==
    /\ Accept(load)
    /\ shown' = load.of
    /\ excuse' = excuse \cup When(load.at < newest, {"overtaken"})
    /\ UNCHANGED <<viewer, page, chosen, acting, sent, refusals, refused, lost>>

ReplyFails(load) ==
    /\ refusals < MaxRefusals
    /\ refusals' = refusals + 1
    /\ Accept(load)
    /\ shown' = IF Here.drops THEN None ELSE shown
    /\ excuse' = excuse \cup {"failed"}
    /\ UNCHANGED <<viewer, page, chosen, acting, sent, refused, lost>>

Next ==
    \/ \E p \in Pages : Open(p) \/ Jump(p) \/ FollowLink(p)
    \/ \E f \in Filters : Choose(f)
    \/ \E n \in Numbers : TurnPage(n)
    \/ LoadAgain
    \/ \E call \in Here.acts : Press(call)
    \/ Done
    \/ \E load \in pending : Reply(load) \/ ReplyFails(load)

Spec == Init /\ [][Next]_vars

-----------------------------------------------------------------------------
(* The viewer, his page and the calls under way.                          *)
TypeOK ==
    /\ viewer.role \in Roles /\ viewer.rel \in Relations
    /\ page \in Pages
    /\ chosen \in Choices /\ shown \in Choices \cup {None} /\ acting \in Choices \cup {None}
    /\ pending \subseteq [of : Choices, at : 1..MaxSends]
    /\ sent \in 0..MaxSends /\ newest \in 0..sent /\ refusals \in 0..MaxRefusals

(* The calls the routes are known to refuse: the teacher's views of a      *)
(* student and of the scores, everybody's login history but the            *)
(* administrators', the student's attendance of a course.                  *)
KnownRefusals(role) ==
    CASE role = "TEACHER" -> {<<"student", "users.getById">>, <<"settings", "security.auditLogs">>,
                              <<"analytics", "analytics.triggerCalculation">>}
      [] role = "STUDENT" -> {<<"settings", "security.auditLogs">>,
                              <<"course attendance", "attendance.byCourse">>}
      [] OTHER            -> {}

(* A page sends only calls the API admits for the viewers it lets in, but  *)
(* for the known ones and for a course that is not theirs (any more), and  *)
(* no link a viewer is shown leads to a page that turns him back.          *)
LinksAndCallsAreAdmitted ==
    /\ ~lost
    /\ \A call \in refused :
        \/ <<page, call>> \in KnownRefusals(viewer.role)
        \/ Here.about = "course" /\ viewer.rel \in {"stranger", "former"}

(* With no load under way the rows are those of the choice above them,     *)
(* unless replies overtook each other, a load failed, or the handler of an *)
(* older render loaded; and a page that cancels is never overtaken.        *)
RowsFitTheChoice ==
    /\ pending = {} /\ shown \notin {chosen, None} => excuse # {}
    /\ Here.mode = "cancels" => "overtaken" \notin excuse
=============================================================================
