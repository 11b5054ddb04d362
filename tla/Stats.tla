-------------------------------- MODULE Stats --------------------------------
(* The figures of the dashboards.  The API counts in one or two statements *)
(* that no transaction joins, the analytics service keeps what it counted  *)
(* in Redis; teachers mark and nightly runs score while they count.        *)
EXTENDS Integers, FiniteSets

CONSTANTS
    Enrolment, Lesson, Handler,
    Graded,           \* the number of grades of an enrolment
    MaxWrites, MaxAsks  \* bounds

StatsAssumption ==
    /\ IsFiniteSet(Enrolment) /\ IsFiniteSet(Lesson)
    /\ Graded \in [Enrolment -> Nat] /\ MaxWrites \in Nat /\ MaxAsks \in Nat

VARIABLES
    mark,     \* status of an enrolment at a lesson
    high,     \* ACTIVE enrolments with a score at or above the threshold
    ask,      \* a request and what it counted so far
    kept,     \* answers in Redis, by key
    writes, asks

vars == <<mark, high, ask, kept, writes, asks>>

None == "none"
Status == {"PRESENT", "LATE", "ABSENT", "EXCUSED"}
Here == {"PRESENT", "LATE"}
Key == {"course", "risk"}
idle == [at |-> "idle"]
NoAnswer == [part |-> -1, whole |-> -1, during |-> 0]

Init ==
    /\ mark = [c \in Enrolment \X Lesson |-> None]
    /\ high = {}
    /\ ask = [h \in Handler |-> idle]
    /\ kept = [k \in Key |-> NoAnswer]
    /\ writes = 0 /\ asks = 0

-----------------------------------------------------------------------------
(* A write: every half-counted answer now mixes two moments. *)
Write ==
    /\ writes < MaxWrites
    /\ writes' = writes + 1
    /\ ask' = [h \in Handler |-> IF ask[h].at = "half" THEN [ask[h] EXCEPT !.during = @ + 1] ELSE ask[h]]
    /\ UNCHANGED <<kept, asks>>

Mark(c, s) == Write /\ mark' = [mark EXCEPT ![c] = s] /\ UNCHANGED high
Score(e) == Write /\ high' = (high \ {e}) \cup ({e} \ high) /\ UNCHANGED mark

-----------------------------------------------------------------------------
Cells(S) == {c \in Enrolment \X Lesson : mark[c] \in S}
CountMarked == Cardinality(Cells({"PRESENT", "ABSENT"}))
CountAll == Cardinality(Cells(Status))
CountHere == Cardinality(Cells(Here))

(* An answer shows that part of whole is so; during: the writes between    *)
(* the counts of the two.                                                  *)
Answer(part, whole, during) == [part |-> part, whole |-> whole, during |-> during]
Finish(h, a) == ask' = [ask EXCEPT ![h] = [at |-> "done", answer |-> a]]
Half(h, kind, n) == ask' = [ask EXCEPT ![h] = [at |-> "half", kind |-> kind, count |-> n, during |-> 0]]
Asks(h) == ask[h].at = "idle" /\ asks < MaxAsks /\ asks' = asks + 1
Rows == UNCHANGED <<mark, high, writes>>

(* courseStats, studentStats, the windows of overview, getStats: the rate  *)
(* is of the rows of one groupBy or findMany.                              *)
RateOf(h) ==
    /\ Asks(h) /\ Rows /\ UNCHANGED kept
    /\ Finish(h, Answer(CountHere, CountAll, 0))

(* The legacy join has a row of attendance once for every grade of its     *)
(* enrolment, or once without any, and counts only PRESENT.                *)
Copies(c) == 1..(IF Graded[c[1]] = 0 THEN 1 ELSE Graded[c[1]])
JoinedRows(S) == UNION {{c} \X Copies(c) : c \in Cells(S)}
LegacyRate(h) ==
    /\ Asks(h) /\ Rows /\ UNCHANGED kept
    /\ Finish(h, Answer(Cardinality(JoinedRows({"PRESENT"})), Cardinality(JoinedRows(Status)), 0))

(* dashboard: count and groupBy go to the pool together and come back in   *)
(* either order.                                                           *)
DashboardTotal(h) == Asks(h) /\ Rows /\ Half(h, "total", CountAll) /\ UNCHANGED kept
DashboardStatuses(h) == Asks(h) /\ Rows /\ Half(h, "statuses", CountHere) /\ UNCHANGED kept

Dashboard(h) ==
    /\ ask[h].at = "half" /\ ask[h].kind \in {"total", "statuses"}
    /\ Finish(h, IF ask[h].kind = "total" THEN Answer(CountHere, ask[h].count, ask[h].during)
                 ELSE Answer(ask[h].count, CountAll, ask[h].during))
    /\ Rows /\ UNCHANGED <<kept, asks>>

(* attendanceReport: the summary, then the days. *)
ReportSummary(h) == Asks(h) /\ Rows /\ Half(h, "report", CountAll) /\ UNCHANGED kept
Report(h) ==
    /\ ask[h].at = "half" /\ ask[h].kind = "report"
    /\ Finish(h, Answer(ask[h].count, CountAll, ask[h].during))
    /\ Rows /\ UNCHANGED <<kept, asks>>

(* The cached routes of the analytics service.  Redis may be down, for the *)
(* look and for the store.                                                 *)
Cached(h, k) ==
    /\ Asks(h) /\ kept[k] # NoAnswer
    /\ Finish(h, kept[k])
    /\ Rows /\ UNCHANGED kept

Store(k, a) == kept' = [kept EXCEPT ![k] = a] \/ UNCHANGED kept

(* extract_course_stats; daily_analytics_cache stores it unasked. *)
CourseStats(h) ==
    LET a == Answer(CountHere, CountAll, 0) IN
    Asks(h) /\ Finish(h, a) /\ Store("course", a) /\ Rows

DailyCache ==
    /\ kept' = [kept EXCEPT !["course"] = Answer(CountHere, CountAll, 0)]
    /\ Rows /\ UNCHANGED <<ask, asks>>

(* get_high_risk_students: the page of rows, then their number. *)
HighRiskRows(h) == Asks(h) /\ Rows /\ Half(h, "risk", Cardinality(high)) /\ UNCHANGED kept
HighRisk(h) ==
    LET a == Answer(ask[h].count, Cardinality(high), ask[h].during) IN
    /\ ask[h].at = "half" /\ ask[h].kind = "risk"
    /\ Finish(h, a) /\ Store("risk", a)
    /\ Rows /\ UNCHANGED asks

Expires(k) == kept[k] # NoAnswer /\ kept' = [kept EXCEPT ![k] = NoAnswer] /\ Rows /\ UNCHANGED <<ask, asks>>
Read(h) == ask[h].at = "done" /\ ask' = [ask EXCEPT ![h] = idle] /\ Rows /\ UNCHANGED <<kept, asks>>

Next ==
    \/ \E c \in Enrolment \X Lesson, s \in Status : Mark(c, s)
    \/ \E e \in Enrolment : Score(e)
    \/ DailyCache
    \/ \E k \in Key : Expires(k)
    \/ \E h \in Handler :
        \/ RateOf(h) \/ LegacyRate(h) \/ CourseStats(h) \/ Read(h)
        \/ DashboardTotal(h) \/ DashboardStatuses(h) \/ Dashboard(h)
        \/ ReportSummary(h) \/ Report(h) \/ HighRiskRows(h) \/ HighRisk(h)
        \/ \E k \in Key : Cached(h, k)

Spec == Init /\ [][Next]_vars

-----------------------------------------------------------------------------
Answers == [part : Nat, whole : Nat, during : Nat]
(* The rows that are counted, the questions and the cached answers.       *)
TypeOK ==
    /\ mark \in [Enrolment \X Lesson -> Status \cup {None}]
    /\ high \subseteq Enrolment
    /\ \A h \in Handler :
        /\ ask[h].at \in {"idle", "half", "done"}
        /\ ask[h].at = "half" => ask[h].count \in Nat
        /\ ask[h].at = "done" => ask[h].answer \in Answers
    /\ \A k \in Key : kept[k] \in Answers \cup {NoAnswer}
    /\ writes \in 0..MaxWrites /\ asks \in 0..MaxAsks

Bounded(a) == a.part <= a.whole + a.during

(* A figure shows more than there is of it by at most the rows written     *)
(* between the two statements that counted it, also when it comes from the *)
(* cache long after (analytics.service.ts, dashboard; analytics.py,        *)
(* get_high_risk_students).                                                *)
RatesWithinBounds ==
    /\ \A h \in Handler : ask[h].at = "done" => Bounded(ask[h].answer)
    /\ \A k \in Key : Bounded(kept[k])
=============================================================================
