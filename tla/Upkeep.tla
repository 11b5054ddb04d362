-------------------------------- MODULE Upkeep --------------------------------
(* The components that run beside the requests, and the pages of the       *)
(* browser, each under a bound of its own: scene says which runs.          *)
EXTENDS Integers, FiniteSets

CONSTANTS
    Id, Fetch,                  \* notifications and loads of the bell
    Instance,                  \* instances of the API
    Call, RateLimit,        \* requests in flight, and the limit of the door
    Address, Starts, Widths,   \* of the profiles
    MaxMarks, MaxFaults, MaxCrashes, MaxSends, MaxRefusals, MaxTurns, MaxRequests  \* bounds

VARIABLES
    scene, faults,
    server, badge, load, tick, pushed, marks,
    lock, ttl, job, cache, fill, manual, crashes, overran, orphaned, excused,
    rules,
    viewer, page, chosen, shown, pending, acting, sent, refusals, refused, late, newest, excuse,
    phase, req, counted, answers, rows, lost, reports, turns,
    day, logged, profile, requests

bell == <<server, badge, load, tick, pushed, marks>>
refreshing == <<lock, ttl, job, cache, fill, manual, overran, orphaned, excused>>
jobs == <<refreshing, crashes>>
screens == <<viewer, page, chosen, shown, pending, acting, sent, refusals, refused, late, newest, excuse>>
life == <<phase, req, counted, answers, rows, lost, reports, turns>>
scoring == <<day, logged, profile, requests>>
vars == <<scene, faults, bell, jobs, rules, screens, life, scoring>>

Badge == INSTANCE Bell WITH Load <- Fetch, shown <- badge, mark <- tick
Work == INSTANCE Jobs
Resolver == INSTANCE Rules
Pages == INSTANCE Screens WITH lost <- late
Http == INSTANCE Lifecycle WITH Request <- Call
Habits == INSTANCE Scoring

(* Whose turn it is to refresh the profiles. *)
Turn == [i \in Instance |-> IF job[i] \notin Work!Working THEN "away"
                            ELSE IF i \in overran THEN "overdue" ELSE "holds"]
Turns == INSTANCE Lease WITH turn <- Turn

ASSUME UpkeepAssumption ==
    /\ Badge!BellAssumption /\ Work!JobsAssumption /\ Resolver!RulesAssumption
    /\ Pages!ScreensAssumption /\ Http!LifecycleAssumption /\ Habits!ScoringAssumption

Init ==
    /\ scene \in {"bell", "jobs", "rules", "screens", "http", "habits"}
    /\ Badge!Init /\ Work!Init /\ Resolver!Init /\ Pages!Init /\ Http!Init /\ Habits!Init

(* What each scene leaves alone. *)
BesideBell == UNCHANGED <<jobs, rules, screens, life, scoring>>
BesideJobs == UNCHANGED <<bell, rules, screens, life, scoring>>
BesideRules == UNCHANGED <<bell, refreshing, screens, life, scoring>>

Next ==
    /\ UNCHANGED scene
    /\ \/ scene = "bell" /\ Badge!Next /\ BesideBell
       \/ scene = "jobs" /\ Work!Next /\ BesideJobs
       \/ scene = "rules" /\ Resolver!Next /\ BesideRules
       \/ /\ scene = "screens" /\ Pages!Next
          /\ UNCHANGED <<faults, bell, jobs, rules, life, scoring>>
       \/ /\ scene = "http" /\ Http!Next
          /\ UNCHANGED <<bell, jobs, rules, screens, scoring>>
       \/ /\ scene = "habits" /\ Habits!Next
          /\ UNCHANGED <<faults, bell, jobs, rules, screens, life>>

(* The fairness of Bell, of Jobs and of Rules, each in its scene. *)
InBell(step) == scene = "bell" /\ step /\ BesideBell /\ UNCHANGED scene
InJobs(step) == scene = "jobs" /\ step /\ BesideJobs /\ UNCHANGED scene
InRules(step) == scene = "rules" /\ step /\ BesideRules /\ UNCHANGED scene
Fairness ==
    /\ \A l \in Fetch :
        /\ WF_vars(InBell(Badge!Poll(l))) /\ WF_vars(InBell(Badge!ServeList(l)))
        /\ WF_vars(InBell(Badge!ListArrives(l)))
    /\ WF_vars(InBell(Badge!ServeMark)) /\ WF_vars(InBell(Badge!MarkAnswered))
    /\ WF_vars(InBell(Badge!MarkRefused))
    /\ WF_vars(InJobs(Work!LockExpires))
    /\ \A i \in Instance :
        /\ WF_vars(InJobs(Work!Tick(i))) /\ WF_vars(InJobs(Work!JobStep(i)))
        /\ WF_vars(InJobs(Work!Restart(i))) /\ WF_vars(InRules(Resolver!LoadRules(i)))
        /\ WF_vars(InRules(Resolver!RulesTtlEnds(i))) /\ WF_vars(InRules(Resolver!Restart(i)))

Spec == Init /\ [][Next]_vars /\ Fairness

-----------------------------------------------------------------------------
(* The state of the scene that runs. *)
TypeOK ==
    /\ scene = "bell" => Badge!TypeOK
    /\ scene = "jobs" => Work!TypeOK
    /\ scene = "rules" => Resolver!TypeOK
    /\ scene = "screens" => Pages!TypeOK
    /\ scene = "http" => Http!TypeOK
    /\ scene = "habits" => Habits!TypeOK

(* What the bell shows becomes what is stored
   (notification-bell.tsx, load). *)
BellCatchesUp == scene = "bell" => Badge!BellCatchesUp

(* Profiles are refreshed and rules loaded again and again, whatever failed
   (profileRefresh.ts, runOnce; ownershipResolver.ts, loadRules). *)
JobsRecur ==
    /\ scene = "jobs" => Work!RefreshRecurs
    /\ scene = "rules" => Resolver!RulesComeBack

(* No two instances refresh the profiles at once while the lock lasts
   (profileRefresh.ts, acquireLock). *)
OneRefreshAtATime == scene = "jobs" => Work!OneRefreshAtATime

(* The instances take turns: one begins only while no other holds the lock,
   and keeps it until it ends, unless the deadline or an instance past its
   own deadline takes it (profileRefresh.ts, runOnce). *)
RefreshesTakeTurns == Turns!Spec

(* The lock of the refresh ends at its deadline or with an instance
   (profileRefresh.ts, runOnce). *)
LockEnds == scene = "jobs" => Work!LockEnds

(* An instance that keeps an old profile has a reason
   (profileRefresh.ts, refreshAndInvalidate; behaviorDetector.ts, cachedProfile). *)
OldProfileExplained == scene = "jobs" => Work!OldProfileExplained

(* A page sends calls and shows links that its viewer is admitted to
   (app/(dashboard), RoleGuard.tsx; the routes of the API). *)
LinksAndCallsAreAdmitted == scene = "screens" => Pages!LinksAndCallsAreAdmitted

(* The rows on screen are those of the filter above them
   (the load of users/page.tsx and of the other lists). *)
RowsFitTheChoice == scene = "screens" => Pages!RowsFitTheChoice

(* An answer of the API leaves a row in the audit log
   (requestAudit.ts, recordRequest; server.ts, shutdown). *)
AnswersAreRecorded == scene = "http" => Http!AnswersAreRecorded

(* What is stranger scores higher, and no single signal convicts
   (behaviorScoring.ts, scoreEvent; behaviorProfiler.ts, rowsToProfile). *)
StrangersStandOut == scene = "habits" => Habits!StrangersStandOut
=============================================================================
