----------------------------- MODULE UpkeepProofs -----------------------------
(***************************************************************************)
(* The safety of what runs beside the requests, for any numbers of         *)
(* instances, requests and loads.  Each scene has an invariant of its own; *)
(* the other scenes do not touch its state.                                *)
(***************************************************************************)
EXTENDS Upkeep, FiniteSetTheorems, TLAPS

(* A step is one of the component whose scene it is.                       *)
LEMMA Scenes ==
    ASSUME Next
    PROVE  /\ scene' = scene
           /\ scene = "jobs" => Work!Next
           /\ scene = "rules" => Resolver!Next
           /\ scene = "screens" => Pages!Next
           /\ scene = "http" => Http!Next
           /\ scene = "bell" => Badge!Next
           /\ scene = "habits" => Habits!Next
  BY DEF Next

(* The modules of the components count as this one does.                   *)
LEMMA Counting ==
    ASSUME NEW S
    PROVE  /\ Work!Cardinality(S) = Cardinality(S) /\ Http!Cardinality(S) = Cardinality(S)
           /\ Http!IsFiniteSet(S) = IsFiniteSet(S)
           /\ Habits!Cardinality(S) = Cardinality(S) /\ Habits!IsFiniteSet(S) = IsFiniteSet(S)
  BY DEF Work!Cardinality, Http!Cardinality, Habits!Cardinality, Cardinality,
         Http!IsFiniteSet, Habits!IsFiniteSet, IsFiniteSet

-----------------------------------------------------------------------------
(* The daily refresh.  A lock is lost in two ways, at its deadline and     *)
(* when an instance that outlived its own deletes that of another; either  *)
(* way those still at work have overrun.  The others are one at most, and  *)
(* hold the lock.                                                          *)
LockTyped ==
    /\ lock \in 0..2
    /\ job \in [Instance -> {"off", "idle"} \cup Work!Working]
    /\ overran \subseteq Instance

(* Who has overrun is still at work, and at most one instance is at work   *)
(* that has not: then the lock is taken.                                   *)
Holders ==
    /\ \A i \in overran : job[i] \in Work!Working
    /\ \A i \in Instance \ overran : job[i] \in Work!Working =>
        /\ lock > 0
        /\ \A j \in Instance \ overran : job[j] \in Work!Working => j = i

LockInv == LockTyped /\ Holders

(* Nobody is at work at first.                                             *)
LEMMA LockInit == ASSUME Work!Init PROVE LockInv
<1>1. \A i \in Instance : job[i] \notin Work!Working
  BY DEF Work!Init, Work!Working
<1>2. LockTyped
  BY DEF Work!Init, LockTyped
<1> QED
  BY <1>1, <1>2 DEF Work!Init, LockInv, Holders

(* Every step keeps the types and leaves at most one holder of the lock.   *)
LEMMA LockStep == ASSUME LockInv, Work!Next PROVE LockInv'
<1> USE DEF LockInv, LockTyped, Holders, Work!Working, Work!caches, Work!bounds, Work!Go, Work!Bumped
<1>1. ASSUME NEW i \in Instance, Work!Tick(i)
      PROVE  LockInv'
  <2>1. CASE lock = 0
    <3>1. \A j \in Instance \ overran : job[j] \notin Work!Working
      BY <2>1
    <3>2. i \notin overran
      BY <1>1 DEF Work!Tick
    <3> QED
      BY <1>1, <2>1, <3>1, <3>2 DEF Work!Tick
  <2>2. CASE lock # 0
    BY <1>1, <2>2 DEF Work!Tick
  <2> QED
    BY <2>1, <2>2
<1>2. ASSUME NEW i \in Instance, Work!SetDeadline(i)
      PROVE  LockInv'
  BY <1>2 DEF Work!SetDeadline
<1>3. ASSUME NEW i \in Instance, Work!RefreshAll(i)
      PROVE  LockInv'
  BY <1>3 DEF Work!RefreshAll
<1>4. ASSUME NEW i \in Instance, Work!ClearProfileCache(i)
      PROVE  LockInv'
  BY <1>4 DEF Work!ClearProfileCache
<1>5. ASSUME NEW i \in Instance, Work!ReleaseLock(i)
      PROVE  LockInv'
  <2>1. /\ lock' = 0 /\ ttl' = FALSE /\ job' = [job EXCEPT ![i] = "idle"]
        /\ overran' = {j \in Instance \ {i} : job[j] \in Work!Working}
    BY <1>5 DEF Work!ReleaseLock
  <2>2. LockTyped'
    BY <2>1
  <2>3. \A j \in overran' : job'[j] \in Work!Working
    BY <2>1
  <2>4. \A j \in Instance \ overran' : job'[j] \notin Work!Working
    BY <2>1
  <2> QED
    BY <2>2, <2>3, <2>4
<1>6. ASSUME NEW i \in Instance, Work!RefreshFails(i)
      PROVE  LockInv'
  BY <1>6 DEF Work!RefreshFails
<1>7. ASSUME Work!LockExpires
      PROVE  LockInv'
  BY <1>7 DEF Work!LockExpires
<1>8. ASSUME NEW i \in Instance, Work!Crash(i)
      PROVE  LockInv'
  BY <1>8 DEF Work!Crash
<1>9. ASSUME NEW i \in Instance, Work!Restart(i)
      PROVE  LockInv'
  BY <1>9 DEF Work!Restart
<1>10. ASSUME NEW i \in Instance, Work!IncrFails(i)
       PROVE  LockInv'
  BY <1>10 DEF Work!IncrFails
<1>11. ASSUME NEW i \in Instance, Work!DeadlineFails(i)
       PROVE  LockInv'
  BY <1>11 DEF Work!DeadlineFails
<1>12. ASSUME NEW i \in Instance, Work!ReleaseFails(i)
       PROVE  LockInv'
  BY <1>12 DEF Work!ReleaseFails
<1>13. CASE UNCHANGED <<lock, ttl, job, overran>>
  BY <1>13
<1> QED
  BY <1>1, <1>2, <1>3, <1>4, <1>5, <1>6, <1>7, <1>8, <1>9, <1>10, <1>11, <1>12, <1>13
     DEF Work!Next, Work!JobStep, Work!RefreshNow, Work!ClearNow, Work!LoadProfile, Work!CacheProfile,
         Work!ProfileTtlEnds

(* With the lock as the invariant has it, one instance is at work.         *)
LEMMA LockExcludes == ASSUME LockInv PROVE Work!OneRefreshAtATime
<1> SUFFICES ASSUME overran = {}
             PROVE  ~(Cardinality({i \in Instance : job[i] \in Work!Working}) > 1)
  BY Counting DEF Work!OneRefreshAtATime
<1> DEFINE Busy == {i \in Instance : job[i] \in Work!Working}
<1>1. CASE Busy = {}
  BY <1>1, FS_EmptySet
<1>2. ASSUME NEW i \in Busy
      PROVE  Cardinality(Busy) = 1
  <2>1. Busy = {i}
    BY DEF LockInv, Holders
  <2> QED
    BY <2>1, FS_Singleton
<1> QED
  BY <1>1, <1>2

(* However many instances run the job, whatever stops or fails and however *)
(* late, two refresh at once only where one of them worked past the end of *)
(* its lock (profileRefresh.ts, acquireLock and releaseLock).              *)
THEOREM RefreshesExclude == Spec => []OneRefreshAtATime
<1> DEFINE Inv == scene = "jobs" => LockInv
<1>1. Init => Inv
  BY LockInit DEF Init
<1>2. Inv /\ [Next]_vars => Inv'
  <2> SUFFICES ASSUME Inv, [Next]_vars, scene' = "jobs"
               PROVE  LockInv'
    OBVIOUS
  <2>1. CASE Next
    BY <2>1, Scenes, LockStep
  <2>2. CASE UNCHANGED vars
    BY <2>2 DEF vars, jobs, refreshing, LockInv, LockTyped, Holders
  <2> QED
    BY <2>1, <2>2
<1>3. Inv => OneRefreshAtATime
  BY LockExcludes DEF OneRefreshAtATime
<1> QED
  BY <1>1, <1>2, <1>3, PTL DEF Spec

(* A step of the jobs is a step of the turns, or leaves them as they are.  *)
LEMMA TurnStep == ASSUME LockInv, Work!Next PROVE [Turns!Next]_Turn
<1> USE DEF LockInv, LockTyped, Holders, Work!Working, Work!caches, Work!bounds, Work!Go, Turn
<1>1. ASSUME NEW i \in Instance, Work!Tick(i)
      PROVE  Turn' = Turn \/ Turns!Take(i)
  <2>1. CASE lock = 0
    <3>1. \A j \in Instance : Turn[j] # "holds"
      BY <2>1
    <3>2. i \notin overran /\ Turn[i] = "away"
      BY <1>1 DEF Work!Tick
    <3>3. Turn' = [Turn EXCEPT ![i] = "holds"]
      BY <1>1, <2>1, <3>2 DEF Work!Tick
    <3> QED
      BY <3>1, <3>2, <3>3 DEF Turns!Take, Turns!Free
  <2>2. CASE lock # 0
    BY <1>1, <2>2 DEF Work!Tick
  <2> QED
    BY <2>1, <2>2
<1>2. ASSUME NEW i \in Instance,
             Work!SetDeadline(i) \/ Work!RefreshAll(i) \/ Work!RefreshFails(i)
             \/ Work!ClearProfileCache(i) \/ Work!Restart(i) \/ Work!IncrFails(i)
      PROVE  Turn' = Turn
  BY <1>2 DEF Work!SetDeadline, Work!RefreshAll, Work!RefreshFails, Work!ClearProfileCache, Work!Restart,
              Work!IncrFails
<1>3. ASSUME NEW i \in Instance, Work!ReleaseLock(i)
      PROVE  Turns!Finish(i)
  BY <1>3 DEF Work!ReleaseLock, Turns!Finish, Turns!Outlived
<1>4. ASSUME Work!LockExpires
      PROVE  Turns!Deadline
  BY <1>4 DEF Work!LockExpires, Turns!Deadline, Turns!Outlived
<1>5. ASSUME NEW i \in Instance, Work!Crash(i) \/ Work!DeadlineFails(i) \/ Work!ReleaseFails(i)
      PROVE  Turn' = Turn \/ Turns!Stop(i)
  <2>1. Turn' = [Turn EXCEPT ![i] = "away"]
    BY <1>5 DEF Work!Crash, Work!DeadlineFails, Work!ReleaseFails
  <2> QED
    BY <2>1 DEF Turns!Stop
<1>6. CASE UNCHANGED <<job, overran>>
  BY <1>6
<1> QED
  BY <1>1, <1>2, <1>3, <1>4, <1>5, <1>6
     DEF Work!Next, Work!JobStep, Work!RefreshNow, Work!ClearNow, Work!LoadProfile, Work!CacheProfile,
         Work!ProfileTtlEnds, Turns!Next

(* However many instances run the job and however they stop or overrun,    *)
(* what they do with the lock is what Lease says: an instance begins only  *)
(* where no other holds a turn, and a turn ends under it only at the       *)
(* deadline or by one that is overdue (profileRefresh.ts, runOnce).        *)
THEOREM TheLockIsALease == Spec => RefreshesTakeTurns
<1> DEFINE Inv == scene = "jobs" => LockInv
<1>1. Init => Turns!Init /\ Inv
  BY LockInit DEF Init, Work!Init, Work!Working, Turns!Init, Turn
<1>2. Inv /\ [Next]_vars => Inv' /\ [Turns!Next]_Turn
  <2> SUFFICES ASSUME Inv, [Next]_vars
               PROVE  Inv' /\ [Turns!Next]_Turn
    OBVIOUS
  <2>1. CASE Next /\ scene = "jobs"
    BY <2>1, Scenes, LockStep, TurnStep
  <2>2. CASE Next /\ scene # "jobs"
    BY <2>2 DEF Next, BesideBell, BesideRules, jobs, refreshing, Turn
  <2>3. CASE UNCHANGED vars
    BY <2>3 DEF vars, jobs, refreshing, LockInv, LockTyped, Holders, Turn
  <2> QED
    BY <2>1, <2>2, <2>3
<1> QED
  BY <1>1, <1>2, PTL DEF Spec, RefreshesTakeTurns, Turns!Spec

(* What an instance has read or cached of an older refresh it will clear,  *)
(* after a refresh of its own or one by hand, or has a reason to keep.     *)
ProfileInv ==
    /\ job \in [Instance -> {"off", "idle"} \cup Work!Working]
    /\ cache \in [Instance -> {"none", "new", "old"}]
    /\ fill \in [Instance -> {"none", "new", "old"}]
    /\ \A i \in Instance :
           cache[i] = "old" \/ fill[i] = "old" => job[i] = "clear" \/ i \in manual \cup excused

(* Every step keeps the reason.                                            *)
LEMMA ProfileStep == ASSUME ProfileInv, Work!Next PROVE ProfileInv'
<1> USE DEF ProfileInv, Work!Working, Work!caches, Work!bounds, Work!Go, Work!Older
<1>1. ASSUME NEW i \in Instance, Work!Tick(i)
      PROVE  ProfileInv'
  BY <1>1 DEF Work!Tick
<1>2. ASSUME NEW i \in Instance, Work!SetDeadline(i)
      PROVE  ProfileInv'
  BY <1>2 DEF Work!SetDeadline
<1>3. ASSUME NEW i \in Instance, Work!RefreshAll(i)
      PROVE  ProfileInv'
  BY <1>3 DEF Work!RefreshAll
<1>4. ASSUME NEW i \in Instance, Work!ClearProfileCache(i)
      PROVE  ProfileInv'
  BY <1>4 DEF Work!ClearProfileCache
<1>5. ASSUME NEW i \in Instance, Work!ReleaseLock(i)
      PROVE  ProfileInv'
  BY <1>5 DEF Work!ReleaseLock
<1>6. ASSUME NEW i \in Instance, Work!RefreshFails(i)
      PROVE  ProfileInv'
  BY <1>6 DEF Work!RefreshFails
<1>7. ASSUME NEW i \in Instance, Work!Crash(i)
      PROVE  ProfileInv'
  BY <1>7 DEF Work!Crash
<1>8. ASSUME NEW i \in Instance, Work!Restart(i)
      PROVE  ProfileInv'
  BY <1>8 DEF Work!Restart
<1>9. ASSUME NEW i \in Instance, Work!RefreshNow(i)
      PROVE  ProfileInv'
  BY <1>9 DEF Work!RefreshNow
<1>10. ASSUME NEW i \in Instance, Work!LoadProfile(i)
       PROVE  ProfileInv'
  BY <1>10 DEF Work!LoadProfile
<1>11. ASSUME NEW i \in Instance, Work!CacheProfile(i)
       PROVE  ProfileInv'
  BY <1>11 DEF Work!CacheProfile
<1>12. ASSUME NEW i \in Instance, Work!ProfileTtlEnds(i)
       PROVE  ProfileInv'
  BY <1>12 DEF Work!ProfileTtlEnds
<1>13. ASSUME NEW i \in Instance, Work!ClearNow(i)
       PROVE  ProfileInv'
  BY <1>13 DEF Work!ClearNow
<1>14. ASSUME NEW i \in Instance, Work!DeadlineFails(i) \/ Work!ReleaseFails(i)
       PROVE  ProfileInv'
  BY <1>14 DEF Work!DeadlineFails, Work!ReleaseFails
<1>15. CASE UNCHANGED <<job, cache, fill, manual, excused>>
  BY <1>15
<1> QED
  BY <1>1, <1>2, <1>3, <1>4, <1>5, <1>6, <1>7, <1>8, <1>9, <1>10, <1>11, <1>12, <1>13, <1>14, <1>15
     DEF Work!Next, Work!JobStep, Work!IncrFails, Work!LockExpires

(* However the refreshes, the clearings, the fills and the stops of the    *)
(* instances interleave, an instance keeps an old profile only for one of  *)
(* the two reasons (behaviorDetector.ts, cachedProfile;                    *)
(* profileRefresh.ts, refreshAndInvalidate).                               *)
THEOREM OldProfilesHaveAReason == Spec => []OldProfileExplained
<1> DEFINE Inv == scene = "jobs" => ProfileInv
<1>1. Init => Inv
  BY DEF Init, Work!Init, ProfileInv
<1>2. Inv /\ [Next]_vars => Inv'
  <2> SUFFICES ASSUME Inv, [Next]_vars, scene' = "jobs"
               PROVE  ProfileInv'
    OBVIOUS
  <2>1. CASE Next
    BY <2>1, Scenes, ProfileStep
  <2>2. CASE UNCHANGED vars
    BY <2>2 DEF vars, jobs, refreshing, ProfileInv
  <2> QED
    BY <2>1, <2>2
<1>3. Inv => OldProfileExplained
  BY DEF OldProfileExplained, ProfileInv, Work!OldProfileExplained
<1> QED
  BY <1>1, <1>2, <1>3, PTL DEF Spec

-----------------------------------------------------------------------------
(* The requests of the HTTP layer.  An answer is counted when it leaves,   *)
(* its row when onResponse has run; Recording are those in between.        *)
HttpRequest ==
    {Http!idle}
    \cup [at : {"limit", "route", "record"}, kind : Http!Kinds, user : BOOLEAN, status : Nat]
Recording == {r \in Call : req[r].at = "record" /\ req[r].kind = "v1"}
RecordInv ==
    /\ req \in [Call -> HttpRequest]
    /\ answers \in Nat /\ rows \in Nat /\ lost \in Nat
    /\ answers = rows + lost + Cardinality(Recording)
    /\ phase = "gone" => \A r \in Call : req[r] = Http!idle

(* What is counted is finite.                                              *)
LEMMA RecordingFinite == IsFiniteSet(Recording) /\ Cardinality(Recording) \in Nat
<1>1. IsFiniteSet(Call)
  BY UpkeepAssumption, Counting DEF Http!LifecycleAssumption
<1>2. Recording \subseteq Call
  BY DEF Recording
<1> QED
  BY <1>1, <1>2, FS_Subset, FS_CardinalityType

(* A request that goes on to another step is one.                          *)
LEMMA HttpMoves ==
    ASSUME req \in [Call -> HttpRequest], NEW r \in Call, req[r].at # "idle",
           NEW at \in {"limit", "route", "record"}, NEW status \in Nat, NEW user \in BOOLEAN
    PROVE  /\ [req[r] EXCEPT !.at = at] \in HttpRequest
           /\ [req[r] EXCEPT !.at = at, !.status = status, !.user = user] \in HttpRequest
           /\ [req[r] EXCEPT !.at = at].at = at
           /\ [req[r] EXCEPT !.at = at].kind = req[r].kind
           /\ [req[r] EXCEPT !.at = at, !.status = status, !.user = user].at = at
           /\ [req[r] EXCEPT !.at = at, !.status = status, !.user = user].kind = req[r].kind
<1>1. req[r] \in [at : {"limit", "route", "record"}, kind : Http!Kinds, user : BOOLEAN, status : Nat]
  BY DEF HttpRequest, Http!idle
<1> QED
  BY <1>1 DEF HttpRequest

(* An answer of a v1 path adds one to both sides of the account.           *)
LEMMA AnsweredCounts ==
    ASSUME RecordInv, NEW r \in Call, req[r].at \in {"limit", "route"},
           NEW status \in Nat, NEW user \in BOOLEAN, Http!Answered(r, status, user),
           UNCHANGED <<phase, rows, lost>>
    PROVE  RecordInv'
<1> USE DEF RecordInv
<1>1. /\ req' = [req EXCEPT ![r].at = "record", ![r].status = status, ![r].user = user]
      /\ answers' = answers + (IF req[r].kind = "v1" THEN 1 ELSE 0)
  BY DEF Http!Answered
<1> DEFINE new == [req[r] EXCEPT !.at = "record", !.status = status, !.user = user]
<1>2. new \in HttpRequest /\ new.at = "record" /\ new.kind = req[r].kind
  <2>1. req[r] \in [at : {"limit", "route", "record"}, kind : Http!Kinds, user : BOOLEAN, status : Nat]
    BY DEF HttpRequest, Http!idle
  <2> QED
    BY <2>1 DEF HttpRequest
<1>3. req' = [req EXCEPT ![r] = new]
  BY <1>1
<1> HIDE DEF new
<1>4. req' \in [Call -> HttpRequest]
  BY <1>2, <1>3
<1>5. phase' # "gone"
  BY DEF Http!idle
<1>6. answers' = rows' + lost' + Cardinality(Recording')
  <2>1. CASE req[r].kind = "v1"
    <3>1. Recording' = Recording \cup {r} /\ r \notin Recording
      BY <1>2, <1>3, <2>1 DEF Recording
    <3>2. Cardinality(Recording) \in Nat /\ Cardinality(Recording') = Cardinality(Recording) + 1
      BY <3>1, RecordingFinite, FS_AddElement
    <3> QED
      BY <1>1, <2>1, <3>2
  <2>2. CASE req[r].kind # "v1"
    <3>1. Recording' = Recording
      BY <1>2, <1>3, <2>2 DEF Recording
    <3> QED
      BY <1>1, <2>2, <3>1
  <2> QED
    BY <2>1, <2>2
<1>7. answers' \in Nat
  BY <1>1
<1> QED
  BY <1>4, <1>5, <1>6, <1>7

(* A request that ends leaves its row, or is counted lost.                 *)
LEMMA RecordedCounts ==
    ASSUME RecordInv, NEW r \in Call, req[r].at = "record",
           req' = [req EXCEPT ![r] = Http!idle], UNCHANGED <<phase, answers>>,
           NEW s \in Nat, NEW m \in Nat, rows' = s, lost' = m,
           s + m = rows + lost + (IF req[r].kind = "v1" THEN 1 ELSE 0)
    PROVE  RecordInv'
<1> USE DEF RecordInv
<1>1. req' \in [Call -> HttpRequest]
  BY DEF HttpRequest
<1>2. Http!idle.at # "record"
  BY DEF Http!idle
<1>3. answers' = rows' + lost' + Cardinality(Recording')
  <2>1. CASE req[r].kind = "v1"
    <3>1. Recording' = Recording \ {r} /\ r \in Recording
      BY <1>2, <2>1 DEF Recording
    <3>2. Cardinality(Recording) \in Nat /\ Cardinality(Recording') = Cardinality(Recording) - 1
      BY <3>1, RecordingFinite, FS_RemoveElement
    <3> QED
      BY <2>1, <3>2
  <2>2. CASE req[r].kind # "v1"
    <3>1. Recording' = Recording
      BY <1>2, <2>2 DEF Recording
    <3> QED
      BY <2>2, <3>1, RecordingFinite
  <2> QED
    BY <2>1, <2>2
<1>4. phase' = "gone" => \A q \in Call : req'[q] = Http!idle
  OBVIOUS
<1> QED
  BY <1>1, <1>3, <1>4

(* Every step keeps the account.                                           *)
LEMMA RecordStep == ASSUME RecordInv, Http!Next PROVE RecordInv'
<1> USE DEF RecordInv, Http!history
<1>1. ASSUME NEW r \in Call, NEW kind \in Http!Kinds, Http!Arrive(r, kind)
      PROVE  RecordInv'
  <2> DEFINE new == [at |-> "limit", kind |-> kind, user |-> FALSE, status |-> 0]
  <2>1. req' = [req EXCEPT ![r] = new] /\ req[r] = Http!idle
    BY <1>1 DEF Http!Arrive
  <2>2. new \in HttpRequest /\ new.at # "record" /\ Http!idle.at # "record"
    BY DEF HttpRequest, Http!idle
  <2> HIDE DEF new
  <2>3. Recording' = Recording
    BY <2>1, <2>2 DEF Recording
  <2> QED
    BY <1>1, <2>1, <2>2, <2>3 DEF Http!Arrive
<1>2. 200 \in Nat /\ 202 \in Nat /\ 400 \in Nat /\ 401 \in Nat /\ 403 \in Nat /\ 429 \in Nat /\ 500 \in Nat
  OBVIOUS
<1>3. ASSUME NEW r \in Call, Http!Limit(r)
      PROVE  RecordInv'
  <2>1. CASE Http!Answered(r, 429, FALSE)
    BY <1>3, <1>2, <2>1, AnsweredCounts DEF Http!Limit
  <2>2. CASE req' = [req EXCEPT ![r].at = "route"] /\ UNCHANGED answers
    <3> DEFINE new == [req[r] EXCEPT !.at = "route"]
    <3>1. new \in HttpRequest /\ new.at = "route" /\ req[r].at = "limit"
      BY <1>3, HttpMoves DEF Http!Limit
    <3>2. req' = [req EXCEPT ![r] = new]
      BY <2>2
    <3> HIDE DEF new
    <3>3. Recording' = Recording
      BY <3>1, <3>2 DEF Recording
    <3>4. phase # "gone"
      BY <3>1 DEF Http!idle
    <3> QED
      BY <1>3, <2>2, <3>1, <3>2, <3>3, <3>4 DEF Http!Limit
  <2> QED
    BY <1>3, <2>1, <2>2 DEF Http!Limit
<1>4. ASSUME NEW r \in Call, Http!Refuse(r) \/ Http!Handle(r) \/ Http!HandlerFails(r) \/ Http!ClientError(r)
      PROVE  RecordInv'
  <2>1. /\ req[r].at = "route" /\ UNCHANGED <<phase, rows, lost>>
        /\ \E status \in {200, 202, 400, 401, 403, 500}, user \in BOOLEAN : Http!Answered(r, status, user)
    <3>1. CASE Http!Refuse(r)
      <4>1. PICK who \in {[status |-> 401, user |-> FALSE], [status |-> 403, user |-> TRUE]} :
                    Http!Answered(r, who.status, who.user)
        BY <3>1 DEF Http!Refuse
      <4>2. [status |-> 401, user |-> FALSE] \in [status : {401, 403}, user : BOOLEAN]
        OBVIOUS
      <4>3. [status |-> 403, user |-> TRUE] \in [status : {401, 403}, user : BOOLEAN]
        OBVIOUS
      <4>4. who \in [status : {401, 403}, user : BOOLEAN]
        BY <4>2, <4>3
      <4>5. who.status \in {401, 403} /\ who.user \in BOOLEAN
        BY <4>4
      <4> QED
        BY <3>1, <4>1, <4>5 DEF Http!Refuse
    <3>2. CASE Http!Handle(r)
      BY <3>2 DEF Http!Handle
    <3>3. CASE Http!HandlerFails(r) \/ Http!ClientError(r)
      <4>1. TRUE \in BOOLEAN
        OBVIOUS
      <4> QED
        BY <3>3, <4>1, Zenon DEF Http!HandlerFails, Http!ClientError
    <3> QED
      BY <1>4, <3>1, <3>2, <3>3
  <2> QED
    BY <1>2, <2>1, AnsweredCounts
<1>5. ASSUME NEW r \in Call, Http!Record(r)
      PROVE  RecordInv'
  <2>1. /\ req[r].at = "record" /\ req' = [req EXCEPT ![r] = Http!idle]
        /\ rows' = rows + (IF req[r].kind = "v1" THEN 1 ELSE 0) /\ UNCHANGED <<phase, answers, lost>>
    BY <1>5 DEF Http!Record
  <2> DEFINE more == IF req[r].kind = "v1" THEN 1 ELSE 0
  <2>2. rows + more \in Nat /\ (rows + more) + lost = rows + lost + more
    OBVIOUS
  <2> QED
    BY <2>1, <2>2, RecordedCounts
<1>6. ASSUME NEW r \in Call, Http!RecordFails(r)
      PROVE  RecordInv'
  <2>1. /\ req[r].at = "record" /\ req' = [req EXCEPT ![r] = Http!idle] /\ req[r].kind = "v1"
        /\ lost' = lost + 1 /\ UNCHANGED <<phase, answers, rows>>
    BY <1>6 DEF Http!RecordFails
  <2>2. lost + 1 \in Nat /\ rows + (lost + 1) = rows + lost + (IF req[r].kind = "v1" THEN 1 ELSE 0)
    BY <2>1
  <2> QED
    BY <2>1, <2>2, RecordedCounts
<1>7. ASSUME Http!Gone
      PROVE  RecordInv'
  <2>1. /\ req' = [r \in Call |-> Http!idle] /\ answers' = answers /\ rows' = rows
        /\ lost' = lost + Cardinality(Recording)
    BY <1>7, Counting DEF Http!Gone, Recording
  <2>2. Http!idle \in HttpRequest /\ Http!idle.at # "record"
    BY DEF HttpRequest, Http!idle
  <2>3. Recording' = {}
    BY <2>1, <2>2 DEF Recording
  <2> QED
    BY <2>1, <2>2, <2>3, FS_EmptySet, RecordingFinite
<1>8. CASE UNCHANGED <<req, answers, rows, lost>> /\ (phase' = "gone" => phase = "gone")
  BY <1>8 DEF Recording
<1> QED
  BY <1>1, <1>2, <1>3, <1>4, <1>5, <1>6, <1>7, <1>8
     DEF Http!Next, Http!TurnAway, Http!MinuteEnds, Http!Unhandled, Http!Shutdown, Http!Exit,
         Http!Crash, Http!Boot

(* Nothing is answered at first.                                           *)
LEMMA RecordInit == ASSUME Http!Init PROVE RecordInv
<1>1. req = [r \in Call |-> Http!idle] /\ answers = 0 /\ rows = 0 /\ lost = 0
  BY DEF Http!Init
<1>2. Http!idle \in HttpRequest /\ Http!idle.at # "record"
  BY DEF HttpRequest, Http!idle
<1>3. Recording = {}
  BY <1>1, <1>2 DEF Recording
<1> QED
  BY <1>1, <1>2, <1>3, FS_EmptySet DEF RecordInv

(* Whatever overlaps, fails or stops the process, every answer has its     *)
(* row, is about to have it, or is counted as lost to a failed insert or   *)
(* to the end of the process (requestAudit.ts, recordRequest; server.ts,   *)
(* shutdown).                                                              *)
THEOREM AnswersAreAccountedFor == Spec => []AnswersAreRecorded
<1> DEFINE Inv == scene = "http" => RecordInv
<1>1. Init => Inv
  BY RecordInit DEF Init
<1>2. Inv /\ [Next]_vars => Inv'
  <2> SUFFICES ASSUME Inv, [Next]_vars, scene' = "http"
               PROVE  RecordInv'
    OBVIOUS
  <2>1. CASE Next
    BY <2>1, Scenes, RecordStep
  <2>2. CASE UNCHANGED vars
    BY <2>2 DEF vars, life, RecordInv, Recording
  <2> QED
    BY <2>1, <2>2
<1>3. Inv => AnswersAreRecorded
  BY Counting DEF AnswersAreRecorded, RecordInv, Recording, Http!AnswersAreRecorded
<1> QED
  BY <1>1, <1>2, <1>3, PTL DEF Spec

-----------------------------------------------------------------------------
(* The rows of a page.  As long as nothing was overtaken, failed or was    *)
(* loaded by an older handler, the load that was sent last is one for the  *)
(* choice above the rows, and is under way or has come; a page that        *)
(* cancels waits for no other.                                             *)
Loads == [of : Pages!Choices, at : Nat]
LastLoad ==
    excuse = {} =>
        /\ \A l \in pending : l.at = sent => l.of = chosen
        /\ (\E l \in pending : l.at = sent) \/ (newest = sent /\ shown = chosen)
RowsInv ==
    /\ chosen \in Pages!Choices /\ acting \in Pages!Choices \cup {Pages!None}
    /\ pending \subseteq Loads /\ sent \in Nat /\ newest \in Nat /\ newest <= sent
    /\ \A l \in pending : l.at <= sent
    /\ LastLoad
    /\ Pages!Here.mode = "cancels" => "overtaken" \notin excuse /\ \A l \in pending : l.at = sent

(* A page that has just opened has sent one load.                          *)
LEMMA RowsOpen ==
    ASSUME NEW p, Pages!Show(p)
    PROVE  RowsInv'
<1>1. /\ chosen' = <<1, 1>> /\ acting' = Pages!None /\ sent' = 1 /\ newest' = 0 /\ excuse' = {}
      /\ pending' = {[of |-> <<1, 1>>, at |-> 1]}
  BY DEF Pages!Show, Pages!First, Pages!Load
<1>2. <<1, 1>> \in Pages!Choices
  BY DEF Pages!Choices, Pages!Filters, Pages!Numbers
<1>3. pending' \subseteq Loads
  BY <1>1, <1>2 DEF Loads
<1> QED
  BY <1>1, <1>2, <1>3 DEF RowsInv, LastLoad

(* A choice is loaded in one go: the loads before are forgotten or waited  *)
(* for.                                                                    *)
LEMMA RowsSend ==
    ASSUME RowsInv, NEW c \in Pages!Choices, Pages!Send(c),
           UNCHANGED <<viewer, page, newest, shown>>,
           NEW a \in Pages!Choices \cup {Pages!None}, acting' = a,
           NEW d \in Pages!Choices, chosen' = d,
           NEW why, excuse' = excuse \cup why, "overtaken" \notin why, d = c \/ why # {}
    PROVE  RowsInv'
<1> USE DEF RowsInv
<1> DEFINE new == [of |-> c, at |-> sent + 1]
<1>1. /\ sent' = sent + 1
      /\ pending' = (IF Pages!Here.mode = "cancels" THEN {} ELSE pending) \cup {new}
  BY DEF Pages!Send, Pages!Load
<1>2. new \in Loads /\ new.at = sent + 1 /\ new.of = c
  BY DEF Loads
<1>3. Pages!Here' = Pages!Here
  BY DEF Pages!Here
<1>4. \A l \in pending : l.at \in Nat /\ l.at <= sent /\ l.at # sent + 1
  BY DEF Loads
<1> HIDE DEF new
<1>5. \A l \in pending' : l = new \/ l \in pending
  BY <1>1
<1>6. /\ pending' \subseteq Loads
      /\ sent + 1 \in Nat /\ newest <= sent + 1 /\ \A l \in pending' : l.at <= sent + 1
  BY <1>2, <1>4, <1>5
<1>7. LastLoad'
  <2>1. new \in pending'
    BY <1>1
  <2> QED
    BY <1>1, <1>2, <1>4, <1>5, <2>1 DEF LastLoad
<1>8. Pages!Here'.mode = "cancels" => "overtaken" \notin excuse' /\ \A l \in pending' : l.at = sent'
  BY <1>1, <1>2, <1>3
<1> QED
  BY <1>1, <1>6, <1>7, <1>8

(* A reply takes its load away, and is newer than what came before or      *)
(* overtaken by it.                                                        *)
LEMMA RowsAccept ==
    ASSUME RowsInv, NEW load0 \in pending, Pages!Accept(load0),
           UNCHANGED <<viewer, page, chosen, acting, sent>>,
           shown' = load0.of \/ "failed" \in excuse',
           \/ excuse' = excuse \cup {"failed"}
           \/ excuse' = excuse \cup Pages!When(load0.at < newest, {"overtaken"})
    PROVE  RowsInv'
<1> USE DEF RowsInv
<1>1. /\ pending' = pending \ {load0}
      /\ newest' = IF load0.at > newest THEN load0.at ELSE newest
      /\ load0.at \in Nat /\ load0.at <= sent
  BY DEF Pages!Accept, Loads
<1>2. Pages!Here' = Pages!Here
  BY DEF Pages!Here
<1>3. newest' \in Nat /\ newest' <= sent'
  BY <1>1
<1>4. LastLoad'
  <2> SUFFICES ASSUME excuse' = {}
               PROVE  /\ \A l \in pending' : l.at = sent' => l.of = chosen'
                      /\ (\E l \in pending' : l.at = sent') \/ (newest' = sent' /\ shown' = chosen')
    BY DEF LastLoad
  <2>1. excuse = {} /\ shown' = load0.of /\ ~(load0.at < newest)
    BY DEF Pages!When
  <2>2. CASE load0.at = sent
    BY <1>1, <2>1, <2>2 DEF LastLoad
  <2>3. CASE load0.at # sent
    <3>1. newest # sent
      BY <1>1, <2>1, <2>3
    <3>2. PICK l \in pending : l.at = sent
      BY <2>1, <3>1 DEF LastLoad
    <3> QED
      BY <1>1, <2>1, <2>3, <3>2 DEF LastLoad
  <2> QED
    BY <2>2, <2>3
<1>5. Pages!Here'.mode = "cancels" => "overtaken" \notin excuse'
  <2> SUFFICES ASSUME Pages!Here.mode = "cancels"
               PROVE  "overtaken" \notin excuse'
    BY <1>2
  <2>1. load0.at = sent /\ ~(load0.at < newest)
    BY <1>1
  <2> QED
    BY <2>1 DEF Pages!When
<1> QED
  BY <1>1, <1>2, <1>3, <1>4, <1>5

(* Every step keeps it.                                                    *)
LEMMA RowsStep == ASSUME RowsInv, Pages!Next PROVE RowsInv'
<1> USE DEF RowsInv
<1>0. chosen[1] \in 1..2 /\ chosen[2] \in 1..2 /\ chosen = <<chosen[1], chosen[2]>>
  BY DEF Pages!Choices, Pages!Filters, Pages!Numbers
<1>1. ASSUME NEW p, Pages!Open(p) \/ Pages!Jump(p) \/ Pages!FollowLink(p)
      PROVE  RowsInv'
  BY <1>1, RowsOpen DEF Pages!Open, Pages!Jump, Pages!FollowLink, Pages!ShowIfAdmitted
<1>2. ASSUME NEW f \in Pages!Filters, Pages!Choose(f)
      PROVE  RowsInv'
  <2>1. <<f, 1>> \in Pages!Choices /\ <<f, chosen[2]>> \in Pages!Choices
    BY <1>0 DEF Pages!Choices, Pages!Filters, Pages!Numbers
  <2>2. CASE Pages!Send(<<f, 1>>)
    <3>1. /\ UNCHANGED <<viewer, page, newest, shown, acting>> /\ chosen' = <<f, 1>>
          /\ excuse' = excuse \cup {}
      BY <1>2 DEF Pages!Choose
    <3> QED
      BY <2>1, <2>2, <3>1, RowsSend
  <2>3. CASE /\ Pages!Here.mode = "resets" /\ sent' = sent + 2
             /\ pending' = pending \cup {Pages!Load(<<f, chosen[2]>>, sent + 1), Pages!Load(<<f, 1>>, sent + 2)}
    <3> DEFINE old == [of |-> <<f, chosen[2]>>, at |-> sent + 1]
               new == [of |-> <<f, 1>>, at |-> sent + 2]
    <3>1. pending' = pending \cup {old, new} /\ chosen' = <<f, 1>>
      BY <1>2, <2>3 DEF Pages!Load, Pages!Choose
    <3>2. /\ old \in Loads /\ old.at = sent + 1
          /\ new \in Loads /\ new.at = sent + 2 /\ new.of = <<f, 1>>
      BY <2>1 DEF Loads
    <3> HIDE DEF old, new
    <3>3. pending' \subseteq Loads /\ \A l \in pending' : l.at <= sent'
      BY <2>3, <3>1, <3>2 DEF Loads
    <3>4. LastLoad'
      BY <2>3, <3>1, <3>2 DEF LastLoad, Loads
    <3>5. Pages!Here' = Pages!Here
      BY <1>2 DEF Pages!Choose, Pages!Here
    <3>6. Pages!Here'.mode # "cancels"
      BY <2>3, <3>5
    <3> QED
      BY <1>2, <2>1, <2>3, <3>1, <3>3, <3>4, <3>6 DEF Pages!Choose
  <2> QED
    BY <1>2, <2>2, <2>3 DEF Pages!Choose
<1>3. ASSUME NEW n \in Pages!Numbers, Pages!TurnPage(n)
      PROVE  RowsInv'
  <2>1. <<chosen[1], n>> \in Pages!Choices
    BY <1>0 DEF Pages!Choices, Pages!Filters, Pages!Numbers
  <2>2. Pages!Send(<<chosen[1], n>>) /\ chosen' = <<chosen[1], n>>
    BY <1>3 DEF Pages!TurnPage
  <2> QED
    BY <1>3, <2>1, <2>2, RowsSend DEF Pages!TurnPage
<1>4. CASE Pages!LoadAgain
  BY <1>4, RowsSend DEF Pages!LoadAgain
<1>5. ASSUME NEW call \in Pages!Here.acts, Pages!Press(call)
      PROVE  RowsInv'
  BY <1>5 DEF Pages!Press, Pages!Here, LastLoad
<1>6. CASE Pages!Done
  <2>1. acting \in Pages!Choices /\ acting' = Pages!None
    BY <1>6 DEF Pages!Done
  <2> DEFINE why == Pages!When(acting # chosen, {"old handler"})
  <2>2. excuse' = excuse \cup why
    BY <1>6 DEF Pages!Done
  <2>3. "overtaken" \notin why /\ (acting = chosen \/ why # {})
    BY DEF Pages!When
  <2> HIDE DEF why
  <2>4. CASE Pages!Send(acting)
    BY <1>6, <2>1, <2>2, <2>3, <2>4, RowsSend DEF Pages!Done
  <2>5. CASE UNCHANGED <<sent, pending>>
    BY <1>6, <2>1, <2>2, <2>3, <2>5 DEF Pages!Done, Pages!Here, LastLoad
  <2> QED
    BY <1>6, <2>4, <2>5 DEF Pages!Done
<1>7. ASSUME NEW l \in pending, Pages!Reply(l)
      PROVE  RowsInv'
  BY <1>7, RowsAccept DEF Pages!Reply
<1>8. ASSUME NEW l \in pending, Pages!ReplyFails(l)
      PROVE  RowsInv'
  BY <1>8, RowsAccept DEF Pages!ReplyFails
<1> QED
  BY <1>1, <1>2, <1>3, <1>4, <1>5, <1>6, <1>7, <1>8 DEF Pages!Next

(* The dashboard has sent its load.                                        *)
LEMMA RowsInit == ASSUME Pages!Init PROVE RowsInv
<1>1. /\ chosen = <<1, 1>> /\ acting = Pages!None /\ sent = 1 /\ newest = 0 /\ excuse = {}
      /\ pending = {[of |-> <<1, 1>>, at |-> 1]}
  BY DEF Pages!Init, Pages!First, Pages!Load
<1>2. <<1, 1>> \in Pages!Choices
  BY DEF Pages!Choices, Pages!Filters, Pages!Numbers
<1>3. pending \subseteq Loads
  BY <1>1, <1>2 DEF Loads
<1> QED
  BY <1>1, <1>2, <1>3 DEF RowsInv, LastLoad

(* However the replies of a page's loads overtake each other, fail or are  *)
(* followed by the loads of buttons, at rest its rows are those of the     *)
(* choice above them or there is one of three reasons why not, and a page  *)
(* that cancels is never overtaken (the load of users/page.tsx,            *)
(* security/page.tsx and of the other lists).                              *)
THEOREM RowsFollowTheChoice == Spec => []RowsFitTheChoice
<1> DEFINE Inv == scene = "screens" => RowsInv
<1>1. Init => Inv
  BY RowsInit DEF Init
<1>2. Inv /\ [Next]_vars => Inv'
  <2> SUFFICES ASSUME Inv, [Next]_vars, scene' = "screens"
               PROVE  RowsInv'
    OBVIOUS
  <2>1. CASE Next
    BY <2>1, Scenes, RowsStep
  <2>2. CASE UNCHANGED vars
    BY <2>2 DEF vars, screens, RowsInv, LastLoad, Pages!Here
  <2> QED
    BY <2>1, <2>2
<1>3. Inv => RowsFitTheChoice
  BY DEF RowsFitTheChoice, RowsInv, LastLoad, Pages!RowsFitTheChoice
<1> QED
  BY <1>1, <1>2, <1>3, PTL DEF Spec

-----------------------------------------------------------------------------
(* The pages.  The calls that the routes admit a viewer to, listed for     *)
(* each kind of viewer as far as the pages use them.                       *)
(* Any viewer.                                                             *)
LEMMA ForAll ==
    ASSUME NEW role, NEW rel
    PROVE  {"notifications.list", "users.updateMe", "users.changePassword", "security.sessions",
            "auth.setup2fa", "auth.confirm2fa", "courses.list", "courses.getById",
            "enrollments.list", "attendance.list"}
           \subseteq Pages!Admitted(role, rel)
  BY DEF Pages!UserRoutes, Pages!CourseRoutes, Pages!EnrollmentRoutes, Pages!AttendanceRoutes,
         Pages!GradeReads, Pages!AssessmentRoutes, Pages!AnalyticsRoutes, Pages!SecurityRoutes,
         Pages!NotificationRoutes, Pages!AuthRoutes, Pages!Admitted, Pages!Teaches, Pages!When,
         Pages!Admins, Pages!Staff

(* The owner of a session ends it.                                         *)
LEMMA ForOwner ==
    ASSUME NEW role
    PROVE  {"security.revokeSession"}
           \subseteq Pages!Admitted(role, "owner")
  BY DEF Pages!UserRoutes, Pages!CourseRoutes, Pages!EnrollmentRoutes, Pages!AttendanceRoutes,
         Pages!GradeReads, Pages!AssessmentRoutes, Pages!AnalyticsRoutes, Pages!SecurityRoutes,
         Pages!NotificationRoutes, Pages!AuthRoutes, Pages!Admitted, Pages!Teaches, Pages!When,
         Pages!Admins, Pages!Staff

(* An administrator.                                                       *)
LEMMA ForAdmin ==
    ASSUME NEW role \in Pages!Admins, NEW rel
    PROVE  {"users.getById", "users.list", "users.create", "users.toggleStatus",
            "courses.create", "courses.changeStatus", "enrollments.enroll",
            "enrollments.changeStatus", "courses.enroll", "attendance.markBulk",
            "attendance.generateQr", "analytics.student", "analytics.overview",
            "analytics.studentEnrollment", "analytics.dropoutRisk", "analytics.dashboard",
            "analytics.triggerCalculation", "analytics.teacherKpi", "security.auditLogs",
            "security.alerts", "security.alertStats", "security.resolveAlert",
            "security.activeSessions"}
           \subseteq Pages!Admitted(role, rel)
  BY DEF Pages!UserRoutes, Pages!CourseRoutes, Pages!EnrollmentRoutes, Pages!AttendanceRoutes,
         Pages!GradeReads, Pages!AssessmentRoutes, Pages!AnalyticsRoutes, Pages!SecurityRoutes,
         Pages!NotificationRoutes, Pages!AuthRoutes, Pages!Admitted, Pages!Teaches, Pages!When,
         Pages!Admins, Pages!Staff

(* The highest of them ends the sessions of others.                        *)
LEMMA ForSuper ==
    ASSUME NEW rel
    PROVE  {"security.forceRevoke"}
           \subseteq Pages!Admitted("SUPER_ADMIN", rel)
  BY DEF Pages!UserRoutes, Pages!CourseRoutes, Pages!EnrollmentRoutes, Pages!AttendanceRoutes,
         Pages!GradeReads, Pages!AssessmentRoutes, Pages!AnalyticsRoutes, Pages!SecurityRoutes,
         Pages!NotificationRoutes, Pages!AuthRoutes, Pages!Admitted, Pages!Teaches, Pages!When,
         Pages!Admins, Pages!Staff

(* A teacher.                                                              *)
LEMMA ForTeacher ==
    ASSUME NEW rel
    PROVE  {"courses.create", "analytics.overview", "analytics.dropoutRisk",
            "attendance.byCourse", "analytics.student", "analytics.studentEnrollment"}
           \subseteq Pages!Admitted("TEACHER", rel)
  BY DEF Pages!UserRoutes, Pages!CourseRoutes, Pages!EnrollmentRoutes, Pages!AttendanceRoutes,
         Pages!GradeReads, Pages!AssessmentRoutes, Pages!AnalyticsRoutes, Pages!SecurityRoutes,
         Pages!NotificationRoutes, Pages!AuthRoutes, Pages!Admitted, Pages!Teaches, Pages!When,
         Pages!Admins, Pages!Staff

(* The teacher of the course.                                              *)
LEMMA ForTeacherOf ==
    {"courses.changeStatus", "enrollments.changeStatus", "attendance.mark",
     "attendance.markBulk", "attendance.generateQr", "assessments.create", "assessments.delete",
     "assessments.submitGrade", "assessments.byCourse", "assessments.gradesByCourse",
     "analytics.courseFull", "analytics.teacherKpi"}
    \subseteq Pages!Admitted("TEACHER", "owner")
  BY DEF Pages!UserRoutes, Pages!CourseRoutes, Pages!EnrollmentRoutes, Pages!AttendanceRoutes,
         Pages!GradeReads, Pages!AssessmentRoutes, Pages!AnalyticsRoutes, Pages!SecurityRoutes,
         Pages!NotificationRoutes, Pages!AuthRoutes, Pages!Admitted, Pages!Teaches, Pages!When,
         Pages!Admins, Pages!Staff

(* A student about himself.                                                *)
LEMMA ForStudent ==
    {"users.getById", "analytics.student", "analytics.studentEnrollment"}
    \subseteq Pages!Admitted("STUDENT", "owner")
  BY DEF Pages!UserRoutes, Pages!CourseRoutes, Pages!EnrollmentRoutes, Pages!AttendanceRoutes,
         Pages!GradeReads, Pages!AssessmentRoutes, Pages!AnalyticsRoutes, Pages!SecurityRoutes,
         Pages!NotificationRoutes, Pages!AuthRoutes, Pages!Admitted, Pages!Teaches, Pages!When,
         Pages!Admins, Pages!Staff

(* A student about a course of his.                                        *)
LEMMA ForMember ==
    {"assessments.byCourse", "assessments.gradesByCourse"}
    \subseteq Pages!Admitted("STUDENT", "member")
  BY DEF Pages!UserRoutes, Pages!CourseRoutes, Pages!EnrollmentRoutes, Pages!AttendanceRoutes,
         Pages!GradeReads, Pages!AssessmentRoutes, Pages!AnalyticsRoutes, Pages!SecurityRoutes,
         Pages!NotificationRoutes, Pages!AuthRoutes, Pages!Admitted, Pages!Teaches, Pages!When,
         Pages!Admins, Pages!Staff

(* The viewer of page pg is answered all the page sends, but for the known *)
(* refusals.                                                               *)
Answered(p, pg, role, rel) ==
    \A call \in pg.loads \cup pg.acts \cup Pages!LayoutCalls(role) :
        call \in Pages!Admitted(role, rel) \/ <<p, call>> \in Pages!KnownRefusals(role)

(* Every page has its name.                                                *)
LEMMA PageNames ==
    ASSUME NEW role
    PROVE  /\ Pages!PageOf("dashboard", role) = Pages!DashboardPage(role)
           /\ Pages!PageOf("courses", role) = Pages!CoursesPage(role)
           /\ Pages!PageOf("course", role) = Pages!CoursePage(role)
           /\ Pages!PageOf("course attendance", role) = Pages!CourseAttendancePage(role)
           /\ Pages!PageOf("course grades", role) = Pages!CourseGradesPage(role)
           /\ Pages!PageOf("attendance", role) = Pages!AttendancePage(role)
           /\ Pages!PageOf("enrollments", role) = Pages!EnrollmentsPage(role)
           /\ Pages!PageOf("users", role) = Pages!UsersPage(role)
           /\ Pages!PageOf("student", role) = Pages!StudentPage(role)
           /\ Pages!PageOf("analytics", role) = Pages!AnalyticsPage(role)
           /\ Pages!PageOf("risk", role) = Pages!RiskPage(role)
           /\ Pages!PageOf("security", role) = Pages!SecurityPage(role)
           /\ Pages!PageOf("audit", role) = Pages!AuditPage(role)
           /\ Pages!PageOf("settings", role) = Pages!SettingsPage(role)
  BY DEF Pages!PageOf

(* A student's dashboard is one part.                                      *)
LEMMA StudentHome ==
    /\ Pages!DashboardPage("STUDENT").loads = Pages!StudentDashboard.loads
    /\ Pages!DashboardPage("STUDENT").acts = Pages!StudentDashboard.acts
<1>1. Pages!DashboardPage("STUDENT") =
          Pages!Page(Pages!Roles, "self", {Pages!StudentDashboard}, {}, "plain", TRUE, FALSE)
  BY DEF Pages!DashboardPage, Pages!Admins
<1>2. Pages!DashboardPage("STUDENT").loads = Pages!StudentDashboard.loads
  BY <1>1 DEF Pages!Page
<1>3. Pages!DashboardPage("STUDENT").acts = Pages!StudentDashboard.acts
  <2>1. Pages!DashboardPage("STUDENT").acts = UNION {part.acts : part \in {Pages!StudentDashboard}}
    BY <1>1 DEF Pages!Page
  <2> QED
    BY <2>1
<1> QED
  BY <1>2, <1>3

(* An administrator's pages.  The course pages are a stranger's to him.    *)
LEMMA AdminCalls ==
    /\ Answered("dashboard", Pages!DashboardPage("ADMIN"), "ADMIN", "owner")
    /\ Answered("courses", Pages!CoursesPage("ADMIN"), "ADMIN", "stranger")
    /\ Answered("attendance", Pages!AttendancePage("ADMIN"), "ADMIN", "owner")
    /\ Answered("enrollments", Pages!EnrollmentsPage("ADMIN"), "ADMIN", "stranger")
    /\ Answered("users", Pages!UsersPage("ADMIN"), "ADMIN", "stranger")
    /\ Answered("student", Pages!StudentPage("ADMIN"), "ADMIN", "stranger")
    /\ Answered("analytics", Pages!AnalyticsPage("ADMIN"), "ADMIN", "owner")
    /\ Answered("risk", Pages!RiskPage("ADMIN"), "ADMIN", "stranger")
    /\ Answered("security", Pages!SecurityPage("ADMIN"), "ADMIN", "stranger")
    /\ Answered("audit", Pages!AuditPage("ADMIN"), "ADMIN", "stranger")
    /\ Answered("settings", Pages!SettingsPage("ADMIN"), "ADMIN", "owner")
<1> USE ForAll, ForAdmin, ForOwner DEF Answered, Pages!KnownRefusals, Pages!LayoutCalls,
        Pages!When, Pages!Page, Pages!Part, Pages!Admins, Pages!Staff
<1>1. Answered("dashboard", Pages!DashboardPage("ADMIN"), "ADMIN", "owner")
  BY DEF Pages!DashboardPage, Pages!AdminDashboard, Pages!TeacherDashboard,
         Pages!StudentDashboard
<1>2. Answered("courses", Pages!CoursesPage("ADMIN"), "ADMIN", "stranger")
  BY DEF Pages!CoursesPage, Pages!CourseList, Pages!NewCourse, Pages!CourseCard, Pages!canManage
<1>3. Answered("attendance", Pages!AttendancePage("ADMIN"), "ADMIN", "owner")
  BY DEF Pages!AttendancePage, Pages!AttendanceRecords, Pages!MarkSheet, Pages!QrDialog
<1>4. Answered("enrollments", Pages!EnrollmentsPage("ADMIN"), "ADMIN", "stranger")
  BY DEF Pages!EnrollmentsPage, Pages!EnrollmentRows
<1>5. Answered("users", Pages!UsersPage("ADMIN"), "ADMIN", "stranger")
  BY DEF Pages!UsersPage, Pages!UserRows
<1>6. Answered("student", Pages!StudentPage("ADMIN"), "ADMIN", "stranger")
  BY DEF Pages!StudentPage, Pages!StudentTabs
<1>7. Answered("analytics", Pages!AnalyticsPage("ADMIN"), "ADMIN", "owner")
  BY DEF Pages!AnalyticsPage, Pages!AdminAnalytics, Pages!AnalyticsControls,
         Pages!TeacherAnalytics
<1>8. Answered("risk", Pages!RiskPage("ADMIN"), "ADMIN", "stranger")
  BY DEF Pages!RiskPage, Pages!RiskRows
<1>9. Answered("security", Pages!SecurityPage("ADMIN"), "ADMIN", "stranger")
  BY DEF Pages!SecurityPage, Pages!SecurityDashboard, Pages!AlertsCard, Pages!SessionsCard
<1>10. Answered("audit", Pages!AuditPage("ADMIN"), "ADMIN", "stranger")
  BY DEF Pages!AuditPage, Pages!AuditRows
<1>11. Answered("settings", Pages!SettingsPage("ADMIN"), "ADMIN", "owner")
  BY DEF Pages!SettingsPage, Pages!ProfileSection, Pages!SecuritySection, Pages!SessionList,
         Pages!TwoFaModal
<1> QED
  BY <1>1, <1>2, <1>3, <1>4, <1>5, <1>6, <1>7, <1>8, <1>9, <1>10, <1>11

(* The same of the highest of them.                                        *)
LEMMA SuperAdminCalls ==
    /\ Answered("dashboard", Pages!DashboardPage("SUPER_ADMIN"), "SUPER_ADMIN", "owner")
    /\ Answered("courses", Pages!CoursesPage("SUPER_ADMIN"), "SUPER_ADMIN", "stranger")
    /\ Answered("attendance", Pages!AttendancePage("SUPER_ADMIN"), "SUPER_ADMIN", "owner")
    /\ Answered("enrollments", Pages!EnrollmentsPage("SUPER_ADMIN"), "SUPER_ADMIN", "stranger")
    /\ Answered("users", Pages!UsersPage("SUPER_ADMIN"), "SUPER_ADMIN", "stranger")
    /\ Answered("student", Pages!StudentPage("SUPER_ADMIN"), "SUPER_ADMIN", "stranger")
    /\ Answered("analytics", Pages!AnalyticsPage("SUPER_ADMIN"), "SUPER_ADMIN", "owner")
    /\ Answered("risk", Pages!RiskPage("SUPER_ADMIN"), "SUPER_ADMIN", "stranger")
    /\ Answered("security", Pages!SecurityPage("SUPER_ADMIN"), "SUPER_ADMIN", "stranger")
    /\ Answered("audit", Pages!AuditPage("SUPER_ADMIN"), "SUPER_ADMIN", "stranger")
    /\ Answered("settings", Pages!SettingsPage("SUPER_ADMIN"), "SUPER_ADMIN", "owner")
<1> USE ForAll, ForAdmin, ForSuper, ForOwner DEF Answered, Pages!KnownRefusals, Pages!LayoutCalls,
        Pages!When, Pages!Page, Pages!Part, Pages!Admins, Pages!Staff
<1>1. Answered("dashboard", Pages!DashboardPage("SUPER_ADMIN"), "SUPER_ADMIN", "owner")
  BY DEF Pages!DashboardPage, Pages!AdminDashboard, Pages!TeacherDashboard,
         Pages!StudentDashboard
<1>2. Answered("courses", Pages!CoursesPage("SUPER_ADMIN"), "SUPER_ADMIN", "stranger")
  BY DEF Pages!CoursesPage, Pages!CourseList, Pages!NewCourse, Pages!CourseCard, Pages!canManage
<1>3. Answered("attendance", Pages!AttendancePage("SUPER_ADMIN"), "SUPER_ADMIN", "owner")
  BY DEF Pages!AttendancePage, Pages!AttendanceRecords, Pages!MarkSheet, Pages!QrDialog
<1>4. Answered("enrollments", Pages!EnrollmentsPage("SUPER_ADMIN"), "SUPER_ADMIN", "stranger")
  BY DEF Pages!EnrollmentsPage, Pages!EnrollmentRows
<1>5. Answered("users", Pages!UsersPage("SUPER_ADMIN"), "SUPER_ADMIN", "stranger")
  BY DEF Pages!UsersPage, Pages!UserRows
<1>6. Answered("student", Pages!StudentPage("SUPER_ADMIN"), "SUPER_ADMIN", "stranger")
  BY DEF Pages!StudentPage, Pages!StudentTabs
<1>7. Answered("analytics", Pages!AnalyticsPage("SUPER_ADMIN"), "SUPER_ADMIN", "owner")
  BY DEF Pages!AnalyticsPage, Pages!AdminAnalytics, Pages!AnalyticsControls,
         Pages!TeacherAnalytics
<1>8. Answered("risk", Pages!RiskPage("SUPER_ADMIN"), "SUPER_ADMIN", "stranger")
  BY DEF Pages!RiskPage, Pages!RiskRows
<1>9. Answered("security", Pages!SecurityPage("SUPER_ADMIN"), "SUPER_ADMIN", "stranger")
  BY DEF Pages!SecurityPage, Pages!SecurityDashboard, Pages!AlertsCard, Pages!SessionsCard
<1>10. Answered("audit", Pages!AuditPage("SUPER_ADMIN"), "SUPER_ADMIN", "stranger")
  BY DEF Pages!AuditPage, Pages!AuditRows
<1>11. Answered("settings", Pages!SettingsPage("SUPER_ADMIN"), "SUPER_ADMIN", "owner")
  BY DEF Pages!SettingsPage, Pages!ProfileSection, Pages!SecuritySection, Pages!SessionList,
         Pages!TwoFaModal
<1> QED
  BY <1>1, <1>2, <1>3, <1>4, <1>5, <1>6, <1>7, <1>8, <1>9, <1>10, <1>11

(* A teacher's pages, those of a course where it is his.                   *)
LEMMA TeacherCalls ==
    /\ Answered("dashboard", Pages!DashboardPage("TEACHER"), "TEACHER", "owner")
    /\ Answered("courses", Pages!CoursesPage("TEACHER"), "TEACHER", "stranger")
    /\ Answered("course", Pages!CoursePage("TEACHER"), "TEACHER", "owner")
    /\ Answered("course attendance", Pages!CourseAttendancePage("TEACHER"), "TEACHER", "owner")
    /\ Answered("course grades", Pages!CourseGradesPage("TEACHER"), "TEACHER", "owner")
    /\ Answered("attendance", Pages!AttendancePage("TEACHER"), "TEACHER", "owner")
    /\ Answered("enrollments", Pages!EnrollmentsPage("TEACHER"), "TEACHER", "stranger")
    /\ Answered("student", Pages!StudentPage("TEACHER"), "TEACHER", "stranger")
    /\ Answered("analytics", Pages!AnalyticsPage("TEACHER"), "TEACHER", "owner")
    /\ Answered("risk", Pages!RiskPage("TEACHER"), "TEACHER", "stranger")
    /\ Answered("settings", Pages!SettingsPage("TEACHER"), "TEACHER", "owner")
<1> USE ForAll, ForTeacher, ForTeacherOf, ForOwner DEF Answered, Pages!KnownRefusals, Pages!LayoutCalls,
        Pages!When, Pages!Page, Pages!Part, Pages!Admins, Pages!Staff
<1>1. Answered("dashboard", Pages!DashboardPage("TEACHER"), "TEACHER", "owner")
  BY DEF Pages!DashboardPage, Pages!AdminDashboard, Pages!TeacherDashboard,
         Pages!StudentDashboard
<1>2. Answered("courses", Pages!CoursesPage("TEACHER"), "TEACHER", "stranger")
  BY DEF Pages!CoursesPage, Pages!CourseList, Pages!NewCourse, Pages!CourseCard, Pages!canManage
<1>3. Answered("course", Pages!CoursePage("TEACHER"), "TEACHER", "owner")
  <2>1. Pages!CoursePage("TEACHER").loads \subseteq {"courses.getById", "enrollments.list", "assessments.byCourse"}
    <3>1. Pages!CoursePage("TEACHER").loads =
             Pages!CourseDetail("TEACHER").loads \cup Pages!CourseHeader("TEACHER").loads
             \cup Pages!StudentsTab("TEACHER").loads \cup Pages!GradesTab("TEACHER").loads
      BY DEF Pages!CoursePage, Pages!Page
    <3> QED
      BY <3>1 DEF Pages!CourseDetail, Pages!CourseHeader, Pages!StudentsTab, Pages!GradesTab,
                 Pages!Part, Pages!When, Pages!Staff, Pages!Admins
  <2>2. Pages!CoursePage("TEACHER").acts \subseteq {"attendance.generateQr", "assessments.create", "assessments.delete"}
    <3>1. Pages!CoursePage("TEACHER").acts =
             Pages!CourseDetail("TEACHER").acts \cup Pages!CourseHeader("TEACHER").acts
             \cup Pages!StudentsTab("TEACHER").acts \cup Pages!GradesTab("TEACHER").acts
      BY DEF Pages!CoursePage, Pages!Page
    <3> QED
      BY <3>1 DEF Pages!CourseDetail, Pages!CourseHeader, Pages!StudentsTab, Pages!GradesTab,
                 Pages!Part, Pages!When, Pages!Staff, Pages!Admins
  <2> QED
    BY <2>1, <2>2
<1>4. Answered("course attendance", Pages!CourseAttendancePage("TEACHER"), "TEACHER", "owner")
  BY DEF Pages!CourseAttendancePage, Pages!CourseSheet, Pages!CourseSheetForms
<1>5. Answered("course grades", Pages!CourseGradesPage("TEACHER"), "TEACHER", "owner")
  BY DEF Pages!CourseGradesPage, Pages!GradeBook, Pages!GradeCells
<1>6. Answered("attendance", Pages!AttendancePage("TEACHER"), "TEACHER", "owner")
  BY DEF Pages!AttendancePage, Pages!AttendanceRecords, Pages!MarkSheet, Pages!QrDialog
<1>7. Answered("enrollments", Pages!EnrollmentsPage("TEACHER"), "TEACHER", "stranger")
  BY DEF Pages!EnrollmentsPage, Pages!EnrollmentRows
<1>8. Answered("student", Pages!StudentPage("TEACHER"), "TEACHER", "stranger")
  BY DEF Pages!StudentPage, Pages!StudentTabs
<1>9. Answered("analytics", Pages!AnalyticsPage("TEACHER"), "TEACHER", "owner")
  BY DEF Pages!AnalyticsPage, Pages!AdminAnalytics, Pages!AnalyticsControls,
         Pages!TeacherAnalytics
<1>10. Answered("risk", Pages!RiskPage("TEACHER"), "TEACHER", "stranger")
  BY DEF Pages!RiskPage, Pages!RiskRows
<1>11. Answered("settings", Pages!SettingsPage("TEACHER"), "TEACHER", "owner")
  BY DEF Pages!SettingsPage, Pages!ProfileSection, Pages!SecuritySection, Pages!SessionList,
         Pages!TwoFaModal
<1> QED
  BY <1>1, <1>2, <1>3, <1>4, <1>5, <1>6, <1>7, <1>8, <1>9, <1>10, <1>11

(* A student's pages, those of a course where he is enrolled.              *)
LEMMA StudentCalls ==
    /\ Answered("dashboard", Pages!DashboardPage("STUDENT"), "STUDENT", "owner")
    /\ Answered("courses", Pages!CoursesPage("STUDENT"), "STUDENT", "stranger")
    /\ Answered("course", Pages!CoursePage("STUDENT"), "STUDENT", "member")
    /\ Answered("course attendance", Pages!CourseAttendancePage("STUDENT"), "STUDENT", "member")
    /\ Answered("course grades", Pages!CourseGradesPage("STUDENT"), "STUDENT", "member")
    /\ Answered("attendance", Pages!AttendancePage("STUDENT"), "STUDENT", "owner")
    /\ Answered("enrollments", Pages!EnrollmentsPage("STUDENT"), "STUDENT", "stranger")
    /\ Answered("student", Pages!StudentPage("STUDENT"), "STUDENT", "owner")
    /\ Answered("settings", Pages!SettingsPage("STUDENT"), "STUDENT", "owner")
<1> USE ForAll, ForStudent, ForMember, ForOwner DEF Answered, Pages!KnownRefusals, Pages!LayoutCalls,
        Pages!When, Pages!Page, Pages!Part, Pages!Admins, Pages!Staff
<1>1. Answered("dashboard", Pages!DashboardPage("STUDENT"), "STUDENT", "owner")
  BY StudentHome DEF Pages!StudentDashboard
<1>2. Answered("courses", Pages!CoursesPage("STUDENT"), "STUDENT", "stranger")
  BY DEF Pages!CoursesPage, Pages!CourseList, Pages!NewCourse, Pages!CourseCard, Pages!canManage
<1>3. Answered("course", Pages!CoursePage("STUDENT"), "STUDENT", "member")
  <2>1. Pages!CoursePage("STUDENT").loads \subseteq {"courses.getById", "enrollments.list", "assessments.byCourse"}
    <3>1. Pages!CoursePage("STUDENT").loads =
             Pages!CourseDetail("STUDENT").loads \cup Pages!CourseHeader("STUDENT").loads
             \cup Pages!StudentsTab("STUDENT").loads \cup Pages!GradesTab("STUDENT").loads
      BY DEF Pages!CoursePage, Pages!Page
    <3> QED
      BY <3>1 DEF Pages!CourseDetail, Pages!CourseHeader, Pages!StudentsTab, Pages!GradesTab,
                 Pages!Part, Pages!When, Pages!Staff, Pages!Admins
  <2>2. Pages!CoursePage("STUDENT").acts \subseteq {}
    <3>1. Pages!CoursePage("STUDENT").acts =
             Pages!CourseDetail("STUDENT").acts \cup Pages!CourseHeader("STUDENT").acts
             \cup Pages!StudentsTab("STUDENT").acts \cup Pages!GradesTab("STUDENT").acts
      BY DEF Pages!CoursePage, Pages!Page
    <3> QED
      BY <3>1 DEF Pages!CourseDetail, Pages!CourseHeader, Pages!StudentsTab, Pages!GradesTab,
                 Pages!Part, Pages!When, Pages!Staff, Pages!Admins
  <2> QED
    BY <2>1, <2>2
<1>4. Answered("course attendance", Pages!CourseAttendancePage("STUDENT"), "STUDENT", "member")
  BY DEF Pages!CourseAttendancePage, Pages!CourseSheet, Pages!CourseSheetForms
<1>5. Answered("course grades", Pages!CourseGradesPage("STUDENT"), "STUDENT", "member")
  BY DEF Pages!CourseGradesPage, Pages!GradeBook, Pages!GradeCells
<1>6. Answered("attendance", Pages!AttendancePage("STUDENT"), "STUDENT", "owner")
  BY DEF Pages!AttendancePage, Pages!AttendanceRecords, Pages!MarkSheet, Pages!QrDialog
<1>7. Answered("enrollments", Pages!EnrollmentsPage("STUDENT"), "STUDENT", "stranger")
  BY DEF Pages!EnrollmentsPage, Pages!EnrollmentRows
<1>8. Answered("student", Pages!StudentPage("STUDENT"), "STUDENT", "owner")
  BY DEF Pages!StudentPage, Pages!StudentTabs
<1>9. Answered("settings", Pages!SettingsPage("STUDENT"), "STUDENT", "owner")
  BY DEF Pages!SettingsPage, Pages!ProfileSection, Pages!SecuritySection, Pages!SessionList,
         Pages!TwoFaModal
<1> QED
  BY <1>1, <1>2, <1>3, <1>4, <1>5, <1>6, <1>7, <1>8, <1>9

(* What a page admits and is about does not depend on its viewer.          *)
ForAdmins == {"users", "security", "audit"}
ForStaff == {"analytics", "risk"}
Theirs == {"dashboard", "attendance", "analytics", "settings"}
Courses == {"course", "course attendance", "course grades"}
LEMMA PageKinds ==
    ASSUME NEW role, NEW p \in Pages!Pages
    PROVE  /\ p \in ForAdmins => Pages!PageOf(p, role).open = Pages!Admins
           /\ p \in ForStaff => Pages!PageOf(p, role).open = Pages!Staff
           /\ p \notin ForAdmins \cup ForStaff => Pages!PageOf(p, role).open = Pages!Roles
           /\ p \in Courses => Pages!PageOf(p, role).about = "course"
           /\ p = "student" => Pages!PageOf(p, role).about = "account"
           /\ p \in Theirs => Pages!PageOf(p, role).about \in {"self", "taught"}
           /\ p \notin Courses \cup Theirs \cup {"student"} => Pages!PageOf(p, role).about = "none"

<1>1. CASE p = "dashboard"
  <2>1. Pages!PageOf(p, role) = Pages!DashboardPage(role)
    BY <1>1, PageNames
  <2>2. Pages!PageOf(p, role).open = Pages!Roles /\ Pages!PageOf(p, role).about = "self"
    BY <2>1 DEF Pages!DashboardPage, Pages!Page
  <2> QED
    BY <1>1, <2>2 DEF ForAdmins, ForStaff, Courses, Theirs
<1>2. CASE p = "courses"
  <2>1. Pages!PageOf(p, role) = Pages!CoursesPage(role)
    BY <1>2, PageNames
  <2>2. Pages!PageOf(p, role).open = Pages!Roles /\ Pages!PageOf(p, role).about = "none"
    BY <2>1 DEF Pages!CoursesPage, Pages!Page
  <2> QED
    BY <1>2, <2>2 DEF ForAdmins, ForStaff, Courses, Theirs
<1>3. CASE p = "course"
  <2>1. Pages!PageOf(p, role) = Pages!CoursePage(role)
    BY <1>3, PageNames
  <2>2. Pages!PageOf(p, role).open = Pages!Roles /\ Pages!PageOf(p, role).about = "course"
    BY <2>1 DEF Pages!CoursePage, Pages!Page
  <2> QED
    BY <1>3, <2>2 DEF ForAdmins, ForStaff, Courses, Theirs
<1>4. CASE p = "course attendance"
  <2>1. Pages!PageOf(p, role) = Pages!CourseAttendancePage(role)
    BY <1>4, PageNames
  <2>2. Pages!PageOf(p, role).open = Pages!Roles /\ Pages!PageOf(p, role).about = "course"
    BY <2>1 DEF Pages!CourseAttendancePage, Pages!Page
  <2> QED
    BY <1>4, <2>2 DEF ForAdmins, ForStaff, Courses, Theirs
<1>5. CASE p = "course grades"
  <2>1. Pages!PageOf(p, role) = Pages!CourseGradesPage(role)
    BY <1>5, PageNames
  <2>2. Pages!PageOf(p, role).open = Pages!Roles /\ Pages!PageOf(p, role).about = "course"
    BY <2>1 DEF Pages!CourseGradesPage, Pages!Page
  <2> QED
    BY <1>5, <2>2 DEF ForAdmins, ForStaff, Courses, Theirs
<1>6. CASE p = "attendance"
  <2>1. Pages!PageOf(p, role) = Pages!AttendancePage(role)
    BY <1>6, PageNames
  <2>2. Pages!PageOf(p, role).open = Pages!Roles /\ Pages!PageOf(p, role).about = "taught"
    BY <2>1 DEF Pages!AttendancePage, Pages!Page
  <2> QED
    BY <1>6, <2>2 DEF ForAdmins, ForStaff, Courses, Theirs
<1>7. CASE p = "enrollments"
  <2>1. Pages!PageOf(p, role) = Pages!EnrollmentsPage(role)
    BY <1>7, PageNames
  <2>2. Pages!PageOf(p, role).open = Pages!Roles /\ Pages!PageOf(p, role).about = "none"
    BY <2>1 DEF Pages!EnrollmentsPage, Pages!Page
  <2> QED
    BY <1>7, <2>2 DEF ForAdmins, ForStaff, Courses, Theirs
<1>8. CASE p = "users"
  <2>1. Pages!PageOf(p, role) = Pages!UsersPage(role)
    BY <1>8, PageNames
  <2>2. Pages!PageOf(p, role).open = Pages!Admins /\ Pages!PageOf(p, role).about = "none"
    BY <2>1 DEF Pages!UsersPage, Pages!Page
  <2> QED
    BY <1>8, <2>2 DEF ForAdmins, ForStaff, Courses, Theirs
<1>9. CASE p = "student"
  <2>1. Pages!PageOf(p, role) = Pages!StudentPage(role)
    BY <1>9, PageNames
  <2>2. Pages!PageOf(p, role).open = Pages!Roles /\ Pages!PageOf(p, role).about = "account"
    BY <2>1 DEF Pages!StudentPage, Pages!Page
  <2> QED
    BY <1>9, <2>2 DEF ForAdmins, ForStaff, Courses, Theirs
<1>10. CASE p = "analytics"
  <2>1. Pages!PageOf(p, role) = Pages!AnalyticsPage(role)
    BY <1>10, PageNames
  <2>2. Pages!PageOf(p, role).open = Pages!Staff /\ Pages!PageOf(p, role).about = "self"
    BY <2>1 DEF Pages!AnalyticsPage, Pages!Page
  <2> QED
    BY <1>10, <2>2 DEF ForAdmins, ForStaff, Courses, Theirs
<1>11. CASE p = "risk"
  <2>1. Pages!PageOf(p, role) = Pages!RiskPage(role)
    BY <1>11, PageNames
  <2>2. Pages!PageOf(p, role).open = Pages!Staff /\ Pages!PageOf(p, role).about = "none"
    BY <2>1 DEF Pages!RiskPage, Pages!Page
  <2> QED
    BY <1>11, <2>2 DEF ForAdmins, ForStaff, Courses, Theirs
<1>12. CASE p = "security"
  <2>1. Pages!PageOf(p, role) = Pages!SecurityPage(role)
    BY <1>12, PageNames
  <2>2. Pages!PageOf(p, role).open = Pages!Admins /\ Pages!PageOf(p, role).about = "none"
    BY <2>1 DEF Pages!SecurityPage, Pages!Page
  <2> QED
    BY <1>12, <2>2 DEF ForAdmins, ForStaff, Courses, Theirs
<1>13. CASE p = "audit"
  <2>1. Pages!PageOf(p, role) = Pages!AuditPage(role)
    BY <1>13, PageNames
  <2>2. Pages!PageOf(p, role).open = Pages!Admins /\ Pages!PageOf(p, role).about = "none"
    BY <2>1 DEF Pages!AuditPage, Pages!Page
  <2> QED
    BY <1>13, <2>2 DEF ForAdmins, ForStaff, Courses, Theirs
<1>14. CASE p = "settings"
  <2>1. Pages!PageOf(p, role) = Pages!SettingsPage(role)
    BY <1>14, PageNames
  <2>2. Pages!PageOf(p, role).open = Pages!Roles /\ Pages!PageOf(p, role).about = "self"
    BY <2>1 DEF Pages!SettingsPage, Pages!Page
  <2> QED
    BY <1>14, <2>2 DEF ForAdmins, ForStaff, Courses, Theirs
<1> QED
  BY <1>1, <1>2, <1>3, <1>4, <1>5, <1>6, <1>7, <1>8, <1>9, <1>10, <1>11, <1>12, <1>13, <1>14 DEF Pages!Pages

(* The pages that admit a viewer.                                          *)
Leads(role) == {p \in Pages!Pages : role \in Pages!PageOf(p, role).open}

Everyones == {"dashboard", "courses", "course", "course attendance", "course grades", "attendance",
              "enrollments", "student", "settings"}
LEMMA Welcome ==
    ASSUME NEW role \in Pages!Roles
    PROVE  /\ Everyones \subseteq Leads(role)
           /\ role \in Pages!Staff => ForStaff \subseteq Leads(role)
           /\ role \in Pages!Admins => ForAdmins \subseteq Leads(role)
<1>1. Everyones \cap (ForAdmins \cup ForStaff) = {} /\ Everyones \cup ForAdmins \cup ForStaff = Pages!Pages
  BY DEF Everyones, ForAdmins, ForStaff, Pages!Pages
<1>2. ForAdmins \cap ForStaff = {}
  BY DEF ForAdmins, ForStaff
<1> QED
  BY <1>1, <1>2, PageKinds DEF Leads

(* A page that admits a viewer links to pages that do.                     *)
LEMMA LinksLead ==
    ASSUME NEW role \in Pages!Roles, NEW p \in Leads(role)
    PROVE  Pages!PageOf(p, role).links \cup Pages!SideBar(role) \cup Pages!UserMenu \cup Pages!BellItems(role)
           \subseteq Leads(role)
<1>1. Pages!SideBar(role) \cup Pages!UserMenu \cup Pages!BellItems(role) \subseteq Leads(role)
  BY Welcome DEF Pages!SideBar, Pages!UserMenu, Pages!BellItems, Pages!When, Everyones, ForStaff, ForAdmins
<1>2. CASE p = "dashboard"
  <2>1. Pages!PageOf(p, role) = Pages!DashboardPage(role)
    BY <1>2, PageNames
  <2>2. Pages!PageOf(p, role).links \subseteq {"course", "course attendance", "course grades"}
    <3> DEFINE home == CASE role \in Pages!Admins -> Pages!AdminDashboard
                         [] role = "TEACHER" -> Pages!TeacherDashboard
                         [] OTHER -> Pages!StudentDashboard
    <3>1. home \in {Pages!AdminDashboard, Pages!TeacherDashboard, Pages!StudentDashboard}
      OBVIOUS
    <3>2. Pages!DashboardPage(role) = Pages!Page(Pages!Roles, "self", {home}, {}, "plain", TRUE, FALSE)
      BY DEF Pages!DashboardPage
    <3> HIDE DEF home
    <3>3. Pages!DashboardPage(role).links = UNION {part.links : part \in {home}}
      BY <3>2 DEF Pages!Page
    <3>4. home.links \subseteq {"course", "course attendance", "course grades"}
      <4>1. Pages!AdminDashboard.links = {}
        BY DEF Pages!AdminDashboard, Pages!Part
      <4>2. Pages!TeacherDashboard.links = {"course"}
        BY DEF Pages!TeacherDashboard, Pages!Part
      <4>3. Pages!StudentDashboard.links = {"course attendance", "course grades"}
        BY DEF Pages!StudentDashboard, Pages!Part
      <4> QED
        BY <3>1, <4>1, <4>2, <4>3
    <3> QED
      BY <2>1, <3>3, <3>4
  <2> QED
    BY <1>1, <2>2, Welcome DEF Everyones
<1>3. CASE p = "courses"
  <2>1. Pages!PageOf(p, role) = Pages!CoursesPage(role)
    BY <1>3, PageNames
  <2>2. Pages!PageOf(p, role).links \subseteq {"course"}
    BY <2>1 DEF Pages!CoursesPage, Pages!CourseList, Pages!NewCourse, Pages!CourseCard,
               Pages!canManage, Pages!Page, Pages!Part, Pages!When
  <2> QED
    BY <1>1, <2>2, Welcome DEF Everyones
<1>4. CASE p = "course"
  <2>1. Pages!PageOf(p, role) = Pages!CoursePage(role)
    BY <1>4, PageNames
  <2>2. Pages!PageOf(p, role).links \subseteq {"courses", "course attendance", "course grades", "student"}
    <3>1. Pages!CoursePage(role).links =
             Pages!CourseDetail(role).links \cup Pages!CourseHeader(role).links
             \cup Pages!StudentsTab(role).links \cup Pages!GradesTab(role).links
      BY DEF Pages!CoursePage, Pages!Page
    <3> QED
      BY <2>1, <3>1 DEF Pages!CourseDetail, Pages!CourseHeader, Pages!StudentsTab, Pages!GradesTab, Pages!Part
  <2> QED
    BY <1>1, <2>2, Welcome DEF Everyones
<1>5. CASE p = "course attendance"
  <2>1. Pages!PageOf(p, role) = Pages!CourseAttendancePage(role)
    BY <1>5, PageNames
  <2>2. Pages!PageOf(p, role).links \subseteq {"course"}
    BY <2>1 DEF Pages!CourseAttendancePage, Pages!CourseSheet, Pages!CourseSheetForms,
               Pages!Page, Pages!Part, Pages!When
  <2> QED
    BY <1>1, <2>2, Welcome DEF Everyones
<1>6. CASE p = "course grades"
  <2>1. Pages!PageOf(p, role) = Pages!CourseGradesPage(role)
    BY <1>6, PageNames
  <2>2. Pages!PageOf(p, role).links \subseteq {"course", "student"}
    BY <2>1 DEF Pages!CourseGradesPage, Pages!GradeBook, Pages!GradeCells, Pages!Page,
               Pages!Part, Pages!When
  <2> QED
    BY <1>1, <2>2, Welcome DEF Everyones
<1>7. CASE p = "attendance"
  <2>1. Pages!PageOf(p, role) = Pages!AttendancePage(role)
    BY <1>7, PageNames
  <2>2. Pages!PageOf(p, role).links \subseteq {}
    BY <2>1 DEF Pages!AttendancePage, Pages!AttendanceRecords, Pages!MarkSheet, Pages!QrDialog,
               Pages!Page, Pages!Part, Pages!When
  <2> QED
    BY <1>1, <2>2, Welcome DEF Everyones
<1>8. CASE p = "enrollments"
  <2>1. Pages!PageOf(p, role) = Pages!EnrollmentsPage(role)
    BY <1>8, PageNames
  <2>2. Pages!PageOf(p, role).links \subseteq {}
    BY <2>1 DEF Pages!EnrollmentsPage, Pages!EnrollmentRows, Pages!Page, Pages!Part, Pages!When
  <2> QED
    BY <1>1, <2>2, Welcome DEF Everyones
<1>9. CASE p = "users"
  <2>1. Pages!PageOf(p, role) = Pages!UsersPage(role)
    BY <1>9, PageNames
  <2>2. Pages!PageOf(p, role).links \subseteq {}
    BY <2>1 DEF Pages!UsersPage, Pages!UserRows, Pages!Page, Pages!Part, Pages!When
  <2> QED
    BY <1>1, <2>2, Welcome DEF Everyones
<1>10. CASE p = "student"
  <2>1. Pages!PageOf(p, role) = Pages!StudentPage(role)
    BY <1>10, PageNames
  <2>2. Pages!PageOf(p, role).links \subseteq {"course"}
    BY <2>1 DEF Pages!StudentPage, Pages!StudentTabs, Pages!Page, Pages!Part, Pages!When
  <2> QED
    BY <1>1, <2>2, Welcome DEF Everyones
<1>11. CASE p = "analytics"
  <2>1. Pages!PageOf(p, role) = Pages!AnalyticsPage(role)
    BY <1>11, PageNames
  <2>2. Pages!PageOf(p, role).links \subseteq {"risk", "student"}
    BY <2>1 DEF Pages!AnalyticsPage, Pages!AdminAnalytics, Pages!AnalyticsControls,
               Pages!TeacherAnalytics, Pages!Page, Pages!Part, Pages!When
  <2>3. role \in Pages!Staff
    BY <1>11, PageKinds DEF Leads, ForAdmins, ForStaff
  <2> QED
    BY <1>1, <2>2, <2>3, Welcome DEF Everyones, ForStaff, ForAdmins
<1>12. CASE p = "risk"
  <2>1. Pages!PageOf(p, role) = Pages!RiskPage(role)
    BY <1>12, PageNames
  <2>2. Pages!PageOf(p, role).links \subseteq {"analytics", "student"}
    BY <2>1 DEF Pages!RiskPage, Pages!RiskRows, Pages!Page, Pages!Part, Pages!When
  <2>3. role \in Pages!Staff
    BY <1>12, PageKinds DEF Leads, ForAdmins, ForStaff
  <2> QED
    BY <1>1, <2>2, <2>3, Welcome DEF Everyones, ForStaff, ForAdmins
<1>13. CASE p = "security"
  <2>1. Pages!PageOf(p, role) = Pages!SecurityPage(role)
    BY <1>13, PageNames
  <2>2. Pages!PageOf(p, role).links \subseteq {"audit"}
    BY <2>1 DEF Pages!SecurityPage, Pages!SecurityDashboard, Pages!AlertsCard,
               Pages!SessionsCard, Pages!Page, Pages!Part, Pages!When
  <2>3. role \in Pages!Admins
    BY <1>13, PageKinds DEF Leads, ForAdmins, ForStaff
  <2> QED
    BY <1>1, <2>2, <2>3, Welcome DEF Everyones, ForStaff, ForAdmins
<1>14. CASE p = "audit"
  <2>1. Pages!PageOf(p, role) = Pages!AuditPage(role)
    BY <1>14, PageNames
  <2>2. Pages!PageOf(p, role).links \subseteq {"security"}
    BY <2>1 DEF Pages!AuditPage, Pages!AuditRows, Pages!Page, Pages!Part, Pages!When
  <2>3. role \in Pages!Admins
    BY <1>14, PageKinds DEF Leads, ForAdmins, ForStaff
  <2> QED
    BY <1>1, <2>2, <2>3, Welcome DEF Everyones, ForStaff, ForAdmins
<1>15. CASE p = "settings"
  <2>1. Pages!PageOf(p, role) = Pages!SettingsPage(role)
    BY <1>15, PageNames
  <2>2. Pages!PageOf(p, role).links \subseteq {}
    BY <2>1 DEF Pages!SettingsPage, Pages!ProfileSection, Pages!SecuritySection,
               Pages!SessionList, Pages!TwoFaModal, Pages!Page, Pages!Part, Pages!When
  <2> QED
    BY <1>1, <2>2, Welcome DEF Everyones
<1> QED
  BY <1>2, <1>3, <1>4, <1>5, <1>6, <1>7, <1>8, <1>9, <1>10, <1>11, <1>12, <1>13, <1>14, <1>15 DEF Leads, Pages!Pages

(* A call of a page that the routes refuse is a known one, or the page is  *)
(* that of a course which is not the viewer's.                             *)
LEMMA RefusalsExcused ==
    ASSUME NEW p \in Leads(viewer.role), viewer.role \in Pages!Roles,
           viewer.rel \in Pages!CourseRelations(viewer.role),
           NEW call \in Pages!PageOf(p, viewer.role).loads \cup Pages!PageOf(p, viewer.role).acts
                        \cup Pages!LayoutCalls(viewer.role),
           call \notin Pages!Admitted(viewer.role, Pages!RelationTo(Pages!PageOf(p, viewer.role).about))
    PROVE  \/ <<p, call>> \in Pages!KnownRefusals(viewer.role)
           \/ Pages!PageOf(p, viewer.role).about = "course" /\ viewer.rel \in {"stranger", "former"}
<1> DEFINE role == viewer.role
           rel == Pages!RelationTo(Pages!PageOf(p, role).about)
<1>1. /\ p \in Theirs => rel = "owner"
      /\ p \in Courses => rel = viewer.rel /\ Pages!PageOf(p, role).about = "course"
      /\ p = "student" => rel = (IF role = "STUDENT" THEN "owner" ELSE "stranger")
      /\ p \notin Theirs \cup Courses \cup {"student"} => rel = "stranger"
  BY PageKinds DEF Pages!RelationTo, Leads
<1>2. SUFFICES Answered(p, Pages!PageOf(p, role), role, rel)
               \/ (p \in Courses /\ viewer.rel \in {"stranger", "former"})
  BY <1>1 DEF Answered
<1> USE DEF Pages!Pages, Theirs, Courses
<1>3. CASE role = "ADMIN"
  <2>1. viewer.rel = "stranger"
    BY <1>3 DEF Pages!CourseRelations
  <2> QED
    BY <1>1, <1>3, <2>1, AdminCalls, PageNames DEF Leads
<1>4. CASE role = "SUPER_ADMIN"
  <2>1. viewer.rel = "stranger"
    BY <1>4 DEF Pages!CourseRelations
  <2> QED
    BY <1>1, <1>4, <2>1, SuperAdminCalls, PageNames DEF Leads
<1>5. CASE role = "TEACHER"
  <2>1. viewer.rel \in {"owner", "stranger"}
    BY <1>5 DEF Pages!CourseRelations
  <2>2. p \notin ForAdmins
    BY <1>5, PageKinds DEF Leads, Pages!Admins
  <2> QED
    BY <1>1, <1>5, <2>1, <2>2, TeacherCalls, PageNames DEF Leads, ForAdmins
<1>6. CASE role = "STUDENT"
  <2>1. viewer.rel \in {"member", "former", "stranger"}
    BY <1>6 DEF Pages!CourseRelations
  <2>2. role \notin Pages!Admins /\ role \notin Pages!Staff
    BY <1>6 DEF Pages!Admins, Pages!Staff
  <2>3. p \in Pages!Pages /\ role \in Pages!PageOf(p, role).open
    BY DEF Leads
  <2>4. p \notin ForAdmins
    BY <2>2, <2>3, PageKinds
  <2>5. p \notin ForStaff
    BY <2>2, <2>3, PageKinds
  <2> QED
    BY <1>1, <1>6, <2>1, <2>4, <2>5, StudentCalls, PageNames DEF Leads, ForAdmins, ForStaff
<1> QED
  BY <1>3, <1>4, <1>5, <1>6 DEF Pages!Roles, Pages!Staff, Pages!Admins

(* The viewer is on a page that admits him.                                *)
AccessInv ==
    /\ viewer.role \in Pages!Roles
    /\ viewer.rel \in Pages!CourseRelations(viewer.role)
    /\ page \in Leads(viewer.role)
    /\ Pages!LinksAndCallsAreAdmitted

(* He starts on the dashboard.                                             *)
LEMMA AccessInit == ASSUME Pages!Init PROVE AccessInv
<1> USE DEF Pages!Init
<1>1. viewer.role \in Pages!Roles /\ viewer.rel \in Pages!CourseRelations(viewer.role)
  OBVIOUS
<1>2. page \in Leads(viewer.role)
  BY <1>1, Welcome DEF Everyones
<1>3. Pages!LinksAndCallsAreAdmitted
  BY <1>1, <1>2, RefusalsExcused DEF Pages!LinksAndCallsAreAdmitted, Pages!Here, Pages!RefusedOf
<1> QED
  BY <1>1, <1>2, <1>3 DEF AccessInv

(* A page that opens admits the viewer; a link never turns him back.       *)
LEMMA AccessStep == ASSUME AccessInv, Pages!Next PROVE AccessInv'
<1> USE DEF AccessInv
<1>1. viewer' = viewer
  BY DEF Pages!Next, Pages!Open, Pages!Jump, Pages!FollowLink, Pages!Choose, Pages!TurnPage, Pages!LoadAgain,
         Pages!Press, Pages!Done, Pages!Reply, Pages!ReplyFails
<1>2. ASSUME NEW p \in Pages!Pages, Pages!ShowIfAdmitted(p), ~late'
      PROVE  AccessInv'
  <2>1. PICK q \in Leads(viewer.role) : Pages!Show(q)
    BY <1>2, Welcome DEF Pages!ShowIfAdmitted, Leads, Everyones
  <2>2. page' = q /\ refused' = Pages!RefusedOf(Pages!PageOf(q, viewer.role),
            Pages!PageOf(q, viewer.role).loads \cup Pages!LayoutCalls(viewer.role))
    BY <2>1 DEF Pages!Show
  <2>3. \A call \in refused' :
            \/ <<q, call>> \in Pages!KnownRefusals(viewer.role)
            \/ Pages!PageOf(q, viewer.role).about = "course" /\ viewer.rel \in {"stranger", "former"}
    BY <2>2, RefusalsExcused DEF Pages!RefusedOf
  <2> QED
    BY <1>1, <1>2, <2>2, <2>3 DEF Pages!LinksAndCallsAreAdmitted, Pages!Here, Leads
<1>3. ASSUME NEW p \in Pages!Pages, Pages!FollowLink(p)
      PROVE  AccessInv'
  <2>1. p \in Leads(viewer.role)
    BY <1>3, LinksLead DEF Pages!FollowLink, Pages!Links, Pages!Here
  <2>2. ~late'
    BY <1>3, <2>1 DEF Pages!FollowLink, Leads, Pages!LinksAndCallsAreAdmitted
  <2> QED
    BY <1>2, <1>3, <2>2 DEF Pages!FollowLink
<1>4. ASSUME NEW call \in Pages!Here.acts, Pages!Press(call)
      PROVE  AccessInv'
  <2>1. page' = page /\ late' = late /\ refused' = refused \cup Pages!RefusedOf(Pages!Here, {call})
    BY <1>4 DEF Pages!Press
  <2>2. \A c \in Pages!RefusedOf(Pages!Here, {call}) :
            \/ <<page, c>> \in Pages!KnownRefusals(viewer.role)
            \/ Pages!Here.about = "course" /\ viewer.rel \in {"stranger", "former"}
    BY RefusalsExcused DEF Pages!RefusedOf, Pages!Here
  <2> QED
    BY <1>1, <2>1, <2>2 DEF Pages!LinksAndCallsAreAdmitted, Pages!Here, Leads
<1>5. CASE UNCHANGED <<page, refused, late>>
  BY <1>1, <1>5 DEF Pages!LinksAndCallsAreAdmitted, Pages!Here, Leads
<1>6. ASSUME NEW p \in Pages!Pages, Pages!Open(p)
      PROVE  AccessInv'
  BY <1>2, <1>6 DEF Pages!Open, Pages!LinksAndCallsAreAdmitted
<1>7. CASE \/ \E f \in Pages!Filters : Pages!Choose(f)
           \/ \E n \in Pages!Numbers : Pages!TurnPage(n)
           \/ Pages!LoadAgain
           \/ Pages!Done
           \/ \E l \in pending : Pages!Reply(l) \/ Pages!ReplyFails(l)
  BY <1>5, <1>7 DEF Pages!Choose, Pages!TurnPage, Pages!LoadAgain, Pages!Done, Pages!Reply, Pages!ReplyFails
<1> QED
  BY <1>3, <1>4, <1>6, <1>7 DEF Pages!Next, Pages!Jump

(* On every page, and whoever looks at it, the calls that its parts send   *)
(* are those its routes admit the viewer to, but for the known refusals,   *)
(* and no link turns him back (lib/api.ts, components/RoleGuard.tsx).      *)
THEOREM PagesFitTheRoutes == Spec => []LinksAndCallsAreAdmitted
<1> DEFINE Inv == scene = "screens" => AccessInv
<1>1. Init => Inv
  BY AccessInit DEF Init
<1>2. Inv /\ [Next]_vars => Inv'
  <2> SUFFICES ASSUME Inv, [Next]_vars, scene' = "screens"
               PROVE  AccessInv'
    OBVIOUS
  <2>1. CASE Next
    BY <2>1, Scenes, AccessStep
  <2>2. CASE UNCHANGED vars
    BY <2>2 DEF vars, screens, AccessInv, Leads, Pages!LinksAndCallsAreAdmitted, Pages!Here
  <2> QED
    BY <2>1, <2>2
<1>3. Inv => LinksAndCallsAreAdmitted
  BY DEF AccessInv, LinksAndCallsAreAdmitted
<1> QED
  BY <1>1, <1>2, <1>3, PTL DEF Spec

-----------------------------------------------------------------------------
(* The profile of a user.  The clock does not bring two hours of a working *)
(* day together,                                                           *)
LEMMA WorkingHoursCount ==
    ASSUME NEW first \in 0..23, NEW hours \in 1..14
    PROVE  LET W == {(first + i) % 24 : i \in 0..hours - 1} IN
           /\ W \subseteq 0..23 /\ first \in W
           /\ IsFiniteSet(W) /\ Cardinality(W) = hours
<1> DEFINE At(i) == (first + i) % 24
           W == {At(i) : i \in 0..hours - 1}
           f == [i \in 0..hours - 1 |-> At(i)]
<1>1. \A i \in 0..hours - 1 : At(i) = IF first + i < 24 THEN first + i ELSE first + i - 24
  OBVIOUS
<1> HIDE DEF At
<1>2. f \in Surjection(0..hours - 1, W)
  BY DEF Surjection
<1>3. \A i, j \in 0..hours - 1 : At(i) = At(j) => i = j
  BY <1>1
<1>4. f \in Injection(0..hours - 1, W)
  <2>1. f \in [0..hours - 1 -> W]
    OBVIOUS
  <2>2. \A i, j \in 0..hours - 1 : f[i] = f[j] => i = j
    BY <1>3
  <2> HIDE DEF f, W
  <2> QED
    BY <2>1, <2>2 DEF Injection, IsInjective
<1>5. IsFiniteSet(0..hours - 1) /\ Cardinality(0..hours - 1) = hours
  BY FS_Interval
<1>6. IsFiniteSet(W) /\ Cardinality(W) = hours
  <2> HIDE DEF W, f
  <2> QED
    BY <1>2, <1>4, <1>5, FS_Surjection
<1>7. W \subseteq 0..23
  BY <1>1
<1>8. first \in W
  <2>1. 0 \in 0..hours - 1 /\ At(0) = first
    BY <1>1
  <2> QED
    BY <2>1
<1> QED
  BY <1>6, <1>7, <1>8 DEF At

(* so that its rows can be counted,                                        *)
LEMMA DayRows ==
    ASSUME NEW W, IsFiniteSet(W), Cardinality(W) \in Nat
    PROVE  IsFiniteSet(W \X (1..10)) /\ Cardinality(W \X (1..10)) = 10 * Cardinality(W)
<1>1. IsFiniteSet(1..10) /\ Cardinality(1..10) = 10
  <2>1. ASSUME NEW n \in Nat
        PROVE  IsFiniteSet(1..n) /\ Cardinality(1..n) = n
    BY FS_Interval
  <2>2. 10 \in Nat
    OBVIOUS
  <2> QED
    BY <2>1, <2>2, Zenon
<1>2. IsFiniteSet(W \X (1..10)) /\ Cardinality(W \X (1..10)) = Cardinality(W) * Cardinality(1..10)
  BY <1>1, FS_Product
<1> QED
  BY <1>1, <1>2

(* as the rows from elsewhere can,                                         *)
LEMMA ElsewhereRows ==
    ASSUME NEW first, NEW more \in Nat
    PROVE  IsFiniteSet({first} \X (11..10 + more)) /\ Cardinality({first} \X (11..10 + more)) = more
<1>1. /\ IsFiniteSet(11..10 + more)
      /\ Cardinality(11..10 + more) = IF 11 > 10 + more THEN 0 ELSE 10 + more - 11 + 1
  <2>1. 11 \in Int /\ 10 + more \in Int
    OBVIOUS
  <2> QED
    BY <2>1, FS_Interval
<1>2. Cardinality(11..10 + more) = more
  BY <1>1
<1>3. IsFiniteSet({first}) /\ Cardinality({first}) = 1
  BY FS_Singleton
<1>4. /\ IsFiniteSet({first} \X (11..10 + more))
      /\ Cardinality({first} \X (11..10 + more)) = Cardinality({first}) * Cardinality(11..10 + more)
  BY <1>1, <1>3, FS_Product
<1> QED
  BY <1>2, <1>3, <1>4

(* and a row of an hour is one of the two.                                 *)
LEMMA RowOfAnHour ==
    ASSUME NEW W, NEW first \in W, NEW h, NEW n, NEW more \in Nat, NEW k \in 1..n,
           n = IF h = first THEN 10 + more ELSE IF h \in W THEN 10 ELSE 0
    PROVE  (k \in 1..10 /\ h \in W) \/ (k \in 11..10 + more /\ h = first)
<1>1. CASE h = first
  BY <1>1
<1>2. CASE h # first /\ h \in W
  <2>1. n = 10
    BY <1>2
  <2>2. k \in 1..10
    BY <2>1, Zenon
  <2> QED
    BY <1>2, <2>2
<1>3. CASE h # first /\ h \notin W
  <2>1. n = 0
    BY <1>3
  <2>2. k \in 1..0
    BY <2>1, Zenon
  <2> QED
    BY <2>2
<1> QED
  BY <1>1, <1>2, <1>3

(* The rows of the hours, and an hour's number of them.                    *)
HourRows(count) == UNION {{h} \X (1..count[h]) : h \in 0..23}
DayCounted(count, W, first, hours, more) ==
    /\ IsFiniteSet(W) /\ W \subseteq 0..23 /\ first \in W
    /\ Cardinality(W) = hours /\ hours \in Nat /\ more \in Nat
    /\ count \in [0..23 -> Nat]
    /\ \A h \in 0..23 : count[h] = IF h = first THEN 10 + more ELSE IF h \in W THEN 10 ELSE 0

(* The rows of the hours, ten of each and those from elsewhere in the      *)
(* first, add up.                                                          *)
LEMMA HoursAddUp ==
    ASSUME NEW count, NEW W, NEW first, NEW hours, NEW more, DayCounted(count, W, first, hours, more)
    PROVE  Cardinality(HourRows(count)) = 10 * hours + more
<1> DEFINE Day == W \X (1..10)
           Elsewhere == {first} \X (11..10 + more)
           Rows(h) == {h} \X (1..count[h])
<1>0. /\ IsFiniteSet(W) /\ W \subseteq 0..23 /\ first \in W
      /\ Cardinality(W) = hours /\ hours \in Nat /\ more \in Nat
  BY DEF DayCounted
<1>1. ASSUME NEW h, NEW r
      PROVE  r \in Rows(h) <=> \E k \in 1..count[h] : r = <<h, k>>
  <2>1. r \in Rows(h) => r = <<h, r[2]>> /\ r[2] \in 1..count[h]
    OBVIOUS
  <2> QED
    BY <2>1
<1>2. ASSUME NEW r
      PROVE  /\ r \in Day <=> \E h \in W, k \in 1..10 : r = <<h, k>>
             /\ r \in Elsewhere <=> \E k \in 11..10 + more : r = <<first, k>>
  <2>1. r \in Day => r = <<r[1], r[2]>> /\ r[1] \in W /\ r[2] \in 1..10
    OBVIOUS
  <2>2. r \in Elsewhere => r = <<first, r[2]>> /\ r[2] \in 11..10 + more
    OBVIOUS
  <2> QED
    BY <2>1, <2>2
<1>3. /\ IsFiniteSet(Day) /\ Cardinality(Day) = 10 * hours
      /\ IsFiniteSet(Elsewhere) /\ Cardinality(Elsewhere) = more
  <2>1. IsFiniteSet(Day) /\ Cardinality(Day) = 10 * Cardinality(W)
    <3>1. Cardinality(W) \in Nat
      BY <1>0, Zenon
    <3> QED
      BY <1>0, <3>1, DayRows, Zenon
  <2>2. IsFiniteSet(Elsewhere) /\ Cardinality(Elsewhere) = more
    BY <1>0, ElsewhereRows, Zenon
  <2> HIDE DEF Day, Elsewhere
  <2> QED
    BY <1>0, <2>1, <2>2, Zenon
<1> HIDE DEF Rows, Day, Elsewhere
<1>4. /\ count \in [0..23 -> Nat]
      /\ \A h \in 0..23 : count[h] = IF h = first THEN 10 + more ELSE IF h \in W THEN 10 ELSE 0
  BY DEF DayCounted
<1>5. UNION {Rows(h) : h \in 0..23} \subseteq Day \cup Elsewhere
  <2> SUFFICES ASSUME NEW h \in 0..23, NEW r \in Rows(h)
               PROVE  r \in Day \cup Elsewhere
    OBVIOUS
  <2>1. PICK k \in 1..count[h] : r = <<h, k>>
    BY <1>1
  <2>2. (k \in 1..10 /\ h \in W) \/ (k \in 11..10 + more /\ h = first)
    <3>1. count[h] = IF h = first THEN 10 + more ELSE IF h \in W THEN 10 ELSE 0
      BY <1>0, <1>4
    <3> QED
      BY <1>0, <3>1, RowOfAnHour
  <2> QED
    BY <1>2, <2>1, <2>2
<1>6. Day \subseteq UNION {Rows(h) : h \in 0..23}
  <2> SUFFICES ASSUME NEW r \in Day
               PROVE  r \in UNION {Rows(g) : g \in 0..23}
    OBVIOUS
  <2>0. PICK h \in W, k \in 1..10 : r = <<h, k>>
    BY <1>2
  <2>1. k \in 1..count[h]
    <3>1. h \in 0..23
      BY <1>0
    <3>2. count[h] = 10 + more \/ count[h] = 10
      BY <1>4, <3>1
    <3> QED
      BY <1>0, <3>2
  <2>2. <<h, k>> \in Rows(h) /\ h \in 0..23
    BY <1>0, <1>1, <2>1
  <2> QED
    BY <2>0, <2>2
<1>7. Elsewhere \subseteq UNION {Rows(h) : h \in 0..23}
  <2> SUFFICES ASSUME NEW r \in Elsewhere
               PROVE  r \in UNION {Rows(g) : g \in 0..23}
    OBVIOUS
  <2>0. PICK k \in 11..10 + more : r = <<first, k>>
    BY <1>2
  <2>1. k \in 1..count[first]
    <3>1. count[first] = 10 + more
      BY <1>0, <1>4
    <3> QED
      BY <1>0, <3>1
  <2>2. <<first, k>> \in Rows(first) /\ first \in 0..23
    BY <1>0, <1>1, <2>1
  <2> QED
    BY <2>0, <2>2
<1>8. Day \cap Elsewhere = {}
  <2> SUFFICES ASSUME NEW r \in Day, r \in Elsewhere
               PROVE  FALSE
    OBVIOUS
  <2>1. PICK h \in W, k \in 1..10 : r = <<h, k>>
    BY <1>2
  <2>2. PICK j \in 11..10 + more : r = <<first, j>>
    BY <1>2
  <2> QED
    BY <1>0, <2>1, <2>2
<1>9. Cardinality(Day \cup Elsewhere) = 10 * hours + more
  <2>1. Cardinality({}) = 0
    BY FS_EmptySet
  <2>2. Cardinality(Day \cup Elsewhere) = Cardinality(Day) + Cardinality(Elsewhere) - Cardinality(Day \cap Elsewhere)
    BY <1>3, FS_Union
  <2>3. Cardinality(Day \cup Elsewhere) = 10 * hours + more - 0
    BY <1>0, <1>3, <1>8, <2>1, <2>2
  <2> QED
    BY <1>0, <2>3
<1> QED
  <2>1. UNION {Rows(h) : h \in 0..23} = Day \cup Elsewhere
    BY <1>5, <1>6, <1>7
  <2> QED
    BY <1>9, <2>1 DEF Rows, HourRows

(* The rows from elsewhere are finite in number, a known address has the   *)
(* requests it was to have, and a profile is that of the working day.      *)
HabitsInv ==
    /\ day \in [first : Starts, hours : Widths]
    /\ requests \in 0..MaxRequests
    /\ logged \in [Address -> [Habits!Fate -> Nat]]
    /\ \A a \in Address, f \in Habits!Fate : logged[a][f] <= requests
    /\ profile \in [hours : [0..23 -> Nat], known : SUBSET (Address \cup {"home"}), samples : Nat]
    /\ profile.samples = Cardinality(HourRows(profile.hours))
    /\ \A a \in Address : a \in profile.known => logged[a]["allowed"] >= 3
    /\ \/ profile.samples = 0
       \/ /\ "home" \in profile.known
          /\ \E more \in Nat :
                 DayCounted(profile.hours, Habits!WorkingHours, day.first, day.hours, more)

(* What it learnt is a number.                                            *)
LEMMA LearntRowsFinite == ASSUME HabitsInv PROVE Cardinality(Habits!LearntRows) \in Nat
<1>1. IsFiniteSet(Address \X (1..requests))
  <2>1. IsFiniteSet(Address)
    BY UpkeepAssumption, Counting DEF UpkeepAssumption, Habits!ScoringAssumption
  <2>2. requests \in Int
    BY DEF HabitsInv
  <2>3. IsFiniteSet(1..requests)
    BY <2>2, FS_Interval
  <2> QED
    BY <2>1, <2>3, FS_Product
<1>2. Habits!LearntRows \subseteq Address \X (1..requests)
  <2> SUFFICES ASSUME NEW a \in Address, NEW r \in {a} \X (1..Habits!Learnt(a))
               PROVE  r \in Address \X (1..requests)
    BY DEF Habits!LearntRows
  <2>1. logged[a]["allowed"] \in Nat /\ logged[a]["allowed"] <= requests /\ requests \in Nat
    BY DEF HabitsInv, Habits!Fate
  <2>2. r = <<a, r[2]>> /\ r[2] \in 1..logged[a]["allowed"]
    BY DEF Habits!Learnt
  <2>3. r[2] \in 1..requests
    BY <2>1, <2>2
  <2> QED
    BY <2>2, <2>3
<1> QED
  BY <1>1, <1>2, FS_Subset, FS_CardinalityType

(* An empty profile has no rows.                                           *)
LEMMA HabitsInit == ASSUME Habits!Init PROVE HabitsInv
<1>1. /\ day \in [first : Starts, hours : Widths] /\ requests = 0
      /\ logged = [a \in Address |-> [f \in Habits!Fate |-> 0]]
      /\ profile = [hours |-> [h \in 0..23 |-> 0], known |-> {}, samples |-> 0]
  BY DEF Habits!Init, Habits!emptyProfile, Habits!Hour
<1>2. MaxRequests \in Nat
  BY UpkeepAssumption DEF UpkeepAssumption, Habits!ScoringAssumption
<1>3. /\ profile \in [hours : [0..23 -> Nat], known : SUBSET (Address \cup {"home"}), samples : Nat]
      /\ profile.samples = 0 /\ profile.known = {} /\ \A h \in 0..23 : profile.hours[h] = 0
  BY <1>1
<1>4. HourRows(profile.hours) = {}
  <2>1. \A h \in 0..23 : 1..profile.hours[h] = {}
    BY <1>3
  <2> QED
    BY <2>1 DEF HourRows
<1>5. Cardinality({}) = 0
  BY FS_EmptySet
<1>6. /\ logged \in [Address -> [Habits!Fate -> Nat]]
      /\ \A a \in Address, f \in Habits!Fate : logged[a][f] <= requests
  BY <1>1
<1> QED
  BY <1>1, <1>2, <1>3, <1>4, <1>5, <1>6 DEF HabitsInv

(* A request only adds to what an address has; a refresh counts.           *)
LEMMA HabitsStep == ASSUME HabitsInv, Habits!Next PROVE HabitsInv'
<1>0. MaxRequests \in Nat /\ Starts \subseteq 0..23 /\ Widths \subseteq 1..14
  BY UpkeepAssumption DEF UpkeepAssumption, Habits!ScoringAssumption
<1>1. ASSUME NEW a \in Address, NEW f \in Habits!Fate, Habits!Request(a, f)
      PROVE  HabitsInv'
  <2>1. /\ requests < MaxRequests /\ requests' = requests + 1
        /\ logged' = [logged EXCEPT ![a][f] = logged[a][f] + 1] /\ day' = day /\ profile' = profile
    BY <1>1 DEF Habits!Request
  <2>2. \A b \in Address, g \in Habits!Fate : logged[b][g] \in Nat /\ logged[b][g] <= requests
    BY DEF HabitsInv
  <2>3. logged' \in [Address -> [Habits!Fate -> Nat]]
    BY <2>1, <2>2 DEF HabitsInv
  <2>4. \A b \in Address, g \in Habits!Fate :
            logged'[b][g] = IF b = a /\ g = f THEN logged[b][g] + 1 ELSE logged[b][g]
    BY <2>1 DEF HabitsInv
  <2>5. \A b \in Address, g \in Habits!Fate : logged'[b][g] <= requests' /\ logged'[b][g] >= logged[b][g]
    BY <2>1, <2>2, <2>4 DEF HabitsInv
  <2>6. \A b \in Address : b \in profile'.known => logged'[b]["allowed"] >= 3
    <3> SUFFICES ASSUME NEW b \in Address, b \in profile.known
                 PROVE  logged'[b]["allowed"] >= 3
      BY <2>1
    <3>1. "allowed" \in Habits!Fate
      BY DEF Habits!Fate
    <3>2. logged[b]["allowed"] >= 3
      BY DEF HabitsInv
    <3> QED
      BY <2>2, <2>3, <2>5, <3>1, <3>2
  <2>7. requests' \in 0..MaxRequests
    BY <1>0, <2>1 DEF HabitsInv
  <2>8. Habits!WorkingHours' = Habits!WorkingHours
    BY <2>1 DEF Habits!WorkingHours
  <2> QED
    BY <2>1, <2>3, <2>5, <2>6, <2>7, <2>8 DEF HabitsInv
<1>2. ASSUME Habits!Refresh
      PROVE  HabitsInv'
  <2> DEFINE more == Cardinality(Habits!LearntRows)
             first == day.first
             hours == day.hours
             W == {(first + i) % 24 : i \in 0..hours - 1}
             count == [h \in 0..23 |-> (IF h \in W THEN 10 ELSE 0) + (IF h = first THEN more ELSE 0)]
             known == {"home"} \cup {a \in Address : logged[a]["allowed"] >= 3}
  <2>1. profile' = [hours |-> count, known |-> known, samples |-> 10 * hours + more]
    BY <1>2, Counting DEF Habits!Refresh, Habits!RowsToProfile, Habits!WorkingHours, Habits!Hour, Habits!PerHour,
       Habits!Home, Habits!Learnt, Habits!MIN_OCCURRENCES
  <2>2. day' = day /\ logged' = logged /\ requests' = requests
    BY <1>2 DEF Habits!Refresh
  <2>3. more \in Nat
    BY LearntRowsFinite
  <2>4. first \in 0..23 /\ hours \in 1..14 /\ hours \in Nat
    <3>1. first \in Starts /\ hours \in Widths
      BY DEF HabitsInv
    <3> HIDE DEF first, hours
    <3>2. first \in 0..23 /\ hours \in 1..14
      BY <1>0, <3>1
    <3> QED
      BY <3>2
  <2>5. known \subseteq Address \cup {"home"}
    OBVIOUS
  <2>6. "home" \notin Address
    BY UpkeepAssumption DEF UpkeepAssumption, Habits!ScoringAssumption, Habits!Home
  <2>7. \A a \in Address : a \in known => logged[a]["allowed"] >= 3
    BY <2>6
  <2> HIDE DEF more, first, hours, known
  <2>8. /\ W \subseteq 0..23 /\ first \in W
        /\ IsFiniteSet(W) /\ Cardinality(W) = hours
    BY <2>4, WorkingHoursCount
  <2> HIDE DEF W
  <2>9. count \in [0..23 -> Nat]
    BY <2>3
  <2>10. \A h \in 0..23 : count[h] = IF h = first THEN 10 + more ELSE IF h \in W THEN 10 ELSE 0
    BY <2>3, <2>8
  <2> HIDE DEF count
  <2>a. DayCounted(count, W, first, hours, more)
    BY <2>3, <2>4, <2>8, <2>9, <2>10 DEF DayCounted
  <2>11. Cardinality(HourRows(count)) = 10 * hours + more
    BY <2>a, HoursAddUp
  <2>12. 10 * hours + more \in Nat
    BY <2>3, <2>4
  <2>13. /\ profile' \in [hours : [0..23 -> Nat], known : SUBSET (Address \cup {"home"}), samples : Nat]
         /\ profile'.hours = count /\ profile'.known = known /\ profile'.samples = 10 * hours + more
    BY <2>1, <2>5, <2>9, <2>12
  <2>14. W = Habits!WorkingHours' /\ first = day'.first /\ hours = day'.hours
    BY <2>2 DEF W, first, hours, Habits!WorkingHours
  <2>15. "home" \in known
    BY DEF known
  <2>16. \E n \in Nat :
             DayCounted(profile'.hours, Habits!WorkingHours', day'.first, day'.hours, n)
    BY <2>3, <2>a, <2>13, <2>14
  <2> QED
    BY <2>2, <2>7, <2>11, <2>13, <2>15, <2>16 DEF HabitsInv
<1> QED
  BY <1>1, <1>2 DEF Habits!Next

(* That is what the types say, and whose addresses are known.              *)
LEMMA HabitsHold == ASSUME HabitsInv PROVE Habits!TypeOK /\ Habits!AddressesEarnTrust
<1>1. Habits!AddressesEarnTrust
  BY DEF HabitsInv, Habits!AddressesEarnTrust, Habits!MIN_OCCURRENCES
<1>2. logged \in [Address -> [Habits!Fate -> 0..MaxRequests]]
  <2>1. \A a \in Address, f \in Habits!Fate : logged[a][f] \in 0..MaxRequests
    BY UpkeepAssumption DEF UpkeepAssumption, Habits!ScoringAssumption, HabitsInv
  <2> QED
    BY <2>1 DEF HabitsInv
<1>3. Habits!TypeOK
  BY <1>2, Counting DEF HabitsInv, HourRows, Habits!TypeOK, Habits!Hour, Habits!Home
<1> QED
  BY <1>1, <1>3

-----------------------------------------------------------------------------
(* The score.  The hours around a working day, from its first one on,      *)
(* twice round the clock, and their sum under the kernel.                  *)
Blur(c, k) ==
    100 * c[k] + 92 * (c[k + 1] + c[k + 23]) + 73 * (c[k + 2] + c[k + 22])
    + 49 * (c[k + 3] + c[k + 21]) + 28 * (c[k + 4] + c[k + 20]) + 14 * (c[k + 5] + c[k + 19])

DayAround(c, w, more) ==
    /\ c \in [0..47 -> Nat]
    /\ \A j \in 0..23 : c[j] = IF j = 0 THEN 10 + more ELSE IF j < w THEN 10 ELSE 0
    /\ \A j \in 0..23 : c[j + 24] = c[j]

(* What was counted j hours after the first, which may lie before it.      *)
Worked(j, w, more) == IF j = 0 THEN 10 + more ELSE IF 0 < j /\ j < w THEN 10 ELSE 0

(* After the day the kernel sees only what lies before it:                 *)
LEMMA BlurAfter ==
    ASSUME NEW c, NEW w \in 1..14, NEW more \in Nat, DayAround(c, w, more), NEW d \in 0..5
    PROVE  Blur(c, w - 1 + d) = 100 * Worked(w - 1 + d, w, more) + 92 * Worked(w - 2 + d, w, more)
                                + 73 * Worked(w - 3 + d, w, more) + 49 * Worked(w - 4 + d, w, more)
                                + 28 * Worked(w - 5 + d, w, more) + 14 * Worked(w - 6 + d, w, more)
<1>1. ASSUME NEW e \in 1..5 PROVE c[w - 1 + d + e] = 0
  <2>1. w - 1 + d + e \in 1..23 /\ ~(w - 1 + d + e < w)
    OBVIOUS
  <2> QED BY <2>1 DEF DayAround
<1>2. ASSUME NEW e \in 1..5 PROVE c[w - 1 + d + 24 - e] = Worked(w - 1 + d - e, w, more)
  <2>1. CASE w - 1 + d < e
    <3>1. w - 1 + d + 24 - e \in 1..23 /\ ~(w - 1 + d + 24 - e < w) /\ w - 1 + d + 24 - e # 0
      BY <2>1
    <3>2. c[w - 1 + d + 24 - e] = 0
      BY <3>1 DEF DayAround
    <3> QED BY <2>1, <3>2 DEF Worked
  <2>2. CASE w - 1 + d >= e
    <3> DEFINE j == w - 1 + d - e
    <3>1. j \in 0..23 /\ w - 1 + d + 24 - e = j + 24
      BY <2>2
    <3>2. c[j + 24] = Worked(j, w, more)
      BY <3>1 DEF DayAround, Worked
    <3> QED BY <3>1, <3>2
  <2> QED BY <2>1, <2>2
<1>3. c[w - 1 + d] = Worked(w - 1 + d, w, more)
  <2>1. w - 1 + d \in 0..23
    OBVIOUS
  <2> QED BY <2>1 DEF DayAround, Worked
<1>4. /\ c[w - 1 + d + 1] = 0 /\ c[w - 1 + d + 2] = 0 /\ c[w - 1 + d + 3] = 0
      /\ c[w - 1 + d + 4] = 0 /\ c[w - 1 + d + 5] = 0
  BY <1>1
<1>5. /\ c[w - 1 + d + 23] = Worked(w - 2 + d, w, more) /\ c[w - 1 + d + 22] = Worked(w - 3 + d, w, more)
      /\ c[w - 1 + d + 21] = Worked(w - 4 + d, w, more) /\ c[w - 1 + d + 20] = Worked(w - 5 + d, w, more)
      /\ c[w - 1 + d + 19] = Worked(w - 6 + d, w, more)
  <2>1. ASSUME NEW e \in 1..5, NEW k, k = w - 1 + d + 24 - e, NEW j, j = w - 1 + d - e
        PROVE  c[k] = Worked(j, w, more)
    BY <1>2, <2>1
  <2> QED BY <2>1
<1> QED
  BY <1>3, <1>4, <1>5 DEF Blur, Worked

(* so its sum falls with every hour.                                       *)
LEMMA LaterIsRarer ==
    ASSUME NEW c, NEW w \in 1..14, NEW more \in Nat, DayAround(c, w, more), NEW d \in 0..4
    PROVE  Blur(c, w - 1 + d) > Blur(c, w - 1 + (d + 1))
<1> DEFINE S(e) == 100 * Worked(w - 1 + e, w, more) + 92 * Worked(w - 2 + e, w, more)
                                + 73 * Worked(w - 3 + e, w, more) + 49 * Worked(w - 4 + e, w, more)
                                + 28 * Worked(w - 5 + e, w, more) + 14 * Worked(w - 6 + e, w, more)
<1>1. Blur(c, w - 1 + d) = S(d) /\ Blur(c, w - 1 + (d + 1)) = S(d + 1)
  BY BlurAfter
<1>2. S(0) > S(1)
  BY DEF Worked
<1>3. S(1) > S(2)
  BY DEF Worked
<1>4. S(2) > S(3)
  BY DEF Worked
<1>5. S(3) > S(4)
  BY DEF Worked
<1>6. S(4) > S(5)
  BY DEF Worked
<1>7. S(d) > S(d + 1)
  <2> HIDE DEF S
  <2>1. d = 0 \/ d = 1 \/ d = 2 \/ d = 3 \/ d = 4
    OBVIOUS
  <2> QED BY <1>2, <1>3, <1>4, <1>5, <1>6, <2>1
<1> QED BY <1>1, <1>7

(* The clock may be read once or twice.                                    *)
LEMMA Wraps ==
    ASSUME NEW a \in Nat, NEW b \in Nat
    PROVE  ((a % 24) + b) % 24 = (a + b) % 24
  OBVIOUS

(* Natural numbers have a least one,                                       *)
LEMMA LeastNatural ==
    ASSUME NEW U, U \subseteq Nat, U # {}
    PROVE  \E n \in U : \A m \in U : n <= m
<1> DEFINE Below == OpToRel(<, Nat)
<1>1. IsWellFoundedOn(Below, Nat)
  BY NatLessThanWellFounded
<1>2. \A m, n \in Nat : <<m, n>> \in Below <=> m < n
  BY DEF OpToRel
<1> HIDE DEF Below
<1>3. PICK n \in U : \A m \in U : ~(<<m, n>> \in Below)
  BY <1>1, WFMin, Zenon
<1>4. \A m \in U : ~(m < n)
  BY <1>2, <1>3
<1> QED
  BY <1>4

(* and so a greatest where they have a bound.                              *)
LEMMA MaxExists ==
    ASSUME NEW T, NEW y0 \in T, T \subseteq Nat, NEW b \in Nat, \A y \in T : y <= b
    PROVE  Habits!Max(T) \in T
<1> DEFINE U == {n \in Nat : \A y \in T : y <= n}
<1>1. PICK n \in U : \A m \in U : n <= m
  BY LeastNatural
<1>2. n \in T
  <2> SUFFICES ASSUME n \notin T PROVE FALSE
    OBVIOUS
  <2>1. \A y \in T : y <= n - 1
    OBVIOUS
  <2>2. n - 1 \in U
    BY <2>1
  <2> QED BY <1>1, <2>2
<1> QED BY <1>2 DEF Habits!Max

(* The rows of the profile around the day.                                 *)
Around(first) == [j \in 0..47 |-> profile.hours[(first + j) % 24]]

LEMMA DaySeen ==
    ASSUME NEW first \in 0..23, NEW w \in 1..14, NEW more \in Nat,
           DayCounted(profile.hours, {(first + i) % 24 : i \in 0..w - 1}, first, w, more)
    PROVE  DayAround(Around(first), w, more)
<1> DEFINE W == {(first + i) % 24 : i \in 0..w - 1}
<1>1. /\ profile.hours \in [0..23 -> Nat]
      /\ \A h \in 0..23 : profile.hours[h] = IF h = first THEN 10 + more ELSE IF h \in W THEN 10 ELSE 0
  BY DEF DayCounted
<1>2. \A j \in 0..47 : (first + j) % 24 \in 0..23
  OBVIOUS
<1>3. \A i, j \in 0..23 : (first + i) % 24 = (first + j) % 24 => i = j
  OBVIOUS
<1>4. ASSUME NEW j \in 0..23
      PROVE  /\ (first + j) % 24 = first <=> j = 0
             /\ (first + j) % 24 \in W <=> j < w
  <2>1. first % 24 = first /\ first + 0 = first
    OBVIOUS
  <2>2. (first + j) % 24 = first <=> j = 0
    <3>1. (first + 0) % 24 = first
      BY <2>1
    <3> QED
      BY <1>3, <3>1
  <2>3. j < w => (first + j) % 24 \in W
    <3>1. j < w => j \in 0..w - 1
      OBVIOUS
    <3> QED
      BY <3>1
  <2>4. ASSUME NEW i \in 0..w - 1, (first + j) % 24 = (first + i) % 24
        PROVE  j < w
    <3>1. i \in 0..23
      OBVIOUS
    <3>2. i = j
      BY <1>3, <2>4, <3>1
    <3> QED
      BY <3>2
  <2> QED
    BY <2>2, <2>3, <2>4
<1>5. \A j \in 0..23 : (first + (j + 24)) % 24 = (first + j) % 24
  OBVIOUS
<1> HIDE DEF W
<1>6. Around(first) \in [0..47 -> Nat]
  BY <1>1, <1>2 DEF Around
<1>7. ASSUME NEW j \in 0..23
      PROVE  /\ Around(first)[j] = IF j = 0 THEN 10 + more ELSE IF j < w THEN 10 ELSE 0
             /\ Around(first)[j + 24] = Around(first)[j]
  <2>1. j \in 0..47 /\ j + 24 \in 0..47 /\ (first + j) % 24 \in 0..23
    BY <1>2
  <2> QED
    BY <1>1, <1>4, <1>5, <2>1 DEF Around
<1> QED
  BY <1>6, <1>7 DEF DayAround

(* The kernel, weight by weight.                                           *)
LEMMA KernelWeights ==
    /\ Habits!Weight(0) = 100 /\ Habits!Weight(1) = 92 /\ Habits!Weight(2) = 73
    /\ Habits!Weight(3) = 49 /\ Habits!Weight(4) = 28 /\ Habits!Weight(5) = 14
    /\ Habits!KernelMass = 612
<1>1. /\ Habits!Weight(0) = 100 /\ Habits!Weight(1) = 92 /\ Habits!Weight(2) = 73
      /\ Habits!Weight(3) = 49 /\ Habits!Weight(4) = 28 /\ Habits!Weight(5) = 14
  BY DEF Habits!Weight, Habits!HalfWidth, Habits!Kernel
<1> QED
  BY <1>1 DEF Habits!KernelMass

(* What the profile is smoothed to is the sum under the kernel.            *)
LEMMA SmoothIsBlur ==
    ASSUME profile.hours \in [0..23 -> Nat], NEW first \in 0..23, NEW k \in 0..23
    PROVE  Habits!Smooth((first + k) % 24) = Blur(Around(first), k)
<1> DEFINE h == (first + k) % 24
           Sides(d) == profile.hours[(h + d) % 24] + profile.hours[(h + 24 - d) % 24]
           c == Around(first)
<1>1. ASSUME NEW d \in 1..5
      PROVE  Sides(d) = c[k + d] + c[k + (24 - d)]
  <2>1. (h + d) % 24 = (first + (k + d)) % 24 /\ (h + 24 - d) % 24 = (first + (k + (24 - d))) % 24
    <3>1. first + k \in Nat /\ d \in Nat /\ 24 - d \in Nat
      OBVIOUS
    <3>2. (h + d) % 24 = ((first + k) + d) % 24 /\ (h + (24 - d)) % 24 = ((first + k) + (24 - d)) % 24
      BY <3>1, Wraps
    <3>3. h \in Nat
      BY <3>1
    <3> HIDE DEF h
    <3>4. h + (24 - d) = h + 24 - d
      BY <3>3
    <3>5. (first + k) + d = first + (k + d) /\ (first + k) + (24 - d) = first + (k + (24 - d))
      OBVIOUS
    <3> QED
      BY <3>2, <3>4, <3>5
  <2>2. k + d \in 0..47 /\ k + (24 - d) \in 0..47
    OBVIOUS
  <2> HIDE DEF h
  <2> QED
    BY <2>1, <2>2 DEF Around
<1>2. profile.hours[h] = c[k]
  <2>1. k \in 0..47
    OBVIOUS
  <2> QED
    BY <2>1 DEF Around
<1>3. Habits!Smooth(h) = 100 * profile.hours[h] + 92 * Sides(1) + 73 * Sides(2) + 49 * Sides(3)
                         + 28 * Sides(4) + 14 * Sides(5)
  BY KernelWeights DEF Habits!Smooth
<1> HIDE DEF h, Sides, c
<1>4. /\ Sides(1) = c[k + 1] + c[k + 23] /\ Sides(2) = c[k + 2] + c[k + 22]
      /\ Sides(3) = c[k + 3] + c[k + 21] /\ Sides(4) = c[k + 4] + c[k + 20]
      /\ Sides(5) = c[k + 5] + c[k + 19]
  BY <1>1
<1>5. Habits!Smooth(h) = Blur(c, k)
  BY <1>2, <1>3, <1>4 DEF Blur
<1> QED
  BY <1>5 DEF c, h

(* Where the hours have a bound, their sums have one, and the greatest sum *)
(* is a natural number.                                                    *)
LEMMA SumsAreNumbers ==
    ASSUME profile.hours \in [0..23 -> Nat],
           NEW top \in Nat, \A h \in 0..23 : profile.hours[h] <= top
    PROVE  /\ \A h \in 0..23 : Habits!Smooth(h) \in Nat
           /\ Habits!Peak \in Nat /\ Habits!Peak > 0
<1>1. ASSUME NEW h \in 0..23
      PROVE  Habits!Smooth(h) \in Nat /\ Habits!Smooth(h) <= 612 * top
  <2>1. \A d \in 1..5 : (h + d) % 24 \in 0..23 /\ (h + 24 - d) % 24 \in 0..23
    OBVIOUS
  <2>2. \A d \in 1..5 :
            /\ profile.hours[(h + d) % 24] \in 0..top
            /\ profile.hours[(h + 24 - d) % 24] \in 0..top
    BY <2>1
  <2> DEFINE Sides(d) == profile.hours[(h + d) % 24] + profile.hours[(h + 24 - d) % 24]
  <2>3. /\ Sides(1) \in 0..2 * top /\ Sides(2) \in 0..2 * top /\ Sides(3) \in 0..2 * top
        /\ Sides(4) \in 0..2 * top /\ Sides(5) \in 0..2 * top
        /\ profile.hours[h] \in 0..top
    BY <2>2
  <2>4. Habits!Smooth(h) = 100 * profile.hours[h] + 92 * Sides(1) + 73 * Sides(2) + 49 * Sides(3)
                           + 28 * Sides(4) + 14 * Sides(5)
    BY KernelWeights DEF Habits!Smooth
  <2> HIDE DEF Sides
  <2> QED
    BY <2>3, <2>4
<1> DEFINE T == {Habits!Smooth(k) : k \in 0..23}
           b == 612 * top
<1>2. T \subseteq Nat /\ b \in Nat /\ \A y \in T : y <= b
  BY <1>1
<1>3. Habits!Smooth(0) \in T
  OBVIOUS
<1> HIDE DEF b, T
<1>4. Habits!Max(T) \in Nat
  BY <1>2, <1>3, MaxExists
<1> QED
  BY <1>1, <1>4, KernelWeights DEF T, Habits!Peak, Habits!Hour

(* The noisy OR of an hour, alone and with a new address.                  *)
LEMMA NoisyOr ==
    ASSUME NEW s \in Int, NEW p \in Int
    PROVE  /\ Habits!Combine(s, p, {}) = 36000 * s
           /\ Habits!Combine(s, p, {"ip"}) = 36000 * p + 19800 * s
  BY DEF Habits!Combine, Habits!Unit, Habits!WEIGHTS

(* The hours of a profile that counts have such a bound,                   *)
LEMMA Numbers ==
    ASSUME HabitsInv, profile.samples >= 50
    PROVE  /\ \A h \in 0..23 : Habits!Smooth(h) \in Nat
           /\ Habits!Peak \in Nat /\ Habits!Peak > 0
<1>1. profile.hours \in [0..23 -> Nat] /\ profile.samples # 0
  BY DEF HabitsInv
<1>2. PICK more \in Nat : DayCounted(profile.hours, Habits!WorkingHours, day.first, day.hours, more)
  BY <1>1 DEF HabitsInv
<1>3. 10 + more \in Nat /\ \A h \in 0..23 : profile.hours[h] <= 10 + more
  BY <1>2 DEF DayCounted
<1> QED
  BY <1>1, <1>3, SumsAreNumbers

(* and a score against it is that of the hour, with a new address or not.  *)
LEMMA Scored ==
    ASSUME HabitsInv, profile.samples >= 50, NEW h \in 0..23, NEW a
    PROVE  Habits!ScoreEvent(h, a, {}) =
               IF a \in profile.known THEN 36000 * Habits!Surprise(h)
               ELSE 36000 * Habits!Peak + 19800 * Habits!Surprise(h)
<1>1. Habits!Surprise(h) \in Int /\ Habits!Peak \in Int
  BY Numbers, KernelWeights DEF Habits!Surprise
<1>2. {} \cup {} = {} /\ {} \cup {"ip"} = {"ip"}
  OBVIOUS
<1>3. ~(profile.samples < 50)
  BY DEF HabitsInv
<1> QED
  BY <1>1, <1>2, <1>3, NoisyOr DEF Habits!ScoreEvent, Habits!MIN_SAMPLES

(* Later is stranger, and so is a new address.                             *)
LEMMA Farther == ASSUME HabitsInv PROVE Habits!FartherIsStranger
<1> DEFINE After(d) == (day.first + day.hours - 1 + d) % 24
<1> SUFFICES ASSUME profile.samples >= 50
             PROVE  /\ \A d \in 0..4 : Habits!ScoreEvent(After(d), "home", {})
                                       < Habits!ScoreEvent(After(d + 1), "home", {})
                    /\ \A a \in Address \ profile.known, h \in 0..23 :
                           Habits!ScoreEvent(h, "home", {}) < Habits!ScoreEvent(h, a, {})
  BY DEF Habits!FartherIsStranger, Habits!MIN_SAMPLES, Habits!Home, Habits!Hour
<1>1. day.first \in 0..23 /\ day.hours \in 1..14
  <2>1. day.first \in Starts /\ day.hours \in Widths
    BY DEF HabitsInv
  <2> QED
    BY <2>1, UpkeepAssumption DEF UpkeepAssumption, Habits!ScoringAssumption
<1>2. profile.hours \in [0..23 -> Nat] /\ profile.samples # 0
  BY DEF HabitsInv
<1>3. "home" \in profile.known
  BY <1>2 DEF HabitsInv
<1>4. PICK more \in Nat : DayCounted(profile.hours, Habits!WorkingHours, day.first, day.hours, more)
  BY <1>2 DEF HabitsInv
<1>5. DayAround(Around(day.first), day.hours, more)
  BY <1>1, <1>4, DaySeen DEF Habits!WorkingHours
<1>6. ASSUME NEW d \in 0..5
      PROVE  /\ After(d) \in 0..23
             /\ Habits!Smooth(After(d)) = Blur(Around(day.first), day.hours - 1 + d)
  <2>1. ASSUME NEW first \in 0..23, NEW w \in 1..14
        PROVE  /\ w - 1 + d \in 0..23 /\ first + w - 1 + d = first + (w - 1 + d)
               /\ (first + w - 1 + d) % 24 \in 0..23
    OBVIOUS
  <2> QED
    BY <1>1, <1>2, <2>1, SmoothIsBlur
<1>7. ASSUME NEW d \in 0..4
      PROVE  Habits!ScoreEvent(After(d), "home", {}) < Habits!ScoreEvent(After(d + 1), "home", {})
  <2>1. d \in 0..5 /\ d + 1 \in 0..5
    OBVIOUS
  <2>2. Blur(Around(day.first), day.hours - 1 + d) > Blur(Around(day.first), day.hours - 1 + (d + 1))
    BY <1>1, <1>5, LaterIsRarer
  <2> HIDE DEF After
  <2>3. Habits!Smooth(After(d)) > Habits!Smooth(After(d + 1))
    BY <1>6, <2>1, <2>2
  <2>4. /\ Habits!Smooth(After(d)) \in Nat /\ Habits!Smooth(After(d + 1)) \in Nat /\ Habits!Peak \in Nat
    BY <1>6, <2>1, Numbers
  <2>5. Habits!Surprise(After(d)) < Habits!Surprise(After(d + 1))
        /\ Habits!Surprise(After(d)) \in Int /\ Habits!Surprise(After(d + 1)) \in Int
    BY <2>3, <2>4, KernelWeights DEF Habits!Surprise
  <2> QED
    BY <1>3, <1>6, <2>1, <2>5, Scored
<1>8. ASSUME NEW a \in Address \ profile.known, NEW h \in 0..23
      PROVE  Habits!ScoreEvent(h, "home", {}) < Habits!ScoreEvent(h, a, {})
  <2>1. Habits!Smooth(h) \in Nat /\ Habits!Peak \in Nat /\ Habits!Peak > 0
    BY Numbers
  <2>2. Habits!Surprise(h) \in Int /\ Habits!Surprise(h) < Habits!Peak
    BY <2>1, KernelWeights DEF Habits!Surprise
  <2> QED
    BY <1>3, <2>1, <2>2, Scored
<1> QED
  BY <1>7, <1>8

(* No weight alone reaches six tenths.                                     *)
LEMMA OneSignal == Habits!OneSignalIsNotEnough
  BY DEF Habits!OneSignalIsNotEnough, Habits!Signals, Habits!Combine, Habits!Unit, Habits!WEIGHTS

(* That is all the property says.                                          *)
LEMMA Strangers == ASSUME HabitsInv PROVE Habits!StrangersStandOut
<1>1. Habits!NobodyBlamedEarly
  BY DEF Habits!NobodyBlamedEarly, Habits!ScoreEvent
<1> QED
  BY <1>1, Farther, OneSignal, HabitsHold DEF Habits!StrangersStandOut

-----------------------------------------------------------------------------
(* The bell.  A list on its way and the ids of a mark are of his rows.     *)
BellList == [Id -> Badge!State]
FetchState == {Badge!idle, [at |-> "asked"]} \cup [at : {"answered"}, rows : BellList]
MarkState == {Badge!quiet, [at |-> "refused"], [at |-> "done"]} \cup [at : {"asked"}, ids : SUBSET Id]
BellTyped ==
    /\ server \in BellList /\ badge \in BellList
    /\ load \in [Fetch -> FetchState] /\ tick \in MarkState
    /\ pushed \subseteq Id /\ marks \in 0..MaxMarks /\ faults \in 0..MaxFaults

(* Loads, marks and events keep to the user's own rows.                    *)
LEMMA BellStep == ASSUME BellTyped, Badge!Next PROVE BellTyped'
<1>0. MaxMarks \in Nat /\ MaxFaults \in Nat
  BY UpkeepAssumption DEF UpkeepAssumption, Badge!BellAssumption
<1>1. /\ Badge!idle \in FetchState /\ [at |-> "asked"] \in FetchState
      /\ \A list \in BellList : [at |-> "answered", rows |-> list] \in FetchState
  BY DEF FetchState
<1>2. /\ Badge!quiet \in MarkState
      /\ \A ids \in SUBSET Id : [at |-> "asked", ids |-> ids] \in MarkState
      /\ \A refused0 \in BOOLEAN : [at |-> IF refused0 THEN "refused" ELSE "done"] \in MarkState
  BY DEF MarkState
<1>3. /\ \A s \in FetchState : s.at = "answered" => s.rows \in BellList
      /\ \A s \in MarkState : s.at = "asked" => s.ids \subseteq Id
  BY DEF FetchState, MarkState, Badge!idle, Badge!quiet
<1>4. /\ Badge!nothing \in BellList
      /\ \A list \in BellList, ids \in SUBSET Id : Badge!AsRead(list, ids) \in BellList
  BY DEF BellList, Badge!nothing, Badge!AsRead, Badge!State
<1>5. ASSUME NEW i \in Id, Badge!Notify(i)
      PROVE  BellTyped'
  BY <1>5 DEF BellTyped, BellList, Badge!Notify, Badge!State
<1>6. ASSUME Badge!LoadNow
      PROVE  load' \in [Fetch -> FetchState] \/ ~BellTyped
  BY <1>1, <1>6 DEF BellTyped, Badge!LoadNow, Badge!Ask
<1> HIDE DEF BellList, FetchState, MarkState, Badge!State
<1> USE DEF BellTyped
<1>7. ASSUME NEW l \in Fetch, Badge!Poll(l) \/ Badge!ServeList(l) \/ Badge!ListArrives(l) \/ Badge!ListFails(l)
      PROVE  BellTyped'
  <2>1. CASE Badge!Poll(l)
    BY <1>1, <2>1 DEF Badge!Poll, Badge!Ask
  <2>2. CASE Badge!ServeList(l)
    BY <1>1, <2>2 DEF Badge!ServeList
  <2>3. CASE Badge!ListArrives(l)
    <3>1. load[l].rows \in BellList
      BY <1>3, <2>3 DEF Badge!ListArrives
    <3> QED
      BY <1>1, <2>3, <3>1 DEF Badge!ListArrives
  <2>4. CASE Badge!ListFails(l)
    <3>1. faults' \in 0..MaxFaults
      BY <1>0, <2>4 DEF Badge!ListFails
    <3> QED
      BY <1>1, <1>4, <2>4, <3>1 DEF Badge!ListFails
  <2> QED
    BY <1>7, <2>1, <2>2, <2>3, <2>4
<1>8. ASSUME NEW i \in Id, Badge!EventArrives(i) \/ Badge!EventLost(i)
      PROVE  BellTyped'
  <2>1. CASE Badge!EventArrives(i)
    BY <1>6, <2>1 DEF Badge!EventArrives
  <2>2. CASE Badge!EventLost(i)
    <3>1. faults' \in 0..MaxFaults
      BY <1>0, <2>2 DEF Badge!EventLost
    <3> QED
      BY <2>2, <3>1 DEF Badge!EventLost
  <2> QED
    BY <1>8, <2>1, <2>2
<1>9. ASSUME NEW ids \in SUBSET Id, Badge!Click(ids)
      PROVE  BellTyped'
  <2>1. marks' \in 0..MaxMarks
    BY <1>0, <1>9 DEF Badge!Click
  <2> QED
    BY <1>2, <1>4, <1>9, <2>1 DEF Badge!Click
<1>10. CASE Badge!ServeMark
  <2>1. tick.at = "asked" /\ server' = Badge!AsRead(server, tick.ids) /\ UNCHANGED <<badge, load, pushed, marks, faults>>
    BY <1>10 DEF Badge!ServeMark
  <2>2. tick' \in MarkState
    BY <1>2, <1>10 DEF Badge!ServeMark
  <2>3. server' \in BellList
    BY <1>3, <1>4, <2>1
  <2> QED
    BY <2>1, <2>2, <2>3
<1>11. CASE Badge!MarkAnswered
  BY <1>2, <1>11 DEF Badge!MarkAnswered
<1>12. CASE Badge!MarkRefused
  BY <1>2, <1>6, <1>12 DEF Badge!MarkRefused
<1>13. CASE Badge!MarkFails
  <2>1. faults' \in 0..MaxFaults
    BY <1>0, <1>13 DEF Badge!MarkFails
  <2> QED
    BY <1>2, <1>6, <1>13, <2>1 DEF Badge!MarkFails
<1>14. ASSUME NEW i \in Id, Badge!OpenItem(i)
       PROVE  BellTyped'
  BY <1>9, <1>14 DEF Badge!OpenItem
<1>15. CASE Badge!MarkAllRead
  BY <1>9, <1>15 DEF Badge!MarkAllRead
<1> QED
  BY <1>5, <1>7, <1>8, <1>10, <1>11, <1>12, <1>13, <1>14, <1>15 DEF Badge!Next, Badge!Replies

(* The bell starts empty.                                                  *)
LEMMA BellInit == ASSUME Badge!Init PROVE BellTyped
  BY UpkeepAssumption DEF UpkeepAssumption, Badge!BellAssumption, Badge!Init, BellTyped, BellList, FetchState,
     MarkState, Badge!nothing, Badge!idle, Badge!quiet, Badge!State

(* That is its type.                                                       *)
LEMMA BellHolds == ASSUME BellTyped PROVE Badge!TypeOK
  BY DEF BellTyped, BellList, FetchState, MarkState, Badge!TypeOK

-----------------------------------------------------------------------------
(* The steps of the jobs keep the types of lock, work and cache.           *)
LEMMA JobsTyped == ASSUME Work!TypeOK, Work!Next PROVE Work!TypeOK'
<1>0. MaxCrashes \in Nat /\ MaxFaults \in Nat
  BY UpkeepAssumption DEF UpkeepAssumption, Work!JobsAssumption
<1> USE DEF Work!TypeOK, Work!Working, Work!caches, Work!bounds, Work!Go, Work!Older, Work!Bumped
<1>1. ASSUME NEW i \in Instance, Work!Tick(i)
      PROVE  Work!TypeOK'
  BY <1>1 DEF Work!Tick
<1>2. ASSUME NEW i \in Instance, Work!SetDeadline(i)
      PROVE  Work!TypeOK'
  BY <1>2 DEF Work!SetDeadline
<1>3. ASSUME NEW i \in Instance, Work!RefreshAll(i)
      PROVE  Work!TypeOK'
  BY <1>3 DEF Work!RefreshAll
<1>4. ASSUME NEW i \in Instance, Work!ClearProfileCache(i)
      PROVE  Work!TypeOK'
  BY <1>4 DEF Work!ClearProfileCache
<1>5. ASSUME NEW i \in Instance, Work!ReleaseLock(i)
      PROVE  Work!TypeOK'
  <2>1. ttl' \in BOOLEAN
    BY <1>5, Zenon DEF Work!ReleaseLock
  <2> QED
    BY <1>5, <2>1 DEF Work!ReleaseLock
<1>6. ASSUME NEW i \in Instance, Work!RefreshFails(i)
      PROVE  Work!TypeOK'
  BY <1>0, <1>6 DEF Work!RefreshFails
<1>7. ASSUME NEW i \in Instance, Work!Crash(i)
      PROVE  Work!TypeOK'
  BY <1>0, <1>7 DEF Work!Crash
<1>8. ASSUME NEW i \in Instance, Work!Restart(i)
      PROVE  Work!TypeOK'
  BY <1>8 DEF Work!Restart
<1>9. ASSUME NEW i \in Instance, Work!RefreshNow(i)
      PROVE  Work!TypeOK'
  BY <1>9 DEF Work!RefreshNow
<1>10. ASSUME NEW i \in Instance, Work!LoadProfile(i) \/ Work!CacheProfile(i) \/ Work!ProfileTtlEnds(i)
       PROVE  Work!TypeOK'
  BY <1>10 DEF Work!LoadProfile, Work!CacheProfile, Work!ProfileTtlEnds
<1>11. ASSUME NEW i \in Instance, Work!ClearNow(i)
       PROVE  Work!TypeOK'
  BY <1>11 DEF Work!ClearNow
<1>12. CASE Work!LockExpires
  <2>1. ttl' \in BOOLEAN
    BY <1>12, Zenon DEF Work!LockExpires
  <2> QED
    BY <1>12, <2>1 DEF Work!LockExpires
<1>13. ASSUME NEW i \in Instance, Work!IncrFails(i)
       PROVE  Work!TypeOK'
  <2>1. orphaned' \in BOOLEAN
    BY <1>13, Zenon DEF Work!IncrFails
  <2> QED
    BY <1>0, <1>13, <2>1 DEF Work!IncrFails
<1>14. ASSUME NEW i \in Instance, Work!DeadlineFails(i)
       PROVE  Work!TypeOK'
  <2>1. orphaned' \in BOOLEAN
    BY <1>14, Zenon DEF Work!DeadlineFails
  <2>2. ttl' \in BOOLEAN
    <3>1. (lock > 0) \in BOOLEAN
      OBVIOUS
    <3>2. ttl' \in {ttl, lock > 0} /\ ttl \in BOOLEAN
      BY <1>14, Zenon DEF Work!DeadlineFails
    <3> QED
      BY <3>1, <3>2, Zenon
  <2>3. /\ faults < MaxFaults /\ faults' = faults + 1
        /\ job' = [job EXCEPT ![i] = "idle"] /\ overran' = overran \ {i}
        /\ UNCHANGED <<lock, Work!caches, crashes, excused>>
    BY <1>14, Zenon DEF Work!DeadlineFails, Work!Go
  <2> QED
    BY <1>0, <2>1, <2>2, <2>3
<1>15. ASSUME NEW i \in Instance, Work!ReleaseFails(i)
       PROVE  Work!TypeOK'
  BY <1>0, <1>15 DEF Work!ReleaseFails
<1> QED
  BY <1>1, <1>2, <1>3, <1>4, <1>5, <1>6, <1>7, <1>8, <1>9, <1>10, <1>11, <1>12, <1>13, <1>14, <1>15
     DEF Work!Next, Work!JobStep

(* Nobody works and nothing is cached at first.                            *)
LEMMA JobsTypedInit == ASSUME Work!Init PROVE Work!TypeOK
<1>1. ttl \in BOOLEAN /\ orphaned \in BOOLEAN
  BY Zenon DEF Work!Init
<1> QED
  BY <1>1, UpkeepAssumption DEF UpkeepAssumption, Work!JobsAssumption, Work!Init, Work!TypeOK, Work!Working

(* The cached rules keep to theirs.                                        *)
LEMMA RulesTyped == ASSUME Resolver!TypeOK, Resolver!Next PROVE Resolver!TypeOK'
<1>1. MaxCrashes \in Nat /\ MaxFaults \in Nat
  BY UpkeepAssumption DEF UpkeepAssumption, Resolver!RulesAssumption
<1> USE DEF Resolver!TypeOK
<1>2. ASSUME NEW i \in Instance,
             Resolver!LoadRules(i) \/ Resolver!RulesTtlEnds(i) \/ Resolver!Restart(i)
      PROVE  Resolver!TypeOK'
  BY <1>2 DEF Resolver!LoadRules, Resolver!RulesTtlEnds, Resolver!Restart
<1>3. ASSUME NEW i \in Instance, Resolver!LoadRulesFails(i)
      PROVE  Resolver!TypeOK'
  BY <1>1, <1>3 DEF Resolver!LoadRulesFails
<1>4. ASSUME NEW i \in Instance, Resolver!Crash(i)
      PROVE  Resolver!TypeOK'
  BY <1>1, <1>4 DEF Resolver!Crash
<1> QED
  BY <1>2, <1>3, <1>4 DEF Resolver!Next

-----------------------------------------------------------------------------
(* The requests of the HTTP layer and the life of its process.             *)
HttpTyped ==
    /\ phase \in {"up", "closing", "gone"}
    /\ counted \in Nat /\ reports \in Nat
    /\ turns \in 0..MaxTurns /\ faults \in 0..MaxFaults

(* Failures and turns keep to their bounds.                                *)
LEMMA HttpTypedStep == ASSUME HttpTyped, Http!Next PROVE HttpTyped'
<1>0. MaxTurns \in Nat /\ MaxFaults \in Nat
  BY UpkeepAssumption DEF UpkeepAssumption, Http!LifecycleAssumption
<1> USE DEF HttpTyped, Http!history
<1>1. ASSUME NEW r \in Call, NEW kind \in Http!Kinds, Http!Arrive(r, kind)
      PROVE  HttpTyped'
  BY <1>0, <1>1 DEF Http!Arrive
<1>2. ASSUME NEW r \in Call, Http!Limit(r)
      PROVE  HttpTyped'
  BY <1>2 DEF Http!Limit
<1>3. ASSUME NEW r \in Call, Http!Refuse(r) \/ Http!Handle(r) \/ Http!Record(r)
      PROVE  HttpTyped'
  BY <1>3 DEF Http!Refuse, Http!Handle, Http!Record
<1>4. ASSUME NEW r \in Call, Http!HandlerFails(r) \/ Http!ClientError(r) \/ Http!RecordFails(r)
      PROVE  HttpTyped'
  <2>1. /\ faults < MaxFaults /\ faults' = faults + 1 /\ reports' \in {reports, reports + 1}
        /\ phase' = phase /\ counted' = counted /\ turns' = turns
    BY <1>4 DEF Http!HandlerFails, Http!ClientError, Http!RecordFails
  <2> QED
    BY <1>0, <2>1
<1>5. CASE Http!TurnAway \/ Http!MinuteEnds \/ Http!Unhandled \/ Http!Shutdown \/ Http!Boot
  BY <1>0, <1>5 DEF Http!TurnAway, Http!MinuteEnds, Http!Unhandled, Http!Shutdown, Http!Boot
<1>6. CASE Http!Exit \/ Http!Crash
  BY <1>0, <1>6 DEF Http!Exit, Http!Crash, Http!Gone
<1> QED
  BY <1>1, <1>2, <1>3, <1>4, <1>5, <1>6 DEF Http!Next

(* With the account of the answers that is the type.                       *)
LEMMA HttpTypedHolds == ASSUME HttpTyped, RecordInv PROVE Http!TypeOK
<1>1. \A r \in Call : req[r].at \in {"idle", "limit", "route", "record"}
  BY DEF RecordInv, HttpRequest, Http!idle
<1> QED
  BY <1>1 DEF HttpTyped, RecordInv, Http!TypeOK

-----------------------------------------------------------------------------
(* The pages: a load was sent after the page had opened.                   *)
RowsTyped ==
    /\ shown \in Pages!Choices \cup {Pages!None}
    /\ sent \in 1..MaxSends /\ refusals \in 0..MaxRefusals
    /\ \A l \in pending : l.at >= 1

(* A page sends no more than its bound.                                    *)
LEMMA RowsTypedStep == ASSUME RowsInv, RowsTyped, Pages!Next PROVE RowsTyped'
<1>0. MaxSends \in Nat \ {0} /\ MaxRefusals \in Nat /\ sent \in 1..MaxSends /\ sent \in Nat
  BY UpkeepAssumption DEF UpkeepAssumption, Pages!ScreensAssumption, RowsTyped
<1>1. ASSUME NEW p, Pages!Show(p), refusals' = refusals
      PROVE  RowsTyped'
  BY <1>0, <1>1 DEF RowsTyped, Pages!Show, Pages!Load, Pages!First
<1>2. ASSUME NEW p, Pages!Open(p) \/ Pages!Jump(p) \/ Pages!FollowLink(p)
      PROVE  RowsTyped'
  BY <1>1, <1>2 DEF Pages!Open, Pages!Jump, Pages!FollowLink, Pages!ShowIfAdmitted
<1>3. ASSUME NEW c, Pages!Send(c), sent < MaxSends, shown' = shown, refusals' = refusals
      PROVE  RowsTyped'
  <2>1. sent' = sent + 1 /\ \A l \in pending' : l \in pending \/ l.at = sent + 1
    BY <1>3 DEF Pages!Send, Pages!Load
  <2> QED
    BY <1>0, <1>3, <2>1 DEF RowsTyped
<1>4. ASSUME NEW f \in Pages!Filters, Pages!Choose(f)
      PROVE  RowsTyped'
  <2>1. sent + 1 < MaxSends /\ shown' = shown /\ refusals' = refusals
    BY <1>4 DEF Pages!Choose
  <2>2. CASE Pages!Send(<<f, 1>>)
    BY <1>0, <1>3, <2>1, <2>2
  <2>3. CASE /\ sent' = sent + 2
             /\ pending' = pending \cup {Pages!Load(<<f, chosen[2]>>, sent + 1), Pages!Load(<<f, 1>>, sent + 2)}
    <3>1. \A l \in pending' : l \in pending \/ l.at = sent + 1 \/ l.at = sent + 2
      BY <2>3 DEF Pages!Load
    <3> QED
      BY <1>0, <2>1, <2>3, <3>1 DEF RowsTyped
  <2> QED
    BY <1>4, <2>2, <2>3 DEF Pages!Choose
<1>5. ASSUME NEW n \in Pages!Numbers, Pages!TurnPage(n)
      PROVE  RowsTyped'
  BY <1>3, <1>5 DEF Pages!TurnPage
<1>6. CASE Pages!LoadAgain
  BY <1>3, <1>6 DEF Pages!LoadAgain
<1>7. ASSUME NEW call, Pages!Press(call)
      PROVE  RowsTyped'
  BY <1>7 DEF Pages!Press, RowsTyped
<1>8. CASE Pages!Done
  <2>1. CASE sent < MaxSends /\ Pages!Send(acting)
    BY <1>3, <1>8, <2>1 DEF Pages!Done
  <2>2. CASE UNCHANGED <<sent, pending>>
    BY <1>8, <2>2 DEF Pages!Done, RowsTyped
  <2> QED
    BY <1>8, <2>1, <2>2 DEF Pages!Done
<1>9. ASSUME NEW l \in pending, Pages!Reply(l) \/ Pages!ReplyFails(l)
      PROVE  RowsTyped'
  <2>1. l.of \in Pages!Choices
    BY DEF RowsInv, Loads
  <2>2. pending' \subseteq pending /\ sent' = sent
    BY <1>9 DEF Pages!Reply, Pages!ReplyFails, Pages!Accept
  <2>3. shown' \in Pages!Choices \cup {Pages!None}
    BY <1>9, <2>1 DEF Pages!Reply, Pages!ReplyFails, RowsTyped
  <2>4. refusals' \in 0..MaxRefusals
    BY <1>0, <1>9 DEF Pages!Reply, Pages!ReplyFails, RowsTyped
  <2> QED
    BY <2>2, <2>3, <2>4 DEF RowsTyped
<1> QED
  BY <1>2, <1>4, <1>5, <1>6, <1>7, <1>8, <1>9 DEF Pages!Next

(* With the rows and the viewer's page that is the type.                   *)
LEMMA PagesHold == ASSUME RowsInv, RowsTyped, AccessInv PROVE Pages!TypeOK
<1>1. viewer.rel \in Pages!Relations
  BY DEF AccessInv, Pages!CourseRelations, Pages!Relations
<1>2. MaxSends \in Nat
  BY UpkeepAssumption DEF UpkeepAssumption, Pages!ScreensAssumption
<1>3. \A l \in pending : l \in [of : Pages!Choices, at : Nat] /\ l.at \in 1..MaxSends
  BY <1>2 DEF RowsInv, RowsTyped, Loads
<1>4. \A l \in [of : Pages!Choices, at : Nat] : l.at \in 1..MaxSends => l \in [of : Pages!Choices, at : 1..MaxSends]
  OBVIOUS
<1>5. page \in Pages!Pages
  BY DEF AccessInv, Leads
<1>6. sent \in 0..MaxSends /\ newest \in 0..sent
  BY <1>2 DEF RowsInv, RowsTyped
<1> QED
  BY <1>1, <1>3, <1>4, <1>5, <1>6 DEF RowsInv, RowsTyped, AccessInv, Pages!TypeOK

-----------------------------------------------------------------------------
(* The state of every scene, as its lemmas keep it.                        *)
ScenesTyped ==
    /\ scene = "bell" => BellTyped
    /\ scene = "jobs" => Work!TypeOK
    /\ scene = "rules" => Resolver!TypeOK
    /\ scene = "screens" => RowsInv /\ RowsTyped /\ AccessInv
    /\ scene = "http" => HttpTyped /\ RecordInv
    /\ scene = "habits" => HabitsInv

LEMMA ScenesStart == ASSUME Init PROVE ScenesTyped
<1>1. Badge!Init /\ Work!Init /\ Resolver!Init /\ Pages!Init /\ Http!Init /\ Habits!Init
  BY DEF Init
<1>2. BellTyped /\ Work!TypeOK /\ HabitsInv
  BY <1>1, BellInit, JobsTypedInit, HabitsInit
<1>3. HttpTyped /\ RecordInv
  <2>1. HttpTyped
    BY <1>1, UpkeepAssumption DEF UpkeepAssumption, Http!LifecycleAssumption, Http!Init, HttpTyped
  <2> QED
    BY <1>1, <2>1, RecordInit
<1>4. RowsInv /\ RowsTyped /\ AccessInv
  <2>1. RowsTyped
    BY <1>1, UpkeepAssumption DEF UpkeepAssumption, Pages!ScreensAssumption, Pages!Init, RowsTyped, Pages!Load
  <2> QED
    BY <1>1, <2>1, RowsInit, AccessInit
<1>5. Resolver!TypeOK
  BY <1>1, UpkeepAssumption DEF UpkeepAssumption, Resolver!RulesAssumption, Resolver!Init, Resolver!TypeOK
<1> QED
  BY <1>2, <1>3, <1>4, <1>5 DEF ScenesTyped

LEMMA ScenesStep == ASSUME ScenesTyped, Next PROVE ScenesTyped'
<1>1. scene' = scene
  BY Scenes
<1>2. CASE scene = "bell"
  BY <1>1, <1>2, Scenes, BellStep DEF ScenesTyped
<1>3. CASE scene = "jobs"
  BY <1>1, <1>3, Scenes, JobsTyped DEF ScenesTyped
<1>4. CASE scene = "screens"
  BY <1>1, <1>4, Scenes, RowsStep, RowsTypedStep, AccessStep DEF ScenesTyped
<1>5. CASE scene = "http"
  BY <1>1, <1>5, Scenes, HttpTypedStep, RecordStep DEF ScenesTyped
<1>6. CASE scene = "habits"
  BY <1>1, <1>6, Scenes, HabitsStep DEF ScenesTyped
<1>7. CASE scene = "rules"
  BY <1>1, <1>7, Scenes, RulesTyped DEF ScenesTyped
<1> QED
  BY <1>1, <1>2, <1>3, <1>4, <1>5, <1>6, <1>7 DEF ScenesTyped

(* Where nothing changes, the types stay.                                  *)
LEMMA ScenesStay == ASSUME ScenesTyped, UNCHANGED vars PROVE ScenesTyped'
<1>1. scene' = scene
  BY DEF vars
<1>2. BellTyped => BellTyped'
  BY DEF vars, bell, BellTyped
<1>3. Work!TypeOK => Work!TypeOK'
  BY DEF vars, jobs, refreshing, Work!TypeOK
<1>4. RowsInv /\ RowsTyped /\ AccessInv => (RowsInv /\ RowsTyped /\ AccessInv)'
  BY DEF vars, screens, RowsInv, RowsTyped, AccessInv, LastLoad, Leads, Pages!LinksAndCallsAreAdmitted, Pages!Here
<1>5. HttpTyped /\ RecordInv => (HttpTyped /\ RecordInv)'
  BY DEF vars, life, HttpTyped, RecordInv, Recording
<1>6. HabitsInv => HabitsInv'
  BY DEF vars, scoring, HabitsInv, Habits!WorkingHours
<1>7. Resolver!TypeOK => Resolver!TypeOK'
  BY DEF vars, jobs, Resolver!TypeOK
<1> QED
  BY <1>1, <1>2, <1>3, <1>4, <1>5, <1>6, <1>7 DEF ScenesTyped

(* The invariant of the scenes holds.                                      *)
LEMMA ScenesStayTyped == Spec => []ScenesTyped
<1>1. Init => ScenesTyped
  BY ScenesStart
<1>2. ScenesTyped /\ [Next]_vars => ScenesTyped'
  BY ScenesStep, ScenesStay
<1> QED
  BY <1>1, <1>2, PTL DEF Spec

(* What runs beside the requests keeps to its types and bounds, for any    *)
(* numbers of notifications, instances, calls and addresses; the samples   *)
(* of a profile are the rows of its hours, also when the working day goes  *)
(* past midnight (behaviorProfiler.ts, rowsToProfile).                     *)
THEOREM UpkeepTypes == Spec => []TypeOK
<1>1. ScenesTyped => TypeOK
  BY BellHolds, PagesHold, HttpTypedHolds, HabitsHold DEF ScenesTyped, TypeOK
<1> QED
  BY <1>1, ScenesStayTyped, PTL

(* However often the profile is refreshed between the requests, it knows   *)
(* an address only after three allowed requests from it; refused ones and  *)
(* those for foreign objects teach it nothing (behaviorProfiler.ts,        *)
(* aggregate).                                                             *)
THEOREM TrustIsEarned == Spec => [](scene = "habits" => Habits!AddressesEarnTrust)
<1>1. ScenesTyped => (scene = "habits" => Habits!AddressesEarnTrust)
  BY HabitsHold DEF ScenesTyped
<1> QED
  BY <1>1, ScenesStayTyped, PTL

(* For any working day of up to fourteen hours, whatever came from other   *)
(* addresses and whenever the profile was refreshed: later is stranger,    *)
(* a new address stranger than a known one, trust is earned by allowed     *)
(* requests, and neither few samples nor one signal convict                *)
(* (behaviorScoring.ts, scoreEvent; behaviorProfiler.ts, rowsToProfile).   *)
THEOREM StrangersAreSeen == Spec => []StrangersStandOut
<1>1. ScenesTyped => StrangersStandOut
  BY Strangers DEF ScenesTyped, StrangersStandOut
<1> QED
  BY <1>1, ScenesStayTyped, PTL
==============================================================================
