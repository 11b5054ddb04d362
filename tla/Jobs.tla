-------------------------------- MODULE Jobs --------------------------------
(* The daily refresh of the behaviour profiles (jobs/profileRefresh.ts)    *)
(* with its lock in Redis, and the profiles that each instance of the API  *)
(* keeps in memory (behaviorDetector.ts).  One user stands for all in the  *)
(* profile cache.                                                          *)
EXTENDS Naturals, FiniteSets

CONSTANTS
    Instance,
    MaxCrashes, MaxFaults   \* bounds: stopped instances, failing calls

JobsAssumption == MaxCrashes \in Nat /\ MaxFaults \in Nat

VARIABLES
    lock,     \* job_lock:profile_refresh; 2 stands for every larger count
    ttl,      \* the lock has a deadline
    job,      \* where the job of an instance stands
    cache,    \* the profile in the cache: of the last refresh, older, or none
    fill,     \* the profile a request has read and not cached yet
    manual,   \* instances whose refresh by hand is saved and not cleared yet
    crashes, faults,
    overran,  \* history: instances whose lock ended while they worked
    orphaned, \* history: a stop or a failed call left the lock no deadline
    excused   \* history: instances that missed a refresh of another one, or
              \*          cleared the cache under a request that had read

vars == <<lock, ttl, job, cache, fill, manual, crashes, faults, overran,
          orphaned, excused>>

Working == {"expire", "refresh", "clear", "release"}
Older(version) == IF version = "new" THEN "old" ELSE version

Init ==
    /\ lock = 0 /\ ttl = FALSE
    /\ job = [i \in Instance |-> "idle"]
    /\ cache = [i \in Instance |-> "none"] /\ fill = [i \in Instance |-> "none"]
    /\ manual = {} /\ crashes = 0 /\ faults = 0 /\ overran = {} /\ orphaned = FALSE /\ excused = {}

caches == <<cache, fill, manual>>
bounds == <<crashes, faults>>
Go(i, step) == job' = [job EXCEPT ![i] = step]

-----------------------------------------------------------------------------
(* The timers: half a minute after start-up, then every day.  INCR answers *)
(* 1 to the instance that gets the lock.                                   *)
Bumped == IF lock = 0 THEN 1 ELSE 2

TickAnyway(i) ==
    /\ job[i] = "idle"
    /\ lock' = Bumped
    /\ Go(i, "expire")
    /\ UNCHANGED <<ttl, caches, bounds, overran, excused, orphaned>>

Tick(i) ==
    /\ job[i] = "idle"
    /\ lock' = Bumped
    /\ IF lock = 0 THEN Go(i, "expire") ELSE UNCHANGED job
    /\ UNCHANGED <<ttl, caches, bounds, overran, excused, orphaned>>

(* A call that fails may have been executed.  acquireLock is awaited       *)
(* outside of the try: runOnce ends, its rejection is only reported, and   *)
(* nobody releases the lock.                                               *)
IncrFails(i) ==
    /\ job[i] = "idle" /\ faults < MaxFaults
    /\ faults' = faults + 1
    /\ lock' \in {lock, Bumped}
    /\ orphaned' = (orphaned \/ (lock = 0 /\ lock' = 1))
    /\ UNCHANGED <<ttl, job, caches, crashes, overran, excused>>

DeadlineFails(i) ==
    /\ job[i] = "expire" /\ faults < MaxFaults
    /\ faults' = faults + 1
    /\ ttl' \in {ttl, lock > 0}
    /\ orphaned' = (orphaned \/ (lock > 0 /\ ~ttl'))
    /\ Go(i, "idle")
    /\ overran' = overran \ {i}
    /\ UNCHANGED <<lock, caches, crashes, excused>>

SetNoDeadline(i) ==
    /\ job[i] = "expire"
    /\ Go(i, "refresh")
    /\ UNCHANGED <<lock, ttl, caches, bounds, overran, excused, orphaned>>

(* EXPIRE does nothing to a key that is gone. *)
SetDeadline(i) ==
    /\ job[i] = "expire"
    /\ ttl' = (lock > 0)
    /\ Go(i, "refresh")
    /\ UNCHANGED <<lock, caches, bounds, overran, excused, orphaned>>

(* refreshAll: every profile is built and saved again. *)
RefreshAll(i) ==
    /\ job[i] = "refresh"
    /\ cache' = [j \in Instance |-> Older(cache[j])]
    /\ fill' = [j \in Instance |-> Older(fill[j])]
    /\ excused' = excused \cup {j \in Instance \ {i} : cache[j] = "new" \/ fill[j] = "new"}
    /\ Go(i, "clear")
    /\ UNCHANGED <<lock, ttl, manual, bounds, overran, orphaned>>

(* Its query of the users fails: nothing is built, nothing cleared. *)
RefreshFails(i) ==
    /\ job[i] = "refresh" /\ faults < MaxFaults
    /\ faults' = faults + 1
    /\ Go(i, "release")
    /\ UNCHANGED <<lock, ttl, caches, crashes, overran, excused, orphaned>>

ClearNothing(i) ==
    /\ job[i] = "clear"
    /\ Go(i, "release")
    /\ UNCHANGED <<lock, ttl, caches, bounds, overran, excused, orphaned>>

ClearProfileCache(i) ==
    /\ job[i] = "clear"
    /\ cache' = [cache EXCEPT ![i] = "none"]
    /\ excused' = IF fill[i] = "old" THEN excused \cup {i} ELSE excused \ {i}
    /\ Go(i, "release")
    /\ UNCHANGED <<lock, ttl, fill, manual, bounds, overran, orphaned>>

(* finally: DEL, whoever holds the lock by now. *)
ReleaseLock(i) ==
    /\ job[i] = "release"
    /\ lock' = 0 /\ ttl' = FALSE
    /\ Go(i, "idle")
    /\ overran' = {j \in Instance \ {i} : job[j] \in Working}
    /\ UNCHANGED <<caches, bounds, excused, orphaned>>

(* DEL fails unexecuted: the lock stays up to its deadline. *)
ReleaseFails(i) ==
    /\ job[i] = "release" /\ faults < MaxFaults
    /\ faults' = faults + 1
    /\ Go(i, "idle")
    /\ overran' = overran \ {i}
    /\ UNCHANGED <<lock, ttl, caches, crashes, excused, orphaned>>

LockExpires ==
    /\ ttl
    /\ lock' = 0 /\ ttl' = FALSE
    /\ overran' = overran \cup {i \in Instance : job[i] \in Working}
    /\ UNCHANGED <<job, caches, bounds, excused, orphaned>>

(* An instance stops, with all it has in memory, and starts again. *)
Crash(i) ==
    /\ job[i] # "off" /\ crashes < MaxCrashes
    /\ crashes' = crashes + 1
    /\ Go(i, "off")
    /\ orphaned' = (orphaned \/ job[i] = "expire")
    /\ cache' = [cache EXCEPT ![i] = "none"] /\ fill' = [fill EXCEPT ![i] = "none"]
    /\ manual' = manual \ {i}
    /\ overran' = overran \ {i} /\ excused' = excused \ {i}
    /\ UNCHANGED <<lock, ttl, faults>>

Restart(i) ==
    /\ job[i] = "off"
    /\ Go(i, "idle")
    /\ UNCHANGED <<lock, ttl, caches, bounds, overran, excused, orphaned>>

(* refreshProfilesNow, from the security page: without the lock.  It       *)
(* awaits refreshAll, then clears the cache of its own instance.           *)
RefreshNow(i) ==
    /\ job[i] # "off"
    /\ cache' = [j \in Instance |-> Older(cache[j])]
    /\ fill' = [j \in Instance |-> Older(fill[j])]
    /\ excused' = excused \cup {j \in Instance \ {i} : cache[j] = "new" \/ fill[j] = "new"}
    /\ manual' = manual \cup {i}
    /\ UNCHANGED <<lock, ttl, job, bounds, overran, orphaned>>

ClearNow(i) ==
    /\ i \in manual
    /\ manual' = manual \ {i}
    /\ cache' = [cache EXCEPT ![i] = "none"]
    /\ excused' = IF fill[i] = "old" THEN excused \cup {i} ELSE excused \ {i}
    /\ UNCHANGED <<lock, ttl, job, fill, bounds, overran, orphaned>>

-----------------------------------------------------------------------------
(* cachedProfile: a miss reads the profile and caches it one await later. *)
LoadProfile(i) ==
    /\ job[i] # "off" /\ cache[i] = "none" /\ fill[i] = "none"
    /\ fill' = [fill EXCEPT ![i] = "new"]
    /\ UNCHANGED <<lock, ttl, job, cache, manual, bounds, overran, excused, orphaned>>

CacheProfile(i) ==
    /\ fill[i] # "none"
    /\ cache' = [cache EXCEPT ![i] = fill[i]]
    /\ fill' = [fill EXCEPT ![i] = "none"]
    /\ UNCHANGED <<lock, ttl, job, manual, bounds, overran, excused, orphaned>>

ProfileTtlEnds(i) ==
    /\ cache[i] # "none"
    /\ cache' = [cache EXCEPT ![i] = "none"]
    /\ excused' = IF fill[i] = "none" THEN excused \ {i} ELSE excused
    /\ UNCHANGED <<lock, ttl, job, fill, manual, bounds, overran, orphaned>>

JobStep(i) ==
    SetDeadline(i) \/ RefreshAll(i) \/ ClearProfileCache(i) \/ ReleaseLock(i)

Next ==
    \/ LockExpires
    \/ \E i \in Instance :
        \/ Tick(i) \/ JobStep(i) \/ RefreshFails(i) \/ Crash(i) \/ Restart(i)
        \/ IncrFails(i) \/ DeadlineFails(i) \/ ReleaseFails(i)
        \/ RefreshNow(i) \/ ClearNow(i)
        \/ LoadProfile(i) \/ CacheProfile(i) \/ ProfileTtlEnds(i)

(* Timers fire, a process that runs goes on, a stopped instance is started *)
(* again by its supervisor, and deadlines pass.                            *)
Fairness ==
    /\ WF_vars(LockExpires)
    /\ \A i \in Instance : WF_vars(Tick(i)) /\ WF_vars(JobStep(i)) /\ WF_vars(Restart(i))

Spec == Init /\ [][Next]_vars /\ Fairness

-----------------------------------------------------------------------------
(* The lock, the work of each instance and its cache.                    *)
TypeOK ==
    /\ lock \in 0..2 /\ ttl \in BOOLEAN
    /\ job \in [Instance -> {"off", "idle"} \cup Working]
    /\ cache \in [Instance -> {"none", "new", "old"}] /\ fill \in [Instance -> {"none", "new", "old"}]
    /\ manual \subseteq Instance
    /\ crashes \in 0..MaxCrashes /\ faults \in 0..MaxFaults
    /\ orphaned \in BOOLEAN /\ overran \subseteq Instance /\ excused \subseteq Instance

(* Profiles are refreshed again and again, whichever instances stop and    *)
(* whichever calls fail, with the lock or without it: what ends it is a    *)
(* stop between INCR and EXPIRE, or one of the two failing, that leaves    *)
(* the lock without a deadline (profileRefresh.ts, acquireLock).           *)
RefreshRecurs == <>orphaned \/ []<>(\E i \in Instance : job[i] = "clear")

(* Two instances refresh at once only after one worked past the deadline   *)
(* of its lock, whose end then takes the lock of the other away, too.      *)
OneRefreshAtATime ==
    Cardinality({i \in Instance : job[i] \in Working}) > 1 => overran # {}

(* An instance that refreshed the profiles works with the new ones: the    *)
(* cache holds an older one only before it is cleared, if another instance *)
(* did the refresh, or if a request had read before the clearing and       *)
(* cached after it (behaviorDetector.ts, cachedProfile).                   *)
OldProfileExplained ==
    \A i \in Instance : cache[i] = "old" => job[i] = "clear" \/ i \in manual \cup excused

(* The lock does not stay for ever, not even after a crash, as the comment *)
(* on its deadline says: it has the deadline, or an instance that will set *)
(* one or delete it (profileRefresh.ts, runOnce).                          *)
LockEnds == lock > 0 => ttl \/ \E i \in Instance : job[i] \in Working
=============================================================================
