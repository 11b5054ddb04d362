---------------------------- MODULE LoginGuard ----------------------------
(* The rules of securityMonitor.ts around a login and a deletion: the      *)
(* block of an address after BRUTE_LIMIT wrong passwords, the number of    *)
(* addresses a user is signed in from, the hour of an administrator's      *)
(* login, and the number of deletions in a minute.  An operation advances  *)
(* by one awaited Redis or database call; operations interleave between    *)
(* them.  A key's time to live is a step that may come at any moment.      *)
(* Sessions and TwoFactor say what the tokens and the tickets do; here a   *)
(* session is the address it was opened from.                              *)
EXTENDS Naturals, FiniteSets

CONSTANTS
    Handler,          \* requests under way at one time
    User, Ip,
    Night,            \* the users whose role and hour checkUnusualHour alerts on
    BruteLimit,       \* BRUTE_LIMIT
    SessionIpLimit,   \* SESSION_IP_LIMIT
    BulkDeleteLimit,  \* BULK_DELETE_LIMIT
    MaxOps,           \* bound: requests in a behaviour
    MaxFaults         \* bound: requests that end half way

GuardAssumption ==
    /\ BruteLimit \in Nat \ {0, 1} /\ SessionIpLimit \in Nat /\ BulkDeleteLimit \in Nat
    /\ MaxOps \in Nat /\ MaxFaults \in Nat
    /\ Night \subseteq User

VARIABLES
    brute,     \* brute:<ip>, 0 when there is no key
    blocked,   \* the addresses with a key ip_blocked:<ip>
    devices,   \* sessions_ips:<user>
    deletes,   \* bulk_delete:<user>
    waiting,   \* users with a 2fa_pending or 2fa_setup_required ticket
    op,        \* the requests under way
    ops, faults,
    alarms,    \* alerts stored, by kind
    tried,     \* history: wrong passwords of an address since it was last forgiven
    noticed,   \* history: users alerted on since they had too many addresses
    signedIn,  \* history: addresses a user opened a session from and did not log out,
               \* since sessions_ips:<user> began
    uncounted  \* history: those of them that no checkMultiDevice was called for

keys == <<brute, blocked, devices, deletes, waiting>>
history == <<tried, noticed, signedIn, uncounted>>
counts == <<ops, faults>>
vars == <<keys, op, counts, alarms, history>>

Kind == {"BRUTE_FORCE", "MULTI_DEVICE", "UNUSUAL_HOUR", "BULK_DELETE"}
Step == {"idle", "check", "password", "incr", "block", "clear", "bruteAlert", "reset",
         "session", "backup", "sadd", "scard", "deviceAlert", "hour", "hourAlert", "srem",
         "deleteIncr", "deleteAlert"}
idle == [at |-> "idle"]
At(h, step) == op[h].at = step
Goto(h, step) == op' = [op EXCEPT ![h].at = step]
Finish(h) == op' = [op EXCEPT ![h] = idle]

Init ==
    /\ brute = [i \in Ip |-> 0]
    /\ blocked = {}
    /\ devices = [u \in User |-> {}]
    /\ deletes = [u \in User |-> 0]
    /\ waiting = {}
    /\ op = [h \in Handler |-> idle]
    /\ ops = 0 /\ faults = 0
    /\ alarms = [k \in Kind |-> 0]
    /\ tried = [i \in Ip |-> 0]
    /\ noticed = {}
    /\ signedIn = [u \in User |-> {}] /\ uncounted = [u \in User |-> {}]

-----------------------------------------------------------------------------
(* A request arrives: a login, its second step from whatever address, a    *)
(* logout or a deletion of a signed-in user.                               *)
Arrive(h, u, i, step) ==
    /\ At(h, "idle") /\ ops < MaxOps
    /\ ops' = ops + 1
    /\ op' = [op EXCEPT ![h] = [at |-> step, user |-> u, ip |-> i, n |-> 0]]
    /\ UNCHANGED <<keys, history, alarms, faults>>

Login(h, u, i) == Arrive(h, u, i, "check")
(* verifyTwoFactor; verifyBackupCode, or the end of an invited set-up.     *)
VerifyTwoFactor(h, u, i) == u \in waiting /\ Arrive(h, u, i, "session")
VerifyBackupCode(h, u, i) == u \in waiting /\ Arrive(h, u, i, "backup")
Logout(h, u, i) == i \in devices[u] \cup uncounted[u] /\ Arrive(h, u, i, "srem")
DeleteSomething(h, u, i) == Arrive(h, u, i, "deleteIncr")

(* checkIpBlocked: a blocked address is answered with 429. *)
CheckNever(h) ==
    /\ At(h, "check")
    /\ Goto(h, "password")
    /\ UNCHANGED <<keys, history, alarms, counts>>

CheckIpBlocked(h) ==
    /\ At(h, "check")
    /\ IF op[h].ip \in blocked THEN Finish(h) ELSE Goto(h, "password")
    /\ UNCHANGED <<keys, history, alarms, counts>>

(* bcrypt.compare, or an account that does not exist or is not active. *)
ComparePassword(h) ==
    /\ At(h, "password")
    /\ \/ Goto(h, "incr") \/ Goto(h, "reset")
    /\ UNCHANGED <<keys, history, alarms, counts>>

(* recordFailedLogin: INCR.  EXPIRE follows the first one and is folded in *)
(* here, the deadline only matters in that the key may end (BruteWindowEnds). *)
RecordFailedLogin(h) ==
    LET i == op[h].ip IN
    /\ At(h, "incr")
    /\ brute' = [brute EXCEPT ![i] = @ + 1]
    /\ tried' = [tried EXCEPT ![i] = @ + 1]
    /\ IF brute[i] + 1 >= BruteLimit
       THEN op' = [op EXCEPT ![h].at = "block", ![h].n = brute[i] + 1]
       ELSE Finish(h)
    /\ UNCHANGED <<blocked, devices, deletes, waiting, noticed, signedIn, uncounted, alarms, counts>>

(* SETEX ip_blocked:<ip>, then DEL brute:<ip>, then the alert. *)
BlockIp(h) ==
    /\ At(h, "block")
    /\ blocked' = blocked \cup {op[h].ip}
    /\ Goto(h, "clear")
    /\ UNCHANGED <<brute, devices, deletes, waiting, history, alarms, counts>>

ClearCount(h) ==
    /\ At(h, "clear")
    /\ brute' = [brute EXCEPT ![op[h].ip] = 0]
    /\ Goto(h, "bruteAlert")
    /\ UNCHANGED <<blocked, devices, deletes, waiting, history, alarms, counts>>

(* _createAlert: the row, notifyAdmins, the socket event; an error is logged. *)
Raise(h, kind, next) ==
    /\ \/ alarms' = [alarms EXCEPT ![kind] = @ + 1]
       \/ faults < MaxFaults /\ UNCHANGED alarms
    /\ faults' = IF alarms' = alarms THEN faults + 1 ELSE faults
    /\ IF next = "idle" THEN Finish(h) ELSE Goto(h, next)
    /\ UNCHANGED <<keys, ops>>

AlertBruteForce(h) ==
    /\ At(h, "bruteAlert")
    /\ Raise(h, "BRUTE_FORCE", "idle")
    /\ UNCHANGED history

(* resetLoginAttempts; a ticket for the second step, or the session.       *)
ResetLoginAttempts(h) ==
    LET i == op[h].ip IN
    /\ At(h, "reset")
    /\ brute' = [brute EXCEPT ![i] = 0]
    /\ tried' = [tried EXCEPT ![i] = 0]
    /\ \/ Goto(h, "session") /\ UNCHANGED waiting
       \/ Finish(h) /\ waiting' = waiting \cup {op[h].user}
    /\ UNCHANGED <<blocked, devices, deletes, noticed, signedIn, uncounted, alarms, counts>>

(* _createTokenPair, up to checkMultiDevice in login and verifyTwoFactor.  *)
Opens(h) == signedIn' = [signedIn EXCEPT ![op[h].user] = @ \cup {op[h].ip}]

OpenSession(h) ==
    /\ At(h, "session")
    /\ Opens(h)
    /\ Goto(h, "sadd")
    /\ UNCHANGED <<keys, tried, noticed, uncounted, alarms, counts>>

(* verifyBackupCode and /2fa/setup-finish call neither of the two rules.   *)
OpenByBackupCode(h) ==
    LET u == op[h].user IN
    /\ At(h, "backup")
    /\ Opens(h)
    /\ uncounted' = [uncounted EXCEPT ![u] = @ \cup ({op[h].ip} \ (signedIn[u] \cup devices[u]))]
    /\ Finish(h)
    /\ UNCHANGED <<keys, tried, noticed, alarms, counts>>

(* checkMultiDevice: SADD and EXPIRE, SCARD, the alert. *)
AddDevice(h) ==
    LET u == op[h].user IN
    /\ At(h, "sadd")
    /\ devices' = [devices EXCEPT ![u] = @ \cup {op[h].ip}]
    /\ uncounted' = [uncounted EXCEPT ![u] = @ \ {op[h].ip}]
    /\ Goto(h, "scard")
    /\ UNCHANGED <<brute, blocked, deletes, waiting, tried, noticed, signedIn, alarms, counts>>

CountOthers(h) ==
    /\ At(h, "scard")
    /\ Goto(h, IF Cardinality(devices[op[h].user] \ {op[h].ip}) > SessionIpLimit
               THEN "deviceAlert" ELSE "hour")
    /\ UNCHANGED <<keys, history, alarms, counts>>

CountDevices(h) ==
    /\ At(h, "scard")
    /\ Goto(h, IF Cardinality(devices[op[h].user]) > SessionIpLimit THEN "deviceAlert" ELSE "hour")
    /\ UNCHANGED <<keys, history, alarms, counts>>

AlertMultiDevice(h) ==
    /\ At(h, "deviceAlert")
    /\ Raise(h, "MULTI_DEVICE", "hour")
    /\ noticed' = noticed \cup {op[h].user}
    /\ UNCHANGED <<tried, signedIn, uncounted>>

(* checkUnusualHour. *)
CheckUnusualHour(h) ==
    /\ At(h, "hour")
    /\ IF op[h].user \in Night THEN Goto(h, "hourAlert") ELSE Finish(h)
    /\ UNCHANGED <<keys, history, alarms, counts>>

AlertUnusualHour(h) ==
    /\ At(h, "hourAlert")
    /\ Raise(h, "UNUSUAL_HOUR", "idle")
    /\ UNCHANGED history

(* removeSessionIp: its failure is swallowed. *)
ForgetDevice(h) ==
    LET u == op[h].user IN
    /\ At(h, "srem")
    /\ devices' = [devices EXCEPT ![u] = @ \ {op[h].ip}]
    /\ signedIn' = [signedIn EXCEPT ![u] = @ \ {op[h].ip}]
    /\ uncounted' = [uncounted EXCEPT ![u] = @ \ {op[h].ip}]
    /\ noticed' = IF Cardinality(devices'[u]) <= SessionIpLimit THEN noticed \ {u} ELSE noticed
    /\ Finish(h)
    /\ UNCHANGED <<brute, blocked, deletes, waiting, tried, alarms, counts>>

(* The preHandler hook of app.ts: checkBulkDelete, then the deletion itself. *)
CheckBulkDelete(h) ==
    LET u == op[h].user IN
    /\ At(h, "deleteIncr")
    /\ deletes' = [deletes EXCEPT ![u] = @ + 1]
    /\ IF deletes[u] + 1 > BulkDeleteLimit
       THEN Goto(h, "deleteAlert")
       ELSE Finish(h)
    /\ UNCHANGED <<brute, blocked, devices, waiting, history, alarms, counts>>

AlertBulkDelete(h) ==
    /\ At(h, "deleteAlert")
    /\ Raise(h, "BULK_DELETE", "idle")
    /\ UNCHANGED history

(* A rejected Redis command, or an instance that stops, between two steps. *)
RequestEnds(h) ==
    /\ ~At(h, "idle") /\ faults < MaxFaults
    /\ faults' = faults + 1
    /\ Finish(h)
    /\ UNCHANGED <<keys, history, alarms, ops>>

-----------------------------------------------------------------------------
(* Times to live: five minutes, thirty minutes, seven days, a minute; the  *)
(* tickets are spent or end.  A block outlives the request that set it, as *)
(* the set of addresses does; a session that is renewed may outlive the    *)
(* set, and is then no longer counted by anything.                         *)
BruteWindowEnds(i) ==
    /\ brute[i] > 0
    /\ brute' = [brute EXCEPT ![i] = 0]
    /\ tried' = [tried EXCEPT ![i] = 0]
    /\ UNCHANGED <<blocked, devices, deletes, waiting, op, counts, alarms, noticed, signedIn, uncounted>>

BlockEnds(i) ==
    /\ i \in blocked
    /\ \A h \in Handler : ~At(h, "idle") => op[h].ip # i
    /\ blocked' = blocked \ {i}
    /\ tried' = [tried EXCEPT ![i] = 0]
    /\ UNCHANGED <<brute, devices, deletes, waiting, op, counts, alarms, noticed, signedIn, uncounted>>

DevicesForgotten(u) ==
    /\ devices[u] # {}
    /\ \A h \in Handler : ~At(h, "idle") => op[h].user # u
    /\ devices' = [devices EXCEPT ![u] = {}]
    /\ noticed' = noticed \ {u}
    /\ signedIn' = [signedIn EXCEPT ![u] = {}]
    /\ uncounted' = [uncounted EXCEPT ![u] = {}]
    /\ UNCHANGED <<brute, blocked, deletes, waiting, op, counts, alarms, tried>>

TicketsEnd(u) ==
    /\ waiting' = waiting \ {u}
    /\ UNCHANGED <<brute, blocked, devices, deletes, op, counts, alarms, history>>

DeleteWindowEnds(u) ==
    /\ deletes[u] > 0
    /\ deletes' = [deletes EXCEPT ![u] = 0]
    /\ UNCHANGED <<brute, blocked, devices, waiting, op, counts, alarms, history>>

Request(h) ==
    \/ \E u \in User, i \in Ip :
           \/ Login(h, u, i) \/ VerifyTwoFactor(h, u, i) \/ VerifyBackupCode(h, u, i)
           \/ Logout(h, u, i) \/ DeleteSomething(h, u, i)
    \/ CheckIpBlocked(h) \/ ComparePassword(h) \/ RecordFailedLogin(h)
    \/ BlockIp(h) \/ ClearCount(h) \/ AlertBruteForce(h)
    \/ ResetLoginAttempts(h) \/ OpenSession(h) \/ OpenByBackupCode(h)
    \/ AddDevice(h) \/ CountDevices(h) \/ AlertMultiDevice(h)
    \/ CheckUnusualHour(h) \/ AlertUnusualHour(h) \/ ForgetDevice(h)
    \/ CheckBulkDelete(h) \/ AlertBulkDelete(h) \/ RequestEnds(h)

Next ==
    \/ \E h \in Handler : Request(h)
    \/ \E i \in Ip : BruteWindowEnds(i) \/ BlockEnds(i)
    \/ \E u \in User : DevicesForgotten(u) \/ TicketsEnd(u) \/ DeleteWindowEnds(u)

Spec == Init /\ [][Next]_vars

-----------------------------------------------------------------------------
(* The keys of Redis, the alarms and what each request holds.             *)
TypeOK ==
    /\ brute \in [Ip -> Nat] /\ blocked \subseteq Ip
    /\ devices \in [User -> SUBSET Ip] /\ deletes \in [User -> Nat] /\ waiting \subseteq User
    /\ \A h \in Handler :
        \/ op[h] = idle
        \/ op[h] \in [at : Step \ {"idle"}, user : User, ip : Ip, n : Nat]
    /\ ops \in 0..MaxOps /\ faults \in 0..MaxFaults
    /\ alarms \in [Kind -> Nat] /\ tried \in [Ip -> Nat] /\ noticed \subseteq User
    /\ signedIn \in [User -> SUBSET Ip] /\ uncounted \in [User -> SUBSET Ip]

(* Counter, block and reset are commands of their own (securityMonitor.ts, *)
(* recordFailedLogin), so requests that passed the check go on guessing    *)
(* while another is about to block.  Still an address gets no more wrong   *)
(* passwords than the limit and one for each other request under way,      *)
(* until a success, the end of the window or of the block forgives it; a   *)
(* request that fails half way costs one more.                             *)
GuessesBounded ==
    \A i \in Ip : tried[i] <= BruteLimit - 1 + Cardinality(Handler) + faults

(* checkMultiDevice adds the address before it counts, so however logins   *)
(* and their second steps interleave, a user with sessions from too many   *)
(* addresses has been alerted on, or a login of his is about to count or   *)
(* to alert.  A session opened with a backup code, or by the set-up of the *)
(* second factor, is the exception: nothing counts its address until a     *)
(* login from there does.                                                  *)
NoDeviceUnnoticed ==
    \A u \in User :
        \/ Cardinality(signedIn[u] \ uncounted[u]) <= SessionIpLimit
        \/ u \in noticed \/ faults > 0
        \/ \E h \in Handler : op[h].at \in {"sadd", "scard", "deviceAlert"} /\ op[h].user = u
=============================================================================
