# SEASMP in TLA+

SEASMP is an academic records system with a built-in detector of improper access: a
Fastify/Prisma API over PostgreSQL and Redis (`src/apps/api`), a Next.js front end
(`src/apps/web`) and a Python analytics service (`src/apps/analytics`). This directory holds
TLA+ models of its parts, the TLC configurations that check them on small instances, and TLAPS
proofs of what they promise for every instance.

    tlc -workers 2 -config MCDetection.cfg MCDetection      # model-check
    tlapm DetectionProofs.tla                               # check the proofs

`PROJECT.json` is the index: components, runs, the source lines each definition models, the
mutants that show each property can fail, findings, hazards and theorems.

## 1. Inventory

The API is one Node process per instance; several instances may run against the same PostgreSQL
and Redis. Inside an instance nothing runs in parallel, but every `await` lets other requests
in, so each awaited database or Redis call is a point of interleaving. Redis executes commands
one at a time; PostgreSQL statements are atomic, and few handlers use a transaction.

| Component | State | Operations | Interacts with | Hard behaviour | Correct when |
|---|---|---|---|---|---|
| Correlation verdict (`services/correlation.ts`) | none | `correlate`, `severityFor`, `alertTypeFor` | called by the detector | thresholds, saturation, caps | breadth alone never alerts; severities fit the layer |
| Ownership resolution (`services/ownershipResolver.ts`, `requestAudit.ts`) | rule cache (60 s) | `resolveAccess`, `loadRules` | reads rules and rows; feeds detector | first rule wins, null links, stale or empty cache | verdict follows the rules of the object's type |
| Detection pipeline (`behaviorDetector.ts`, `signalWindow.ts`, `correlationDetector.ts`, `requestAudit.ts`) | Redis window, cooldown and hourly keys; `audit_logs`, `security_alerts` | one `onResponse` hook per request | Redis, PostgreSQL, socket room of the administrators | counter and deadline in two commands, check-then-set cooldown, verdict used after awaits, failures in between | every alert explained by its user's own requests; windows close; a cooldown stands for an alert |
| Sessions (`auth.service.ts`, `security.service.ts`) | `refresh_tokens`, `users` | login, refresh, revoke one or all, cleanup, delete or disable a user | browser, PostgreSQL | find-delete-insert rotation against races, revocation and crashes | rotation never forks; revoked is final; only failures lose a session |
| Login guard (`securityMonitor.ts`) | Redis counters, blocks and address sets; alerts | failed login, block, multi-device, unusual hour | login, alerts, notifications | counter, block and reset are separate commands | blocked after the limit; one alert per rule |
| Second factor (`auth.service.ts`) | pending logins in Redis, `backup_codes`, secret and flag of the user | pending, verify TOTP or backup code, set up, confirm, disable | sessions | one-time codes and pending tokens are read, then spent | a backup code opens one session; codes exist exactly while the factor is on |
| Browser client (`web/lib/api.ts`, `auth-context.tsx`) | cookie jar, `localStorage`, one promise per tab | request with renewal, login, logout | sessions | tabs share the jar; replies arrive late or are lost | racing tabs keep the login; logout ends it |
| Enrollment, attendance, grades (`enrollment`, `attendance`, `assessment` services) | rows; QR tokens in Redis | enroll, change status, mark, QR, submit and bound grades | notifications | capacity counted outside the insert; one QR token, two students | capacity kept; a QR token marks one student; grades within bounds |
| Notifications and real time (`notification.service.ts`, `realtime/gateway.ts`) | `notifications`, rooms | create many, read one or all, join and leave a course | everything that notifies | re-read after `createMany`; join awaits, leave does not | each row is pushed once; who left is not in the room |
| Jobs and caches (`jobs/profileRefresh.ts`, caches of `behaviorDetector`, `ownershipResolver`) | lock key; in-process maps | nightly and manual refresh, clear cache | detector | lock outlives or is outlived by its holder; cache refilled with an old value | one refresh at a time; a cleared cache serves new profiles |
| Users, courses, slugs (`user.service.ts`, `course.service.ts`, `lib/slug.ts`) | rows | create, rename, toggle, change password | sessions, enrollment | read-then-write toggles and slugs | each write explained by what the request read |
| Analytics (`apps/analytics`) | risk rows, result caches, model per process | nightly scoring, training, prediction, counting | PostgreSQL, Redis, Celery | a failed row aborts the transaction; rows locked in two orders; model and scaler replaced in two steps | what is notified is stored; a score uses one model; no rate above its whole |
| Behaviour scoring (`behaviorProfiler.ts`, `behaviorScoring.ts`) | `user_behavior_profiles` | aggregate, refresh, `scoreEvent` | detector, jobs | wrap-around hours, thin history | the stranger scores higher; refused requests teach nothing |
| HTTP layer (`app.ts`, `server.ts`, `routes/*`) | rate counters, open requests | limit, authenticate, answer, record; start and shutdown | every service | hooks run after the answer | every answer has its audit row |
| Web pages (`web/app/(dashboard)`) | rows on screen, filter, page number | load, choose, press, follow a link | routes | replies overtake each other; handlers close over old choices | only admitted calls and links; rows fit the filter |
| API analytics | none | counts and rates | PostgreSQL | two statements, one figure | bounded by what was written between them |
| Rule inference, configuration, logging, e-mail, evaluation tools | - | offline or output only | - | - | not modelled (section 7) |

The hazards - what can go wrong in this code that a test would hardly reach, each at its line -
are listed in `PROJECT.json` with the properties that cover them.

## 2. What is modelled

### The detector: `Correlation`, `Ownership`, `Detection`

`Correlation` holds the pure decision of the two layers. The code computes a noisy-OR over
fractions; the module keeps the integer weight of the complement, so `RiskAtLeast` compares
exact integers, and only the rounding of IEEE doubles at a threshold is left out. Weights and
thresholds are constants, with the relations between them that the code intends as named
assumptions (`WeightsAssumption`, `ThresholdAssumption`, `SeverityAssumption`); the
configurations use the code's thresholds (75, 50) and cap (50).

`Ownership` holds `resolveAccess` and the classification of its verdict by `requestAudit.ts`
(`AuthzOutcome`, `WidensScope`). Paths are followed by a row that maps each path to a user.

`Detection` is the `onResponse` hook. A hook `h` is a record `[at, req, held, verdict]`, where `at`
names the await it is about to make, `held` the score it read before overwriting and `verdict`
the alert it carries to the insert. State and code correspond like this:

| Variable | Code |
|---|---|
| `win[u]` | the five `sig:*` keys of a user's signal window |
| `closing[u]` | which of the keys filled before their `EXPIRE` have a time to live |
| `hourly`, `cooldown` | `req_hour` and `corr_alert` keys |
| `journal`, `alerts`, `announced` | `audit_logs`, `security_alerts`, what `notifyAdmins`/`emitSecurityAlert` sent |
| `unlogged`, `torn`, `raised`, `answered`, `silenced` | history, read by no action |

| Actions | Code |
|---|---|
| `Receive` | `recordRequest` up to the audit row, whose failure is swallowed |
| `Inspect`, `RecordMassAccess`, `RecordBehaviorGet`, `RecordBehaviorSet` | `inspect`, `recordMassAccess`, `recordBehavior` |
| `ScopeAdd`, `ScopeCard`, `ScopeExpire` | `recordPrivilegedScope`: SADD, SCARD, EXPIRE |
| `AuthzIncr`, `AuthzExpire` | `recordAuthz` through `bump`: INCR, EXPIRE |
| `Read`, `CoolGet`, `CoolSet`, `Persist`, `Announce` | `evaluate`: `readSignals`, `shouldAlert` (GET, SETEX), `persist` |
| `CallFails`, `InstanceStops` | a rejected call (with the `catch` that receives it); a process that ends |
| `WindowCloses`, `BehaviorCloses`, `CooldownEnds`, `HourTurns` | a key reaches its time to live |

Time is abstracted to "a key with a deadline may disappear at any moment".

### Sessions: `SessionLife`, `Sessions`

`SessionLife` is what rotation promises: a session is unborn, live, being renewed by one request,
or ended, and nothing leaves "ended". `Sessions` is the code: `rows`, `expired`, `owner` are the
table, `active` and `deleted` the users, `handler[h]` a login or renewal between two of its awaits.
`RefreshFind`, `RefreshDelete`, `RefreshCreate` are the three awaits of `refresh`; any token of the
model may be presented by any request at any time, as tabs and repeated requests do. `HandlerFails`
ends a request half way. `revoked` and `swept` are history. `Stands(s)` reads a session's stage off
the rows and requests; it is the refinement mapping under which `Sessions` implements
`SessionLife` (`ImplementsSessionLife`).

### Browser: `Browser`, composed with `Sessions`

`Browser` declares the variables of `Sessions`, instantiates it as `Server`, and adds one browser: the
cookie jar, whether `localStorage` holds an access token, and the requests on the wire. Both storages are
shared by all tabs. A request is an element of `Handler` on both sides: `handler[h]` is the server's half,
`wire[h]` what the network and the waiting tab know of it. Every step the server takes for a request is an
action of `Sessions` conjoined with what the route does to the reply.

| Actions | Code |
|---|---|
| `TryRefresh`, `Login`, `Logout` | what a tab sends; a tab with a renewal in flight sends no second one (`refreshingPromise`) |
| `RateLimited`, `ServeRefresh`, `ServeDelete`, `ServeCreate`, `ServeLogout`, `ServeFails` | the routes of `auth.routes.ts` around `Server!RefreshFind`, `RefreshDelete`, `RefreshCreate`, `LoginOpens` |
| `ReplyArrives`, `Settle`, `Refused` | headers (Set-Cookie) first, then the script of the tab: `setItem` or `clearTokens` |
| `ConnectionBreaks`, `TabCloses` | the reply reaches nobody; the server goes on |
| `MeFails`, `CookieExpires` | `AuthProvider` clears the storage on any error; `maxAge` |
| `Elsewhere` | revocation, expiry, deletion and deactivation from outside the browser |

The cookie's path is `/v1/auth/refresh`, so `Logout` carries no token and the server leaves the rows alone
(section 4). A logout whose access token has expired is answered with 401, renews, and is repeated: it is
`TryRefresh` followed by `Logout`. A refused login changes nothing and is left out. The second factor of a
login is part of `Login`. `signedOut` is history: a logout was answered while nothing on the wire could still bring a
cookie (`MayBring`), and no login was sent since.

### Second factor: `TwoFactor`

One account, its rows and keys, and the requests that act on it. `op[h]` names the await a request is
about to make; `secret` stands for the flag and the secret, which are written together; `unused` and
`used` are the rows of `backup_codes`; `pending`, `invited` and `setup` the keys of Redis; `shown` the draw of
codes that a page last displayed. Whether the role must have the factor (`mandatory`) is chosen once. A six-digit
code is the secret it was computed from, a draw of ten codes a member of `Batch`.

| Actions | Code |
|---|---|
| `PasswordAccepted`, `IssueTicket`, `PlainSession` | the end of `login`: by the account as read, a pending ticket, an invitation to set up, or a session |
| `VerifyTwoFactor`, `CheckTotp`, `SpendPending`, `OpenSession` | `verifyTwoFactor` |
| `VerifyBackupCode`, `FindCode`, `MarkUsed`, then the same | `verifyBackupCode` |
| `SetupFromSettings`, `SetupFromLogin` | `setup2FA`, with what each page shows of its reply |
| `ConfirmFromSettings`, `ConfirmFromLogin`, `CheckSetup`, `EnableFactor`, `ClearCodes`, `InsertCodes`, `DeleteSetup` | `confirm2FA` and `generateBackupCodes` |
| `DeleteInvite`, `FinishSetup` | the rest of `/2fa/setup-finish` |
| `Disable`, `SwitchOff`, `WipeCodes` | `disable2FA` |
| `KeyExpires`, `RequestFails` | time to live; a request that ends half way |

`DISABLE_2FA_REQUIRED`, a development switch that turns the whole second step off, is left out.

`Accounts` sets `TwoFactor` beside `Sessions` for one run: what the factor lets in is a login to `Sessions`, and
neither touches what the other keeps, so a variable `part` says which of them moves.

### Around the rows: `LoginGuard`, `Register`, `Grades`, `Catalogue`, `Notices`, `Rooms`, `Export`, `Risk`, `Stats`

Each module is one component; they share nothing but the request handlers. In the request modules
`op[h]` is a record whose `at` names the await the request is about to make, with what it read
so far; one action per await. `RequestEnds` (or `CallFails`) is a statement that throws. Variables
marked "history" in a module are read by no action's guard.

| Module | State | Actions and code |
|---|---|---|
| `LoginGuard` | failure counter and block of an address, address set and delete counter of a user, alerts | the commands of `securityMonitor.ts` in the order `login`, `logout` and the `onResponse` hook of `app.ts` send them: `CheckIpBlocked`, `ComparePassword`, `RecordFailedLogin`, `BlockIp`, `ClearCount`, `AlertBruteForce`, `AddDevice`, `CountDevices`, ... and the keys that expire. A right password leads to a session or to a ticket; `VerifyTwoFactor` and `VerifyBackupCode` come with the ticket from any address, the first goes through `checkMultiDevice` (`OpenSession`), the second and the end of a set-up do not (`OpenByBackupCode`) |
| `Register` | courses, enrolments, attendance rows, QR tokens | `enroll`, `changeStatus` of enrolments and of courses, `mark`, `markBulk`, `generateQrToken`, `markByQr` |
| `Grades` | assessments with their maximum, grades | create, update, delete of assessments, `submitGrade` |
| `Catalogue` | courses with title and slug, users | `create` and `update` of courses around `uniqueSlug`, creation of users, `toggleStatus`, `changePassword` |
| `Notices` | stored notifications and how often each was pushed | `create`, `createMany` (insert, re-read of the newest, push), `notifyAdmins` |
| `Rooms` | sockets, the wire of each, awaited checks, the room of one course | `initRealtime`, `join:course`, `leave:course`, the effect of the course's attendance page, lost connections |
| `Export` | the audit log and the pages an export has read | `exportCsv` against `auditLogs` while rows are written |
| `Risk` | scores; transactions with the rows they hold; model and scaler on disk and in each process; who has a legacy model | `nightly_risk_calculation`, legacy `predict_batch` with its own model or the rule, both `train_model`s, `load_model`, PostgreSQL's row locks and deadlock detection |
| `Stats` | marks, high scores, half-counted answers, cached answers | the statements behind the rates of `analytics.service.ts` and of the analytics service |

### Beside the requests: `Bell`, `Jobs`, `Rules`, `Lifecycle`, `Scoring`

| Module | State | Actions and code |
|---|---|---|
| `Bell` | stored notifications, what the bell shows, loads and marks in flight | `load` every 60 s and at each push, `openItem`, `markAllRead`, and the routes that serve them; pushes and replies may be lost |
| `Jobs` | lock and deadline in Redis; per instance the run, the refresh by hand and the cached profile | `runOnce` (`Tick`, `SetDeadline`, `RefreshAll`, `ClearProfileCache`, `ReleaseLock`), each of its Redis calls rejected (`IncrFails`, `DeadlineFails`, `ReleaseFails`), `refreshProfilesNow` in its two steps (`RefreshNow`, `ClearNow`), `cachedProfile`; instances stop and start |
| `Rules` | the rule map in the memory of each instance | `loadRules`, with the empty map after a failed query, its minute, and instances that stop and start |
| `Lifecycle` | phase of the process, requests, audit rows | the rate limit, refusal, handler and error handler, the recording hook, `shutdown` and `bootstrap` |
| `Scoring` | the log of one user by address and fate, his profile | `rowsToProfile`, `refreshAll` (which keeps the old profile of a user with fewer than 50 samples) and `scoreEvent`: a score is an exact fraction of `Unit` times the `Peak` of the smoothed hours, the kernel's eleven weights are in hundredths |

### Pages: `Access`, `Screens`

`Access` gives, per file of routes, the calls that a role with a relation to the record (owner, member,
former student, stranger) gets an answer to. `Screens` describes the 14 pages behind the login: a `Part`
is one component with what it loads, what its buttons send and where its links lead; a `Page` puts
parts together with whom `RoleGuard` admits and how the page loads its list again. The actions are the viewer's
(`Open`, `Jump`, `FollowLink`, `Choose`, `TurnPage`, `Press`, `LoadAgain`) and the network's (`Reply`,
`ReplyFails`, `Done`). `Choose` sends two loads where an effect resets the page number after the
render; `Done` loads with the choice its handler closed over.

### Composition

`Campus` (the nine components around the rows) and `Upkeep` (`Bell`, `Jobs`, `Rules`, `Screens`,
`Lifecycle`, `Scoring`) instantiate these modules side by side, with one variable `scene` that says which of them
moves, and state their properties; `MCCampus` and `MCUpkeep` only give the constants
values for TLC. `Lease` is the abstract specification of the refresh lock: an instance is away, holds its turn, or
works on overdue. `Upkeep` reads whose turn it is off the jobs (`Turn`), the mapping under which `Jobs`
implements it (`RefreshesTakeTurns`). A constant that two components use for different things has two names here (`Member` is a
student of the grades, `Student` one of the register). Nothing flows between the scenes - in the code they meet only in
rows that no property relates - so one run per component and one run for all reach the same states, and
each has bounds of its own. Where components do act on each other they are composed for real: `Browser` with
`Sessions`, the resolver with the detector, `Access` with `Screens`.

## 3. Runs

| Run | Instance | States | Shows |
|---|---|---|---|
| `detection` | 2 hooks, 3 requests of a student and an administrator, 1 failure, 1 expiry, mass limit 3 | 2.5 million | the six properties below |
| `detection_scope` | same | violated | a privileged-scope window may stay open for ever |
| `detection_cooldown` | same | violated | two alerts of one layer in one cooldown |
| `accounts` | sessions: 2 users, 3 tokens, 2 requests, 1 failure; factor: 2 requests, 2 tickets, 2 secrets, 3 draws, 1 failure; symmetric | 1.5 million | the eight properties below |
| `sessions_revoke_all` | same | violated | a renewal in progress survives "revoke all" |
| `twofactor_onetime` | same | violated | one backup code opens two sessions |
| `twofactor_shown` | same | violated | the codes shown in the settings are never stored |
| `browser` | 1 user, 3 tokens, 2 tabs, 2 requests, 1 failure or lost reply, symmetric | 2.2 million | the three properties below |
| `campus` | 2 requests, 1 failure; per scene as below | 2.3 million | the fourteen properties below |
| `campus_failed_row` | the scene of the scores | violated | one failed row loses the scores of all |
| `upkeep` | per scene as below; fairness | 0.26 million | the nine properties below |
| `upkeep_lock` | the scene of the jobs, no failure, one crash | violated | the refresh lock may stay for ever |

**Bounds.** A race in the detector needs two hooks of one user, and an alert needs at most three
requests (two to build the evidence of both layers and one to meet it); `MassLimit` 3 lets the mass
rule fire within that; one refused request weighs 40 % so that two and a behaviour score cross
the thresholds. One failure and one expiry may fall at any step, which reaches every await once.
The requests of `MCDetection` are computed by `ResolveAccess` from two rules and the grades of
two owners: a refused and a granted foreign read, an owner's own anomalous read, a privileged
reader of two owners, and an anonymous one. For the sessions of `accounts`, two requests are the smallest race,
three tokens a login, its renewal and a second renewal (or second login); a token that is used up is never
issued again, which is what the 64 random bytes give. Symmetry permutes users, tokens and requests: all
of them are interchangeable in the actions and in every property, and no run checks liveness.

For the browser, two tabs and two requests are the smallest
race for the cookie; with three tokens a second login or a second renewal follows it. Failures and lost replies
share one bound. Its VIEW hides `swept`, history of `Sessions` that nothing in `Browser` reads.

For the second
factor, the other part of `accounts`, two requests make every pair of operations overlap, and three draws allow two confirmations and the
preview of a set-up in one behaviour; a bound of two sessions per code is tight with two requests and a third
session would exceed it. The two parts share the values that symmetry permutes: a user of the one is a ticket of the other,
a token of the one a draw of the other.

For `campus`: limits are brought down to what two requests can cross (2 failed logins, 1 known
address, 1 delete, 1 or 2 seats), and `MaxOps` (3 to 5 requests in all, two at a time) leaves room for a
set-up, two racing requests and a look at the result; three students exceed two seats; the room has a teacher and
a student, three openings of the page and two breaks; the export reads pages of one row and has four rows
and three ticks, so that rows arrive before, between and after its pages; scoring has two enrolments - one high,
one not -, two transactions and two trainings, the least for a deadlock and for mixed files.
Requests and students are interchangeable; no property of this run is temporal.

For `upkeep`: two notifications, two loads, two marks and one failure for the bell; two instances, one crash and one
failing call for the jobs, and again for the rules; four loads and one refused load per page, all roles and relations, for
the pages; two requests, a limit of one and three turns for the request's life; a working day of four or nine hours
from 20:00, which wraps round midnight, and four further requests for the score (a profile needs 50 samples; the
day gives 40 or 90).

**Deadlock** is off: the bounded runs end when their requests and tokens are used up.

**Fairness.** Only `upkeep` assumes any, weak fairness of single actions, in the scenes of the bell, the jobs and the rules:

- the bell's timer fires (`Poll`: `setInterval` of 60 s), the API answers a list or a mark it received, and the reply
  arrives: a lost or failed reply is an action of its own, bounded, so fairness says that not every
  request fails for ever. Pushes have no fairness: the bell must catch up without them;
- the job's timer fires on a running instance (`Tick`: `setInterval`), a run that began goes on (`JobStep`), keys with
  a deadline expire, a stopped instance is restarted by its supervisor, requests that need rules keep coming
  (`LoadRules`), and the rules' minute passes.

No fairness is assumed of the viewer, of a failure, or of a key without a deadline. All other runs check
safety: `CounterWindowCloses` and `CooldownHasItsAlert` say where an obligation stands at each moment
rather than that it is met.

**Properties of `detection`**

- `CounterWindowCloses` - a refusal or foreign-access counter has its deadline, or a hook is about
  to set it, or a failure fell exactly between INCR and EXPIRE, whoever bumps it in between.
- `AlertsPerCooldownBounded` - at most one alert per hook in flight passes one cooldown.
- `CooldownHasItsAlert` - a silenced layer has its alert stored, in progress, or lost to a failure.
- `AlertBackedByOwnEvidence` - every alert is explained by recorded requests of its own user, although
  the verdict is computed on one reading of keys that other hooks write and time removes; and its severity is one
  that its layer gives: never LOW, and HIGH or CRITICAL for a lone layer.
- `MaximumKeptUnlessOverlapped` - the stored score falls only under a writer that overlapped another.

**Properties of `accounts`**

- `OneRowPerLogin` - a login has at most one row, and none while a renewal owes it one.
- `RevokedStaysRevoked` - a session revoked at rest is never brought back by a request that had read it.
- `SessionsLostOnlyToFailures` - races cost nobody a session; each failed request costs at most one.
- `ImplementsSessionLife` - the refinement.
- `OpensBoundedByOverlap` - a backup code, and a ticket, opens at most as many sessions as there were requests
  in progress, however often it is tried later.
- `FactorHasItsCodes` - unless writers of the factor overlap or stop half way, an account with the factor has
  the codes of one draw and an account without it has none; a later set-up on its own repairs what an
  overlap left.

**Properties of `browser`**

- `RacingTabsKeepTheLogin` - tabs race for a cookie that is good once and each loser clears the shared
  storage; yet the token in the jar has its row, or the renewal that replaces it is under way, unless the session
  was revoked, went with its user, or a failure or lost reply struck it.
- `LogoutIsFinal` - after a logout no reply, of whichever tab and however late, brings a cookie or an access token back, unless
  a login or a renewal with a cookie was under way when the logout was answered.

**Properties of `campus`**

- `GuessesBounded` - until a success or the end of a window forgives it, an address tries at most its limit of passwords, plus
  one for each other request under way and each request that failed half way.
- `NoDeviceUnnoticed` - of a user with sessions from too many addresses an alert was raised, or a login of his is about to count
  or to alert. Sessions opened with a backup code or at the end of a set-up are set apart: nothing counts their address
  (section 4).
- `CapacityExcessExplained` - apart from students let back in, a course exceeds the most seats it had by no more than the other
  requests under way.
- `QrMarksOneStudent` - one token signs one student's row, although two may present it before either deletes it: the unique
  index on the token decides.
- `MarkedWhileActive` - who is marked was on the course when the row was written, or left it under the request that wrote it.
- `GradesFitTheirBound` - a grade above its maximum means that the maximum was lowered.
- `StaleWritesExplained` - slug and title agree and a toggle counts, unless a request wrote what it had read before
  another wrote.
- `UnpushedExplained` - a stored notification nobody was told of was passed by a newer one between insert and re-read,
  or its call failed.
- `RoomFollowsPage` - at rest the room has those whose page is open, but for a leave that overtook its join and a connection
  that broke (the page does not join again after a reconnect).
- `ExportMissesNothing` - a saved export within the limit of pages has every row that was there when it began, but for rows of
  one and the same time.
- `ModelFitsScaler` - model and scaler in a process belong together unless trainings overlapped or a file failed.
- `NoticeTellsOfStoredScores` - a notified score was stored, and only another run or batch replaced it. A run of which a row
  failed is the subject of `FailedRowsAreSkipped` and its finding: here it is only said to have stored nothing.
- `RatesWithinBounds` - a part exceeds its whole by at most the rows written between their two counts.

**Properties of `upkeep`**

- `BellCatchesUp` - what the bell shows becomes what is stored, whatever pushes, loads and marks are lost.
- `JobsRecur` - the refresh happens again and again unless the lock was left without a deadline: by an instance that stopped
  between INCR and EXPIRE, or by one of the two that failed (`orphaned`; `LockEnds` and its finding are about that case).
  A refused or skipped run, a failing refresh, a failing DEL and all other crashes do not end it. And an empty rule map
  left by a failed load is replaced.
- `RefreshesTakeTurns` - the refinement of `Lease`: a scheduled run begins only while no other holds the lock, and holds it
  until it ends, stops, or loses it to the deadline or to an overdue run that deletes it. So two runs overlap only
  after one outlived its lock (`OneRefreshAtATime`, a theorem).
- `OldProfileExplained` - an instance serves a profile older than the table only between a refresh of its own and the clearing that
  follows, if a look-up was under way when the cache was cleared, or if the refresh ran on another instance.
- `LinksAndCallsAreAdmitted` - pages send calls the API admits, and show links to pages that open, for every role and relation, but
  for the calls of `KnownRefusals`.
- `RowsFitTheChoice` - settled rows are those of the filter shown, unless replies crossed, a load failed or an old handler
  loaded; and the one list that cancels is never overtaken.
- `AnswersAreRecorded` - answers equal audit rows, rows being written, and rows lost to a failure or to shutdown.
- `StrangersStandOut` - outside the day later is stranger, a new address stranger than a known one, refused requests teach
  nothing, thin profiles blame nobody, and no signal alone reaches 0.6.

`TypeOK` of each module also says what a hook or request is entitled to at the await it reached.

## 4. Findings

1. **The scope window may never close** (`detection_scope`). Two hooks add owners before either reads
   the size; neither reads 1, and EXPIRE is never sent. The counters do not have this flaw, because
   INCR returns the count of its own increment.
2. **Two alerts per cooldown** (`detection_cooldown`). The cooldown key is read and set in two commands.
3. **Revoke-all misses a renewal in progress** (`sessions_revoke_all`). Between its delete and its insert
   a renewal has no row to be deleted, and the insert follows.
4. **A backup code may open two sessions** (`twofactor_onetime`). It is looked up among the unused ones and
   marked by id in a later statement.
5. **Codes shown in the settings are never valid** (`twofactor_shown`). `setup2FA` returns a preview that
   `confirm2FA` was meant to save; it stores another draw, which the settings page does not show. This
   needs neither overlap nor failure.
6. **One failed row loses the whole nightly run** (`campus_failed_row`). The inner `except` of `nightly_risk_calculation` goes on in
   an aborted transaction, so every later UPDATE is refused and the commit is a rollback. `PROJECT_CONTEXT.md:468` says
   "per-enrollment failures logged and skipped; task retries up to 3× (5-min delay) on full failure". What had been scored
   high before the failure is announced all the same.
7. **The refresh lock may stay for ever** (`upkeep_lock`). INCR and EXPIRE are two commands, and the comment at
   `profileRefresh.ts:44` promises that the lock does not stay even if the process crashes. The run stops an instance
   between them. The module shows the same without a crash: `acquireLock` is awaited before the `try`, so a rejected
   EXPIRE ends `runOnce` with the lock in place, and the process lives on (`errorReporter.ts:87`).

The browser model also contains, without a promise in the code against it, a renewal in flight at logout whose
reply restores the cookie. `LogoutIsFinal` is the other side of it: nothing but such a renewal or a login does.

Met while modelling, against a line that promises otherwise, but with no order of steps for a run to find: logout does not delete
the row of the session. The cookie's path is `/v1/auth/refresh` (`auth.routes.ts:35`), so the request to `/v1/auth/logout` comes
without it and `authService.logout` is not called (`auth.routes.ts:161`); `PROJECT_CONTEXT.md:210` says of POST /logout
"Deletes refresh token from DB". The row stays until it expires or is revoked.

Met while modelling, none of them against a line that promises otherwise: a session opened with a backup code
(`auth.service.ts:244`) or by `/2fa/setup-finish` calls neither `checkMultiDevice` nor `checkUnusualHour`, so its address is
not counted until a login from there is; `submitGrade` does not compare the course of
the enrolment with that of the assessment; enrolments and QR marks race past their checks, as the names of the
properties above say; workers never call `load_model` at start, so the nightly run uses the
fallback rule until that worker has trained; the legacy batch does not keep its scores to 0..1; the
dashboard's rate may pass 100 %. Of the pages: `KnownRefusals` lists what the API refuses to viewers a page admits
(a teacher opening a student's account, everybody's login history in the settings, a teacher's "compute scores",
a student on the course attendance page); the settings' 2FA switch turned off changes only the page; nothing links to
the enrolments page; after a reconnect the attendance page does not rejoin its room.

Beside these: the comment on `DENIED_SATURATION` says five refusals make the risk full; the code
gives 0.8 at five and 1.0 at seven. It changes no property here, since the weight is a constant.

## 5. Proofs

Every theorem holds for any sets of users, requests, tokens, courses and so on, and for any bounds; where a
proof counts something, the set it counts is assumed finite (below). Every safety property that a passing run checks
is a theorem.

| Module | Theorem | States | Argument |
|---|---|---|---|
| `CorrelationProofs` | `ScopeAloneIsSilent`, `LoneBehaviorNeedsScore`, `AlertSeverity` | the verdict | bounds of the three factors (`FactorBounds`), then linear arithmetic from the assumptions on the thresholds |
| `DetectionProofs` | `TypeCorrect` | `TypeOK` | inductive because `HookTyped` records what a hook knows by its await; without it the counter actions are not typed |
| | `CountersClose` | `CounterWindowCloses` | the hook that reads 1 is the one that created the key, and `AboutToExpire` follows it |
| | `CooldownBounds`, `OneAlertWithoutOverlap` | `AlertsPerCooldownBounded` | `CooldownBudget`: alerts raised plus hooks that have passed the GET never exceed the hooks, and nothing is raised while the key is absent |
| | `SilenceHasItsAlert` | `CooldownHasItsAlert` | inductive with `TypeOK` |
| `DetectionEvidence` | `AlertsAreBacked`, `MaximumKept` | `AlertBackedByOwnEvidence`, `MaximumKeptUnlessOverlapped` | `EvidenceInv`: the window of each user, and the verdict each hook carries, are backed by recorded requests. Evidence only grows while windows only shrink by time, so a verdict stays backed over the awaits; reading a backed window gives a backed verdict by the lemmas of `CorrelationProofs` |
| `SessionsProofs` | `TypeCorrect`, `RotationNeverForks`, `RevocationIsFinal` | `TypeOK`, `OneRowPerLogin`, `RevokedStaysRevoked` | `SessionInv`: type, at most one row or renewal per login, none for a revoked one - each part needs the others |
| | `SessionsImplementLife` | `ImplementsSessionLife` | every step is a step of `SessionLife` or a stutter on `Stands` (`StepShape`) |
| | `RacesLoseNoSession` | `SessionsLostOnlyToFailures` | each step loses no session, or one and counts a failure; `FewLost` carries finiteness |
| `BrowserProofs` | `BrowserTypes` | `TypeOK` | with the types of `Sessions`: what is on the wire is what its place entitles it to |
| | `TheLoginSurvivesTheRace` | `RacingTabsKeepTheLogin` | `BrowserInv`: a new token travels in one reply and is nowhere else until that is stored (`Apart`), and what the server does for a request is what the wire asked for (`Linked`); so nobody can have spent a token that reaches the jar |
| | `LogoutsAreFinal` | `LogoutIsFinal` | `LogoutInv`: signed out, the jar is empty and nothing on the wire may bring a cookie; a request joins those that may only by a login or with a cookie (`NoneJoins`), and a logout makes sure of it when it is answered (`LogoutStep`) |
| | `RoutesUseTheSessions` | | `Spec => Server!Spec`: every step of browser and routes is a step of `Sessions` or leaves its variables alone |
| | `RoutesNeverForkASession` | | the theorems of `SessionsProofs`, carried over that refinement |
| `TwoFactorProofs`, over `Accounts` | `FactorTypes` | `FactorTypeOK` | `StoredTyped` and `HoldsInv`, what a request holds at each await |
| | `OpensStayBounded` | `OpensBoundedByOverlap` | `Bounded`, a budget as for the cooldown: sessions opened with a code plus requests that have looked it up while it was good never exceed the requests; once it is spent nobody enters the second number |
| | `CodesFollowTheFactor` | `FactorHasItsCodes` | `FactorInv`: while no writer has overlapped or stopped, there is one at most, and the await it is at says how rows and flag differ |
| `CampusProofs` | `CampusTypes` | `TypeOK` | a typed set of requests per scene, from which the parts below also draw |
| | `SheetNamesItsCourse` | `MarkedWhileActive` | `SheetInv`: a request past its look at an enrolment (`Marking`) finds it ACTIVE or ended under such a request (`Seen`); so does the row it writes |
| | `TokensSignOnce` | `QrMarksOneStudent` | `OneRow`: a token is on one row of the sheet; its unique index refuses a second insert, and updates write none that is new |
| | `SeatsExceededExplained` | `CapacityExcessExplained` | `SeatsInv`: students who were never let back in and requests past their count together stay below the most seats plus the requests (`RoomFor`); a count that finds a free seat adds a request, its insert turns it into a student |
| | `GradesStayInBounds` | `GradesFitTheirBound` | `GradesInv`: a submission under way fits its assessment unless that was lowered or deleted since (`Checked`), because the id of a deleted assessment is never live again |
| | `StaleWritesHaveAReason` | `StaleWritesExplained` | `NamesInv`: a renaming that keeps the slug writes the title the row has, or the row is on record as stale (`KeptTitles`); a toggle writes the opposite of what the row has, or toggles crossed (`Opposites`); a row being inserted is nobody else's (`Fresh`) |
| | `NoDeviceGoesUnnoticed` | `NoDeviceUnnoticed` | `Noticed`: a set of too many addresses (`Crowded`) has its alert, or a request that has yet to count or to alert (`Expected`); `Tallied`: an address a session was opened from is in the set, or set apart as uncounted, or about to be added, or there was a failure |
| | `GuessesAreBounded` | `GuessesBounded` | `Limited`: before the block, tries stay within the counter and below the limit but for requests about to block and failures; after it, tries and requests past their look at the block together stay below the limit, the requests and the failures |
| | `RoomsFollowPages` | `RoomFollowsPage` | `RoomInv`: the last word on a client's wire is what the page wants (`LastWord`); what `Forgotten`, `StaysOut` and `ComesIn` say of the checks in flight then decides the room at rest |
| | `UnpushedHasAReason` | `UnpushedExplained` | `NoticesInv`: a list being pushed is one of stored rows (`ListsStored`), and a row it misses was passed by a newer one (`NewerPass`) |
| | `ExportsMissNothing` | `ExportMissesNothing` | `ExportInv`: a row that was there when the export began either was read or lies at or behind the next page (`LiesBehind`); new rows come before it, so its rank never falls |
| | `ModelsMeetTheirScalers` | `ModelFitsScaler` | `ModelsInv`: the files fit but between the two writes of one training (`DiskFits`, `OneBetween`), a load that read one file knows which (`HalfLoaded`), and what was loaded fits (`Fitted`) |
| | `NoticesTellOfStoredScores` | `NoticeTellsOfStoredScores` | `RunsInv`: what a run counted it has written, or its transaction is aborted and wrote nothing (`CountsWritten`); what it announces is stored unless another run began (`Told`) |
| | `RatesStayWithinBounds` | `RatesWithinBounds` | `StatsInv`: the earlier count was of a subset of today's rows, and the rows written since are counted; the legacy join is a set of copies of rows |
| `UpkeepProofs` | `UpkeepTypes` | `TypeOK` | `ScenesTyped`; that a profile's samples are the rows of its hours is `HoursAddUp`, cardinalities of disjoint sets |
| | `TheLockIsALease` | `RefreshesTakeTurns` | every step is a step of `Lease` or a stutter on `Turn` (`TurnStep`), by the same `LockInv` |
| | `RefreshesExclude` | `OneRefreshAtATime` | `LockInv`: who overran is still at work, and of the others at most one is, and then the lock is taken (`Holders`); the property alone is not kept by the crash of the one that overran |
| | `OldProfilesHaveAReason` | `OldProfileExplained` | `ProfileInv`: an instance that has cached, or is reading, an old profile is about to clear its cache or has an excuse |
| | `AnswersAreAccountedFor` | `AnswersAreRecorded` | `RecordInv`: answers are rows, losses, and requests at their recording hook, a sum every step keeps |
| | `RowsFollowTheChoice` | `RowsFitTheChoice` | `RowsInv`: but for an excuse, the load sent last asks for the present choice, and is in flight or on screen (`LastLoad`) |
| | `PagesFitTheRoutes` | `LinksAndCallsAreAdmitted` | `AccessInv`: the page shown admits its viewer; then a case per page of where it links (`LinksLead`) and what it calls (`RefusalsExcused`) |
| | `TrustIsEarned` | `AddressesEarnTrust` of `Scoring` | `HabitsInv`: a known address has three allowed rows in the log, which only grows |
| | `StrangersAreSeen` | `StrangersStandOut` | `HabitsInv` also says that a profile is empty or counts the working day (`DayCounted`), whatever hour its other rows were in; below |

`OneAlertWithoutOverlap` shows what the finding on the cooldown is about: with a single hook the
documented promise is a theorem; the overlap is what breaks it. `OpensStayBounded` does the same for the finding
on backup codes: one request at a time opens one session.

**The score.** The hours wrap round midnight, and smoothing sums over a window of eleven of them.
`SmoothIsBlur` replaces `Smooth` by a sum over distances whose weights fall (`KernelWeights`), with no modulo left;
`LaterIsRarer` then compares two hours after the day term by term: each step away from the day lowers every weight, as long
as the far side of the clock is out of the window's reach - which is what bounds the day at fourteen hours. `Peak` is
the largest of 24 numbers and exists (`MaxExists`, from the well-foundedness of the naturals).
`NoisyOr` and `Scored` turn a score into one product, `Farther` and `OneSignal` compare those. The score is
an exact fraction, so that strict comparisons hold with any number of requests, as no grid of fixed width would let them.

**How a scene is proved.** `Scenes` turns a step of `Campus` into a step of the component whose scene it is; the
invariant of one scene is `scene = ".." => ..`, and the other scenes leave its state alone. Under it there
is one lemma per action, or per group of actions that touch the same variables, and one step per conjunct. All
invariants were checked by TLC before they were proved, as invariants of the runs' instances: those of `Campus` over
2.3 million states, of `Upkeep` over 0.26 million, of `Browser` over 2.2 million, of `Accounts` over 1.5 million.

**Assumptions.** The named `ASSUME`s of `Correlation`, `Detection`, `Sessions`, `Accounts`, `Browser`, `Campus` and
`Upkeep` - `Accounts` and the last two gather those that each component defines - and nothing else. TLC evaluates all of them in the
runs. Beyond the types of bounds they say:

- a value that stands for "none" (`Nobody`, `NoToken`, `NoTab`, `None`, `"none"`) is not one of the things it stands beside;
- the requests of one process, students, enrolments and lessons, addresses, and the open requests of `Lifecycle` are finite
  sets: each is a table or a list in memory;
- limits are at least 1, or 2 for failed logins, where the code's constant is (ten failures, the rows of a page, the rate
  limit, backup codes of a draw), and the bounds of the export's clock and of a page's loads leave room for the first;
- the working day of the score is at most 14 hours, so that five hours after its end are still out of reach of its beginning;
- there is a password (`Password # {}`), and the address of the working day is none of the further ones
  (`Home \notin Address`);
- the thresholds of the verdict stand in the order the code's comments intend.

**Only model-checked:**

- `BellCatchesUp` and `JobsRecur`: liveness under fairness, which needs `ENABLED`;
- the violated properties of section 4, which are refuted rather than proved.

No module here declares a `RECURSIVE` operator.

## 6. Plan

Modelled and checked: every module named above. Proved: all their safety, and both abstract specifications
(`SessionLife`, `Lease`). Left: the login page as a page of `Screens`, with its steps and the calls of the second factor.

## 7. What is left out

- Rule inference (`ownershipInference.ts`, `ownershipPaths.ts`) and the evaluation tools: run by hand, sequential, statistics
  over a log that nothing else changes meanwhile; a model would restate their arithmetic.
- Configuration, logging, e-mail: parsed once or sent and forgotten.
- The in-memory stand-in for Redis: development only; production runs on Redis alone.
- Parsing and validation of request bodies, sorting and formatting of lists, the trend series of the dashboards.
- The forest of the analytics service: `Risk` lets a trained model give either extreme; the fallback rule is exact on a grid of tenths.
- The login page (its server side is `TwoFactor` and `LoginGuard`), translations and layout of the web client.
- Deletion of courses and enrolments with their rows: a cascade of the database that the modelled requests do not depend on.
