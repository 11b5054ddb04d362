----------------------------- MODULE Catalogue -----------------------------
(* Rows with a unique key and writes that rest on an earlier read: the     *)
(* slug a course takes from its title (course.service.ts, slug.ts), the    *)
(* e-mail address of a new user, and the status and the password of a user *)
(* (user.service.ts).                                                      *)
EXTENDS Naturals, FiniteSets

CONSTANTS
    Handler, Course, Title,   \* titles stand for what slugify makes of them
    Suffix,                   \* 1 is the bare slug, n the slug with -n
    User, Email, Password,
    MaxOps, MaxFaults

CatalogueAssumption ==
    /\ Suffix \subseteq Nat /\ 1 \in Suffix /\ Password # {}
    /\ MaxOps \in Nat /\ MaxFaults \in Nat

VARIABLES
    catalogue,  \* title and slug of a course
    users,      \* e-mail, status and password of a user
    op, ops, faults,
    stale,      \* history: courses written under a request that had read them
    crossed,    \* history: users whose status was written under such a request
    acked       \* history: answered toggles of a user, modulo 2

vars == <<catalogue, users, op, ops, faults, stale, crossed, acked>>

noCourse == [row |-> FALSE]
noUser == [row |-> FALSE]
Slug == Title \X Suffix
Taken(slug, except) == \E c \in Course \ {except} : catalogue[c].row /\ catalogue[c].slug = slug

idle == [at |-> "idle"]
At(h, step) == op[h].at = step
Busy(id) == \E h \in Handler : ~At(h, "idle") /\ op[h].id = id
Finish(h) == op' = [op EXCEPT ![h] = idle]
Begin(h, request) ==
    /\ At(h, "idle") /\ ops < MaxOps
    /\ ops' = ops + 1
    /\ op' = [op EXCEPT ![h] = request]
history == <<stale, crossed, acked>>

Init ==
    /\ catalogue = [c \in Course |-> noCourse]
    /\ users = [u \in User |-> noUser]
    /\ op = [h \in Handler |-> idle] /\ ops = 0 /\ faults = 0
    /\ stale = {} /\ crossed = {} /\ acked = [u \in User |-> 0]

-----------------------------------------------------------------------------
(* create: the id is new, the slug is the first one not taken. *)
Create(h, c, title) ==
    /\ ~catalogue[c].row /\ ~Busy(c)
    /\ Begin(h, [at |-> "slug", id |-> c, title |-> title, n |-> 1, new |-> TRUE, slug |-> TRUE])
    /\ UNCHANGED <<catalogue, users, faults, history>>

(* update recomputes the slug only if the title it read is another one. *)
UpdateAlways(h, c, title) ==
    /\ catalogue[c].row
    /\ Begin(h, [at |-> "write", id |-> c, title |-> title, n |-> 1, new |-> FALSE, slug |-> FALSE])
    /\ UNCHANGED <<catalogue, users, faults, history>>

Update(h, c, title) ==
    LET renamed == catalogue[c].title # title IN
    /\ catalogue[c].row
    /\ Begin(h, [at |-> IF renamed THEN "slug" ELSE "write", id |-> c, title |-> title,
                 n |-> 1, new |-> FALSE, slug |-> renamed])
    /\ UNCHANGED <<catalogue, users, faults, history>>

(* uniqueSlug: one look-up for each candidate. *)
TrySlug(h) ==
    LET slug == <<op[h].title, op[h].n>> IN
    /\ At(h, "slug")
    /\ IF Taken(slug, op[h].id)
       THEN op[h].n + 1 \in Suffix /\ op' = [op EXCEPT ![h].n = @ + 1]
       ELSE op' = [op EXCEPT ![h].at = "write"]
    /\ UNCHANGED <<catalogue, users, ops, faults, history>>

(* The unique index on slug refuses the second of two equal ones. *)
WriteCourse(h) ==
    LET c == op[h].id   slug == <<op[h].title, op[h].n>> IN
    /\ At(h, "write")
    /\ IF op[h].slug /\ Taken(slug, c)
       THEN UNCHANGED <<catalogue, stale>>
       ELSE /\ catalogue' = [catalogue EXCEPT ![c] =
                 [row |-> TRUE, title |-> op[h].title,
                  slug |-> IF op[h].slug THEN slug ELSE catalogue[c].slug]]
            /\ stale' = IF \E g \in Handler \ {h} : op[g].at \in {"slug", "write"} /\ op[g].id = c
                        THEN stale \cup {c} ELSE stale
    /\ Finish(h)
    /\ UNCHANGED <<users, ops, faults, crossed, acked>>

-----------------------------------------------------------------------------
(* create of a user: the address must be free, the hash takes its time. *)
EmailTaken(email) == \E u \in User : users[u].row /\ users[u].email = email

CreateUser(h, u, email) ==
    /\ ~users[u].row /\ ~EmailTaken(email)
    /\ ~Busy(u)
    /\ Begin(h, [at |-> "insertUser", id |-> u, email |-> email])
    /\ UNCHANGED <<catalogue, users, faults, history>>

InsertUser(h) ==
    LET u == op[h].id IN
    /\ At(h, "insertUser")
    /\ users' = IF EmailTaken(op[h].email) THEN users
                ELSE [users EXCEPT ![u] = [row |-> TRUE, email |-> op[h].email, active |-> 1,
                                           password |-> CHOOSE p \in Password : TRUE]]
    /\ Finish(h)
    /\ UNCHANGED <<catalogue, ops, faults, history>>

(* toggleStatus writes the opposite of what it read. *)
ToggleStatus(h, u) ==
    /\ users[u].row
    /\ Begin(h, [at |-> "toggle", id |-> u, active |-> 1 - users[u].active])
    /\ UNCHANGED <<catalogue, users, faults, history>>

WriteStatus(h) ==
    LET u == op[h].id IN
    /\ At(h, "toggle")
    /\ users' = [users EXCEPT ![u].active = op[h].active]
    /\ acked' = [acked EXCEPT ![u] = 1 - @]
    /\ crossed' = IF \E g \in Handler \ {h} : At(g, "toggle") /\ op[g].id = u
                  THEN crossed \cup {u} ELSE crossed
    /\ Finish(h)
    /\ UNCHANGED <<catalogue, ops, faults, stale>>

(* changePassword compares with the hash it read. *)
ChangePassword(h, u, old, new) ==
    /\ users[u].row /\ users[u].password = old
    /\ Begin(h, [at |-> "password", id |-> u, new |-> new])
    /\ UNCHANGED <<catalogue, users, faults, history>>

WritePassword(h) ==
    /\ At(h, "password")
    /\ users' = [users EXCEPT ![op[h].id].password = op[h].new]
    /\ Finish(h)
    /\ UNCHANGED <<catalogue, ops, faults, history>>

RequestEnds(h) ==
    /\ ~At(h, "idle") /\ faults < MaxFaults
    /\ faults' = faults + 1
    /\ Finish(h)
    /\ UNCHANGED <<catalogue, users, ops, history>>

Next == \E h \in Handler :
    \/ \E c \in Course, title \in Title : Create(h, c, title) \/ Update(h, c, title)
    \/ TrySlug(h) \/ WriteCourse(h)
    \/ \E u \in User, email \in Email : CreateUser(h, u, email)
    \/ \E u \in User : ToggleStatus(h, u)
    \/ \E u \in User, old, new \in Password : old # new /\ ChangePassword(h, u, old, new)
    \/ InsertUser(h) \/ WriteStatus(h) \/ WritePassword(h) \/ RequestEnds(h)

Spec == Init /\ [][Next]_vars

-----------------------------------------------------------------------------
(* The rows and what each request read of them.                           *)
TypeOK ==
    /\ \A c \in Course : catalogue[c] = noCourse
                         \/ catalogue[c] \in [row : {TRUE}, title : Title, slug : Slug]
    /\ \A u \in User : users[u] = noUser
                       \/ users[u] \in [row : {TRUE}, email : Email, active : {0, 1}, password : Password]
    /\ ops \in 0..MaxOps /\ faults \in 0..MaxFaults
    /\ stale \subseteq Course /\ crossed \subseteq User /\ acked \in [User -> {0, 1}]

(* The address of a course follows its title, and no two courses share it, *)
(* unless two updates of one course overlap: the one that read the old     *)
(* title leaves the slug alone (course.service.ts, update).                *)
SlugFollowsTitle ==
    \A c \in Course : catalogue[c].row =>
        /\ ~Taken(catalogue[c].slug, c)
        /\ catalogue[c].slug[1] = catalogue[c].title \/ c \in stale

(* Every toggle that was answered counts, unless two toggles of one user   *)
(* overlapped and one was lost (user.service.ts, toggleStatus).            *)
TogglesCount ==
    \A u \in User : users[u].row => users[u].active = 1 - acked[u] \/ u \in crossed

(* A write that rests on an earlier read goes wrong only where two         *)
(* requests for the same row overlapped.                                   *)
StaleWritesExplained == SlugFollowsTitle /\ TogglesCount
=============================================================================
