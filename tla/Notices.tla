------------------------------ MODULE Notices ------------------------------
(* Notifications of the server (notification.service.ts) and the events it *)
(* pushes (realtime/gateway.ts): a row is stored first and pushed after,   *)
(* and createMany has to read its rows back to push them.                  *)
EXTENDS Naturals, Sequences, FiniteSets

CONSTANTS
    Handler, User,
    Admins,            \* the active users notifyAdmins writes to
    MaxOps, MaxFaults

NoticesAssumption == Admins \subseteq User /\ MaxOps \in Nat /\ MaxFaults \in Nat

VARIABLES
    rows,     \* notifications in the order of their ids: owner, events pushed
    op, ops, faults,
    lost      \* history: rows whose request ended before it pushed them

vars == <<rows, op, ops, faults, lost>>

idle == [at |-> "idle"]
At(h, step) == op[h].at = step
Finish(h) == op' = [op EXCEPT ![h] = idle]
Begin(h, request) ==
    /\ At(h, "idle") /\ ops < MaxOps
    /\ ops' = ops + 1
    /\ op' = [op EXCEPT ![h] = request]

Members(list) == {list[k] : k \in DOMAIN list}
Row(u) == [to |-> u, pushed |-> 0, passed |-> FALSE]
Ids == DOMAIN rows
Own(u) == {i \in Ids : rows[i].to = u}
Newest(ids, n) == {i \in ids : Cardinality({j \in ids : j > i}) < n}
Push(ids) == rows' = [i \in Ids |-> IF i \in ids THEN [rows[i] EXCEPT !.pushed = @ + 1] ELSE rows[i]]

Init ==
    /\ rows = <<>>
    /\ op = [h \in Handler |-> idle] /\ ops = 0 /\ faults = 0
    /\ lost = {}

-----------------------------------------------------------------------------
(* The caller of create or createMany (enroll, mark, submitGrade) or of    *)
(* notifyAdmins has its list of recipients.                                *)
Create(h, u) ==
    /\ Begin(h, [at |-> "insert", to |-> <<u>>, one |-> TRUE])
    /\ UNCHANGED <<rows, faults, lost>>

CreateMany(h, list) ==
    /\ list # <<>>
    /\ Begin(h, [at |-> "insert", to |-> list, one |-> FALSE])
    /\ UNCHANGED <<rows, faults, lost>>

NotifyAdmins(h, list) ==
    /\ Members(list) = Admins /\ Len(list) = Cardinality(Admins)
    /\ CreateMany(h, list)

(* A row stored between the insert and the re-read of another list of one  *)
(* of its recipients takes a place among the newest.                       *)
PassedBy(list) == UNION {op[g].ids : g \in
    {g \in Handler : At(g, "reread") /\ Members(op[g].to) \cap Members(list) # {}}}

InsertRows(h) ==
    LET list == op[h].to
        ids == (Len(rows) + 1)..(Len(rows) + Len(list))
        stored == [i \in Ids |-> IF i \in PassedBy(list) THEN [rows[i] EXCEPT !.passed = TRUE]
                                                          ELSE rows[i]]
    IN
    /\ At(h, "insert")
    /\ rows' = stored \o [k \in 1..Len(list) |-> Row(list[k])]
    /\ op' = [op EXCEPT ![h] = [at |-> IF @.one THEN "emit" ELSE "reread", to |-> list, ids |-> ids]]
    /\ UNCHANGED <<ops, faults, lost>>

(* create pushes the row it got back. *)
EmitOne(h) ==
    /\ At(h, "emit")
    /\ Push(op[h].ids)
    /\ Finish(h)
    /\ UNCHANGED <<ops, faults, lost>>

(* createMany pushes the newest rows of its recipients, as many as it stored. *)
EmitNewestOfAll(h) ==
    /\ At(h, "reread")
    /\ Push(Newest(Ids, Len(op[h].to)))
    /\ Finish(h)
    /\ UNCHANGED <<ops, faults, lost>>

EmitNewest(h) ==
    /\ At(h, "reread")
    /\ Push(Newest(UNION {Own(u) : u \in Members(op[h].to)}, Len(op[h].to)))
    /\ Finish(h)
    /\ UNCHANGED <<ops, faults, lost>>

(* An error is logged and swallowed; the rows stored stay. *)
CallFails(h) ==
    /\ ~At(h, "idle") /\ faults < MaxFaults
    /\ faults' = faults + 1
    /\ lost' = IF At(h, "insert") THEN lost ELSE lost \cup op[h].ids
    /\ Finish(h)
    /\ UNCHANGED <<rows, ops>>

Lists == {<<u>> : u \in User} \cup {<<u, v>> : u, v \in User}

Next ==
    \E h \in Handler :
        \/ \E u \in User : Create(h, u)
        \/ \E list \in {l \in Lists : Len(l) = 2 => l[1] # l[2]} : CreateMany(h, list) \/ NotifyAdmins(h, list)
        \/ InsertRows(h) \/ EmitOne(h) \/ EmitNewest(h) \/ CallFails(h)

Spec == Init /\ [][Next]_vars

-----------------------------------------------------------------------------
(* The rows with the events pushed for each, and the requests.            *)
TypeOK ==
    /\ rows \in Seq([to : User, pushed : 0..MaxOps, passed : BOOLEAN])
    /\ ops \in 0..MaxOps /\ faults \in 0..MaxFaults /\ lost \subseteq Ids

(* A row nobody pushed is on its way, lost to a failure, or was passed by  *)
(* a newer row of one of the recipients between its insert and the re-read *)
(* (createMany, take: list.length).                                        *)
UnpushedExplained ==
    \A i \in Ids : rows[i].pushed = 0 =>
        \/ \E h \in Handler : op[h].at \in {"reread", "emit"} /\ i \in op[h].ids
        \/ rows[i].passed
        \/ i \in lost
=============================================================================
