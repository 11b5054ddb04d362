-------------------------------- MODULE Bell --------------------------------
(* The notification bell of one user (components/notification-bell.tsx)    *)
(* over his rows on the server (notification.service.ts).  The bell loads  *)
(* when it opens, once a minute and on every pushed event; replies may be  *)
(* lost or come back in another order.  Marking is shown at once and sent  *)
(* afterwards.                                                             *)
EXTENDS Naturals, FiniteSets

CONSTANTS
    Id,          \* notifications of the user
    Load,        \* loads in flight at one time
    MaxMarks,    \* bound: clicks
    MaxFaults    \* bound: failing requests and lost events

BellAssumption == MaxMarks \in Nat /\ MaxFaults \in Nat

VARIABLES
    server,      \* rows and their read_at
    shown,       \* the list of the bell
    load,        \* loads in flight
    mark,        \* the marking request in flight
    pushed,      \* events on their way to the browser
    marks, faults

vars == <<server, shown, load, mark, pushed, marks, faults>>

State == {"none", "unread", "read"}
nothing == [i \in Id |-> "none"]
idle == [at |-> "idle"]
quiet == [at |-> "quiet"]

Init ==
    /\ server = nothing /\ shown = nothing
    /\ load = [l \in Load |-> idle] /\ mark = quiet
    /\ pushed = {} /\ marks = 0 /\ faults = 0

-----------------------------------------------------------------------------
(* create and createMany of the server: the row, then the event. *)
Notify(i) ==
    /\ server[i] = "none"
    /\ server' = [server EXCEPT ![i] = "unread"]
    /\ pushed' = pushed \cup {i}
    /\ UNCHANGED <<shown, load, mark, marks, faults>>

(* load(): asked, answered by the server, arrived. *)
Ask(l) == load' = [load EXCEPT ![l] = [at |-> "asked"]]
LoadNow == \/ \E l \in Load : load[l] = idle /\ Ask(l)
           \/ (\A l \in Load : load[l] # idle) /\ UNCHANGED load

PollOnce(l) == shown = nothing /\ load[l] = idle /\ Ask(l)
               /\ UNCHANGED <<server, shown, mark, pushed, marks, faults>>

Poll(l) ==
    /\ load[l] = idle
    /\ Ask(l)
    /\ UNCHANGED <<server, shown, mark, pushed, marks, faults>>

EventArrives(i) ==
    /\ i \in pushed
    /\ pushed' = pushed \ {i}
    /\ LoadNow
    /\ UNCHANGED <<server, shown, mark, marks, faults>>

EventLost(i) ==
    /\ i \in pushed /\ faults < MaxFaults
    /\ pushed' = pushed \ {i}
    /\ faults' = faults + 1
    /\ UNCHANGED <<server, shown, load, mark, marks>>

ServeList(l) ==
    /\ load[l].at = "asked"
    /\ load' = [load EXCEPT ![l] = [at |-> "answered", rows |-> server]]
    /\ UNCHANGED <<server, shown, mark, pushed, marks, faults>>

ListArrives(l) ==
    /\ load[l].at = "answered"
    /\ shown' = load[l].rows
    /\ load' = [load EXCEPT ![l] = idle]
    /\ UNCHANGED <<server, mark, pushed, marks, faults>>

(* A failing list is caught and shown as an empty one. *)
ListFails(l) ==
    /\ load[l] # idle /\ faults < MaxFaults
    /\ faults' = faults + 1
    /\ shown' = nothing
    /\ load' = [load EXCEPT ![l] = idle]
    /\ UNCHANGED <<server, mark, pushed, marks>>

-----------------------------------------------------------------------------
(* openItem and markAllRead: the bell first, then the request. *)
AsRead(rows, ids) == [i \in Id |-> IF i \in ids /\ rows[i] = "unread" THEN "read" ELSE rows[i]]

Click(ids) ==
    /\ mark = quiet /\ marks < MaxMarks
    /\ marks' = marks + 1
    /\ shown' = AsRead(shown, ids)
    /\ mark' = [at |-> "asked", ids |-> ids]
    /\ UNCHANGED <<server, load, pushed, faults>>

OpenItem(i) == shown[i] # "none" /\ Click({i})
MarkAllRead == (\E i \in Id : shown[i] # "none") /\ Click(Id)

(* PATCH /:id/read finds no unread row of that id and answers 404;         *)
(* PATCH /read-all counts.                                                 *)
ServeMark ==
    LET found == {i \in mark.ids : server[i] = "unread"} IN
    /\ mark.at = "asked"
    /\ server' = AsRead(server, mark.ids)
    /\ mark' = [at |-> IF found = {} /\ mark.ids # Id THEN "refused" ELSE "done"]
    /\ UNCHANGED <<shown, load, pushed, marks, faults>>

MarkAnswered ==
    /\ mark.at = "done"
    /\ mark' = quiet
    /\ UNCHANGED <<server, shown, load, pushed, marks, faults>>

(* catch: load again. *)
MarkRefused ==
    /\ mark.at = "refused"
    /\ mark' = quiet
    /\ LoadNow
    /\ UNCHANGED <<server, shown, pushed, marks, faults>>

MarkFails ==
    /\ mark # quiet /\ faults < MaxFaults
    /\ faults' = faults + 1
    /\ mark' = quiet
    /\ LoadNow
    /\ UNCHANGED <<server, shown, pushed, marks>>

Replies ==
    \/ \E l \in Load : ServeList(l) \/ ListArrives(l)
    \/ ServeMark \/ MarkAnswered \/ MarkRefused

Next ==
    \/ Replies
    \/ \E l \in Load : Poll(l) \/ ListFails(l)
    \/ \E i \in Id : Notify(i) \/ EventArrives(i) \/ EventLost(i) \/ OpenItem(i)
    \/ MarkAllRead \/ MarkFails

(* The interval ticks for as long as the bell is mounted, and a request    *)
(* that is not lost is answered.                                           *)
Fairness ==
    /\ \A l \in Load : WF_vars(Poll(l)) /\ WF_vars(ServeList(l)) /\ WF_vars(ListArrives(l))
    /\ WF_vars(ServeMark) /\ WF_vars(MarkAnswered) /\ WF_vars(MarkRefused)

Spec == Init /\ [][Next]_vars /\ Fairness

-----------------------------------------------------------------------------
(* The list of the server and of the bell, and what is on its way.        *)
TypeOK ==
    /\ server \in [Id -> State] /\ shown \in [Id -> State]
    /\ \A l \in Load :
        \/ load[l] \in {idle, [at |-> "asked"]}
        \/ load[l] \in [at : {"answered"}, rows : [Id -> State]]
    /\ \/ mark \in {quiet, [at |-> "refused"], [at |-> "done"]}
       \/ mark \in [at : {"asked"}, ids : SUBSET Id]
    /\ pushed \subseteq Id /\ marks \in 0..MaxMarks /\ faults \in 0..MaxFaults

(* Whatever was lost, refused, shown too early or replaced by an older     *)
(* reply, the bell ends up showing the server's list, for the interval     *)
(* loads again (notification-bell.tsx, load and its setInterval).          *)
BellCatchesUp == <>[](shown = server)
=============================================================================
