------------------------------- MODULE Rooms -------------------------------
(* The socket of a browser (lib/realtime.tsx) and the rooms of the server  *)
(* (realtime/gateway.ts).  The attendance page of one course joins its     *)
(* room when it opens and leaves it when it closes; the join awaits a      *)
(* check in the database, the leave does not.                              *)
EXTENDS Naturals, Sequences, FiniteSets

CONSTANTS
    Client,
    Teacher,      \* the clients who teach the course or are privileged
    Privileged,   \* the administrators and deans, for whom nothing is queried
    MaxPages,     \* bound: openings of the page
    MaxBreaks     \* bound: lost connections and failing checks

RoomsAssumption ==
    /\ Teacher \subseteq Client /\ Privileged \subseteq Teacher
    /\ MaxPages \in Nat /\ MaxBreaks \in Nat

VARIABLES
    page,      \* the page is open
    link,      \* state of the socket of a client
    fresh,     \* the access token it was opened with is still good
    wire,      \* messages on their way to the server, or kept until it is up again
    checks,    \* join requests whose check is awaited
    room,      \* clients in course:<id>
    student,   \* clients with an enrolment, of any status
    pages, breaks,
    overtaken, \* history: a leave was handled while a check was awaited
    cut        \* history: the connection or a check broke since the page opened

vars == <<page, link, fresh, wire, checks, room, student, pages, breaks, overtaken, cut>>

Init ==
    /\ page = {} /\ link = [c \in Client |-> "out"] /\ fresh = Client
    /\ wire = [c \in Client |-> <<>>] /\ checks = [c \in Client |-> 0]
    /\ room = {} /\ student = {}
    /\ pages = 0 /\ breaks = 0 /\ overtaken = {} /\ cut = {}

client == <<page, pages>>
history == <<overtaken, cut>>

Send(c, message) == wire' = [wire EXCEPT ![c] = IF link[c] \in {"up", "down"} THEN Append(@, message) ELSE @]

-----------------------------------------------------------------------------
(* RealtimeProvider connects for a signed-in user; the middleware of       *)
(* initRealtime lets the socket in if its token is good.                   *)
Connect(c) ==
    /\ link[c] = "out" /\ c \in fresh
    /\ link' = [link EXCEPT ![c] = "up"]
    /\ wire' = [wire EXCEPT ![c] = IF c \in page THEN <<"join">> ELSE <<>>]
    /\ UNCHANGED <<client, fresh, checks, room, student, breaks, history>>

TokenExpires(c) ==
    /\ c \in fresh /\ link[c] # "out"
    /\ fresh' = fresh \ {c}
    /\ UNCHANGED <<client, link, wire, checks, room, student, breaks, history>>

(* The server forgets the socket, what was on the wire is gone. *)
Disconnect(c) ==
    /\ link[c] = "up" /\ breaks < MaxBreaks
    /\ breaks' = breaks + 1
    /\ link' = [link EXCEPT ![c] = "down"]
    /\ wire' = [wire EXCEPT ![c] = <<>>]
    /\ checks' = [checks EXCEPT ![c] = 0]
    /\ room' = room \ {c}
    /\ cut' = cut \cup {c}
    /\ UNCHANGED <<client, fresh, student, overtaken>>

(* The client tries again, five times, with the token it has; a refusal of *)
(* the middleware ends the attempts.                                       *)
Reconnect(c) ==
    /\ link[c] = "down"
    /\ \/ c \in fresh /\ link' = [link EXCEPT ![c] = "up"]
       \/ link' = [link EXCEPT ![c] = "off"]
    /\ UNCHANGED <<client, fresh, wire, checks, room, student, breaks, history>>

-----------------------------------------------------------------------------
(* The effect of the page, and its clean-up. *)
OpenPage(c) ==
    /\ c \notin page /\ pages < MaxPages
    /\ page' = page \cup {c} /\ pages' = pages + 1
    /\ Send(c, "join")
    /\ cut' = IF link[c] = "off" THEN cut ELSE cut \ {c}
    /\ UNCHANGED <<link, fresh, checks, room, student, breaks, overtaken>>

ClosePage(c) ==
    /\ c \in page
    /\ page' = page \ {c}
    /\ Send(c, "leave")
    /\ UNCHANGED <<link, fresh, checks, room, student, pages, breaks, history>>

Arrives(c, message) ==
    /\ link[c] = "up" /\ wire[c] # <<>> /\ Head(wire[c]) = message
    /\ wire' = [wire EXCEPT ![c] = Tail(@)]

JoinCourse(c) ==
    /\ Arrives(c, "join")
    /\ checks' = [checks EXCEPT ![c] = @ + 1]
    /\ UNCHANGED <<client, link, fresh, room, student, breaks, history>>

(* mayJoinCourse: privileged, the teacher, or a student with an enrolment. *)
MayJoinAnyone(c) == TRUE
MayJoinCourse(c) == c \in Teacher \cup student

CheckAnswered(c) ==
    /\ checks[c] > 0
    /\ checks' = [checks EXCEPT ![c] = @ - 1]
    /\ room' = IF MayJoinCourse(c) THEN room \cup {c} ELSE room
    /\ UNCHANGED <<client, link, fresh, wire, student, breaks, history>>

(* An error of the query answers no. *)
CheckFails(c) ==
    /\ checks[c] > 0 /\ c \notin Privileged /\ breaks < MaxBreaks
    /\ breaks' = breaks + 1
    /\ checks' = [checks EXCEPT ![c] = @ - 1]
    /\ cut' = cut \cup {c}
    /\ UNCHANGED <<client, link, fresh, wire, room, student, overtaken>>

LeaveIgnored(c) ==
    /\ Arrives(c, "leave")
    /\ UNCHANGED <<client, link, fresh, checks, room, student, breaks, history>>

LeaveCourse(c) ==
    /\ Arrives(c, "leave")
    /\ room' = room \ {c}
    /\ overtaken' = IF checks[c] > 0 THEN overtaken \cup {c} ELSE overtaken
    /\ UNCHANGED <<client, link, fresh, checks, student, breaks, cut>>

-----------------------------------------------------------------------------
Enrolled(c) ==
    /\ c \notin Teacher \cup student
    /\ student' = student \cup {c}
    /\ cut' = IF c \in page THEN cut \cup {c} ELSE cut
    /\ UNCHANGED <<client, link, fresh, wire, checks, room, breaks, overtaken>>

Next == \E c \in Client :
    \/ Connect(c) \/ TokenExpires(c) \/ Disconnect(c) \/ Reconnect(c)
    \/ OpenPage(c) \/ ClosePage(c) \/ Enrolled(c)
    \/ JoinCourse(c) \/ CheckAnswered(c) \/ CheckFails(c) \/ LeaveCourse(c)

Spec == Init /\ [][Next]_vars

-----------------------------------------------------------------------------
Settled(c) == wire[c] = <<>> /\ checks[c] = 0 /\ link[c] = "up"

(* The connections, the messages on their way and the room.               *)
TypeOK ==
    /\ page \subseteq Client /\ link \in [Client -> {"out", "up", "down", "off"}]
    /\ fresh \subseteq Client /\ wire \in [Client -> Seq({"join", "leave"})]
    /\ checks \in [Client -> 0..MaxPages] /\ room \subseteq Client
    /\ student \subseteq Client
    /\ pages \in 0..MaxPages /\ breaks \in 0..MaxBreaks
    /\ overtaken \subseteq Client /\ cut \subseteq Client

(* At rest the room has the clients whose page is open and nobody else,    *)
(* but for one whose leave overtook the check of his join, and one whose   *)
(* connection or check broke, or who was enrolled, while his page was open *)
(* (the page sends join:course once; gateway.ts, join:course, leave:course). *)
RoomFollowsPage ==
    \A c \in Client : Settled(c) =>
        /\ c \in room => c \in page \cup overtaken
        /\ c \in page /\ MayJoinCourse(c) => c \in room \cup cut
=============================================================================
