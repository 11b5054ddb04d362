------------------------------- MODULE Lease -------------------------------
(* What the lock of the daily refresh promises (jobs/profileRefresh.ts):   *)
(* the instances take turns.  A turn may end under the one whose it is, at *)
(* its deadline or when an earlier instance deletes a lock that is no more *)
(* its own; the instance then works on overdue.                            *)
CONSTANT Instance

VARIABLE turn   \* turn[i]: "away", "holds" or "overdue"

Init == turn = [i \in Instance |-> "away"]

Free == \A i \in Instance : turn[i] # "holds"

Outlived(i) == IF turn[i] = "holds" THEN "overdue" ELSE turn[i]

Take(i) ==
    /\ turn[i] = "away" /\ Free
    /\ turn' = [turn EXCEPT ![i] = "holds"]

(* Whoever ends gives the lock up, for whoever holds it. *)
Finish(i) ==
    /\ turn[i] # "away"
    /\ turn' = [j \in Instance |-> IF j = i THEN "away" ELSE Outlived(j)]

(* Who stops, or fails to set the deadline or to delete, leaves the lock. *)
Stop(i) ==
    /\ turn[i] # "away"
    /\ turn' = [turn EXCEPT ![i] = "away"]

Deadline == turn' = [i \in Instance |-> Outlived(i)]

Next ==
    \/ Deadline
    \/ \E i \in Instance : Take(i) \/ Finish(i) \/ Stop(i)

Spec == Init /\ [][Next]_turn
=============================================================================
