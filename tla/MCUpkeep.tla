------------------------------ MODULE MCUpkeep ------------------------------
(* Upkeep for TLC: who looks at the pages and the day of the profile       *)
(* matter to their own scenes only.                                        *)
EXTENDS Upkeep

MCInit ==
    /\ Init
    /\ scene = "screens" \/ viewer = [role |-> "ADMIN", rel |-> "stranger"]
    /\ scene = "habits" \/ day.hours = 9
MCSpec == MCInit /\ [][Next]_vars /\ Fairness

(* The daily refresh alone. *)
MCJobsInit == MCInit /\ scene = "jobs"
MCJobsSpec == MCJobsInit /\ [][Next]_vars /\ Fairness
=============================================================================
