------------------------------ MODULE MCCampus ------------------------------
(* Campus for TLC: two requests, and as many rows as each scene needs.     *)
EXTENDS Campus, TLC

CONSTANTS t1, t2, c1, c2, e1, e2

MCTeaches == c1 :> t1
MCTaughtBy == c1 :> t1 @@ c2 :> t2
MCCourseOf == e1 :> c1 @@ e2 :> c2
MCFacts == e1 :> [att |-> 0, grade |-> 0, away |-> 1] @@ e2 :> [att |-> 1, grade |-> 2, away |-> 0]
MCGraded == e1 :> 0 @@ e2 :> 2

(* A course of two seats matters to the register only.                     *)
MCInit == Init /\ (scene = "register" \/ courses[c1].seats = 1)
MCSpec == MCInit /\ [][Next]_vars

(* The dropout scores alone.                                               *)
MCRiskInit == MCInit /\ scene = "risk"
MCRiskSpec == MCRiskInit /\ [][Next]_vars

(* The requests and the students are interchangeable.                      *)
Symmetry == Permutations(Handler) \cup Permutations(Student)
=============================================================================
