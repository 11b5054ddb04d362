----------------------------- MODULE SessionLife -----------------------------
(***************************************************************************)
(* What refresh-token rotation promises of a login: a session is renewed   *)
(* by one request at a time, and once it has ended nothing brings it back. *)
(***************************************************************************)
CONSTANT Session

VARIABLE life   \* life[s]: where the session stands

Stage == {"unborn", "live", "renewing", "ended"}

LifeTyped == life \in [Session -> Stage]

Init == life = [s \in Session |-> "unborn"]

Move(s, from, to) ==
    /\ life[s] = from
    /\ life' = [life EXCEPT ![s] = to]

Open(s) == Move(s, "unborn", "live")

\* One request has spent the token of the session and owes it a new one.
Renew(s) == Move(s, "live", "renewing")

Renewed(s) == Move(s, "renewing", "live")

\* The request that was renewing the session never finished.
Lose(s) == Move(s, "renewing", "ended")

\* Sessions at rest are revoked, expire and are cleaned up, or go with their user.
End(S) ==
    /\ \A s \in S : life[s] = "live"
    /\ life' = [s \in Session |-> IF s \in S THEN "ended" ELSE life[s]]

Next ==
    \/ \E s \in Session : Open(s) \/ Renew(s) \/ Renewed(s) \/ Lose(s)
    \/ \E S \in (SUBSET Session) \ {{}} : End(S)

Spec == Init /\ [][Next]_life
=============================================================================
