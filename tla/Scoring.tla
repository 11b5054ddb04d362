------------------------------- MODULE Scoring -------------------------------
(* The behaviour profile of one user: the audit log of past requests is    *)
(* aggregated into it every night, and scoreEvent measures a new request   *)
(* against it.  A score is a fraction of a whole that all scores against   *)
(* one profile share.                                                      *)
EXTENDS Integers, FiniteSets, FiniteSetsExt

CONSTANTS
    Address,
    Starts, Widths,    \* first hours and lengths of a working day
    MaxRequests        \* bound on the requests beyond the working days

Home == "home"
ScoringAssumption ==
    /\ IsFiniteSet(Address) /\ Home \notin Address
    /\ Starts \subseteq 0..23 /\ Widths \subseteq 1..14 /\ MaxRequests \in Nat

VARIABLES
    day,       \* the user's working day: first hour and length
    logged,    \* requests beyond it, by address and fate
    profile,   \* user_behavior_profiles, built at the last refresh
    requests

vars == <<day, logged, profile, requests>>

Hour == 0..23
Fate == {"allowed", "refused", "foreign"}
PerHour == 10                     \* requests of each working hour in the window
MIN_SAMPLES == 50
MIN_OCCURRENCES == 3

WorkingHours == {(day.first + i) % 24 : i \in 0..day.hours - 1}

-----------------------------------------------------------------------------
(* aggregate: the rows of the log that it counts; a refused request and    *)
(* one for a foreign object teach the profile nothing.                     *)
Learnt(a) == logged[a]["allowed"]
LearntRows == UNION {{a} \X (1..Learnt(a)) : a \in Address}

(* rowsToProfile: an address is known from its third request on. *)
emptyProfile == [hours |-> [h \in Hour |-> 0], known |-> {}, samples |-> 0]
RowsToProfileOfDay ==
    [hours |-> [h \in Hour |-> (IF h \in WorkingHours THEN PerHour ELSE 0)
                              + (IF h = day.first THEN Cardinality(LearntRows) ELSE 0)],
     known |-> {Home}, samples |-> PerHour * day.hours]

RowsToProfile ==
    LET more == Cardinality(LearntRows) IN
    [hours |-> [h \in Hour |-> (IF h \in WorkingHours THEN PerHour ELSE 0)
                              + (IF h = day.first THEN more ELSE 0)],
     known |-> {Home} \cup {a \in Address : Learnt(a) >= MIN_OCCURRENCES},
     samples |-> PerHour * day.hours + more]

Init ==
    /\ day \in [first : Starts, hours : Widths]
    /\ logged = [a \in Address |-> [f \in Fate |-> 0]]
    /\ profile = emptyProfile
    /\ requests = 0

(* Somebody uses the account from another address, in the first *)
(* working hour.                                                           *)
Request(a, f) ==
    /\ requests < MaxRequests
    /\ requests' = requests + 1
    /\ logged' = [logged EXCEPT ![a][f] = @ + 1]
    /\ UNCHANGED <<day, profile>>

(* refreshAll saves no profile of too few samples: the old one stays. *)
Refresh ==
    /\ RowsToProfile.samples >= MIN_SAMPLES
    /\ profile' = RowsToProfile
    /\ UNCHANGED <<day, logged, requests>>

Next ==
    \/ \E a \in Address, f \in Fate : Request(a, f)
    \/ Refresh

Spec == Init /\ [][Next]_vars

-----------------------------------------------------------------------------
(* smoothCircular over a Gaussian kernel, its weights in hundredths. *)
HalfWidthOne == 1
HalfWidth == 5
Kernel == <<100, 92, 73, 49, 28, 14>>
Weight(d) == IF d <= HalfWidth THEN Kernel[d + 1] ELSE 0
KernelMass == Weight(0) + 2 * (Weight(1) + Weight(2) + Weight(3) + Weight(4) + Weight(5))

Smooth(h) ==
    LET Around(d) == profile.hours[(h + d) % 24] + profile.hours[(h + 24 - d) % 24]
    IN  Weight(0) * profile.hours[h] + Weight(1) * Around(1) + Weight(2) * Around(2)
        + Weight(3) * Around(3) + Weight(4) * Around(4) + Weight(5) * Around(5)

(* surprise, with one Laplace observation at every hour: how much less     *)
(* usual than the most usual hour, out of Peak.                            *)
Peak == Max({Smooth(k) : k \in Hour}) + KernelMass
Surprise(h) == Peak - (Smooth(h) + KernelMass)

(* scoreEvent: a signal shown in full weighs part of whole; the signals    *)
(* are joined by a noisy OR.                                               *)
WEIGHTS == [hour |-> [part |-> 9, whole |-> 20], ip |-> [part |-> 9, whole |-> 20],
            userAgent |-> [part |-> 1, whole |-> 4], resource |-> [part |-> 3, whole |-> 10],
            rate |-> [part |-> 2, whole |-> 5]]
Signals == {"ip", "userAgent", "resource", "rate"}
Unit == 20 * 20 * 4 * 10 * 5      \* the product of the wholes
Combine(surprise, peak, signals) ==
    LET Left(k) == WEIGHTS[k].whole - IF k \in signals THEN WEIGHTS[k].part ELSE 0
    IN  Unit * peak - (WEIGHTS.hour.whole * peak - WEIGHTS.hour.part * surprise)
                      * (Left("ip") * Left("userAgent") * Left("resource") * Left("rate"))

(* A request from address a at hour h that shows the other signals.  One   *)
(* is Unit * Peak.                                                         *)
ScoreEvent(h, a, signals) ==
    IF profile.samples < MIN_SAMPLES THEN 0
    ELSE Combine(Surprise(h), Peak, signals \cup (IF a \in profile.known THEN {} ELSE {"ip"}))

-----------------------------------------------------------------------------
(* The log and the profile, whose samples are the sum of its hours.       *)
TypeOK ==
    /\ day \in [first : Starts, hours : Widths]
    /\ logged \in [Address -> [Fate -> 0..MaxRequests]]
    /\ profile \in [hours : [Hour -> Nat], known : SUBSET (Address \cup {Home}), samples : Nat]
    /\ profile.samples = Cardinality(UNION {{h} \X (1..profile.hours[h]) : h \in Hour})
    /\ requests \in 0..MaxRequests

FartherIsStranger ==
    LET After(d) == (day.first + day.hours - 1 + d) % 24
    IN  profile.samples >= MIN_SAMPLES =>
            /\ \A d \in 0..4 : ScoreEvent(After(d), Home, {}) < ScoreEvent(After(d + 1), Home, {})
            /\ \A a \in Address \ profile.known, h \in Hour :
                   ScoreEvent(h, Home, {}) < ScoreEvent(h, a, {})
NobodyBlamedEarly ==
    profile.samples < MIN_SAMPLES => \A h \in Hour, a \in Address :
        ScoreEvent(h, a, {"rate", "resource"}) = 0
AddressesEarnTrust ==
    \A a \in Address : a \in profile.known => logged[a]["allowed"] >= MIN_OCCURRENCES
OneSignalIsNotEnough ==
    /\ 10 * Combine(1, 1, {}) < 6 * Unit
    /\ \A s \in Signals : 10 * Combine(0, 1, {s}) < 6 * Unit

(* Later is stranger, up to five hours after the working day, and a new    *)
(* address stranger than a known one; an address whose requests were all   *)
(* refused stays new; nobody is blamed on too few requests, and no signal  *)
(* alone reaches 0.6 (behaviorScoring.ts, the comments on HOUR_KERNEL and  *)
(* WEIGHTS; behaviorProfiler.ts, aggregate).                               *)
StrangersStandOut ==
    FartherIsStranger /\ NobodyBlamedEarly /\ AddressesEarnTrust /\ OneSignalIsNotEnough
=============================================================================
