---------------------------- MODULE Correlation ----------------------------
(***************************************************************************)
(* The decision of the detection layers (services/correlation.ts and the   *)
(* two classifiers of services/correlationDetector.ts): a pure function    *)
(* from the evidence in a user's window to a verdict.                      *)
(*                                                                         *)
(* The code multiplies fractions of one.  Here a risk is kept as the       *)
(* integer weight of its complement: DeniedCalm, ScopeCalm and             *)
(* BehaviorCalm are the factors (1 - x) of the noisy-OR, Calm is their     *)
(* product and Whole is the product of their scales, so that               *)
(* risk = 1 - Calm / Whole exactly.  The rounding of IEEE doubles at a     *)
(* threshold is not modelled.                                              *)
(***************************************************************************)
EXTENDS Integers

CONSTANTS
    DeniedWeight,   \* percent of risk one refused request adds (0.8 / DENIED_SATURATION = 16)
    ScopeFloor,     \* PRIVILEGED_SCOPE_FLOOR: owners that are no signal at all
    ScopeSpan,      \* PRIVILEGED_SCOPE_SATURATION - PRIVILEGED_SCOPE_FLOOR
    ScopeCap,       \* PRIVILEGED_SCOPE_CAP, in percent
    Single,         \* SINGLE_THRESHOLD, in percent
    Correlated      \* CORRELATED_THRESHOLD, in percent

ASSUME WeightsAssumption ==
    /\ DeniedWeight \in 1..100
    /\ ScopeFloor \in Nat
    /\ ScopeSpan \in Nat \ {0}
    /\ ScopeCap \in 1..99
    /\ Single \in 1..100
    /\ Correlated \in 1..100

\* The module keeps the cap under the single-layer threshold, and the correlated
\* threshold under the single one, on purpose ("ataylab SINGLE_THRESHOLD dan past").
ASSUME ThresholdAssumption ==
    /\ ScopeCap < Single
    /\ Correlated <= Single

\* severityFor cuts its levels at the same numbers ("chegaralar correlation.ts bilan
\* moslangan"): 0.75 for HIGH and 0.50 for MEDIUM.
ASSUME SeverityAssumption == Single >= 75 /\ Correlated >= 50

\* What readSignals returns; owners is the number of distinct owners, score a percent.
LayerSignals ==
    [denied : Nat, allowed : Nat, score : 0..100, mass : BOOLEAN, owners : Nat]

Layer == {"AUTHORIZATION", "BEHAVIOR", "CORRELATED"}

Least(a, b) == IF a <= b THEN a ELSE b

----------------------------------------------------------------------------
(* The three factors of the noisy-OR, each with its scale.                 *)

ScopeScale == 100 * ScopeSpan

Whole == 100 * ScopeScale * 100

BroadScope(owners) == owners > ScopeFloor

\* Mutant: the scope risk is not scaled down to its cap.
ScopeCalmUncapped(owners) ==
    IF BroadScope(owners)
    THEN ScopeScale - 100 * Least(owners - ScopeFloor, ScopeSpan)
    ELSE ScopeScale

ScopeCalm(owners) ==
    IF BroadScope(owners)
    THEN ScopeScale - ScopeCap * Least(owners - ScopeFloor, ScopeSpan)
    ELSE ScopeScale

DeniedCalm(denied) == 100 - Least(100, DeniedWeight * denied)

BehaviorCalm(s) == IF s.mass THEN 0 ELSE 100 - s.score

AuthzCalm(s) == IF s.allowed > 0 THEN 0 ELSE DeniedCalm(s.denied) * ScopeCalm(s.owners)

Calm(s) == AuthzCalm(s) * BehaviorCalm(s)

----------------------------------------------------------------------------
(* The verdict.                                                            *)

\* a > 0 and b > 0 of correlate(): the layer has any risk at all.
AuthzSpeaks(s) == s.allowed > 0 \/ s.denied > 0 \/ BroadScope(s.owners)

BehaviorSpeaks(s) == s.mass \/ s.score > 0

RiskAtLeast(s, percent) == 100 * Calm(s) <= (100 - percent) * Whole

\* The layer whose evidence is on the table; "NONE" is the code's null.
LayerOf(s) ==
    CASE AuthzSpeaks(s) /\ BehaviorSpeaks(s)   -> "CORRELATED"
      [] AuthzSpeaks(s) /\ ~BehaviorSpeaks(s)  -> "AUTHORIZATION"
      [] ~AuthzSpeaks(s) /\ BehaviorSpeaks(s)  -> "BEHAVIOR"
      [] OTHER                                 -> "NONE"

Threshold(layer) == IF layer = "CORRELATED" THEN Correlated ELSE Single

Alert(s) == LayerOf(s) # "NONE" /\ RiskAtLeast(s, Threshold(LayerOf(s)))

Severity(s) ==
    IF RiskAtLeast(s, 90) THEN "CRITICAL"
    ELSE IF RiskAtLeast(s, 75) THEN "HIGH"
    ELSE IF RiskAtLeast(s, 50) THEN "MEDIUM"
    ELSE "LOW"

AlertType(s) ==
    IF s.allowed > 0 THEN "UNAUTHORIZED_OBJECT_ACCESS"
    ELSE IF s.mass THEN "MASS_DATA_ACCESS"
    ELSE IF s.denied > 0 THEN "UNAUTHORIZED_OBJECT_ACCESS"
    ELSE IF BroadScope(s.owners) THEN "MASS_DATA_ACCESS"
    ELSE "BEHAVIOR_ANOMALY"

Severities == {"LOW", "MEDIUM", "HIGH", "CRITICAL"}

AlertTypes == {"UNAUTHORIZED_OBJECT_ACCESS", "MASS_DATA_ACCESS", "BEHAVIOR_ANOMALY"}
============================================================================
