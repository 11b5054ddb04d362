-------------------------- MODULE CorrelationProofs --------------------------
(***************************************************************************)
(* Facts about the verdict of services/correlation.ts, for every choice of *)
(* its weights and thresholds that satisfies the module's assumptions.     *)
(***************************************************************************)
EXTENDS Correlation, TLAPS

(* The factors of the noisy-OR stay within their scales.                   *)
LEMMA FactorBounds ==
    ASSUME NEW s \in LayerSignals
    PROVE  /\ ScopeScale \in Nat /\ ScopeScale > 0
           /\ DeniedCalm(s.denied) \in 0..100
           /\ BehaviorCalm(s) \in 0..100
           /\ ScopeCalm(s.owners) \in Nat
           /\ ScopeCalm(s.owners) <= ScopeScale
           /\ ScopeCalm(s.owners) >= (100 - ScopeCap) * ScopeSpan
<1>1. /\ s.denied \in Nat /\ s.owners \in Nat /\ s.score \in 0..100 /\ s.mass \in BOOLEAN
  BY DEF LayerSignals
<1>2. ScopeScale \in Nat /\ ScopeScale > 0
  BY WeightsAssumption DEF ScopeScale
<1>3. DeniedCalm(s.denied) \in 0..100
  <2>1. DeniedWeight * s.denied \in Nat
    BY <1>1, WeightsAssumption
  <2> QED
    BY <2>1 DEF DeniedCalm, Least
<1>4. BehaviorCalm(s) \in 0..100
  BY <1>1 DEF BehaviorCalm
<1>5. CASE BroadScope(s.owners)
  <2> DEFINE n == Least(s.owners - ScopeFloor, ScopeSpan)
  <2>1. n \in 1..ScopeSpan
    BY <1>1, <1>5, WeightsAssumption DEF Least, BroadScope
  <2>2. ScopeCap * n \in Nat /\ ScopeCap * n <= ScopeCap * ScopeSpan
    BY <2>1, WeightsAssumption
  <2>3. ScopeCap * ScopeSpan <= 100 * ScopeSpan
    BY WeightsAssumption
  <2>4. (100 - ScopeCap) * ScopeSpan = 100 * ScopeSpan - ScopeCap * ScopeSpan
    BY WeightsAssumption
  <2>5. ScopeCalm(s.owners) = 100 * ScopeSpan - ScopeCap * n
    BY <1>5 DEF ScopeCalm, ScopeScale
  <2>6. /\ 100 * ScopeSpan \in Nat /\ ScopeCap * ScopeSpan \in Nat
        /\ (100 - ScopeCap) * ScopeSpan \in Nat
    BY WeightsAssumption
  <2> HIDE DEF n
  <2> QED
    BY <1>2, <1>3, <1>4, <2>2, <2>3, <2>4, <2>5, <2>6 DEF ScopeScale
<1>6. CASE ~BroadScope(s.owners)
  <2>1. (100 - ScopeCap) * ScopeSpan <= 100 * ScopeSpan
    BY WeightsAssumption
  <2> QED
    BY <1>2, <1>3, <1>4, <1>6, <2>1 DEF ScopeCalm, ScopeScale
<1> QED
  BY <1>5, <1>6

(* The combined risk is a fraction of one.                                 *)
LEMMA CalmWithinWhole ==
    ASSUME NEW s \in LayerSignals
    PROVE  Calm(s) \in Nat /\ Whole \in Nat
<1>1. /\ ScopeScale \in Nat /\ DeniedCalm(s.denied) \in Nat /\ BehaviorCalm(s) \in Nat
      /\ ScopeCalm(s.owners) \in Nat
  BY FactorBounds
<1>2. AuthzCalm(s) \in Nat
  BY <1>1 DEF AuthzCalm
<1> QED
  BY <1>1, <1>2 DEF Calm, Whole

(* A risk that reaches a threshold reaches every lower one: the levels of  *)
(* severityFor are nested.                                                 *)
LEMMA RiskMonotone ==
    ASSUME NEW s \in LayerSignals, NEW p \in 0..100, NEW q \in 0..100,
           q <= p, RiskAtLeast(s, p)
    PROVE  RiskAtLeast(s, q)
<1>1. Calm(s) \in Nat /\ Whole \in Nat
  BY CalmWithinWhole
<1>2. (100 - p) * Whole <= (100 - q) * Whole
  BY <1>1
<1>3. 100 * Calm(s) \in Nat /\ (100 - p) * Whole \in Int /\ (100 - q) * Whole \in Int
  BY <1>1
<1> QED
  BY <1>2, <1>3 DEF RiskAtLeast

(* Without a refusal and without foreign access, breadth of a privileged   *)
(* user's reading alone never raises an alert: the cap stays under the     *)
(* single-layer threshold ("yolg'iz ogohlantirish bermaydi").              *)
THEOREM ScopeAloneIsSilent ==
    ASSUME NEW s \in LayerSignals,
           s.denied = 0, s.allowed = 0, ~s.mass, s.score = 0
    PROVE  ~Alert(s)
<1>1. BehaviorCalm(s) = 100 /\ DeniedCalm(s.denied) = 100
  BY WeightsAssumption DEF BehaviorCalm, DeniedCalm, Least
<1>2. ~BehaviorSpeaks(s)
  BY DEF BehaviorSpeaks
<1>3. LayerOf(s) \in {"AUTHORIZATION", "NONE"}
  BY <1>2 DEF LayerOf
<1> DEFINE c == ScopeCalm(s.owners)
<1>4. c \in Nat /\ c >= (100 - ScopeCap) * ScopeSpan
  BY FactorBounds
<1>5. 100 * Calm(s) = 1000000 * c
  <2>1. AuthzCalm(s) = 100 * c
    BY <1>1 DEF AuthzCalm
  <2> HIDE DEF c
  <2> QED
    BY <1>1, <1>4, <2>1 DEF Calm
<1>6. (100 - Single) * Whole = 1000000 * ((100 - Single) * ScopeSpan)
  BY WeightsAssumption DEF Whole, ScopeScale
<1>7. (100 - Single) * ScopeSpan < (100 - ScopeCap) * ScopeSpan
  BY WeightsAssumption, ThresholdAssumption
<1>8. (100 - Single) * ScopeSpan \in Int /\ (100 - ScopeCap) * ScopeSpan \in Int
  BY WeightsAssumption
<1> HIDE DEF c
<1>9. ~RiskAtLeast(s, Single)
  BY <1>4, <1>5, <1>6, <1>7, <1>8 DEF RiskAtLeast
<1> QED
  BY <1>3, <1>9 DEF Alert, Threshold

(* A lone anomaly below the single-layer threshold is no alert: without    *)
(* the mass rule a BEHAVIOR alert needs a stored score at the threshold.   *)
THEOREM LoneBehaviorNeedsScore ==
    ASSUME NEW s \in LayerSignals, Alert(s), LayerOf(s) = "BEHAVIOR", ~s.mass
    PROVE  s.score >= Single
<1>1. ~AuthzSpeaks(s)
  BY DEF LayerOf
<1>2. s.allowed = 0 /\ s.denied = 0 /\ ~BroadScope(s.owners) /\ s.score \in 0..100
  BY <1>1 DEF AuthzSpeaks, LayerSignals
<1>3. AuthzCalm(s) = 100 * ScopeScale
  BY <1>2, WeightsAssumption DEF AuthzCalm, DeniedCalm, ScopeCalm, Least
<1>4. ScopeScale \in Nat /\ ScopeScale > 0
  BY FactorBounds
<1> DEFINE k == 10000 * ScopeScale
<1>5. 100 * Calm(s) = k * (100 - s.score)
  BY <1>2, <1>3, <1>4 DEF Calm, BehaviorCalm
<1>6. (100 - Single) * Whole = k * (100 - Single)
  BY <1>4, WeightsAssumption DEF Whole
<1>7. RiskAtLeast(s, Single)
  BY DEF Alert, Threshold
<1>8. k \in Nat /\ k > 0
  BY <1>4
<1> HIDE DEF k
<1>9. k * (100 - s.score) <= k * (100 - Single)
  BY <1>5, <1>6, <1>7 DEF RiskAtLeast
<1>10. SUFFICES ASSUME s.score < Single PROVE FALSE
  BY <1>2, WeightsAssumption
<1>11. k * (100 - s.score) > k * (100 - Single)
  BY <1>2, <1>8, <1>10, WeightsAssumption
<1> QED
  BY <1>2, <1>8, <1>9, <1>11, WeightsAssumption

(* An alert is never LOW, and a lone layer's alert is at least HIGH.       *)
THEOREM AlertSeverity ==
    ASSUME NEW s \in LayerSignals, Alert(s)
    PROVE  /\ LayerOf(s) \in Layer
           /\ Severity(s) \in Severities \ {"LOW"}
           /\ LayerOf(s) # "CORRELATED" => Severity(s) \in {"HIGH", "CRITICAL"}
<1>1. LayerOf(s) \in Layer
  BY DEF Alert, LayerOf, Layer
<1>2. CASE LayerOf(s) = "CORRELATED"
  <2>1. RiskAtLeast(s, Correlated)
    BY <1>2 DEF Alert, Threshold
  <2>2. RiskAtLeast(s, 50)
    BY <2>1, RiskMonotone, WeightsAssumption, SeverityAssumption
  <2> QED
    BY <1>1, <1>2, <2>2 DEF Severity, Severities
<1>3. CASE LayerOf(s) # "CORRELATED"
  <2>1. RiskAtLeast(s, Single)
    BY <1>3 DEF Alert, Threshold
  <2>2. RiskAtLeast(s, 75)
    BY <2>1, RiskMonotone, WeightsAssumption, SeverityAssumption
  <2> QED
    BY <1>1, <1>3, <2>2 DEF Severity, Severities
<1> QED
  BY <1>2, <1>3
============================================================================
