------------------------------- MODULE Rules -------------------------------
(* The ownership rules that each instance of the API keeps in memory for   *)
(* a minute (ownershipResolver.ts).                                        *)
EXTENDS Naturals

CONSTANTS
    Instance,
    MaxCrashes, MaxFaults   \* bounds: stopped instances, failing queries

RulesAssumption == MaxCrashes \in Nat /\ MaxFaults \in Nat

VARIABLES
    rules,    \* the map in the cache of an instance; "off" when it is stopped
    crashes, faults

vars == <<rules, crashes, faults>>

Init == rules = [i \in Instance |-> "none"] /\ crashes = 0 /\ faults = 0

(* loadRules: after a failing query the cache holds an empty map. *)
LoadRules(i) ==
    /\ rules[i] = "none"
    /\ rules' = [rules EXCEPT ![i] = "loaded"]
    /\ UNCHANGED <<crashes, faults>>

LoadRulesFails(i) ==
    /\ rules[i] = "none" /\ faults < MaxFaults
    /\ faults' = faults + 1
    /\ rules' = [rules EXCEPT ![i] = "empty"]
    /\ UNCHANGED crashes

RulesTtlEnds(i) ==
    /\ rules[i] \in {"loaded", "empty"}
    /\ rules' = [rules EXCEPT ![i] = "none"]
    /\ UNCHANGED <<crashes, faults>>

Crash(i) ==
    /\ rules[i] # "off" /\ crashes < MaxCrashes
    /\ crashes' = crashes + 1
    /\ rules' = [rules EXCEPT ![i] = "off"]
    /\ UNCHANGED faults

Restart(i) ==
    /\ rules[i] = "off"
    /\ rules' = [rules EXCEPT ![i] = "none"]
    /\ UNCHANGED <<crashes, faults>>

Next ==
    \E i \in Instance :
        LoadRules(i) \/ LoadRulesFails(i) \/ RulesTtlEnds(i) \/ Crash(i) \/ Restart(i)

(* Requests keep coming, deadlines pass, and a stopped instance is started *)
(* again by its supervisor.                                                *)
Fairness == \A i \in Instance :
    WF_vars(LoadRules(i)) /\ WF_vars(RulesTtlEnds(i)) /\ WF_vars(Restart(i))

Spec == Init /\ [][Next]_vars /\ Fairness

-----------------------------------------------------------------------------
(* What the cache of each instance holds. *)
TypeOK ==
    /\ rules \in [Instance -> {"off", "none", "loaded", "empty"}]
    /\ crashes \in 0..MaxCrashes /\ faults \in 0..MaxFaults

(* An empty map after a failing query is not for ever: every instance      *)
(* works with the stored rules again and again (ownershipResolver.ts).     *)
RulesComeBack == \A i \in Instance : []<>(rules[i] = "loaded")
=============================================================================
