----------------------------- MODULE Ownership -----------------------------
(***************************************************************************)
(* Layer 1: who an object belongs to and what the actor is to it           *)
(* (services/ownershipResolver.ts), and which of these relations counts as *)
(* evidence (services/requestAudit.ts).                                    *)
(*                                                                         *)
(* A rule is a record [path, role]; rules is the sequence of active rules  *)
(* of one resource type in the order the table returned them.  A row maps  *)
(* the paths of the rules to the user found there, or to Nobody where a    *)
(* link on the way is null.                                                *)
(***************************************************************************)
EXTENDS Naturals, Sequences

CONSTANT Nobody   \* no user: an anonymous request, a null link, an unknown owner

Relations == {"SELF", "OWNER", "CUSTODIAN", "PRIVILEGED", "FOREIGN", "UNKNOWN"}

PrivilegedRoles == {"ADMIN", "SUPER_ADMIN"}

Modelled == {"users", "courses", "enrollments", "assessments", "attendance", "grades"}

Verdict(relation, owner, ownerRule) ==
    [relation |-> relation, owner |-> owner, ownerRule |-> ownerRule]

\* The first of the rules that were found to match; the caller knows there is one.
FirstOf(rules, matches) == rules[CHOOSE i \in matches : \A j \in matches : i <= j]

OwnerRules(rules) == {i \in DOMAIN rules : rules[i].role = "OWNER"}

HasOwnerRule(rules) == OwnerRules(rules) # {}

\* readPath of the OWNER rule, Nobody when the type has none.
OwnerOf(rules, row) ==
    IF HasOwnerRule(rules) THEN row[FirstOf(rules, OwnerRules(rules)).path] ELSE Nobody

\* What an actor is to an object he owns in no rule's eyes.
Stranger(role) == IF role \in PrivilegedRoles THEN "PRIVILEGED" ELSE "FOREIGN"

\* No rule for the type, or no object named: only a privileged actor is classified.
Unclassified(role) ==
    Verdict(IF role \in PrivilegedRoles THEN "PRIVILEGED" ELSE "UNKNOWN", Nobody, FALSE)

UnknownVerdict == Verdict("UNKNOWN", Nobody, FALSE)

(***************************************************************************)
(* resolveAccess.  target is a record [type, id, row]: id = Nobody when    *)
(* the path names no object, row is the empty function when the object     *)
(* does not exist or the lookup failed.                                    *)
(***************************************************************************)
ResolveAccess(rules, target, actor, role) ==
    LET mine == {i \in DOMAIN rules : target.row[rules[i].path] = actor}
    IN  IF actor = Nobody THEN UnknownVerdict
        ELSE IF rules = <<>> \/ target.id = Nobody THEN Unclassified(role)
        ELSE IF target.type = "users" THEN
            IF target.id = actor
            THEN Verdict("SELF", actor, HasOwnerRule(rules))
            ELSE Verdict(Stranger(role), target.id, HasOwnerRule(rules))
        ELSE IF target.type \notin Modelled \/ DOMAIN target.row = {} THEN UnknownVerdict
        ELSE IF mine # {}
        THEN Verdict(FirstOf(rules, mine).role, OwnerOf(rules, target.row),
                     HasOwnerRule(rules))
        ELSE Verdict(Stranger(role), OwnerOf(rules, target.row), HasOwnerRule(rules))

----------------------------------------------------------------------------
(* What recordRequest makes of a verdict.                                  *)

\* A privileged actor in somebody else's object widens his scope.
WidensScope(verdict, actor) ==
    /\ verdict.relation = "PRIVILEGED"
    /\ verdict.owner # Nobody
    /\ verdict.owner # actor

\* shouldRaiseForeign: reading a type nobody owns (a catalogue) is not evidence.
ShouldRaiseForeign(verdict, safe, denied) ==
    /\ ~denied
    /\ verdict.relation = "FOREIGN"
    /\ verdict.ownerRule \/ ~safe

AuthzOutcome(verdict, safe, denied) ==
    IF denied /\ verdict.relation = "FOREIGN" THEN "denied"
    ELSE IF ShouldRaiseForeign(verdict, safe, denied) THEN "allowed"
    ELSE "none"
============================================================================
