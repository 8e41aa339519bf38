----------------------------- MODULE RuleRun -----------------------------
(***************************************************************************)
(* One call of evaluate_rules: the selection is resolved against the       *)
(* registry, the analysis time is parsed, coverage is checked, and the     *)
(* selected rules are evaluated one after another, in registry order, each *)
(* followed by the check of the cumulative evidence-reference limit.       *)
(***************************************************************************)
EXTENDS AccessRules, DetectionRules, TLC

CONSTANTS
  Calls,           \* [bundles, times, selections]: arguments a call may be given together
  NotATime,        \* an analysis time normalize_rfc3339_seconds refuses
  MaxReferences    \* MAX_FINDING_EVIDENCE_REFS

ASSUME InputsAreWellFormed ==
  /\ \A c \in Calls :
       /\ c.times \subseteq Timestamps \cup {NotATime}
       /\ \A b \in c.bundles : Normalized(b.records)
       /\ c.selections \subseteq Seq(STRING)
  /\ NotATime \notin Timestamps
  /\ MaxReferences \in Nat

VARIABLES
  bundle,     \* [records, complete, replay], the frozen argument
  asOf,       \* the analysis time, as given
  selected,   \* the selected rule ids, as given
  pending,    \* the ids still to evaluate, in registry order
  found,      \* the (rule, findings) pairs of the evaluated rules, in order
  refs,       \* evidence_reference_count
  phase       \* where the call is, or how it ended

callVars == <<bundle, asOf, selected, pending, found, refs, phase>>
inputs == <<bundle, asOf, selected>>

Registry == <<"ERP001", "ERP002", "ERP003", "ERP004", "ERP005", "ERP006",
              "ERP007", "ERP008", "ERP009">>
AccessRuleIds == {"ERP001", "ERP002", "ERP003", "ERP004", "ERP005", "ERP006"}
DetectionRuleIds == {"ERP007", "ERP008", "ERP009"}

RequiredTypes ==
  [ERP001 |-> {"control_state"},
   ERP002 |-> {"permission_assignment", "principal"},
   ERP003 |-> {"permission_assignment"},
   ERP004 |-> {"permission_assignment"},
   ERP005 |-> {"auth_event", "principal"},
   ERP006 |-> {"auth_event"},
   ERP007 |-> {"observed_event"},
   ERP008 |-> {"observed_event", "threat_indicator"},
   ERP009 |-> {"change_event", "observed_event"}]

(* done: a RuleRun is returned.  invalid and incomplete: InputValidationError     *)
(* and IncompleteEvidenceError.  broken: an exception of neither kind.            *)
CallEnded == {"done", "invalid", "incomplete", "broken"}
Phases == {"select", "parse", "preflight", "evaluate"} \cup CallEnded

CallInit ==
  /\ \E c \in Calls : bundle \in c.bundles /\ asOf \in c.times /\ selected \in c.selections
  /\ pending = <<>> /\ found = <<>> /\ refs = 0 /\ phase = "select"

InRegistryOrder(ids) ==
  AtPositions(Registry, {i \in DOMAIN Registry : Registry[i] \in ToSet(ids)})

(* _selected_definitions *)
Select ==
  /\ phase = "select"
  /\ IF selected # <<>> /\ IsInjective(selected) /\ ToSet(selected) \subseteq ToSet(Registry)
     THEN pending' = InRegistryOrder(selected) /\ phase' = "parse"
     ELSE phase' = "invalid" /\ UNCHANGED pending
  /\ UNCHANGED <<inputs, found, refs>>

ParseAnalysisTime ==
  /\ phase = "parse"
  /\ phase' = IF asOf = NotATime THEN "invalid" ELSE "preflight"
  /\ UNCHANGED <<inputs, pending, found, refs>>

(***************************************************************************)
(* _preflight_coverage, the conditions under which it raises, in order.    *)
(***************************************************************************)
Chosen(rules) == ToSet(pending) \cap rules # {}

TypesMissing(records) ==
  \E rule \in ToSet(pending) :
    RequiredTypes[rule] \ {r.type : r \in ToSet(records)} # {}

AuditControlMissing(records) ==
  Chosen({"ERP001"}) /\ \A r \in OfKind(records, "control_state") : r.control # "AUDIT_LOGGING"

Named(records) == {p.principal : p \in Principals(records)}

(* The principals of ERP005's sign-ins are not looked up. *)
LaxPrincipalsMissing(records) ==
  Chosen({"ERP002"}) /\ {a.principal : a \in PrivilegedAssignments(records)} \ Named(records) # {}

PrincipalsMissing(records) ==
  \/ Chosen({"ERP002"}) /\ {a.principal : a \in PrivilegedAssignments(records)} \ Named(records) # {}
  \/ Chosen({"ERP005"}) /\ {e.principal : e \in AuthSignIns(records, "success")} \ Named(records) # {}

CoverageIncomplete ==
  \/ ~bundle.complete
  \/ bundle.records = <<>>
  \/ TypesMissing(bundle.records)
  \/ Chosen(DetectionRuleIds) /\ ~bundle.replay
  \/ AuditControlMissing(bundle.records)
  \/ Chosen({"ERP002", "ERP005"}) /\ AmbiguousPrincipals(bundle.records)
  \/ PrincipalsMissing(bundle.records)

Preflight ==
  /\ phase = "preflight"
  /\ phase' = IF CoverageIncomplete THEN "incomplete" ELSE "evaluate"
  /\ UNCHANGED <<inputs, pending, found, refs>>

(***************************************************************************)
(* The evaluators by rule id.                                              *)
(***************************************************************************)
FindingsOf(rule, records, at) ==
  CASE rule = "ERP001" -> Erp001(records)
    [] rule = "ERP002" -> Erp002(records, at)
    [] rule = "ERP003" -> Erp003(records)
    [] rule = "ERP004" -> Erp004(records)
    [] rule = "ERP005" -> Erp005(records, at)
    [] rule = "ERP006" -> Erp006(records)
    [] rule = "ERP007" -> Erp007(records, at)
    [] rule = "ERP008" -> Erp008(records, at)
    [] rule = "ERP009" -> Erp009(records, at)

(* Date arithmetic outside the representable range.  ERP006 looks at no date before   *)
(* it makes its interval; the windows of the others are bounded by what they are      *)
(* subtracted from.                                                                   *)
Overflows(rule, records, at) ==
  \/ rule = "ERP002" /\ at < InactiveDays
  \/ rule = "ERP005" /\ at < EmergencyWindow
  \/ rule = "ERP006" /\ BurstWindow > LongestInterval
  \/ rule = "ERP009" /\ Erp009Overflows(records, at)

(* What an evaluator raises: "nothing" when it returns. *)
Raised(rule, records, at) ==
  IF Overflows(rule, records, at) THEN "invalid"
  ELSE IF rule = "ERP005" /\ AmbiguousPrincipals(records) THEN "incomplete"
  ELSE IF rule = "ERP005" /\ Erp005Misses(records) THEN "broken"
  ELSE "nothing"

(* The evidence references of the findings, numbered within their finding.        *)
EvidenceOf(findings) == UNION {[finding : {f}, number : 1 .. References(f)] : f \in findings}

ReferencesOf(findings) == Cardinality(EvidenceOf(findings))

(* The limit is checked against the rule's own references, not the total. *)
ChecksRuleAlone ==
  /\ phase = "evaluate" /\ pending # <<>>
  /\ LET rule == Head(pending)
         raised == Raised(rule, bundle.records, asOf)
         findings == FindingsOf(rule, bundle.records, asOf)
     IN IF raised # "nothing"
        THEN phase' = raised /\ UNCHANGED <<pending, found, refs>>
        ELSE /\ refs' = refs + ReferencesOf(findings)
             /\ IF ReferencesOf(findings) > MaxReferences
                THEN phase' = "invalid" /\ UNCHANGED <<pending, found>>
                ELSE /\ found' = Append(found, <<rule, findings>>)
                     /\ pending' = Tail(pending)
                     /\ UNCHANGED phase
  /\ UNCHANGED inputs

(* One turn of the loop: the evaluator, the count, the limit. *)
EvaluateNext ==
  /\ phase = "evaluate" /\ pending # <<>>
  /\ LET rule == Head(pending)
         raised == Raised(rule, bundle.records, asOf)
         findings == FindingsOf(rule, bundle.records, asOf)
     IN IF raised # "nothing"
        THEN phase' = raised /\ UNCHANGED <<pending, found, refs>>
        ELSE /\ refs' = refs + ReferencesOf(findings)
             /\ IF refs' > MaxReferences
                THEN phase' = "invalid" /\ UNCHANGED <<pending, found>>
                ELSE /\ found' = Append(found, <<rule, findings>>)
                     /\ pending' = Tail(pending)
                     /\ UNCHANGED phase
  /\ UNCHANGED inputs

Conclude ==
  /\ phase = "evaluate" /\ pending = <<>>
  /\ phase' = "done"
  /\ UNCHANGED <<inputs, pending, found, refs>>

(* The call has returned or raised; nothing is left to do. *)
Returned == phase \in CallEnded /\ UNCHANGED callVars

CallNext == Select \/ ParseAnalysisTime \/ Preflight \/ EvaluateNext \/ Conclude \/ Returned

CallSpec == CallInit /\ [][CallNext]_callVars

(* The fields of the RuleRun a finished call returns. *)
Findings == UNION {found[i][2] : i \in DOMAIN found}
Evaluations ==
  [i \in DOMAIN found |-> <<found[i][1], IF found[i][2] # {} THEN "matched" ELSE "not_matched">>]
=============================================================================
