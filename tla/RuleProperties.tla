-------------------------- MODULE RuleProperties --------------------------
(***************************************************************************)
(* What a rule evaluation promises.  The rules are restated here over sets *)
(* of records, without the sorting, slicing and scanning of the            *)
(* evaluators, the way docs/RULES.md describes them; a finished call must  *)
(* have found exactly what the restatement describes.                      *)
(***************************************************************************)
EXTENDS RuleRun

RecordSet == ToSet(bundle.records)

NumberOf(rule) == CHOOSE i \in DOMAIN Registry : Registry[i] = rule

Evaluated(rule) == phase = "done" /\ \E i \in DOMAIN found : found[i][1] = rule

FoundBy(rule) == {f \in Findings : f.rule = rule}

Ids(records) == {r.id : r \in records}

(* No element of S comes before e. *)
Earliest(e, S) == e \in S /\ \A other \in S : ~Before(other, e)

Latest(S) == CHOOSE e \in S : \A other \in S : ~Before(e, other)

(***************************************************************************)
(* ERP006: some BurstThreshold failures of one principal lie within one    *)
(* closed interval.                                                        *)
(***************************************************************************)
FailedSignIns(who) == {e \in AuthSignIns(bundle.records, "failure") : e.principal = who}

BurstsOf(who) ==
  {S \in kSubset(BurstThreshold, FailedSignIns(who)) :
     \A a, b \in S : a.at <= b.at + BurstWindow}

(* A burst no failure of which can be exchanged for an earlier one. *)
EarliestBurst(S, who) ==
  /\ S \in BurstsOf(who)
  /\ \A other \in BurstsOf(who) : other = S \/
       \E a \in S \ other : \A b \in other \ S : Before(a, b)

(* A principal is reported by ERP006 exactly when BurstThreshold of its failed    *)
(* sign-ins, consecutive or not, lie within one closed interval of BurstWindow,   *)
(* and what is reported is the earliest such set: the scan over consecutive       *)
(* failures of _evaluate_erp006 misses no burst and reports none twice.           *)
BurstsExact ==
  Evaluated("ERP006") =>
    /\ \A f \in FoundBy("ERP006") :
         \E e \in RecordSet : e.id \in f.records /\
           \E S \in BurstsOf(e.principal) : EarliestBurst(S, e.principal) /\ Ids(S) = f.records
    /\ \A e \in AuthSignIns(bundle.records, "failure") :
         BurstsOf(e.principal) # {} =>
           \E f \in FoundBy("ERP006") : \E S \in BurstsOf(e.principal) : Ids(S) = f.records

(***************************************************************************)
(* ERP007.                                                                 *)
(***************************************************************************)
Visible == {r \in RecordSet : r.type \in {"observed_event", "change_event"} /\ r.at <= asOf}

SuccessfulSignIns ==
  {e \in Visible : e.type = "observed_event" /\ e.action = "SIGN_IN" /\ e.outcome = "success"}

FailuresBefore(s) ==
  {f \in Visible : /\ f.type = "observed_event" /\ f.action = "SIGN_IN" /\ f.outcome = "failure"
                   /\ SignInKey(f) = SignInKey(s)
                   /\ f.at < s.at /\ s.at <= f.at + FailureWindow}

Breached == {s \in SuccessfulSignIns : Cardinality(FailuresBefore(s)) >= FailureThreshold}

(* Fewer than FailureThreshold qualifying failures are more recent. *)
MostRecent(s) ==
  {f \in FailuresBefore(s) :
     Cardinality({g \in FailuresBefore(s) : Before(f, g)}) < FailureThreshold}

(* Per source, principal and address ERP007 reports one episode exactly when some *)
(* visible success has FailureThreshold strictly earlier failures in its closed   *)
(* window: the earliest such success with its most recent failures, in order.     *)
FailuresThenSuccessExact ==
  Evaluated("ERP007") =>
    /\ {f.records : f \in FoundBy("ERP007")} =
         {Ids(MostRecent(s) \cup {s}) : s \in
            {s \in Breached : Earliest(s, {t \in Breached : SignInKey(t) = SignInKey(s)})}}
    /\ \A f \in FoundBy("ERP007") : \A i, j \in DOMAIN f.steps : i < j =>
         \E a, b \in RecordSet : a.id = f.steps[i] /\ b.id = f.steps[j] /\ Before(a, b)

(***************************************************************************)
(* ERP008.                                                                 *)
(***************************************************************************)
IndicatorsOf(e) ==
  {i \in RecordSet : i.type = "threat_indicator" /\ i.value = e.address
                     /\ e.at \in i.from .. i.until}

Indicated == {e \in SuccessfulSignIns : IndicatorsOf(e) # {}}

(* Per source, principal and address ERP008 reports the earliest successful       *)
(* sign-in an indicator covers, beginning and end included, with the least such   *)
(* indicator, whatever uncovered sign-ins of that key come before it.             *)
IndicatorsExact ==
  Evaluated("ERP008") =>
    {f.steps : f \in FoundBy("ERP008")} =
      {<<Min(Ids(IndicatorsOf(e))), e.id>> : e \in
         {e \in Indicated : Earliest(e, {t \in Indicated : SignInKey(t) = SignInKey(e)})}}

(***************************************************************************)
(* ERP009.                                                                 *)
(***************************************************************************)
ChangesMade ==
  {c \in Visible : c.type = "change_event" /\ c.action \in SensitiveActions
                   /\ c.outcome = "success"}

SignInsBefore(c) ==
  {e \in SuccessfulSignIns :
     e.principal = c.principal /\ e.at < c.at /\ c.at - e.at <= ChangeWindow}

Preceded == {c \in ChangesMade : SignInsBefore(c) # {}}

(* Per principal, action and object ERP009 reports the earliest sensitive change  *)
(* that a successful sign-in of its principal strictly precedes inside the closed *)
(* window, with the nearest such sign-in.                                         *)
ChangesExact ==
  Evaluated("ERP009") =>
    {f.steps : f \in FoundBy("ERP009")} =
      {<<Latest(SignInsBefore(c)).id, c.id>> : c \in
         {c \in Preceded : Earliest(c, {d \in Preceded : ChangeKey(d) = ChangeKey(c)})}}

(* ERP006 and the three replay rules find exactly the bursts and episodes their   *)
(* descriptions ask for: no window, threshold, tie or seen key of the scans loses *)
(* or adds one.                                                                   *)
FindingsExact == BurstsExact /\ FailuresThenSuccessExact /\ IndicatorsExact /\ ChangesExact

(***************************************************************************)
(* Determinism.                                                            *)
(***************************************************************************)
Rotated(s, n) == SubSeq(s, n + 1, Len(s)) \o SubSeq(s, 1, n)

(* "Parameter and record order must not alter evaluation results"                 *)
(* (docs/RULES.md): every rotation of the records, forward or reversed, gives     *)
(* each evaluated rule the findings it has, correlation steps included, and the   *)
(* evaluations name the selected rules in registry order.                         *)
OrderIrrelevant ==
  phase = "done" =>
    /\ \A i \in DOMAIN found : \A n \in 0 .. Len(bundle.records) - 1 :
         \A records \in {Rotated(bundle.records, n), Rotated(Reverse(bundle.records), n)} :
           FindingsOf(found[i][1], records, asOf) = found[i][2]
    /\ \A i, j \in DOMAIN found : i < j => NumberOf(found[i][1]) < NumberOf(found[j][1])

(* An episode a replay reports, it still reports, with the same correlation, at   *)
(* every later analysis time the evaluation survives: evidence that becomes       *)
(* visible later never replaces or hides the earliest episode of a dedupe key.    *)
EpisodesStable ==
  phase = "done" =>
    \A i \in DOMAIN found : found[i][1] \in DetectionRuleIds =>
      \A later \in asOf .. Horizon :
        Raised(found[i][1], bundle.records, later) = "nothing" =>
          found[i][2] \subseteq FindingsOf(found[i][1], bundle.records, later)

(* "Replay ignores supported event records after the explicit --as-of time"       *)
(* (docs/REPLAY_CONTRACT.md): leaving those records out changes no finding, and   *)
(* none of them makes the evaluation raise.                                       *)
FutureIgnored ==
  LET past == AtPositions(bundle.records,
                {i \in DOMAIN bundle.records :
                   bundle.records[i].type \in {"observed_event", "change_event"} =>
                     bundle.records[i].at <= asOf})
  IN /\ phase = "done" =>
          \A i \in DOMAIN found : found[i][1] \in DetectionRuleIds =>
            FindingsOf(found[i][1], past, asOf) = found[i][2]
     /\ phase = "evaluate" /\ pending # <<>> /\ Head(pending) \in DetectionRuleIds =>
          Raised(Head(pending), past, asOf) = Raised(Head(pending), bundle.records, asOf)

(* Evaluating the same evidence at another analysis time retells nothing: what    *)
(* was reported stays, and what lies in the future has no influence.              *)
LaterTimesAgree == EpisodesStable /\ FutureIgnored

(***************************************************************************)
(* The call as a whole.                                                    *)
(***************************************************************************)

(* The look-ups of the evaluators are covered by the preflight: after it no rule  *)
(* reads a principal that is missing or ambiguous, so a call never ends with an   *)
(* exception of its own, and coverage is never found incomplete halfway through.  *)
PreflightSuffices ==
  /\ phase # "broken"
  /\ phase = "evaluate" =>
       \A i \in DOMAIN pending : Raised(pending[i], bundle.records, asOf) \in {"nothing", "invalid"}

(* A call that returns evaluated every selected rule, once, on a complete bundle  *)
(* with the evidence types the rule requires, and the references of all findings  *)
(* together are within the limit: a failing rule or an exceeded limit leaves no   *)
(* partial result.                                                                *)
NoPartialResult ==
  phase = "done" =>
    /\ bundle.complete
    /\ {found[i][1] : i \in DOMAIN found} = ToSet(selected) /\ Len(found) = Len(selected)
    /\ \A i \in DOMAIN found :
         RequiredTypes[found[i][1]] \subseteq {r.type : r \in RecordSet}
    /\ ReferencesOf(Findings) <= MaxReferences

(* ERP002 is conclusive: the principal of every privileged assignment is in the   *)
(* evidence and is reported exactly when it is enabled and was last active before *)
(* the cutoff, a principal active at the cutoff not being reported.               *)
InactivityConclusive ==
  Evaluated("ERP002") =>
    \A a \in PrivilegedAssignments(bundle.records) :
      \E p \in Principals(bundle.records) :
        /\ p.principal = a.principal
        /\ (p.enabled /\ asOf - p.active > InactiveDays) <=>
             \E f \in FoundBy("ERP002") : {p.id, a.id} \subseteq f.records

(***************************************************************************)
(* A statement of the documentation the code does not keep.                *)
(***************************************************************************)

(* "a successful synthetic sign-in is followed strictly later by a successful     *)
(* DISABLE_AUDIT or GRANT_PRIVILEGE change ..., at most 1,800 seconds after the   *)
(* sign-in" (docs/RULES.md): a call with a valid analysis time, within the limit, *)
(* reports such a pair.                                                           *)
ChangesNotRejected ==
  phase = "invalid" /\ pending # <<>> /\ refs <= MaxReferences /\ asOf # NotATime =>
    Head(pending) # "ERP009"
=============================================================================
