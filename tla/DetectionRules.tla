-------------------------- MODULE DetectionRules --------------------------
(***************************************************************************)
(* The replay rules ERP007, ERP008 and ERP009: each is the set of findings *)
(* its evaluator returns for a sequence of records, in whatever order they *)
(* come, and an analysis time.                                             *)
(***************************************************************************)
EXTENDS EvidenceRecords

CONSTANTS
  FailureThreshold,   \* failures that precede a success in ERP007 (3)
  FailureWindow,      \* the longest ERP007 episode (600 s)
  ChangeWindow,       \* the longest ERP009 episode (1800 s)
  SensitiveActions    \* DISABLE_AUDIT and GRANT_PRIVILEGE

ASSUME ThresholdIsPositive == FailureThreshold \in Nat \ {0}
ASSUME WindowsArePositive == FailureWindow \in Nat /\ ChangeWindow \in Nat

(* Sign-ins, and successful changes, not later than the analysis time. *)
IsSignIn(r, asOf) == r.type = "observed_event" /\ r.action = "SIGN_IN" /\ r.at <= asOf

SignIns(records, asOf) == Chronological(records, LAMBDA r : IsSignIn(r, asOf))

SensitiveChanges(records, asOf) ==
  Chronological(records, LAMBDA r :
    /\ r.type = "change_event" /\ r.action \in SensitiveActions
    /\ r.outcome = "success" /\ r.at <= asOf)

SignInKey(e) == <<e.source, e.principal, e.address>>
ChangeKey(c) == <<c.principal, c.action, c.object>>

(***************************************************************************)
(* ERP007.  Per source, principal and address: the first success that      *)
(* enough strictly earlier failures precede inside the window.             *)
(***************************************************************************)

Precedes(f, s) == f.at < s.at /\ s.at - f.at <= FailureWindow

(* The positions of the failures that count for the success s. *)
QualifyingFailures(events, s) ==
  {i \in DOMAIN events : /\ events[i].outcome = "failure"
                         /\ SignInKey(events[i]) = SignInKey(s) /\ Precedes(events[i], s)}

Retained(events, s) ==
  LastOf(AtPositions(events, QualifyingFailures(events, s)), FailureThreshold)

Hits007(events) ==
  {i \in DOMAIN events :
     /\ events[i].outcome = "success"
     /\ Cardinality(QualifyingFailures(events, events[i])) >= FailureThreshold}

(* A key's last success, not its first, becomes the episode. *)
LatestErp007(records, asOf) ==
  LET events == SignIns(records, asOf)
      last == {i \in Hits007(events) : \A j \in Hits007(events) :
                 i < j => SignInKey(events[i]) # SignInKey(events[j])}
  IN {Episode("ERP007", Append(Retained(events, events[i]), events[i])) : i \in last}

Erp007(records, asOf) ==
  LET events == SignIns(records, asOf)
  IN {Episode("ERP007", Append(Retained(events, s), s)) :
        s \in FirstPerKey(events, Hits007(events), SignInKey)}

(***************************************************************************)
(* ERP008.  Per source, principal and address: the first successful        *)
(* sign-in an indicator of that address covers, with the least such        *)
(* indicator.                                                              *)
(***************************************************************************)

Covers(i, e) == i.value = e.address /\ i.from <= e.at /\ e.at <= i.until

MatchingIndicators(records, e) ==
  {i \in ToSet(records) : i.type = "threat_indicator" /\ Covers(i, e)}

FirstIndicator(records, e) ==
  CHOOSE i \in MatchingIndicators(records, e) :
    \A j \in MatchingIndicators(records, e) : i.id <= j.id

Successes(events) == {i \in DOMAIN events : events[i].outcome = "success"}

(* The dedupe key is recorded before the indicator is looked up, so an earlier  *)
(* unmatched sign-in hides a later matching one.                                *)
EagerErp008(records, asOf) ==
  LET events == SignIns(records, asOf)
  IN {Episode("ERP008", <<FirstIndicator(records, e), e>>) :
        e \in {e \in FirstPerKey(events, Successes(events), SignInKey) :
                MatchingIndicators(records, e) # {}}}

Hits008(records, events) ==
  {i \in Successes(events) : MatchingIndicators(records, events[i]) # {}}

Erp008(records, asOf) ==
  LET events == SignIns(records, asOf)
  IN {Episode("ERP008", <<FirstIndicator(records, e), e>>) :
        e \in FirstPerKey(events, Hits008(records, events), SignInKey)}

(***************************************************************************)
(* ERP009.  Per principal, action and object: the first sensitive change   *)
(* with a strictly earlier successful sign-in of its principal inside the  *)
(* window, and the nearest such sign-in.                                   *)
(***************************************************************************)
CandidateSignIns(records, asOf, c) ==
  Chronological(records, LAMBDA e :
    /\ IsSignIn(e, asOf) /\ e.outcome = "success" /\ e.principal = c.principal
    /\ e.at < c.at /\ c.at <= e.at + ChangeWindow)

Hits009(records, asOf, changes) ==
  {i \in DOMAIN changes : CandidateSignIns(records, asOf, changes[i]) # <<>>}

Erp009(records, asOf) ==
  LET changes == SensitiveChanges(records, asOf)
  IN {Episode("ERP009", <<Last(CandidateSignIns(records, asOf, c)), c>>) :
        c \in FirstPerKey(changes, Hits009(records, asOf, changes), ChangeKey)}

(***************************************************************************)
(* The end of a window is computed only for a sign-in that precedes the    *)
(* change, and raises OverflowError past the last representable second.    *)
(***************************************************************************)
Erp009Overflows(records, asOf) ==
  \E c \in ToSet(SensitiveChanges(records, asOf)), e \in ToSet(SignIns(records, asOf)) :
    /\ e.outcome = "success" /\ e.principal = c.principal
    /\ e.at < c.at /\ e.at + ChangeWindow > Horizon
=============================================================================
