--------------------------- MODULE AccessRules ---------------------------
(***************************************************************************)
(* The evidence rules ERP001 to ERP006.  Each evaluator is a set of        *)
(* findings; what makes one raise instead is defined beside it.            *)
(***************************************************************************)
EXTENDS EvidenceRecords

CONSTANTS
  InactiveDays,       \* ERP002, in the unit of Timestamps
  Privileged,         \* the permissions ERP002 and ERP003 call privileged
  ToxicPairs,         \* the two-element sets of permissions ERP004 looks for
  EmergencyWindow,    \* ERP005
  BurstThreshold,     \* ERP006
  BurstWindow,        \* ERP006
  LongestInterval     \* the longest span a timedelta holds

ASSUME ParametersArePositive ==
  /\ {InactiveDays, EmergencyWindow, BurstThreshold, BurstWindow} \subseteq Nat \ {0}
  /\ Privileged # {} /\ ToxicPairs # {} /\ IsFiniteSet(ToxicPairs)
  /\ \A pair \in ToxicPairs : Cardinality(pair) = 2
ASSUME IntervalsAreBounded == LongestInterval \in Nat

OfKind(records, type) == {r \in ToSet(records) : r.type = type}

Principals(records) == OfKind(records, "principal")

Assignments(records) == OfKind(records, "permission_assignment")

PrivilegedAssignments(records) == {a \in Assignments(records) : a.permission \in Privileged}

(* Two principal records of one name, which _principal_index refuses. *)
AmbiguousPrincipals(records) ==
  \E p, q \in Principals(records) : p # q /\ p.principal = q.principal

AuthSignIns(records, outcome) ==
  {e \in OfKind(records, "auth_event") : e.action = "SIGN_IN" /\ e.outcome = outcome}

Erp001(records) ==
  {Finding("ERP001", {r}, {}) : r \in
     {r \in OfKind(records, "control_state") : r.control = "AUDIT_LOGGING" /\ ~r.enabled}}

(* Activity exactly at the cutoff counts as inactive. *)
InclusiveErp002(records, asOf) ==
  LET support(p) == {a \in PrivilegedAssignments(records) : a.principal = p.principal}
  IN {Finding("ERP002", {p} \cup support(p), {}) : p \in
        {p \in Principals(records) :
           p.enabled /\ support(p) # {} /\ p.active + InactiveDays <= asOf}}

Erp002(records, asOf) ==
  LET support(p) == {a \in PrivilegedAssignments(records) : a.principal = p.principal}
  IN {Finding("ERP002", {p} \cup support(p), {}) : p \in
        {p \in Principals(records) :
           p.enabled /\ support(p) # {} /\ p.active + InactiveDays < asOf}}

Erp003(records) ==
  {Finding("ERP003", {a}, {}) : a \in {a \in PrivilegedAssignments(records) : a.direct}}

Erp004(records) ==
  LET support(who, pair) ==
        {a \in Assignments(records) : a.principal = who /\ a.permission \in pair}
      present(who, pair) == pair \subseteq {a.permission : a \in support(who, pair)}
  IN {Finding("ERP004", support(c[1], c[2]), c[2]) : c \in
        {c \in {a.principal : a \in Assignments(records)} \X ToxicPairs : present(c[1], c[2])}}

PrincipalOf(records, e) == CHOOSE p \in Principals(records) : p.principal = e.principal

Erp005(records, asOf) ==
  LET approved(e) == asOf <= e.at + EmergencyWindow /\ e.at <= asOf
  IN {Finding("ERP005", {PrincipalOf(records, e), e}, {}) : e \in
        {e \in AuthSignIns(records, "success") :
           PrincipalOf(records, e).kind = "emergency" /\ ~approved(e)}}

(* principals[event.principal_id] without such a principal: a KeyError. *)
Erp005Misses(records) ==
  \E e \in AuthSignIns(records, "success") :
    \A p \in Principals(records) : p.principal # e.principal

(***************************************************************************)
(* ERP006.  Per principal: the first BurstThreshold consecutive failures,  *)
(* in chronological order, that span at most BurstWindow.                  *)
(***************************************************************************)
FailuresOf(records, who) ==
  Chronological(records, LAMBDA r : /\ r.type = "auth_event" /\ r.action = "SIGN_IN"
                                    /\ r.outcome = "failure" /\ r.principal = who)

BurstStarts(fs) ==
  {i \in DOMAIN fs : /\ i + BurstThreshold - 1 <= Len(fs)
                     /\ fs[i + BurstThreshold - 1].at <= fs[i].at + BurstWindow}

Burst(fs) ==
  LET start == CHOOSE i \in BurstStarts(fs) : \A j \in BurstStarts(fs) : i <= j
  IN {fs[i] : i \in start .. start + BurstThreshold - 1}

Erp006(records) ==
  {Finding("ERP006", Burst(FailuresOf(records, who)), {}) : who \in
     {who \in {e.principal : e \in AuthSignIns(records, "failure")} :
        BurstStarts(FailuresOf(records, who)) # {}}}
=============================================================================
