---------------------------- MODULE MCRuleRun ----------------------------
(***************************************************************************)
(* Bundles, selections and parameters small enough to enumerate.  In every *)
(* bundle record ids grow with the position, as after load_evidence, and   *)
(* times are free, so the order of the ids is not the order of the events. *)
(***************************************************************************)
EXTENDS RuleProperties

MCPrivileged == {"ADMIN"}
MCToxicPairs == {{"CREATE", "APPROVE"}}
MCSensitiveActions == {"GRANT", "DISABLE"}

Bundle(records) == [records |-> records, complete |-> TRUE, replay |-> TRUE]

SignIn(id, source, outcome, at) ==
  [type |-> "observed_event", id |-> id, source |-> source, principal |-> "p1",
   address |-> "a1", action |-> "SIGN_IN", outcome |-> outcome, at |-> at]

(* Five sign-ins of one principal and address, at most one of them from another   *)
(* source.  Window 2 over the times 0..3 has pairs on, inside and past each end.  *)
MCSignInBundles ==
  {Bundle([i \in 1 .. 5 |->
      SignIn(i, IF i = odd THEN "s2" ELSE "s1", outcome[i], at[i])]) :
    outcome \in [1 .. 5 -> {"success", "failure"}], at \in [1 .. 5 -> 0 .. 3], odd \in 5 .. 6}

Attempt(id, address, outcome, at) == [SignIn(id, "s1", outcome, at) EXCEPT !.address = address]

Indicator(id, value, span) ==
  [type |-> "threat_indicator", id |-> id, value |-> value, from |-> span[1], until |-> span[2]]

Spans == {span \in (0 .. 2) \X (0 .. 2) : span[1] <= span[2]}

(* Three sign-ins from two addresses and two indicators, one of them of the first *)
(* address, with every validity interval over the times 0..2.                     *)
MCIndicatorBundles ==
  {Bundle([i \in 1 .. 3 |-> Attempt(i, kind[i][1], kind[i][2], at[i])]
          \o <<Indicator(4, "a1", first), Indicator(5, value, second)>>) :
    kind \in [1 .. 3 -> {<<"a1", "success">>, <<"a2", "success">>, <<"a1", "denied">>}],
    at \in [1 .. 3 -> 0 .. 2], value \in {"a1", "a2"}, first \in Spans, second \in Spans}

By(id, who, outcome, at) == [SignIn(id, "s1", outcome, at) EXCEPT !.principal = who]

Change(id, action, object, at) ==
  [type |-> "change_event", id |-> id, principal |-> "p1", object |-> object,
   action |-> action, outcome |-> "success", at |-> at]

(* Two sign-ins of two principals and two changes by the first, of two objects;   *)
(* window 2 over the times 0..3 has pairs on, inside and past each end.           *)
MCChangeBundles ==
  {Bundle([i \in 1 .. 4 |->
      IF i <= 2 THEN Change(i, change[i][1], change[i][2], at[i])
      ELSE By(i, who[i][1], who[i][2], at[i])]) :
    change \in [1 .. 2 -> {<<"GRANT", "o1">>, <<"GRANT", "o2">>, <<"READ", "o1">>}],
    who \in [3 .. 4 -> {<<"p1", "success">>, <<"p2", "success">>, <<"p1", "failure">>}],
    at \in [1 .. 4 -> 0 .. 3]}

Auth(id, who, outcome, at) ==
  [type |-> "auth_event", id |-> id, principal |-> who, action |-> "SIGN_IN",
   outcome |-> outcome, at |-> at]

(* Five failed sign-ins of two principals. *)
MCBurstBundles ==
  {[Bundle([i \in 1 .. 5 |-> Auth(i, who[i], "failure", at[i])]) EXCEPT !.replay = FALSE] :
    who \in [1 .. 5 -> {"p1", "p2"}], at \in [1 .. 5 -> 0 .. 3]}

Person(id, who, kind, enabled, active) ==
  [type |-> "principal", id |-> id, principal |-> who, kind |-> kind, enabled |-> enabled,
   active |-> active]

Grant(id, who, permission, direct) ==
  [type |-> "permission_assignment", id |-> id, principal |-> who, permission |-> permission,
   direct |-> direct]

Control(id, control, enabled) ==
  [type |-> "control_state", id |-> id, control |-> control, enabled |-> enabled]

(* Principals, one of them twice, their permissions, their sign-ins and controls. *)
MCAccessPool ==
  <<Person(1, "p1", "human", TRUE, 0), Person(2, "p1", "emergency", TRUE, 2),
    Person(3, "p2", "emergency", TRUE, 0), Grant(4, "p1", "ADMIN", TRUE),
    Grant(5, "p2", "ADMIN", FALSE), Grant(6, "p1", "CREATE", FALSE),
    Grant(7, "p1", "APPROVE", TRUE), Auth(8, "p2", "success", 0), Auth(9, "p1", "success", 3),
    Auth(10, "p3", "failure", 1), Control(11, "AUDIT_LOGGING", FALSE),
    Control(12, "RETENTION", FALSE)>>

(* The subsets of the pool that leave out at most five records, or all of them.   *)
MCAccessBundles ==
  {[records |-> SelectSeq(MCAccessPool, LAMBDA r : r.id \notin left), complete |-> complete,
    replay |-> FALSE] :
    left \in {S \in SUBSET (1 .. 12) : Cardinality(S) \in {0, 1, 2, 3, 4, 5, 12}},
    complete \in BOOLEAN}

MCAccessSelections ==
  {<<>>, <<"ERP001", "ERP001">>, <<"ERP010">>, <<"ERP005", "ERP002">>, <<"ERP003", "ERP007">>,
   <<"ERP006", "ERP005", "ERP004", "ERP003", "ERP002", "ERP001">>, <<"ERP004", "ERP003">>,
   <<"ERP002">>, <<"ERP005">>}

Calling(bundles, times, selections) ==
  [bundles |-> bundles, times |-> times, selections |-> selections]

MCChangeCalls == {Calling(MCChangeBundles, {2, 3}, {<<"ERP009">>})}
MCEventCalls ==
  MCChangeCalls \cup
  {Calling(MCSignInBundles, {2, 3}, {<<"ERP007">>}),
   Calling(MCIndicatorBundles, {1, 2}, {<<"ERP008">>})}
MCRecordCalls ==
  {Calling(MCBurstBundles, {2, 3}, {<<"ERP006">>}),
   Calling(MCAccessBundles, {0, 2, 3, NotATime}, MCAccessSelections)}
MCAllCalls == MCEventCalls \cup MCRecordCalls
=============================================================================
