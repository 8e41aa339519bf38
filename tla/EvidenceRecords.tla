------------------------- MODULE EvidenceRecords -------------------------
(***************************************************************************)
(* Normalized evidence as the rules read it, and the findings they return. *)
(* A record has a type, a record id (unique in a bundle, ordered like the  *)
(* strings of the code) and the fields of its type.  A timestamp is a      *)
(* number of seconds; Horizon is the last second a datetime can represent  *)
(* and 0 the first.                                                        *)
(***************************************************************************)
EXTENDS Naturals, FiniteSets, Sequences, SequencesExt

CONSTANT Horizon

ASSUME HorizonIsNat == Horizon \in Nat

Timestamps == 0 .. Horizon

(* What load_evidence leaves of the records of its files.  An id stands for its    *)
(* place in the order of the ids.                                                 *)
Normalized(records) ==
  /\ records \in Seq(ToSet(records))
  /\ \A i, j \in DOMAIN records : records[i].id = records[j].id => i = j
  /\ \A r \in ToSet(records) :
       /\ r.id \in Nat
       /\ r.type \in {"auth_event", "observed_event", "change_event"} => r.at \in Timestamps
       /\ r.type = "principal" => r.active \in Timestamps
       /\ r.type = "threat_indicator" => {r.from, r.until} \subseteq Timestamps

(* The order without its tie-break on the record id. *)
TimeOnlyBefore(a, b) == a.at < b.at

(* The order (occurred_at, record_id) every rule sorts its events by. *)
Before(a, b) == a.at < b.at \/ (a.at = b.at /\ a.id < b.id)

(* The elements of s that rank numbers, in the order of their numbers. *)
Ranked(s, rank) ==
  [n \in 1 .. Cardinality(DOMAIN rank) |-> s[CHOOSE i \in DOMAIN rank : rank[i] = n]]

(***************************************************************************)
(* The elements of s at the positions I, sorted.  The sort is stable:      *)
(* elements neither of which is before the other stay as they were in s.   *)
(***************************************************************************)
UpTo(s, I, i) == {j \in I : Before(s[j], s[i]) \/ (j <= i /\ ~Before(s[i], s[j]))}

Sorted(s, I) == Ranked(s, [i \in I |-> Cardinality(UpTo(s, I, i))])

(* The elements of s that satisfy Test, in chronological order. *)
Chronological(s, Test(_)) == Sorted(s, {i \in DOMAIN s : Test(s[i])})

(* The elements of s at the positions I, in the order of s. *)
AtPositions(s, I) == Ranked(s, [i \in I |-> Cardinality({j \in I : j <= i})])

(* The last n elements of a sequence that has that many. *)
LastOf(s, n) == SubSeq(s, Len(s) - n + 1, Len(s))

(***************************************************************************)
(* The elements of s at the positions I that share their key with none at  *)
(* an earlier position of I: what a loop with a set of seen keys keeps.    *)
(***************************************************************************)
FirstPerKey(s, I, Key(_)) ==
  {s[i] : i \in {j \in I : \A k \in I : k < j => Key(s[k]) # Key(s[j])}}

(***************************************************************************)
(* A finding is its rule, the ids of its supporting records, the semantic  *)
(* key that enters its fingerprint, and, for a replay rule, the ordered    *)
(* ids of its correlation steps.  A fingerprint is a digest of the first   *)
(* three, so two findings with the same three are the same finding.        *)
(***************************************************************************)
Finding(rule, records, key) ==
  [rule |-> rule, records |-> {r.id : r \in records}, key |-> key, steps |-> <<>>]

Episode(rule, steps) ==
  [rule |-> rule, records |-> {steps[i].id : i \in DOMAIN steps}, key |-> {},
   steps |-> [i \in DOMAIN steps |-> steps[i].id]]

(* How many evidence references, one per field it names, a finding carries. *)
References(f) ==
  LET n == Cardinality(f.records) IN
  CASE f.rule = "ERP001" -> 1
    [] f.rule = "ERP002" -> 2 * n + 1
    [] f.rule \in {"ERP003", "ERP004"} -> 2 * n
    [] f.rule = "ERP005" -> 3 * n
    [] f.rule = "ERP006" -> 4 * n
    [] f.rule = "ERP007" -> 5 * n
    [] f.rule = "ERP008" -> 7
    [] f.rule = "ERP009" -> 8
=============================================================================
