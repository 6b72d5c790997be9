---------------------------- MODULE PromotionGates ----------------------------
(***************************************************************************)
(* src/governance/gates.py, compatibility.py, evaluation.py and report.py:  *)
(* what a governance report recommends about a candidate, and where a line  *)
(* of champions can drift to when each is promoted on such a report         *)
(* (scripts/demo_model_governance.py, registry.promote and rollback).       *)
(*                                                                         *)
(* A model is its evaluation on the one validation set under the frozen     *)
(* policy, with the versions its metadata names.  Rates are in units of     *)
(* 1/10000.  measured is FALSE when PR-AUC or ROC-AUC is NaN, policed when  *)
(* a decision-policy evaluation was supplied.                               *)
(***************************************************************************)
EXTENDS Integers, TLAPS

CONSTANTS
  Rates,       \* PR-AUCs and blocked rates that occur
  Versions     \* feature schema and decision policy versions

MinCandidatePrAuc == 3000
MaxPrAucDegradation == 200
ReviewZone == 50
MaxLegitBlockedIncrease == 50

Models ==
  [measured : BOOLEAN, pr : Rates, policed : BOOLEAN, blocked : Rates,
   schema : Versions, policy : Versions]

-----------------------------------------------------------------------------
(* The six gates, of a champion a and a candidate b.                        *)

BothMeasured(a, b) == a.measured /\ b.measured

\* A metric that is None rather than NaN raises a TypeError in the comparison
\* or in a later gate: there is then no report, and nothing to promote on.
MetricAvailability(a, b) == IF BothMeasured(a, b) THEN "PASS" ELSE "FAIL"

SchemaCompatibility(a, b) == IF a.schema = b.schema THEN "PASS" ELSE "FAIL"

\* A comparison with NaN is false.
CandidateQuality(b) ==
  IF b.measured /\ b.pr >= MinCandidatePrAuc THEN "PASS" ELSE "FAIL"

NoUnacceptableDegradation(a, b) ==
  CASE BothMeasured(a, b) /\ b.pr - a.pr >= -ReviewZone -> "PASS"
    [] BothMeasured(a, b) /\ -ReviewZone > b.pr - a.pr
         /\ b.pr - a.pr >= -MaxPrAucDegradation -> "REQUIRES_REVIEW"
    [] OTHER -> "FAIL"

\* (Exactly at the tolerance the floating-point difference, which has no
\* epsilon here, may ask for a review.)
OperationalCompatibility(a, b) ==
  IF a.policed /\ b.policed /\ b.blocked - a.blocked <= MaxLegitBlockedIncrease
  THEN "PASS" ELSE "REQUIRES_REVIEW"

PolicyCompatibility(a, b) == IF a.policy = b.policy THEN "PASS" ELSE "REQUIRES_REVIEW"

\* run_all_gates: all six are evaluated, none stops the others.
GateResults(a, b) ==
  {MetricAvailability(a, b), SchemaCompatibility(a, b), CandidateQuality(b),
   NoUnacceptableDegradation(a, b), OperationalCompatibility(a, b),
   PolicyCompatibility(a, b)}

\* aggregate_gate_results
Recommendation(a, b) ==
  IF "FAIL" \in GateResults(a, b) THEN "REJECT"
  ELSE IF "REQUIRES_REVIEW" \in GateResults(a, b) THEN "REQUIRES_REVIEW"
  ELSE "PROMOTE"

-----------------------------------------------------------------------------
(* A line of champions.  The registry itself checks only statuses: that a   *)
(* report stands behind every promotion is the procedure the demonstration  *)
(* follows and gates.py describes.                                          *)

VARIABLES
  first,        \* the champion the line starts from
  champion,     \* the champion in place
  retired,      \* earlier champions
  recommended,  \* promotions on a report that recommends them
  reviewed      \* promotions a person approved after REQUIRES_REVIEW

vars == <<first, champion, retired, recommended, reviewed>>

Init ==
  /\ first \in Models
  /\ champion = first
  /\ retired = {}
  /\ recommended = 0
  /\ reviewed = 0

Crown(m) ==
  /\ champion' = m
  /\ retired' = (retired \cup {champion}) \ {m}
  /\ UNCHANGED first

\* Step 5 of the demonstration.
PromoteRecommended(b) ==
  /\ Recommendation(champion, b) = "PROMOTE"
  /\ Crown(b)
  /\ recommended' = recommended + 1
  /\ UNCHANGED reviewed

\* promote(), with somebody's approval.
PromoteReviewed(b) ==
  /\ Recommendation(champion, b) = "REQUIRES_REVIEW"
  /\ Crown(b)
  /\ reviewed' = reviewed + 1
  /\ UNCHANGED recommended

\* rollback() asks for no report.
Rollback(b) ==
  /\ b \in retired
  /\ Crown(b)
  /\ UNCHANGED <<recommended, reviewed>>

Next ==
  \E b \in Models : PromoteRecommended(b) \/ PromoteReviewed(b) \/ Rollback(b)

Spec == Init /\ [][Next]_vars

-----------------------------------------------------------------------------
(* What the gates promise of one candidate. *)

\* As good as b in everything the gates look at.
AtLeastAsGood(c, b) ==
  /\ b.measured => c.measured
  /\ c.pr >= b.pr
  /\ b.policed => c.policed
  /\ c.blocked <= b.blocked
  /\ c.schema = b.schema
  /\ c.policy = b.policy

(* No report recommends a candidate below the floor, more than the          *)
(* negligible tolerance worse than the champion, with other versions or     *)
(* with notably more blocked customers; one that asks for a review is still *)
(* above the floor, within the degradation limit and of the same schema     *)
(* (gates.py, aggregate_gate_results).                                      *)
THEOREM RecommendationIsEarned ==
  ASSUME Rates \subseteq Nat, NEW a \in Models, NEW b \in Models
  PROVE  /\ Recommendation(a, b) = "PROMOTE" =>
              /\ b.measured /\ b.pr >= MinCandidatePrAuc
              /\ b.pr >= a.pr - ReviewZone
              /\ b.blocked <= a.blocked + MaxLegitBlockedIncrease
              /\ b.schema = a.schema /\ b.policy = a.policy
         /\ Recommendation(a, b) = "REQUIRES_REVIEW" =>
              /\ b.measured /\ b.pr >= MinCandidatePrAuc
              /\ b.pr >= a.pr - MaxPrAucDegradation
              /\ b.schema = a.schema
<1>1. a.pr \in Nat /\ b.pr \in Nat /\ a.blocked \in Nat /\ b.blocked \in Nat
  BY DEF Models
<1>2. ASSUME Recommendation(a, b) # "REJECT"
      PROVE  /\ b.measured /\ b.pr >= MinCandidatePrAuc
             /\ b.pr >= a.pr - MaxPrAucDegradation
             /\ b.schema = a.schema
  <2>1. /\ SchemaCompatibility(a, b) # "FAIL"
        /\ CandidateQuality(b) # "FAIL"
        /\ NoUnacceptableDegradation(a, b) # "FAIL"
    BY <1>2 DEF Recommendation, GateResults
  <2>2. b.measured /\ b.pr >= MinCandidatePrAuc /\ b.schema = a.schema
    BY <2>1 DEF SchemaCompatibility, CandidateQuality
  <2>3. b.pr - a.pr >= -MaxPrAucDegradation
    BY <1>1, <2>1 DEF NoUnacceptableDegradation, MaxPrAucDegradation, ReviewZone
  <2> QED BY <1>1, <2>2, <2>3 DEF MaxPrAucDegradation
<1>3. ASSUME Recommendation(a, b) = "PROMOTE"
      PROVE  /\ b.pr >= a.pr - ReviewZone
             /\ b.blocked <= a.blocked + MaxLegitBlockedIncrease
             /\ b.policy = a.policy
  <2>1. /\ NoUnacceptableDegradation(a, b) \notin {"FAIL", "REQUIRES_REVIEW"}
        /\ OperationalCompatibility(a, b) # "REQUIRES_REVIEW"
        /\ PolicyCompatibility(a, b) # "REQUIRES_REVIEW"
    BY <1>3 DEF Recommendation, GateResults
  <2>2. b.pr - a.pr >= -ReviewZone
    BY <1>1, <2>1 DEF NoUnacceptableDegradation, MaxPrAucDegradation, ReviewZone
  <2>3. b.blocked - a.blocked <= MaxLegitBlockedIncrease /\ b.policy = a.policy
    BY <2>1 DEF OperationalCompatibility, PolicyCompatibility
  <2> QED BY <1>1, <2>2, <2>3 DEF ReviewZone, MaxLegitBlockedIncrease
<1> QED BY <1>2, <1>3

\* The order in which a result is worse than another.
Severity(result) ==
  CASE result \in {"PASS", "PROMOTE"} -> 0
    [] result = "REQUIRES_REVIEW" -> 1
    [] OTHER -> 2

(* A candidate that is as good in everything the gates look at is never     *)
(* recommended less: no gate punishes an improvement, and none hides        *)
(* another's result (gates.py, six independent gates).                      *)
THEOREM BetterIsNeverRecommendedLess ==
  ASSUME Rates \subseteq Nat, NEW a \in Models, NEW b \in Models, NEW c \in Models,
         AtLeastAsGood(c, b)
  PROVE  Severity(Recommendation(a, c)) <= Severity(Recommendation(a, b))
<1>1. /\ a.pr \in Nat /\ b.pr \in Nat /\ c.pr \in Nat
      /\ a.blocked \in Nat /\ b.blocked \in Nat /\ c.blocked \in Nat
  BY DEF Models
<1>2. c.pr >= b.pr /\ c.blocked <= b.blocked /\ c.schema = b.schema /\ c.policy = b.policy
  BY DEF AtLeastAsGood
<1>3. (b.measured => c.measured) /\ (b.policed => c.policed)
  BY DEF AtLeastAsGood
<1>4. MetricAvailability(a, c) # "PASS" => MetricAvailability(a, b) = "FAIL"
  BY <1>3 DEF MetricAvailability, BothMeasured
<1>5. SchemaCompatibility(a, c) = SchemaCompatibility(a, b)
  BY <1>2 DEF SchemaCompatibility
<1>6. CandidateQuality(c) # "PASS" => CandidateQuality(b) = "FAIL"
  BY <1>1, <1>2, <1>3 DEF CandidateQuality, MinCandidatePrAuc
<1>7. /\ NoUnacceptableDegradation(a, c) = "FAIL" => NoUnacceptableDegradation(a, b) = "FAIL"
      /\ NoUnacceptableDegradation(a, c) = "REQUIRES_REVIEW" =>
           NoUnacceptableDegradation(a, b) \in {"FAIL", "REQUIRES_REVIEW"}
  BY <1>1, <1>2, <1>3
     DEF NoUnacceptableDegradation, BothMeasured, ReviewZone, MaxPrAucDegradation
<1>8. OperationalCompatibility(a, c) # "PASS" =>
        OperationalCompatibility(a, b) = "REQUIRES_REVIEW"
  BY <1>1, <1>2, <1>3 DEF OperationalCompatibility, MaxLegitBlockedIncrease
<1>9. PolicyCompatibility(a, c) = PolicyCompatibility(a, b)
  BY <1>2 DEF PolicyCompatibility
<1>10. "FAIL" \in GateResults(a, c) => "FAIL" \in GateResults(a, b)
  <2>1. /\ "FAIL" # OperationalCompatibility(a, c)
        /\ "FAIL" # PolicyCompatibility(a, c)
    BY DEF OperationalCompatibility, PolicyCompatibility
  <2> QED BY <1>4, <1>5, <1>6, <1>7, <2>1 DEF GateResults
<1>11. "REQUIRES_REVIEW" \in GateResults(a, c) =>
         "FAIL" \in GateResults(a, b) \/ "REQUIRES_REVIEW" \in GateResults(a, b)
  <2>1. /\ "REQUIRES_REVIEW" # MetricAvailability(a, c)
        /\ "REQUIRES_REVIEW" # SchemaCompatibility(a, c)
        /\ "REQUIRES_REVIEW" # CandidateQuality(c)
    BY DEF MetricAvailability, SchemaCompatibility, CandidateQuality
  <2> QED BY <1>7, <1>8, <1>9, <2>1 DEF GateResults
<1> QED BY <1>10, <1>11 DEF Recommendation, Severity

-----------------------------------------------------------------------------
(* What they promise of a line of champions. *)

\* The tolerances are relative to the champion in place: they add up.
Within(m) ==
  /\ m \in Models
  /\ m.schema = first.schema
  /\ m # first => m.measured /\ m.pr >= MinCandidatePrAuc
  /\ m.pr >= first.pr - ReviewZone * recommended - MaxPrAucDegradation * reviewed
  /\ reviewed = 0 =>
       /\ m.policy = first.policy
       /\ m.blocked <= first.blocked + MaxLegitBlockedIncrease * recommended

\* However long the line and whatever is rolled back: every model that is or
\* was champion has the first one's schema and, the first apart, a measured
\* PR-AUC above the floor, and is worse than the first by at most the tolerance
\* of each promotion; without reviews the policy stays and the share of blocked
\* customers grows by at most its tolerance each time.
LineBounded == \A m \in retired \cup {champion} : Within(m)

LineInv ==
  /\ first \in Models
  /\ champion \in Models
  /\ retired \subseteq Models
  /\ recommended \in Nat
  /\ reviewed \in Nat
  /\ LineBounded

(* The bound holds for every line of champions (gates.py, promote,          *)
(* rollback): tolerances add up, and nothing but the floor stops them.      *)
THEOREM LinesAreBounded ==
  ASSUME Rates \subseteq Nat
  PROVE  Spec => []LineBounded
<1>1. ASSUME Init
      PROVE  LineInv
  <2>1. first.pr \in Nat /\ first.blocked \in Nat
    BY <1>1 DEF Init, Models
  <2>2. Within(first)
    BY <1>1, <2>1 DEF Init, Within, ReviewZone, MaxPrAucDegradation, MaxLegitBlockedIncrease
  <2> QED BY <1>1, <2>2 DEF Init, LineInv, LineBounded
<1>2. LineInv /\ [Next]_vars => LineInv'
  <2> SUFFICES ASSUME LineInv, [Next]_vars
               PROVE  LineInv'
    OBVIOUS
  <2> USE DEF LineInv
  <2>0. /\ first.pr \in Nat /\ first.blocked \in Nat
        /\ \A m \in Models : m.pr \in Nat /\ m.blocked \in Nat
    BY DEF Models
  <2>1. CASE UNCHANGED vars
    BY <2>1 DEF vars, LineBounded, Within
  <2>2. ASSUME NEW b \in Models, PromoteRecommended(b)
        PROVE  LineInv'
    <3>1. /\ b.measured /\ b.pr >= MinCandidatePrAuc
          /\ b.pr >= champion.pr - ReviewZone
          /\ b.blocked <= champion.blocked + MaxLegitBlockedIncrease
          /\ b.schema = champion.schema /\ b.policy = champion.policy
      BY <2>2, RecommendationIsEarned DEF PromoteRecommended
    <3>2. recommended' = recommended + 1 /\ reviewed' = reviewed /\ first' = first
      BY <2>2 DEF PromoteRecommended, Crown
    <3>3. \A m \in retired \cup {champion} : Within(m)
      BY DEF LineBounded
    <3>4. ASSUME NEW m \in retired \cup {champion}
          PROVE  Within(m)'
      <4>1. Within(m) /\ m \in Models
        BY <3>3 DEF Within
      <4> QED BY <2>0, <3>2, <4>1
              DEF Within, ReviewZone, MaxPrAucDegradation, MaxLegitBlockedIncrease
    <3>5. Within(b)'
      <4>1. Within(champion)
        BY <3>3
      <4> QED BY <2>0, <3>1, <3>2, <4>1
              DEF Within, ReviewZone, MaxPrAucDegradation, MaxLegitBlockedIncrease
    <3>6. champion' = b /\ retired' = (retired \cup {champion}) \ {b}
      BY <2>2 DEF PromoteRecommended, Crown
    <3>7. LineBounded'
      BY <3>4, <3>5, <3>6 DEF LineBounded
    <3> QED BY <3>2, <3>6, <3>7
  <2>3. ASSUME NEW b \in Models, PromoteReviewed(b)
        PROVE  LineInv'
    <3>1. /\ b.measured /\ b.pr >= MinCandidatePrAuc
          /\ b.pr >= champion.pr - MaxPrAucDegradation
          /\ b.schema = champion.schema
      BY <2>3, RecommendationIsEarned DEF PromoteReviewed
    <3>2. recommended' = recommended /\ reviewed' = reviewed + 1 /\ first' = first
      BY <2>3 DEF PromoteReviewed, Crown
    <3>3. \A m \in retired \cup {champion} : Within(m)
      BY DEF LineBounded
    <3>4. ASSUME NEW m \in retired \cup {champion}
          PROVE  Within(m)'
      <4>1. Within(m) /\ m \in Models
        BY <3>3 DEF Within
      <4> QED BY <2>0, <3>2, <4>1 DEF Within, ReviewZone, MaxPrAucDegradation
    <3>5. Within(b)'
      <4>1. Within(champion)
        BY <3>3
      <4> QED BY <2>0, <3>1, <3>2, <4>1 DEF Within, ReviewZone, MaxPrAucDegradation
    <3>6. champion' = b /\ retired' = (retired \cup {champion}) \ {b}
      BY <2>3 DEF PromoteReviewed, Crown
    <3>7. LineBounded'
      BY <3>4, <3>5, <3>6 DEF LineBounded
    <3> QED BY <3>2, <3>6, <3>7
  <2>4. ASSUME NEW b \in Models, Rollback(b)
        PROVE  LineInv'
    <3>1. /\ b \in retired /\ champion' = b
          /\ retired' = (retired \cup {champion}) \ {b}
          /\ UNCHANGED <<first, recommended, reviewed>>
      BY <2>4 DEF Rollback, Crown
    <3>2. \A m \in retired \cup {champion} : Within(m)'
      BY <3>1 DEF LineBounded, Within
    <3> QED BY <3>1, <3>2 DEF LineBounded
  <2> QED BY <2>1, <2>2, <2>3, <2>4 DEF Next
<1>3. LineInv => LineBounded
  BY DEF LineInv
<1> QED BY <1>1, <1>2, <1>3, PTL DEF Spec

=============================================================================
