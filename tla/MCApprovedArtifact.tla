-------------------------- MODULE MCApprovedArtifact --------------------------
(* Instances of ApprovedArtifact for TLC: every candidate of three objects that *)
(* have at most MaxRefs references each, the identifier of the report sorting   *)
(* between theirs, and 5 an identifier no object has.                           *)
EXTENDS ApprovedArtifact

CONSTANT MaxRefs

MCId == 1..5
MCObject == {1, 2, 4}
MCReport == 3
MCCandidate ==
  [MCObject -> {S \in SUBSET (MCObject \cup {5}) : Cardinality(S) <= MaxRefs}]

Object0 == [type |-> "modeled", flagged |-> FALSE, decision |-> "none", unmodeled |-> FALSE,
            claims |-> {"SUPPORTED"}]

\* A control object and the same rejected; an object the source supports, one
\* with a hard finding, one an analyst accepted, one she accepted although a
\* part of its claims is unsupported.
MCFact ==
  {[Object0 EXCEPT !.type = "control", !.claims = {}],
   [Object0 EXCEPT !.type = "control", !.claims = {}, !.decision = "reject"],
   Object0,
   [Object0 EXCEPT !.flagged = TRUE],
   [Object0 EXCEPT !.claims = {"reviewable"}, !.decision = "accept"],
   [Object0 EXCEPT !.claims = {"reviewable", "unsupported"}, !.decision = "accept"]}
=============================================================================
