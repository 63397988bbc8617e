----------------------------- MODULE MCCaseExport -----------------------------
(* An instance of CaseExport for TLC: a malware that uses a technique, with   *)
(* a confidence on the malware, under the default policy.                     *)
EXTENDS CaseExport

CONSTANTS malware, technique, uses

MCKind == <<"entity", "confidence", "attack", "relationship">>
MCOwner == <<malware, malware, technique, uses>>
MCObject == {malware, technique, uses}
MCEnds == [r \in {uses} |-> {malware, technique}]
=============================================================================
