------------------------------- MODULE CaseExport -------------------------------
(***************************************************************************)
(* What leaves the gateway after the analysis of a case: an analyst        *)
(* reviews objects (the transaction that stores a review is in CaseStore), *)
(* build_export (exporters/exporter.py) selects the objects to export, and *)
(* the artifact builder (delivery/artifact.py) those to deliver, each by   *)
(* rules of its own.                                                       *)
(***************************************************************************)
EXTENDS CaseAnalysis

VARIABLE decision   \* action of the last review of each object

Decision == [Object -> {"none", "accept", "reject"}]

Blocked == verdict \in {"REJECT", "QUARANTINE"} \/ ~Valid

HardObject == UNION {f.objects : f \in Hard}

ExportInit == Init /\ decision = [o \in Object |-> "none"]

Analyze == Next /\ UNCHANGED decision

\* add_review, for an object of the candidate.
Review(o, action) ==
  /\ stage = "saved"
  /\ action = "accept" => ~Blocked /\ \A f \in Hard : o \notin f.objects /\ f.objects # {}
  /\ decision' = [decision EXCEPT ![o] = action]
  /\ UNCHANGED vars

ExportNext == Analyze \/ \E o \in Object, action \in {"accept", "reject"} : Review(o, action)

ExportSpec == ExportInit /\ [][ExportNext]_<<vars, decision>>

ExportTypeOK == TypeOK /\ decision \in Decision

-----------------------------------------------------------------------------
(* build_export *)

\* The object is named by a claim that is supported, or is accepted.
Approved ==
  {o \in Object \ HardObject :
     /\ decision[o] # "reject"
     /\ \E c \in Claim : o \in About(c) /\ (decision[o] = "accept" \/ status[c] = "SUPPORTED")}

\* Leaves accepted relationships to the delivery.
AuthorizedFault(r) ==
  \E c \in Claim : Kind[c] = "relationship" /\ r \in About(c) /\ status[c] = "SUPPORTED"

Authorized(r) ==
  \/ decision[r] = "accept"
  \/ \E c \in Claim : Kind[c] = "relationship" /\ r \in About(c) /\ status[c] = "SUPPORTED"

\* Looks at the ends in the candidate, not among what is approved.
EndsApprovedFault(r) == Ends[r] \cap HardObject = {}

EndsApproved(r) == Ends[r] \subseteq Approved

Exported ==
  IF Blocked THEN {}
  ELSE {o \in Approved : o \in Relationship => Authorized(o) /\ EndsApproved(o)}

-----------------------------------------------------------------------------
(* ApprovedArtifactBuilder.build, where nothing else refuses an object: the  *)
(* profile, duplicates and unmodelled properties only make the selection     *)
(* smaller.                                                                  *)

StatusesOf(o) == {status[c] : c \in {d \in Claim : Owner[d] = o}}

Selected ==
  {o \in Object \ HardObject :
     /\ decision[o] # "reject"
     /\ \/ StatusesOf(o) = {"SUPPORTED"}
        \/ /\ verdict # "PASS" /\ decision[o] = "accept"
           /\ StatusesOf(o) # {} /\ StatusesOf(o) \subseteq {"UNKNOWN", "PARTIAL", "NOT_FOUND"}}

\* After the closure: see SelectionIsLargest of ApprovedArtifact.
Delivered ==
  IF Blocked \/ \E f \in Hard : f.objects = {} THEN {}
  ELSE {o \in Selected : o \in Relationship => Ends[o] \subseteq Selected}

-----------------------------------------------------------------------------
(* Properties *)

\* A claim that verify_claims wrote a finding of high severity for (it is malformed,
\* contradicts the source, or is about an observable, a vulnerability or a technique
\* that the source does not have) keeps all objects it names from leaving: neither the verifier's
\* support nor an analyst outweighs such a finding.  An entity that is only not
\* found gets one of medium severity and is not meant: that is for the analyst.
RefutedStaysIn ==
  Decided => \A c \in refuted : About(c) \cap (Exported \cup Delivered) = {}

\* An exported relationship is exported with both its ends, although each of
\* the three is decided by claims, findings and reviews of its own.
ExportIsClosed ==
  Decided => \A r \in Exported \cap Relationship : Ends[r] \subseteq Exported

\* What is delivered to OpenCTI is also exported: the stricter of the two
\* selections never lets through what the other holds back.
DeliveredIsExported == Decided => Delivered \subseteq Exported

\* README.md, 65: "REVIEW/ABSTAIN exports require an explicit eligible object
\* decision".
ExportsAreReviewed ==
  Decided /\ verdict \in {"REVIEW", "ABSTAIN"} =>
    \A o \in Exported : decision[o] = "accept"
=============================================================================
