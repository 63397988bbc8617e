------------------------------ MODULE CaseAnalysis ------------------------------
(***************************************************************************)
(* GatewayService.analyze (core/service.py), from the scan of the document *)
(* to the verdict: every check adds findings, a semantic verifier may      *)
(* answer for a relationship, and the policy turns findings into a verdict *)
(* rule by rule.  What the checks find in the texts is chosen freely among *)
(* their possible outcomes; the order of the stages, what each one writes  *)
(* and which findings it takes back are those of the code.                 *)
(*                                                                         *)
(* XFault is a plausible wrong version of X that the model never uses: the *)
(* README says which property notices it.                                  *)
(***************************************************************************)
EXTENDS Naturals, Sequences

CONSTANTS
  NumClaims,   \* claims are numbered in the order of extract_claims
  Kind,        \* kind of each claim
  Owner,       \* the object each claim is about (object_ids[0])
  Object,      \* objects of the candidate
  Ends,        \* source_ref and target_ref of each relationship
  Policy       \* the rules, in their order

Claim == 1..NumClaims

Relationship == DOMAIN Ends

\* The shape of extract_claims: an object has any number of claims, and a
\* relationship one of its own kind, besides that on its confidence.
Extracted ==
  /\ Kind \in [Claim -> {"observable", "vulnerability", "attack", "entity", "confidence",
                         "relationship"}]
  /\ Owner \in [Claim -> Object]
  /\ \A c \in Claim : Owner[c] \in Relationship => Kind[c] \in {"relationship", "confidence"}
  /\ \A c \in Claim : Kind[c] = "relationship" => Owner[c] \in Relationship
  /\ \A r \in Relationship : \E c \in Claim : Owner[c] = r /\ Kind[c] = "relationship"

Severity == {"info", "low", "medium", "high", "critical"}

Verdict == {"PASS", "ABSTAIN", "REVIEW", "REJECT", "QUARANTINE"}

\* A rule of a policy: the fields of a finding it looks at, with their values.
Rule == [when : SUBSET (STRING \X STRING), verdict : Verdict]

\* PRECEDENCE
Precedence == [PASS |-> 0, ABSTAIN |-> 1, REVIEW |-> 2, REJECT |-> 3, QUARANTINE |-> 4]

\* The ends of a relationship are objects, not relationships: stix2.parse
\* (external) admits no other, and missing ones make the candidate invalid.
ASSUME CandidateAssumption ==
  /\ NumClaims \in Nat
  /\ Relationship \subseteq Object
  /\ Ends \in [Relationship -> SUBSET (Object \ Relationship)]
  /\ Extracted
ASSUME PolicyAssumption == Policy \in Seq(Rule)

VARIABLES
  stage,        \* what analyze does next
  at,           \* the claim, or the rule, its loop has reached
  validation,   \* candidate.validation.status
  status,       \* claim.status
  findings,
  verdict,
  refuted       \* auxiliary: claims with a high finding of verify_claims

vars == <<stage, at, validation, status, findings, verdict, refuted>>

-----------------------------------------------------------------------------
(* Findings *)

\* The objects a claim names: a relationship names its ends too.
About(c) == {Owner[c]} \cup IF Kind[c] = "relationship" THEN Ends[Owner[c]] ELSE {}

Category ==
  [observable |-> "observable_integrity", vulnerability |-> "observable_integrity",
   attack |-> "attack_mapping", entity |-> "entity_grounding",
   confidence |-> "confidence_calibration", relationship |-> "relationship_grounding"]

FindingCategory ==
  {"document_security", "stix_structure", "observable_integrity", "attack_mapping",
   "entity_grounding", "relationship_grounding", "confidence_calibration",
   "bilingual_consistency", "policy_violation", "validation_capability"}

\* The rules whose findings the policy can tell apart; DOC and STIX-SCHEMA-001
\* stand for all rules of their category.
RuleId ==
  {"DOC", "STIX-SCHEMA-001", "STIX-VALIDATION-UNAVAILABLE", "STIX-VALIDATION-ERROR",
   "EVIDENCE-NOTFOUND-001", "EVIDENCE-IOC-002", "OBSERVABLE-FORMAT-001", "ATTACK-NAME-001",
   "ATTACK-REFERENCE-UNKNOWN", "EVIDENCE-REL-001", "EVIDENCE-REL-CONTRADICTED",
   "CONFIDENCE-001", "BILINGUAL-ATTRIBUTION-001", "SEMANTIC-SUPPORTED",
   "SEMANTIC-CONTRADICTED", "SEMANTIC-PARTIAL", "SEMANTIC-NOT_FOUND", "SEMANTIC-ERROR",
   "POLICY-TLP-001"}

\* claim 0: the finding is about the case as a whole.
Finding == [rule_id : RuleId, category : FindingCategory, severity : Severity,
            claim : 0..NumClaims, objects : SUBSET Object]

Global(rule, category, severity) ==
  [rule_id |-> rule, category |-> category, severity |-> severity, claim |-> 0, objects |-> {}]

Of(c, rule, severity) ==
  [rule_id |-> rule, category |-> Category[Kind[c]], severity |-> severity, claim |-> c,
   objects |-> About(c)]

Hard == {f \in findings : f.severity \in {"high", "critical"}}

\* candidate.is_valid, which includes that mandatory validation was executed.
Valid == validation = "EXECUTED" /\ \A f \in findings : f.category # "stix_structure"

TypeOK ==
  /\ stage \in {"scan", "verify", "ask", "policy", "saved", "raised"}
  /\ at \in Nat \ {0}
  /\ validation \in {"SKIPPED", "EXECUTED", "UNAVAILABLE", "ERROR"}
  /\ status \in [Claim -> {"SUPPORTED", "CONTRADICTED", "PARTIAL", "NOT_FOUND", "UNKNOWN"}]
  /\ findings \subseteq Finding
  /\ verdict \in Verdict
  /\ refuted \subseteq Claim

Init ==
  /\ stage = "scan" /\ at = 1
  /\ validation = "SKIPPED"
  /\ status = [c \in Claim |-> "UNKNOWN"]
  /\ findings = {}
  /\ verdict = "PASS"
  /\ refuted = {}

-----------------------------------------------------------------------------
(* The scan of the document and the validation of the candidate *)

\* scan_document: its gravest finding.
DocumentFindings ==
  {{}} \cup {{Global("DOC", "document_security", s)} : s \in Severity \ {"info"}}

\* An exception of the validator is not reported as a finding.
ValidationsFault ==
  {<<"EXECUTED", {}>>,
   <<"UNAVAILABLE", {Global("STIX-VALIDATION-UNAVAILABLE", "validation_capability", "high")}>>,
   <<"ERROR", {}>>}

\* _run_schema_validation: the schemas may be unusable, the validator may raise.
Validations ==
  {<<"EXECUTED", {}>>,
   <<"UNAVAILABLE", {Global("STIX-VALIDATION-UNAVAILABLE", "validation_capability", "high")}>>,
   <<"ERROR", {Global("STIX-VALIDATION-ERROR", "validation_capability", "high")}>>}

\* validate_candidate: the schemas, or the checks of the code's own, may find
\* the structure at fault; one finding stands for them all.
StructureFindings == {{}, {Global("STIX-SCHEMA-001", "stix_structure", "high")}}

Scan ==
  /\ stage = "scan"
  /\ \E document \in DocumentFindings, v \in Validations, structure \in StructureFindings :
       findings' = document \cup v[2] \cup structure /\ validation' = v[1]
  /\ stage' = "verify"
  /\ UNCHANGED <<at, status, verdict, refuted>>

-----------------------------------------------------------------------------
(* verify_claims *)

\* The value is where the source has it, or nowhere; an identifier may also be
\* malformed, or differ a little from one of the source.
Located(kind) ==
  {<<"SUPPORTED", {}>>,
   <<"NOT_FOUND", {<<"EVIDENCE-NOTFOUND-001", IF kind = "entity" THEN "medium" ELSE "high">>}>>}
  \cup IF kind = "entity" THEN {}
       ELSE {<<"NOT_FOUND", {<<"EVIDENCE-IOC-002", "high">>}>>,
             <<"CONTRADICTED", {<<"OBSERVABLE-FORMAT-001", "high">>}>>}

\* A technique may have another name than the reference set gives its
\* identifier.  One unknown to that set is searched all the same; its finding
\* also stands for that of a deprecated one.
AttackOutcomes ==
  {<<"CONTRADICTED", {<<"ATTACK-NAME-001", "high">>}>>}
  \cup {<<l[1], l[2] \cup {<<"ATTACK-REFERENCE-UNKNOWN", "medium">>}>> :
          l \in {o \in Located("attack") : o[1] # "CONTRADICTED"}}

\* What can be found of a claim: its status, and the findings.
Outcomes(kind) ==
  IF kind = "relationship"
  THEN {<<"CONTRADICTED", {<<"EVIDENCE-REL-CONTRADICTED", "high">>}>>,
        <<"UNKNOWN", {<<"EVIDENCE-REL-001", "medium">>}>>}
  ELSE IF kind = "confidence"
  THEN {<<"UNKNOWN", {}>>, <<"UNKNOWN", {<<"CONFIDENCE-001", "medium">>}>>}
  ELSE Located(kind) \cup IF kind = "attack" THEN AttackOutcomes ELSE {}

\* One turn of the loop over the claims.
Verify ==
  /\ stage = "verify" /\ at <= NumClaims
  /\ \E o \in Outcomes(Kind[at]) :
       /\ status' = [status EXCEPT ![at] = o[1]]
       /\ findings' = findings \cup {Of(at, f[1], f[2]) : f \in o[2]}
       /\ refuted' = refuted \cup IF \E f \in o[2] : f[2] = "high" THEN {at} ELSE {}
  /\ at' = at + 1
  /\ UNCHANGED <<stage, validation, verdict>>

\* It names the objects of all claims.
BilingualFinding ==
  [rule_id |-> "BILINGUAL-ATTRIBUTION-001", category |-> "bilingual_consistency",
   severity |-> "medium", claim |-> 0, objects |-> UNION {About(c) : c \in Claim}]

\* bilingual_consistency_findings
Compare ==
  /\ stage = "verify" /\ at > NumClaims
  /\ \E found \in SUBSET {BilingualFinding} : findings' = findings \cup found
  /\ stage' = "ask" /\ at' = 1
  /\ UNCHANGED <<validation, status, verdict, refuted>>

-----------------------------------------------------------------------------
(* _semantic_findings *)

\* The finding of verify_claims that an answer can take back.
Base(c) == {f \in findings : f.rule_id = "EVIDENCE-REL-001" /\ f.claim = c}

SemanticRule == [SUPPORTED |-> "SEMANTIC-SUPPORTED", CONTRADICTED |-> "SEMANTIC-CONTRADICTED",
                 PARTIAL |-> "SEMANTIC-PARTIAL", NOT_FOUND |-> "SEMANTIC-NOT_FOUND"]

\* Keeps no trace of the claim's findings once there is an answer for it.
AnswerFault(c, answer) ==
  /\ status' = [status EXCEPT ![c] = answer]
  /\ findings' = IF answer = "SUPPORTED" THEN {f \in findings : f.claim # c}
                 ELSE findings \cup {Of(c, SemanticRule[answer],
                                        IF answer = "CONTRADICTED" THEN "high" ELSE "medium")}

\* Any answer settles the doubt about the relationship.
SettledFault(c, answer) ==
  /\ status' = [status EXCEPT ![c] = answer]
  /\ findings' = (findings \ Base(c)) \cup
       IF answer \in {"SUPPORTED", "NOT_FOUND"} THEN {}
       ELSE {Of(c, SemanticRule[answer], IF answer = "CONTRADICTED" THEN "high" ELSE "medium")}

\* The verifier answers.  Support takes the doubt back where there is one; a
\* contradiction found in the source stays, beside the answer.
Answer(c, answer) ==
  /\ status' = [status EXCEPT ![c] = answer]
  /\ findings' = IF answer = "SUPPORTED" /\ Base(c) # {} THEN findings \ Base(c)
                 ELSE findings \cup {Of(c, SemanticRule[answer],
                                        IF answer = "CONTRADICTED" THEN "high" ELSE "medium")}

\* The verifier fails.
Fail(c) ==
  /\ status' = [status EXCEPT ![c] = "UNKNOWN"]
  /\ findings' = (findings \ Base(c)) \cup {Of(c, "SEMANTIC-ERROR", "medium")}

\* One turn of the loop; without a verifier the result is None.
Ask ==
  /\ stage = "ask" /\ at <= NumClaims
  /\ \/ UNCHANGED <<status, findings>>
     \/ Kind[at] = "relationship" /\ \E answer \in DOMAIN SemanticRule : Answer(at, answer)
     \/ Kind[at] = "relationship" /\ Fail(at)
  /\ at' = at + 1
  /\ UNCHANGED <<stage, validation, verdict, refuted>>

\* The check of the requested handling against the marking of the source.
Handle ==
  /\ stage = "ask" /\ at > NumClaims
  /\ \E conflict \in SUBSET {Global("POLICY-TLP-001", "policy_violation", "high")} :
       findings' = findings \cup conflict
  /\ stage' = "policy" /\ at' = 1
  /\ UNCHANGED <<validation, status, verdict, refuted>>

-----------------------------------------------------------------------------
(* evaluate_policy *)

\* Each condition of the rule holds of the finding; none on an unknown field does.
Matches(rule, f) ==
  rule.when \subseteq {<<"rule_id", f.rule_id>>, <<"category", f.category>>,
                       <<"severity", f.severity>>}

Fires(rule) == \E f \in findings : Matches(rule, f)

\* The last rule that fires decides.
EvaluateFault ==
  /\ stage = "policy" /\ at <= Len(Policy)
  /\ verdict' = IF Fires(Policy[at]) THEN Policy[at].verdict ELSE verdict
  /\ at' = at + 1
  /\ UNCHANGED <<stage, validation, status, findings, refuted>>

\* One turn of the loop over the rules.
Evaluate ==
  /\ stage = "policy" /\ at <= Len(Policy)
  /\ verdict' = IF Fires(Policy[at]) /\ Precedence[Policy[at].verdict] > Precedence[verdict]
                THEN Policy[at].verdict ELSE verdict
  /\ at' = at + 1
  /\ UNCHANGED <<stage, validation, status, findings, refuted>>

\* The case is stored, unless it would pass without mandatory validation.
Save ==
  /\ stage = "policy" /\ at > Len(Policy)
  /\ stage' = IF verdict = "PASS" /\ validation # "EXECUTED" THEN "raised" ELSE "saved"
  /\ at' = 1
  /\ UNCHANGED <<validation, status, findings, verdict, refuted>>

Next == Scan \/ Verify \/ Compare \/ Ask \/ Handle \/ Evaluate \/ Save

-----------------------------------------------------------------------------
(* policies/default.yml *)

RuleFor(id, v) == [when |-> {<<"rule_id", id>>}, verdict |-> v]

ClassRule(category, severity, v) ==
  [when |-> {<<"category", category>>, <<"severity", severity>>}, verdict |-> v]

DefaultPolicy ==
  <<RuleFor("STIX-VALIDATION-UNAVAILABLE", "ABSTAIN"),
    RuleFor("STIX-VALIDATION-ERROR", "ABSTAIN"),
    RuleFor("STIX-VALIDATION-SKIPPED", "ABSTAIN"),
    ClassRule("document_security", "critical", "QUARANTINE"),
    ClassRule("document_security", "high", "QUARANTINE"),
    ClassRule("stix_structure", "high", "REJECT"),
    RuleFor("EVIDENCE-IOC-002", "REJECT"),
    RuleFor("OBSERVABLE-FORMAT-001", "REJECT"),
    RuleFor("ATTACK-NAME-001", "REJECT"),
    ClassRule("attack_mapping", "medium", "REVIEW"),
    RuleFor("SEMANTIC-CONTRADICTED", "REJECT"),
    RuleFor("EVIDENCE-REL-CONTRADICTED", "REJECT"),
    ClassRule("entity_grounding", "medium", "REVIEW"),
    RuleFor("EVIDENCE-REL-001", "REVIEW"),
    RuleFor("SEMANTIC-PARTIAL", "REVIEW"),
    RuleFor("SEMANTIC-UNKNOWN", "ABSTAIN"),
    RuleFor("SEMANTIC-ERROR", "ABSTAIN"),
    RuleFor("POLICY-TLP-001", "REJECT"),
    RuleFor("CONFIDENCE-001", "REVIEW"),
    ClassRule("bilingual_consistency", "medium", "REVIEW"),
    [when |-> {<<"rule_id", "EVIDENCE-NOTFOUND-001">>, <<"severity", "high">>},
     verdict |-> "REJECT"]>>

-----------------------------------------------------------------------------
(* Properties *)

Decided == stage = "saved"

\* The verdict is the strictest of the rules that fire, wherever they stand in
\* the policy, and PASS when none does.
VerdictIsStrictest ==
  Decided =>
    LET fired == {i \in 1..Len(Policy) : Fires(Policy[i])} IN
    /\ \A i \in fired : Precedence[Policy[i].verdict] <= Precedence[verdict]
    /\ verdict = "PASS" \/ \E i \in fired : Policy[i].verdict = verdict

\* A case passes only if validation was executed and found nothing, and the
\* source, or the verifier, supports every claim but those on confidence: the
\* rules of the policy leave no doubt of the checks uncovered, whatever the
\* verifier takes back.
PassMeansVerified ==
  Decided /\ verdict = "PASS" =>
    /\ Valid /\ Hard = {}
    /\ \A c \in Claim : Kind[c] # "confidence" => status[c] = "SUPPORTED"

\* core/service.py, 122: the "Invariant violation: PASS without executed mandatory
\* validation" that analyze would raise never is.  The finding that says why
\* validation was not executed is left in place by all that follows, and makes the
\* policy abstain.
AnalyzeNeverRaises == stage # "raised"
=============================================================================
