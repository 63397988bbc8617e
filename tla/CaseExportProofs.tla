--------------------------- MODULE CaseExportProofs ---------------------------
(***************************************************************************)
(* Proofs about CaseExport for any candidate, any claims and any policy.   *)
(* The inductive invariant IInv says besides the types that a refuted      *)
(* claim keeps a hard finding on all the objects it names (the findings    *)
(* that an answer of the verifier takes back are never hard), and that the *)
(* verdict is at every turn the strictest of the rules seen so far.        *)
(***************************************************************************)
EXTENDS CaseExport, TLAPS

RefutedIsHard == \A c \in refuted : \E f \in Hard : f.objects = About(c)

DoubtIsMedium == \A f \in findings : f.rule_id = "EVIDENCE-REL-001" => f.severity = "medium"

\* VerdictIsStrictest for the first n rules.
StrictestOf(n) ==
  /\ \A i \in 1..n : Fires(Policy[i]) => Precedence[Policy[i].verdict] <= Precedence[verdict]
  /\ verdict = "PASS" \/ \E i \in 1..n : Fires(Policy[i]) /\ Policy[i].verdict = verdict

VerdictSoFar ==
  /\ stage \in {"scan", "verify", "ask"} => verdict = "PASS"
  /\ stage = "policy" => at \in 1..(Len(Policy) + 1) /\ StrictestOf(at - 1)
  /\ stage = "saved" => StrictestOf(Len(Policy))

NoneYet == stage = "scan" => refuted = {}

IInv == ExportTypeOK /\ NoneYet /\ RefutedIsHard /\ DoubtIsMedium /\ VerdictSoFar

KindSet == {"observable", "vulnerability", "attack", "entity", "confidence", "relationship"}

-----------------------------------------------------------------------------
(* Findings *)

\* What verify_claims finds of a claim is well formed, and the doubt that an
\* answer can take back is never grave.
LEMMA OutcomesAreTyped ==
  ASSUME NEW kind \in KindSet, NEW o \in Outcomes(kind)
  PROVE  /\ o[1] \in {"SUPPORTED", "CONTRADICTED", "NOT_FOUND", "UNKNOWN"}
         /\ \A f \in o[2] : /\ f[1] \in RuleId
                            /\ f[2] \in {"medium", "high"}
                            /\ f[1] = "EVIDENCE-REL-001" => f[2] = "medium"
<1> DEFINE Graded(p) == \A f \in p : /\ f[1] \in RuleId
                                     /\ f[2] \in {"medium", "high"}
                                     /\ f[1] = "EVIDENCE-REL-001" => f[2] = "medium"
<1> DEFINE Good(p) ==
      p[1] \in {"SUPPORTED", "CONTRADICTED", "NOT_FOUND", "UNKNOWN"} /\ Graded(p[2])
<1>1. \A k : \A l \in Located(k) : Good(l)
  BY DEF Located, RuleId
<1>2. CASE kind = "relationship"
  <2>1. \/ o = <<"CONTRADICTED", {<<"EVIDENCE-REL-CONTRADICTED", "high">>}>>
        \/ o = <<"UNKNOWN", {<<"EVIDENCE-REL-001", "medium">>}>>
    BY <1>2 DEF Outcomes
  <2> QED BY <2>1 DEF RuleId
<1>3. CASE kind = "confidence"
  <2>1. o = <<"UNKNOWN", {}>> \/ o = <<"UNKNOWN", {<<"CONFIDENCE-001", "medium">>}>>
    BY <1>3 DEF Outcomes
  <2> QED BY <2>1 DEF RuleId
<1>4. \A l \in AttackOutcomes : Good(l)
  <2>1. Good(<<"CONTRADICTED", {<<"ATTACK-NAME-001", "high">>}>>)
    BY DEF RuleId
  <2>2. ASSUME NEW l \in Located("attack")
        PROVE  Good(<<l[1], l[2] \cup {<<"ATTACK-REFERENCE-UNKNOWN", "medium">>}>>)
    <3>1. Good(l)
      BY <1>1
    <3>2. Graded(l[2] \cup {<<"ATTACK-REFERENCE-UNKNOWN", "medium">>})
      BY <3>1 DEF RuleId
    <3> QED BY <3>1, <3>2
  <2> QED BY <2>1, <2>2 DEF AttackOutcomes
<1>5. CASE kind \notin {"relationship", "confidence"}
  <2>1. Outcomes(kind) = Located(kind) \cup IF kind = "attack" THEN AttackOutcomes ELSE {}
    BY <1>5 DEF Outcomes
  <2>2. o \in Located(kind) \/ o \in AttackOutcomes
    BY <2>1
  <2> HIDE DEF Good
  <2>3. Good(o)
    BY <1>1, <1>4, <2>2
  <2> QED BY <2>3 DEF Good
<1> QED BY <1>2, <1>3, <1>5

\* A claim names objects of the candidate.
LEMMA AboutIsTyped ==
  ASSUME NEW c \in Claim
  PROVE  /\ Kind[c] \in KindSet
         /\ Owner[c] \in Object
         /\ About(c) \subseteq Object
         /\ Category[Kind[c]] \in FindingCategory
<1>1. Kind[c] \in KindSet /\ Owner[c] \in Object
  BY CandidateAssumption DEF Extracted, KindSet
<1>2. Kind[c] = "relationship" => Owner[c] \in Relationship
  BY CandidateAssumption DEF Extracted
<1>3. About(c) \subseteq Object
  BY <1>1, <1>2, CandidateAssumption DEF About
<1>4. /\ Category["observable"] = "observable_integrity"
      /\ Category["vulnerability"] = "observable_integrity"
      /\ Category["attack"] = "attack_mapping"
      /\ Category["entity"] = "entity_grounding"
      /\ Category["confidence"] = "confidence_calibration"
      /\ Category["relationship"] = "relationship_grounding"
  BY DEF Category
<1>5. Category[Kind[c]] \in FindingCategory
  BY <1>1, <1>4 DEF KindSet, FindingCategory
<1> QED BY <1>1, <1>3, <1>5

LEMMA OfIsTyped ==
  ASSUME NEW c \in Claim, NEW rule \in RuleId, NEW severity \in Severity
  PROVE  Of(c, rule, severity) \in Finding
<1>1. c \in 0..NumClaims
  BY CandidateAssumption DEF Claim
<1> QED BY <1>1, AboutIsTyped DEF Of, Finding

LEMMA GlobalIsTyped ==
  ASSUME NEW rule \in RuleId, NEW category \in FindingCategory, NEW severity \in Severity
  PROVE  Global(rule, category, severity) \in Finding
  BY CandidateAssumption DEF Global, Finding

LEMMA BilingualIsTyped == BilingualFinding \in Finding
<1>1. UNION {About(c) : c \in Claim} \subseteq Object
  BY AboutIsTyped
<1> QED BY <1>1, CandidateAssumption
        DEF BilingualFinding, Finding, RuleId, FindingCategory, Severity

\* Findings that are added to, or only lose doubts, keep the claims refuted.
LEMMA HardStays ==
  ASSUME RefutedIsHard, DoubtIsMedium, UNCHANGED refuted,
         \A f \in findings : f.rule_id # "EVIDENCE-REL-001" => f \in findings'
  PROVE  RefutedIsHard'
  BY DEF RefutedIsHard, DoubtIsMedium, Hard, About

-----------------------------------------------------------------------------
(* The stages of the analysis *)

\* What the document and the structure of the candidate give.
LEMMA ScanFindings ==
  ASSUME NEW document \in DocumentFindings, NEW v \in Validations,
         NEW structure \in StructureFindings
  PROVE  /\ v[1] \in {"SKIPPED", "EXECUTED", "UNAVAILABLE", "ERROR"}
         /\ \A f \in document \cup v[2] \cup structure :
              f \in Finding /\ f.rule_id # "EVIDENCE-REL-001"
<1> DEFINE Fine(f) == f \in Finding /\ f.rule_id # "EVIDENCE-REL-001"
<1>1. \A s \in Severity : Fine(Global("DOC", "document_security", s))
  BY GlobalIsTyped DEF Global, RuleId, FindingCategory
<1>2. /\ Fine(Global("STIX-SCHEMA-001", "stix_structure", "high"))
      /\ Fine(Global("STIX-VALIDATION-UNAVAILABLE", "validation_capability", "high"))
      /\ Fine(Global("STIX-VALIDATION-ERROR", "validation_capability", "high"))
  BY GlobalIsTyped DEF Global, RuleId, FindingCategory, Severity
<1> HIDE DEF Fine
<1>3. \A f \in document : Fine(f)
  BY <1>1 DEF DocumentFindings
<1>4. \A f \in structure : Fine(f)
  BY <1>2 DEF StructureFindings
<1>5. /\ v[1] \in {"SKIPPED", "EXECUTED", "UNAVAILABLE", "ERROR"}
      /\ \A f \in v[2] : Fine(f)
  BY <1>2 DEF Validations
<1> QED BY <1>3, <1>4, <1>5 DEF Fine

\* The findings that an answer, or a failure, of the verifier adds.
LEMMA AnswerFindings ==
  ASSUME NEW c \in Claim, NEW answer \in DOMAIN SemanticRule
  PROVE  /\ answer \in {"SUPPORTED", "CONTRADICTED", "PARTIAL", "NOT_FOUND"}
         /\ \A s \in {"medium", "high"} :
              /\ Of(c, SemanticRule[answer], s) \in Finding
              /\ Of(c, SemanticRule[answer], s).rule_id # "EVIDENCE-REL-001"
<1>1. answer \in {"SUPPORTED", "CONTRADICTED", "PARTIAL", "NOT_FOUND"}
  BY DEF SemanticRule
<1>2. /\ SemanticRule["SUPPORTED"] = "SEMANTIC-SUPPORTED"
      /\ SemanticRule["CONTRADICTED"] = "SEMANTIC-CONTRADICTED"
      /\ SemanticRule["PARTIAL"] = "SEMANTIC-PARTIAL"
      /\ SemanticRule["NOT_FOUND"] = "SEMANTIC-NOT_FOUND"
  BY DEF SemanticRule
<1>3. SemanticRule[answer] \in RuleId \ {"EVIDENCE-REL-001"}
  BY <1>1, <1>2 DEF RuleId
<1> QED BY <1>1, <1>3, OfIsTyped DEF Severity, Of

\* A rule fires for the findings there are, whoever asks.
LEMMA FiresStays ==
  ASSUME UNCHANGED findings, NEW n
  PROVE  /\ \A i : Fires(Policy[i])' <=> Fires(Policy[i])
         /\ UNCHANGED verdict => (StrictestOf(n)' <=> StrictestOf(n))
<1>1. \A i : Fires(Policy[i])' <=> Fires(Policy[i])
  BY DEF Fires, Matches
<1> QED BY <1>1 DEF StrictestOf

LEMMA Strictest ==
  ASSUME NEW n \in Nat, n + 1 \in 1..Len(Policy), StrictestOf(n), verdict \in Verdict,
         UNCHANGED findings,
         verdict' = IF /\ Fires(Policy[n + 1])
                       /\ Precedence[Policy[n + 1].verdict] > Precedence[verdict]
                    THEN Policy[n + 1].verdict ELSE verdict
  PROVE  StrictestOf(n + 1)' /\ verdict' \in Verdict
<1>1. \A v \in Verdict : Precedence[v] \in Nat
  BY DEF Precedence, Verdict
<1>2. \A i \in 1..Len(Policy) : Policy[i].verdict \in Verdict
  <2>1. \A i \in 1..Len(Policy) : Policy[i] \in Rule
    BY PolicyAssumption
  <2> QED BY <2>1 DEF Rule
<1>3. \A i : Fires(Policy[i])' <=> Fires(Policy[i])
  BY FiresStays
<1>4. Len(Policy) \in Nat /\ 1..(n + 1) = 1..n \cup {n + 1}
  BY PolicyAssumption
<1>5. verdict' \in Verdict
  BY <1>2
<1>6. ASSUME NEW i \in 1..(n + 1), Fires(Policy[i])'
      PROVE  Precedence[Policy[i].verdict] <= Precedence[verdict']
  <2>1. CASE i \in 1..n
    <3>1. Precedence[Policy[i].verdict] <= Precedence[verdict]
      BY <1>3, <1>6, <2>1 DEF StrictestOf
    <3>2. Precedence[verdict] <= Precedence[verdict']
      BY <1>1, <1>2
    <3> QED BY <1>1, <1>2, <1>4, <1>5, <3>1, <3>2
  <2>2. CASE i = n + 1
    BY <1>1, <1>2, <1>3, <1>6, <2>2
  <2> QED BY <1>4, <2>1, <2>2
<1>7. \/ verdict' = "PASS"
      \/ \E i \in 1..(n + 1) : Fires(Policy[i])' /\ Policy[i].verdict = verdict'
  BY <1>3, <1>4 DEF StrictestOf
<1> QED BY <1>5, <1>6, <1>7 DEF StrictestOf

-----------------------------------------------------------------------------
(* The inductive invariant *)

LEMMA InitInv == ExportInit => IInv
<1> SUFFICES ASSUME ExportInit PROVE IInv
  OBVIOUS
<1> USE DEF ExportInit, Init
<1>1. ExportTypeOK
  BY DEF ExportTypeOK, TypeOK, Decision, Verdict
<1>2. NoneYet /\ RefutedIsHard /\ DoubtIsMedium /\ VerdictSoFar
  BY DEF NoneYet, RefutedIsHard, DoubtIsMedium, VerdictSoFar
<1> QED BY <1>1, <1>2 DEF IInv

LEMMA ScanInv ==
  ASSUME IInv, Scan, UNCHANGED decision
  PROVE  IInv'
<1>1. PICK document \in DocumentFindings, v \in Validations, structure \in StructureFindings :
        findings' = document \cup v[2] \cup structure /\ validation' = v[1]
  BY DEF Scan
<1>2. ExportTypeOK'
  BY <1>1, ScanFindings DEF Scan, IInv, ExportTypeOK, TypeOK
<1>3. DoubtIsMedium'
  BY <1>1, ScanFindings DEF DoubtIsMedium
<1>4. RefutedIsHard' /\ NoneYet'
  BY DEF IInv, NoneYet, RefutedIsHard, Scan
<1>5. VerdictSoFar'
  BY DEF IInv, VerdictSoFar, Scan
<1> QED BY <1>2, <1>3, <1>4, <1>5 DEF IInv

LEMMA VerifyInv ==
  ASSUME IInv, Verify, UNCHANGED decision
  PROVE  IInv'
<1>1. at \in Claim /\ Kind[at] \in KindSet
  BY AboutIsTyped DEF Verify, IInv, ExportTypeOK, TypeOK, Claim
<1>2. PICK o \in Outcomes(Kind[at]) :
        /\ status' = [status EXCEPT ![at] = o[1]]
        /\ findings' = findings \cup {Of(at, f[1], f[2]) : f \in o[2]}
        /\ refuted' = refuted \cup IF \E f \in o[2] : f[2] = "high" THEN {at} ELSE {}
  BY DEF Verify
<1>3. /\ o[1] \in {"SUPPORTED", "CONTRADICTED", "NOT_FOUND", "UNKNOWN"}
      /\ \A f \in o[2] : /\ f[1] \in RuleId
                         /\ f[2] \in {"medium", "high"}
                         /\ f[1] = "EVIDENCE-REL-001" => f[2] = "medium"
  BY <1>1, OutcomesAreTyped
<1>4. \A f \in o[2] : Of(at, f[1], f[2]) \in Finding
  BY <1>1, <1>3, OfIsTyped DEF Severity
<1>5. ExportTypeOK'
  BY <1>1, <1>2, <1>3, <1>4 DEF Verify, IInv, ExportTypeOK, TypeOK
<1>6. DoubtIsMedium'
  BY <1>2, <1>3 DEF IInv, DoubtIsMedium, Of
<1>7. RefutedIsHard'
  <2>1. ASSUME NEW c \in refuted PROVE \E f \in Hard' : f.objects = About(c)
    BY <1>2 DEF IInv, RefutedIsHard, Hard
  <2>2. ASSUME NEW f \in o[2], f[2] = "high" PROVE \E g \in Hard' : g.objects = About(at)
    <3>1. Of(at, f[1], f[2]) \in findings'
      BY <1>2
    <3>2. Of(at, f[1], f[2]).severity = "high" /\ Of(at, f[1], f[2]).objects = About(at)
      BY <2>2 DEF Of
    <3> QED BY <3>1, <3>2 DEF Hard
  <2> QED BY <1>2, <2>1, <2>2 DEF RefutedIsHard, About
<1>8. VerdictSoFar' /\ NoneYet'
  BY DEF IInv, VerdictSoFar, NoneYet, Verify
<1> QED BY <1>5, <1>6, <1>7, <1>8 DEF IInv

LEMMA CompareInv ==
  ASSUME IInv, Compare, UNCHANGED decision
  PROVE  IInv'
<1>1. PICK found \in SUBSET {BilingualFinding} : findings' = findings \cup found
  BY DEF Compare
<1>2. ExportTypeOK'
  BY <1>1, BilingualIsTyped DEF Compare, IInv, ExportTypeOK, TypeOK
<1>3. DoubtIsMedium'
  BY <1>1 DEF IInv, DoubtIsMedium, BilingualFinding
<1>4. RefutedIsHard'
  BY <1>1, HardStays DEF IInv, Compare
<1>5. VerdictSoFar' /\ NoneYet'
  BY DEF IInv, VerdictSoFar, NoneYet, Compare
<1> QED BY <1>2, <1>3, <1>4, <1>5 DEF IInv

LEMMA AskInv ==
  ASSUME IInv, Ask, UNCHANGED decision
  PROVE  IInv'
<1>1. at \in Claim
  BY DEF Ask, IInv, ExportTypeOK, TypeOK, Claim
<1> DEFINE Outcome ==
      /\ status' \in [Claim -> {"SUPPORTED", "CONTRADICTED", "PARTIAL", "NOT_FOUND", "UNKNOWN"}]
      /\ \A f \in findings' : f \in findings \/ (f \in Finding /\ f.rule_id # "EVIDENCE-REL-001")
      /\ \A f \in findings : f.rule_id # "EVIDENCE-REL-001" => f \in findings'
<1>2. ASSUME UNCHANGED <<status, findings>> PROVE Outcome
  BY <1>2 DEF IInv, ExportTypeOK, TypeOK
<1>3. ASSUME NEW answer \in DOMAIN SemanticRule, Answer(at, answer) PROVE Outcome
  <2>1. \A s \in {"medium", "high"} :
          /\ Of(at, SemanticRule[answer], s) \in Finding
          /\ Of(at, SemanticRule[answer], s).rule_id # "EVIDENCE-REL-001"
    BY <1>1, AnswerFindings
  <2>2. status' \in [Claim -> {"SUPPORTED", "CONTRADICTED", "PARTIAL", "NOT_FOUND", "UNKNOWN"}]
    BY <1>1, <1>3, AnswerFindings DEF Answer, IInv, ExportTypeOK, TypeOK
  <2>3. CASE answer = "SUPPORTED" /\ Base(at) # {}
    <3>1. findings' = findings \ Base(at)
      BY <1>3, <2>3 DEF Answer
    <3> QED BY <2>2, <3>1 DEF Base
  <2>4. CASE ~(answer = "SUPPORTED" /\ Base(at) # {})
    <3>1. PICK s \in {"medium", "high"} :
            findings' = findings \cup {Of(at, SemanticRule[answer], s)}
      BY <1>3, <2>4 DEF Answer
    <3> QED BY <2>1, <2>2, <3>1
  <2> QED BY <2>3, <2>4
<1>4. ASSUME Fail(at) PROVE Outcome
  <2>1. /\ Of(at, "SEMANTIC-ERROR", "medium") \in Finding
        /\ Of(at, "SEMANTIC-ERROR", "medium").rule_id # "EVIDENCE-REL-001"
    BY <1>1, OfIsTyped DEF RuleId, Severity, Of
  <2>2. status' \in [Claim -> {"SUPPORTED", "CONTRADICTED", "PARTIAL", "NOT_FOUND", "UNKNOWN"}]
    BY <1>1, <1>4 DEF Fail, IInv, ExportTypeOK, TypeOK
  <2> QED BY <1>4, <2>1, <2>2 DEF Fail, Base
<1> HIDE DEF Outcome
<1>5. Outcome
  BY <1>2, <1>3, <1>4 DEF Ask
<1>6. ExportTypeOK'
  BY <1>5 DEF Outcome, Ask, IInv, ExportTypeOK, TypeOK
<1>7. DoubtIsMedium'
  BY <1>5 DEF Outcome, IInv, DoubtIsMedium
<1>8. RefutedIsHard'
  BY <1>5, HardStays DEF Outcome, IInv, Ask
<1>9. VerdictSoFar' /\ NoneYet'
  BY DEF IInv, VerdictSoFar, NoneYet, Ask
<1> QED BY <1>6, <1>7, <1>8, <1>9 DEF IInv

LEMMA HandleInv ==
  ASSUME IInv, Handle, UNCHANGED decision
  PROVE  IInv'
<1>1. PICK conflict \in SUBSET {Global("POLICY-TLP-001", "policy_violation", "high")} :
        findings' = findings \cup conflict
  BY DEF Handle
<1>2. /\ Global("POLICY-TLP-001", "policy_violation", "high") \in Finding
      /\ Global("POLICY-TLP-001", "policy_violation", "high").rule_id # "EVIDENCE-REL-001"
  BY GlobalIsTyped DEF RuleId, FindingCategory, Severity, Global
<1>3. ExportTypeOK'
  BY <1>1, <1>2 DEF Handle, IInv, ExportTypeOK, TypeOK
<1>4. DoubtIsMedium'
  BY <1>1, <1>2 DEF IInv, DoubtIsMedium
<1>5. RefutedIsHard'
  BY <1>1, HardStays DEF IInv, Handle
<1>6. VerdictSoFar' /\ NoneYet'
  <2>1. verdict' = "PASS" /\ stage' = "policy" /\ at' = 1
    BY DEF IInv, VerdictSoFar, Handle
  <2>2. Len(Policy) \in Nat
    BY PolicyAssumption
  <2>3. StrictestOf(at - 1)'
    BY <2>1 DEF StrictestOf
  <2> QED BY <2>1, <2>2, <2>3 DEF VerdictSoFar, NoneYet
<1> QED BY <1>3, <1>4, <1>5, <1>6 DEF IInv

LEMMA EvaluateInv ==
  ASSUME IInv, Evaluate, UNCHANGED decision
  PROVE  IInv'
<1>1. /\ at \in 1..Len(Policy) /\ StrictestOf(at - 1) /\ verdict \in Verdict
      /\ Len(Policy) \in Nat
  BY PolicyAssumption DEF Evaluate, IInv, VerdictSoFar, ExportTypeOK, TypeOK
<1>2. PICK n \in Nat : n = at - 1 /\ n + 1 = at
  BY <1>1
<1>3. StrictestOf(n + 1)' /\ verdict' \in Verdict
  <2>1. verdict' = IF /\ Fires(Policy[n + 1])
                      /\ Precedence[Policy[n + 1].verdict] > Precedence[verdict]
                   THEN Policy[n + 1].verdict ELSE verdict
    BY <1>2 DEF Evaluate
  <2> QED BY <1>1, <1>2, <2>1, Strictest DEF Evaluate
<1>4. ExportTypeOK' /\ RefutedIsHard' /\ DoubtIsMedium' /\ NoneYet'
  BY <1>3 DEF Evaluate, IInv, ExportTypeOK, TypeOK, RefutedIsHard, DoubtIsMedium, NoneYet,
             Hard, About
<1>5. VerdictSoFar'
  <2>1. stage' = "policy" /\ at' \in 1..(Len(Policy) + 1) /\ at' - 1 = n + 1
    BY <1>1, <1>2 DEF Evaluate
  <2>2. StrictestOf(at - 1)'
    BY <1>3, <2>1 DEF StrictestOf
  <2> QED BY <2>1, <2>2 DEF VerdictSoFar
<1> QED BY <1>4, <1>5 DEF IInv

LEMMA SaveInv ==
  ASSUME IInv, Save, UNCHANGED decision
  PROVE  IInv'
<1>1. at \in 1..(Len(Policy) + 1) /\ StrictestOf(at - 1) /\ Len(Policy) \in Nat
  BY PolicyAssumption DEF Save, IInv, VerdictSoFar
<1>2. at - 1 = Len(Policy)
  BY <1>1 DEF Save
<1>3. StrictestOf(Len(Policy))'
  BY <1>1, <1>2, FiresStays DEF Save
<1>4. ExportTypeOK' /\ RefutedIsHard' /\ DoubtIsMedium' /\ NoneYet'
  BY DEF Save, IInv, ExportTypeOK, TypeOK, RefutedIsHard, DoubtIsMedium, NoneYet, Hard, About
<1>5. VerdictSoFar'
  BY <1>3 DEF Save, VerdictSoFar
<1> QED BY <1>4, <1>5 DEF IInv

\* A review, and a step that changes nothing, leave the analysis alone.
LEMMA ReviewInv ==
  ASSUME IInv, UNCHANGED vars, decision' \in Decision
  PROVE  IInv'
<1>1. ExportTypeOK' /\ RefutedIsHard' /\ DoubtIsMedium' /\ NoneYet'
  BY DEF vars, IInv, ExportTypeOK, TypeOK, RefutedIsHard, DoubtIsMedium, NoneYet, Hard, About
<1>2. VerdictSoFar'
  BY FiresStays DEF vars, IInv, VerdictSoFar
<1> QED BY <1>1, <1>2 DEF IInv

LEMMA StepInv == IInv /\ [ExportNext]_<<vars, decision>> => IInv'
<1> SUFFICES ASSUME IInv, [ExportNext]_<<vars, decision>> PROVE IInv'
  OBVIOUS
<1>1. CASE Analyze
  BY <1>1, ScanInv, VerifyInv, CompareInv, AskInv, HandleInv, EvaluateInv, SaveInv
     DEF Analyze, Next
<1>2. ASSUME NEW o \in Object, NEW action \in {"accept", "reject"}, Review(o, action)
      PROVE  IInv'
  <2>1. decision' \in Decision
    BY <1>2 DEF Review, IInv, ExportTypeOK, Decision
  <2> QED BY <1>2, <2>1, ReviewInv DEF Review
<1>3. CASE UNCHANGED <<vars, decision>>
  <2>1. decision' \in Decision
    BY <1>3 DEF IInv, ExportTypeOK
  <2> QED BY <1>3, <2>1, ReviewInv
<1> QED BY <1>1, <1>2, <1>3 DEF ExportNext

LEMMA Invariant == ExportSpec => []IInv
  BY InitInv, StepInv, PTL DEF ExportSpec

-----------------------------------------------------------------------------
(* Under the default policy.  Covered says of which findings some rule of it *)
(* takes note; the invariant, that grave findings are covered, and that a    *)
(* claim in doubt always has a covered finding of its own.                   *)

CoveredId ==
  {"STIX-VALIDATION-UNAVAILABLE", "STIX-VALIDATION-ERROR", "EVIDENCE-IOC-002",
   "OBSERVABLE-FORMAT-001", "ATTACK-NAME-001", "SEMANTIC-CONTRADICTED",
   "EVIDENCE-REL-CONTRADICTED", "EVIDENCE-REL-001", "SEMANTIC-PARTIAL", "SEMANTIC-ERROR",
   "POLICY-TLP-001"}

Grave == {"high", "critical"}

Covered(f) ==
  \/ f.rule_id \in CoveredId
  \/ f.rule_id = "EVIDENCE-NOTFOUND-001" /\ f.severity = "high"
  \/ f.category = "entity_grounding" /\ f.severity = "medium"
  \/ f.category = "document_security" /\ f.severity \in Grave
  \/ f.category = "stix_structure" /\ f.severity = "high"

\* A finding that neither escapes the policy nor hides a fault of structure.
Noticed(f) ==
  /\ f.severity \in Grave => Covered(f)
  /\ f.category = "stix_structure" => f.severity = "high"

InDoubt(c) == Kind[c] # "confidence" /\ status[c] # "SUPPORTED"

DoubtIsCovered(c) == InDoubt(c) => \E f \in findings : f.claim = c /\ Covered(f)

\* Only the verifier supports a relationship.
NotAskedYet(c) ==
  Kind[c] = "relationship" /\ (stage \in {"scan", "verify"} \/ (stage = "ask" /\ at <= c)) =>
    status[c] # "SUPPORTED"

\* A validation that was not executed is told about, in a finding of no claim.
FailureIsTold ==
  stage # "scan" /\ validation # "EXECUTED" =>
    \E f \in findings :
      f.claim = 0 /\ f.rule_id \in {"STIX-VALIDATION-UNAVAILABLE", "STIX-VALIDATION-ERROR"}

VInv ==
  /\ stage = "scan" => at = 1
  /\ FailureIsTold
  /\ \A c \in Claim : NotAskedYet(c)
  /\ \A f \in findings : Noticed(f)
  /\ \A c \in Claim : stage # "scan" /\ (stage = "verify" => c < at) => DoubtIsCovered(c)
  /\ stage = "saved" /\ verdict = "PASS" => validation = "EXECUTED"

\* No covered finding lets a case pass.
LEMMA CoveredNeverPasses ==
  ASSUME Policy = DefaultPolicy, StrictestOf(Len(Policy)),
         NEW f \in findings, Covered(f)
  PROVE  verdict # "PASS"
<1> DEFINE Strict(i) == i \in 1..21 /\ Policy[i].verdict \in Verdict \ {"PASS"}
           OnRule(i, id) == Strict(i) /\ Policy[i].when = {<<"rule_id", id>>}
           OnClass(i, category, severity) ==
             Strict(i) /\ Policy[i].when = {<<"category", category>>, <<"severity", severity>>}
<1>1. Len(Policy) = 21
  BY DEF DefaultPolicy
<1>2. /\ OnRule(1, "STIX-VALIDATION-UNAVAILABLE") /\ OnRule(2, "STIX-VALIDATION-ERROR")
      /\ OnRule(7, "EVIDENCE-IOC-002") /\ OnRule(8, "OBSERVABLE-FORMAT-001")
      /\ OnRule(9, "ATTACK-NAME-001") /\ OnRule(11, "SEMANTIC-CONTRADICTED")
      /\ OnRule(12, "EVIDENCE-REL-CONTRADICTED") /\ OnRule(14, "EVIDENCE-REL-001")
      /\ OnRule(15, "SEMANTIC-PARTIAL") /\ OnRule(17, "SEMANTIC-ERROR")
      /\ OnRule(18, "POLICY-TLP-001")
  BY DEF DefaultPolicy, RuleFor, Verdict
<1>3. /\ OnClass(4, "document_security", "critical") /\ OnClass(5, "document_security", "high")
      /\ OnClass(6, "stix_structure", "high") /\ OnClass(13, "entity_grounding", "medium")
  BY DEF DefaultPolicy, ClassRule, Verdict
<1>4. /\ Strict(21)
      /\ Policy[21].when = {<<"rule_id", "EVIDENCE-NOTFOUND-001">>, <<"severity", "high">>}
  BY DEF DefaultPolicy, Verdict
<1>5. ASSUME NEW i, Strict(i), Matches(Policy[i], f)
      PROVE  verdict # "PASS"
  <2>1. Precedence[Policy[i].verdict] <= Precedence[verdict]
    BY <1>1, <1>5 DEF StrictestOf, Fires
  <2>2. Precedence["PASS"] = 0 /\ Precedence[Policy[i].verdict] \in 1..4
    BY <1>5 DEF Precedence, Verdict
  <2> QED BY <2>1, <2>2
<1>6. \A i : OnRule(i, f.rule_id) => Strict(i) /\ Matches(Policy[i], f)
  BY DEF Matches
<1>7. \A i : OnClass(i, f.category, f.severity) => Strict(i) /\ Matches(Policy[i], f)
  BY DEF Matches
<1>8. CASE f.rule_id = "EVIDENCE-NOTFOUND-001" /\ f.severity = "high"
  <2>1. Matches(Policy[21], f)
    BY <1>4, <1>8 DEF Matches
  <2> QED BY <1>4, <1>5, <2>1
<1> HIDE DEF Strict, OnRule, OnClass
<1>9. CASE f.rule_id \in CoveredId
  BY <1>2, <1>5, <1>6, <1>9 DEF CoveredId
<1>10. CASE \/ f.category = "entity_grounding" /\ f.severity = "medium"
            \/ f.category = "document_security" /\ f.severity \in Grave
            \/ f.category = "stix_structure" /\ f.severity = "high"
  BY <1>3, <1>5, <1>7, <1>10 DEF Grave
<1> QED BY <1>8, <1>9, <1>10 DEF Covered

\* What verify_claims finds of a claim it does not support is covered, and so is
\* all that is grave.
LEMMA OutcomesAreCovered ==
  ASSUME NEW c \in Claim, NEW o \in Outcomes(Kind[c])
  PROVE  /\ \A f \in o[2] : Noticed(Of(c, f[1], f[2]))
         /\ Kind[c] # "confidence" /\ o[1] # "SUPPORTED" =>
              \E f \in o[2] : Covered(Of(c, f[1], f[2]))
         /\ Kind[c] = "relationship" => o[1] # "SUPPORTED"
<1> DEFINE kind == Kind[c]
           Seen(f) == Noticed(Of(c, f[1], f[2]))
           Known(f) == Covered(Of(c, f[1], f[2]))
           Good(p) == /\ \A f \in p[2] : Seen(f)
                      /\ p[1] # "SUPPORTED" => \E f \in p[2] : Known(f)
<1>1. kind \in KindSet /\ Category[kind] # "stix_structure"
  <2>1. kind \in KindSet
    BY AboutIsTyped
  <2> QED BY <2>1 DEF Category, KindSet
<1>2. /\ Seen(<<"EVIDENCE-IOC-002", "high">>) /\ Known(<<"EVIDENCE-IOC-002", "high">>)
      /\ Seen(<<"OBSERVABLE-FORMAT-001", "high">>) /\ Known(<<"OBSERVABLE-FORMAT-001", "high">>)
      /\ Seen(<<"ATTACK-NAME-001", "high">>) /\ Known(<<"ATTACK-NAME-001", "high">>)
      /\ /\ Seen(<<"EVIDENCE-REL-CONTRADICTED", "high">>)
         /\ Known(<<"EVIDENCE-REL-CONTRADICTED", "high">>)
      /\ Seen(<<"EVIDENCE-REL-001", "medium">>) /\ Known(<<"EVIDENCE-REL-001", "medium">>)
  BY <1>1 DEF Covered, CoveredId, Noticed, Of
<1>3. \A id : Seen(<<id, "medium">>)
  BY <1>1 DEF Noticed, Of, Grave
<1>4. Seen(<<"EVIDENCE-NOTFOUND-001", "high">>) /\ Known(<<"EVIDENCE-NOTFOUND-001", "high">>)
  BY <1>1 DEF Noticed, Covered, Of
<1>5. kind = "entity" => Known(<<"EVIDENCE-NOTFOUND-001", "medium">>)
  BY DEF Covered, Of, Category
<1> HIDE DEF Seen, Known
<1>6. \A p \in Located(kind) : Good(p)
  <2>1. ASSUME NEW p \in Located(kind)
        PROVE  \/ p = <<"SUPPORTED", {}>>
               \/ p = <<"NOT_FOUND", {<<"EVIDENCE-NOTFOUND-001", "high">>}>>
               \/ kind = "entity" /\ p = <<"NOT_FOUND", {<<"EVIDENCE-NOTFOUND-001", "medium">>}>>
               \/ p = <<"NOT_FOUND", {<<"EVIDENCE-IOC-002", "high">>}>>
               \/ p = <<"CONTRADICTED", {<<"OBSERVABLE-FORMAT-001", "high">>}>>
    BY DEF Located
  <2> QED BY <1>2, <1>3, <1>4, <1>5, <2>1
<1>7. kind = "attack" => \A p \in AttackOutcomes : Good(p)
  <2>1. Good(<<"CONTRADICTED", {<<"ATTACK-NAME-001", "high">>}>>)
    BY <1>2
  <2>2. ASSUME NEW l \in Located("attack"), kind = "attack"
        PROVE  Good(<<l[1], l[2] \cup {<<"ATTACK-REFERENCE-UNKNOWN", "medium">>}>>)
    <3>1. Good(l)
      BY <1>6, <2>2
    <3> QED BY <1>3, <3>1
  <2> HIDE DEF Good
  <2> QED BY <2>1, <2>2 DEF AttackOutcomes
<1>8. CASE kind = "relationship"
  <2>1. \/ o = <<"CONTRADICTED", {<<"EVIDENCE-REL-CONTRADICTED", "high">>}>>
        \/ o = <<"UNKNOWN", {<<"EVIDENCE-REL-001", "medium">>}>>
    BY <1>8 DEF Outcomes
  <2>2. Good(o)
    BY <1>2, <2>1
  <2> QED BY <2>1, <2>2 DEF Seen, Known
<1>9. CASE kind = "confidence"
  <2>1. o = <<"UNKNOWN", {}>> \/ o = <<"UNKNOWN", {<<"CONFIDENCE-001", "medium">>}>>
    BY <1>9 DEF Outcomes
  <2>2. \A f \in o[2] : Seen(f)
    BY <1>3, <2>1
  <2> QED BY <1>9, <2>2 DEF Seen
<1>10. CASE kind \notin {"relationship", "confidence"}
  <2>1. Outcomes(kind) = Located(kind) \cup IF kind = "attack" THEN AttackOutcomes ELSE {}
    BY <1>10 DEF Outcomes
  <2> HIDE DEF Good
  <2>2. Good(o)
    BY <1>6, <1>7, <2>1
  <2> QED BY <1>10, <2>2 DEF Good, Seen, Known
<1> QED BY <1>8, <1>9, <1>10

\* A claim that keeps its status and its findings.
LEMMA CoverageStays ==
  ASSUME NEW c \in Claim, DoubtIsCovered(c), status'[c] = status[c],
         \A f \in findings : f.claim = c => f \in findings'
  PROVE  DoubtIsCovered(c)'
  BY DEF DoubtIsCovered, InDoubt, Covered

\* Nothing takes back a finding of no claim.
LEMMA TellingStays ==
  ASSUME FailureIsTold, stage # "scan", validation' = validation,
         \A f \in findings : f.claim = 0 => f \in findings'
  PROVE  FailureIsTold'
BY DEF FailureIsTold

LEMMA ScanCovers ==
  ASSUME VInv, Scan
  PROVE  VInv'
<1>1. PICK document \in DocumentFindings, v \in Validations, structure \in StructureFindings :
        findings' = document \cup v[2] \cup structure /\ validation' = v[1]
  BY DEF Scan
<1>2. \A s \in Severity : Noticed(Global("DOC", "document_security", s))
  BY DEF Noticed, Covered, Global, Grave
<1>3. /\ Noticed(Global("STIX-SCHEMA-001", "stix_structure", "high"))
      /\ Noticed(Global("STIX-VALIDATION-UNAVAILABLE", "validation_capability", "high"))
      /\ Noticed(Global("STIX-VALIDATION-ERROR", "validation_capability", "high"))
  BY DEF Noticed, Covered, CoveredId, Global
<1>4. \A f \in findings' : Noticed(f)
  BY <1>1, <1>2, <1>3 DEF DocumentFindings, Validations, StructureFindings
<1>5. stage' = "verify" /\ at' = 1 /\ \A c \in Claim : ~ (c < at')
  BY CandidateAssumption DEF Scan, VInv, Claim
<1>6. \A c \in Claim : NotAskedYet(c)'
  BY DEF Scan, VInv, NotAskedYet
<1>7. FailureIsTold'
  <2>1. v[1] # "EXECUTED" => v[2] \in {
          {Global("STIX-VALIDATION-UNAVAILABLE", "validation_capability", "high")},
          {Global("STIX-VALIDATION-ERROR", "validation_capability", "high")}}
    BY DEF Validations
  <2>2. v[1] # "EXECUTED" =>
          \/ Global("STIX-VALIDATION-UNAVAILABLE", "validation_capability", "high") \in findings'
          \/ Global("STIX-VALIDATION-ERROR", "validation_capability", "high") \in findings'
    BY <1>1, <2>1
  <2> QED BY <1>1, <2>2 DEF FailureIsTold, Global
<1> QED BY <1>4, <1>5, <1>6, <1>7 DEF VInv, Noticed, Covered

LEMMA VerifyCovers ==
  ASSUME IInv, VInv, Verify
  PROVE  VInv'
<1>1. PICK c \in Claim : c = at
  BY DEF Verify, IInv, ExportTypeOK, TypeOK, Claim
<1>2. PICK o \in Outcomes(Kind[c]) :
        /\ status' = [status EXCEPT ![c] = o[1]]
        /\ \A f \in findings : f \in findings'
        /\ \A f \in o[2] : Of(c, f[1], f[2]) \in findings'
        /\ \A g \in findings' : g \in findings \/ \E f \in o[2] : g = Of(c, f[1], f[2])
  <2>1. PICK o \in Outcomes(Kind[at]) :
          /\ status' = [status EXCEPT ![at] = o[1]]
          /\ findings' = findings \cup {Of(at, f[1], f[2]) : f \in o[2]}
    BY DEF Verify
  <2>2. /\ \A f \in findings : f \in findings'
        /\ \A f \in o[2] : Of(at, f[1], f[2]) \in findings'
        /\ \A g \in findings' : g \in findings \/ \E f \in o[2] : g = Of(at, f[1], f[2])
    BY <2>1
  <2> QED BY <1>1, <2>1, <2>2
<1>3. /\ \A f \in o[2] : Noticed(Of(c, f[1], f[2]))
      /\ Kind[c] # "confidence" /\ o[1] # "SUPPORTED" =>
           \E f \in o[2] : Covered(Of(c, f[1], f[2]))
      /\ Kind[c] = "relationship" => o[1] # "SUPPORTED"
  BY OutcomesAreCovered
<1>4. \A f \in findings' : Noticed(f)
  BY <1>2, <1>3 DEF VInv
<1>5. DoubtIsCovered(c)'
  <2>1. \A f \in o[2] : Of(c, f[1], f[2]) \in findings' /\ Of(c, f[1], f[2]).claim = c
    BY <1>2 DEF Of
  <2>2. status'[c] = o[1]
    BY <1>2 DEF IInv, ExportTypeOK, TypeOK
  <2> QED BY <1>3, <2>1, <2>2 DEF DoubtIsCovered, InDoubt, Covered
<1>6. ASSUME NEW d \in Claim, d < at PROVE DoubtIsCovered(d)'
  <2>1. DoubtIsCovered(d) /\ d # c
    BY <1>1, <1>6 DEF Verify, VInv, Claim
  <2>2. status'[d] = status[d]
    BY <1>2, <2>1 DEF IInv, ExportTypeOK, TypeOK
  <2> QED BY <1>2, <2>1, <2>2, CoverageStays
<1>7. stage' = "verify" /\ at' = c + 1 /\ \A d \in Claim : d < at' => d < at \/ d = c
  BY <1>1, CandidateAssumption DEF Verify, Claim
<1>8. \A d \in Claim : NotAskedYet(d)'
  BY <1>2, <1>3 DEF Verify, VInv, NotAskedYet, IInv, ExportTypeOK, TypeOK
<1>9. FailureIsTold'
  BY <1>2, TellingStays DEF VInv, Verify
<1> QED BY <1>4, <1>5, <1>6, <1>7, <1>8, <1>9 DEF VInv, Noticed, Covered

\* A stage that only adds findings that are noticed.
LEMMA AddingCovers ==
  ASSUME IInv, VInv, stage # "scan", stage = "verify" => at > NumClaims,
         \/ stage = "verify" /\ stage' = "ask"
         \/ stage' = "policy",
         UNCHANGED <<status, validation>>,
         \A f \in findings : f \in findings',
         \A f \in findings' : Noticed(f)
  PROVE  VInv'
<1>1. \A c \in Claim : DoubtIsCovered(c)
  BY CandidateAssumption DEF IInv, ExportTypeOK, TypeOK, VInv, Claim
<1>2. \A c \in Claim : DoubtIsCovered(c)'
  BY <1>1, CoverageStays
<1>3. \A c \in Claim : NotAskedYet(c)'
  BY DEF VInv, NotAskedYet
<1>4. FailureIsTold'
  BY TellingStays DEF VInv
<1> QED BY <1>2, <1>3, <1>4 DEF VInv, Noticed, Covered

LEMMA AskCovers ==
  ASSUME IInv, VInv, Ask
  PROVE  VInv'
<1>1. PICK c \in Claim : c = at
  BY DEF Ask, IInv, ExportTypeOK, TypeOK, Claim
<1>2. \A d \in Claim : DoubtIsCovered(d)
  BY DEF Ask, VInv
<1> DEFINE Kept == /\ \A d \in Claim \ {c} : status'[d] = status[d]
                   /\ \A f \in findings : f.claim # c => f \in findings'
                   /\ \A f \in findings' : Noticed(f)
                   /\ DoubtIsCovered(c)'
<1>3. ASSUME UNCHANGED <<status, findings>> PROVE Kept
  BY <1>2, <1>3, CoverageStays DEF VInv
<1>4. ASSUME NEW answer \in DOMAIN SemanticRule, Kind[c] = "relationship", Answer(c, answer)
      PROVE  Kept
  <2>1. /\ status' = [status EXCEPT ![c] = answer]
        /\ status'[c] = answer
        /\ answer \in {"SUPPORTED", "CONTRADICTED", "PARTIAL", "NOT_FOUND"}
    BY <1>4, AnswerFindings DEF Answer, IInv, ExportTypeOK, TypeOK
  <2>2. CASE answer = "SUPPORTED" /\ Base(c) # {}
    <3>1. findings' = findings \ Base(c)
      BY <1>4, <2>2 DEF Answer
    <3> QED BY <2>1, <2>2, <3>1 DEF Base, VInv, DoubtIsCovered, InDoubt, IInv, ExportTypeOK, TypeOK
  <2>3. CASE ~(answer = "SUPPORTED" /\ Base(c) # {})
    <3> DEFINE added == Of(c, SemanticRule[answer],
                           IF answer = "CONTRADICTED" THEN "high" ELSE "medium")
    <3>1. findings' = findings \cup {added}
      BY <1>4, <2>3 DEF Answer
    <3>2. /\ SemanticRule["CONTRADICTED"] = "SEMANTIC-CONTRADICTED"
          /\ SemanticRule["PARTIAL"] = "SEMANTIC-PARTIAL"
      BY DEF SemanticRule
    <3>3. /\ added.claim = c
          /\ answer \in {"CONTRADICTED", "PARTIAL"} => Covered(added)
      BY <3>2 DEF Of, Covered, CoveredId
    <3>4. Category[Kind[c]] # "stix_structure"
      BY AboutIsTyped DEF Category, KindSet
    <3>5. Noticed(added)
      BY <2>1, <3>3, <3>4 DEF Of, Noticed, Grave
    <3> HIDE DEF added
    <3>6. DoubtIsCovered(c)'
      <4>1. CASE answer \in {"SUPPORTED", "CONTRADICTED", "PARTIAL"}
        BY <2>1, <3>1, <3>3, <4>1 DEF DoubtIsCovered, InDoubt, Covered
      <4>2. CASE answer = "NOT_FOUND"
        <5>1. status[c] # "SUPPORTED"
          BY <1>1, <1>4, CandidateAssumption DEF VInv, NotAskedYet, Ask, Claim
        <5> QED BY <1>2, <2>1, <3>1, <5>1 DEF DoubtIsCovered, InDoubt, Covered
      <4> QED BY <2>1, <4>1, <4>2
    <3> QED BY <2>1, <3>1, <3>5, <3>6 DEF VInv, IInv, ExportTypeOK, TypeOK
  <2> QED BY <2>2, <2>3
<1>5. ASSUME Fail(c) PROVE Kept
  <2> DEFINE added == Of(c, "SEMANTIC-ERROR", "medium")
  <2>1. /\ status' = [status EXCEPT ![c] = "UNKNOWN"]
        /\ findings' = (findings \ Base(c)) \cup {added}
    BY <1>5 DEF Fail
  <2>2. added.claim = c /\ Covered(added)
    BY DEF Of, Covered, CoveredId
  <2>3. Category[Kind[c]] # "stix_structure"
    BY AboutIsTyped DEF Category, KindSet
  <2>4. Noticed(added)
    BY <2>2, <2>3 DEF Of, Noticed
  <2> HIDE DEF added
  <2>5. DoubtIsCovered(c)'
    BY <2>1, <2>2 DEF DoubtIsCovered, InDoubt, Covered
  <2> QED BY <2>1, <2>4, <2>5 DEF Base, VInv, IInv, ExportTypeOK, TypeOK
<1> HIDE DEF Kept
<1>6. Kept
  BY <1>1, <1>3, <1>4, <1>5 DEF Ask
<1>7. \A d \in Claim : DoubtIsCovered(d)'
  <2>1. ASSUME NEW d \in Claim \ {c} PROVE DoubtIsCovered(d)'
    BY <1>2, <1>6, <2>1, CoverageStays DEF Kept
  <2> QED BY <1>6, <2>1 DEF Kept
<1>8. \A f \in findings' : Noticed(f)
  BY <1>6 DEF Kept
<1>9. stage' = "ask"
  BY DEF Ask
<1>10. \A d \in Claim : NotAskedYet(d)'
  BY <1>1, <1>6, CandidateAssumption DEF Kept, Ask, VInv, NotAskedYet, Claim
<1>11. FailureIsTold'
  <2>1. \A f \in findings : f.claim = 0 => f.claim # c
    BY CandidateAssumption DEF Claim
  <2>2. \A f \in findings : f.claim = 0 => f \in findings'
    BY <1>6, <2>1 DEF Kept
  <2>3. validation' = validation /\ stage # "scan"
    BY DEF Ask
  <2> QED BY <2>2, <2>3, TellingStays DEF VInv
<1> QED BY <1>7, <1>8, <1>9, <1>10, <1>11 DEF VInv, Noticed, Covered

LEMMA LateCovers ==
  ASSUME VInv, UNCHANGED <<status, findings, validation>>, stage = "policy",
         stage' \in {"policy", "saved", "raised"},
         stage' = "saved" /\ verdict' = "PASS" => validation = "EXECUTED"
  PROVE  VInv'
<1>1. \A c \in Claim : DoubtIsCovered(c)'
  BY CoverageStays DEF VInv
<1>2. FailureIsTold'
  BY TellingStays DEF VInv
<1> QED BY <1>1, <1>2 DEF VInv, NotAskedYet, Noticed, Covered

LEMMA StepCovers == IInv /\ VInv /\ [ExportNext]_<<vars, decision>> => VInv'
<1> SUFFICES ASSUME IInv, VInv, [ExportNext]_<<vars, decision>> PROVE VInv'
  OBVIOUS
<1>1. CASE Compare
  <2>1. PICK found \in SUBSET {BilingualFinding} : findings' = findings \cup found
    BY <1>1 DEF Compare
  <2>2. Noticed(BilingualFinding)
    BY DEF BilingualFinding, Noticed, Grave
  <2>3. \A f \in findings' : Noticed(f)
    BY <2>1, <2>2 DEF VInv
  <2> QED BY <1>1, <2>1, <2>3, AddingCovers DEF Compare
<1>2. CASE Handle
  <2>1. PICK conflict \in SUBSET {Global("POLICY-TLP-001", "policy_violation", "high")} :
          findings' = findings \cup conflict
    BY <1>2 DEF Handle
  <2>2. Noticed(Global("POLICY-TLP-001", "policy_violation", "high"))
    BY DEF Global, Noticed, Covered, CoveredId
  <2>3. \A f \in findings' : Noticed(f)
    BY <2>1, <2>2 DEF VInv
  <2> QED BY <1>2, <2>1, <2>3, AddingCovers DEF Handle
<1>3. CASE Evaluate \/ Save
  BY <1>3, LateCovers DEF Evaluate, Save
<1>4. CASE UNCHANGED vars
  BY <1>4 DEF vars, VInv, FailureIsTold, NotAskedYet, DoubtIsCovered, InDoubt, Noticed, Covered
<1>5. CASE Next
  BY <1>1, <1>2, <1>3, <1>5, ScanCovers, VerifyCovers, AskCovers DEF Next
<1>6. ASSUME NEW o \in Object, NEW action \in {"accept", "reject"}, Review(o, action)
      PROVE  UNCHANGED vars
  BY <1>6 DEF Review
<1> QED BY <1>4, <1>5, <1>6 DEF ExportNext, Analyze

-----------------------------------------------------------------------------
(* The theorems *)

\* The stages of the analysis keep the types of the case.
THEOREM ExportTypeCorrect == ExportSpec => []ExportTypeOK
<1>1. IInv => ExportTypeOK
  BY DEF IInv
<1> QED BY <1>1, Invariant, PTL

\* Whatever the policy and the order of its rules, evaluate_policy returns the
\* strictest verdict of those that fire.
THEOREM StrictestVerdict == ExportSpec => []VerdictIsStrictest
<1>1. IInv => VerdictIsStrictest
  BY DEF IInv, VerdictSoFar, StrictestOf, VerdictIsStrictest, Decided
<1> QED BY <1>1, Invariant, PTL

\* Under the default policy a case passes only if validation was executed and
\* found nothing, nothing grave was found, and every claim but those on
\* confidence is supported: whatever the candidate, and whatever the verifier
\* answers, takes back or fails to say.
THEOREM PassIsVerified ==
  ASSUME Policy = DefaultPolicy
  PROVE  ExportSpec => []PassMeansVerified
<1>1. ExportInit => VInv
  BY DEF ExportInit, Init, VInv, NotAskedYet, FailureIsTold
<1>2. ASSUME IInv, VInv PROVE PassMeansVerified
  <2> SUFFICES ASSUME stage = "saved", verdict = "PASS"
               PROVE  /\ Valid /\ Hard = {}
                      /\ \A c \in Claim : Kind[c] # "confidence" => status[c] = "SUPPORTED"
    BY DEF PassMeansVerified, Decided
  <2>1. \A f \in findings : ~ Covered(f)
    BY <1>2, CoveredNeverPasses DEF IInv, VerdictSoFar
  <2>2. Hard = {}
    BY <1>2, <2>1 DEF VInv, Noticed, Hard, Grave
  <2>3. Valid
    BY <1>2, <2>1 DEF VInv, Noticed, Covered, Valid
  <2>4. \A c \in Claim : Kind[c] # "confidence" => status[c] = "SUPPORTED"
    BY <1>2, <2>1 DEF VInv, DoubtIsCovered, InDoubt
  <2> QED BY <2>2, <2>3, <2>4
<1> QED BY <1>1, <1>2, StepCovers, Invariant, PTL DEF ExportSpec

\* Under the default policy the assertion analyze makes before it stores a case
\* holds: whenever validation was not executed, a finding remains that keeps the
\* case from passing.
THEOREM AssertionHolds ==
  ASSUME Policy = DefaultPolicy
  PROVE  ExportSpec => []AnalyzeNeverRaises
<1>1. ExportInit => VInv /\ AnalyzeNeverRaises
  BY DEF ExportInit, Init, VInv, NotAskedYet, FailureIsTold, AnalyzeNeverRaises
<1>2. IInv /\ VInv /\ AnalyzeNeverRaises /\ [ExportNext]_<<vars, decision>> => AnalyzeNeverRaises'
  <2> SUFFICES ASSUME IInv, VInv, AnalyzeNeverRaises, [ExportNext]_<<vars, decision>>,
                      stage' = "raised"
               PROVE  FALSE
    BY DEF AnalyzeNeverRaises
  <2>1. /\ stage = "policy" /\ at > Len(Policy)
        /\ verdict = "PASS" /\ validation # "EXECUTED"
    BY DEF ExportNext, Analyze, Next, Review, Scan, Verify, Compare, Ask, Handle, Evaluate, Save,
           vars, AnalyzeNeverRaises
  <2>2. PICK f \in findings : Covered(f)
    BY <2>1 DEF VInv, FailureIsTold, Covered, CoveredId
  <2>3. at - 1 = Len(Policy) /\ StrictestOf(at - 1)
    BY <2>1, PolicyAssumption DEF IInv, VerdictSoFar
  <2> QED BY <2>1, <2>2, <2>3, CoveredNeverPasses
<1> QED BY <1>1, <1>2, StepCovers, Invariant, PTL DEF ExportSpec

\* A claim with a high finding of the deterministic checks keeps its objects in,
\* under any policy, any answers of the verifier and any reviews.
THEOREM RefutedNeverLeaves == ExportSpec => []RefutedStaysIn
<1>1. ASSUME IInv, NEW c \in refuted
      PROVE  About(c) \cap (Exported \cup Delivered) = {}
  <2>1. About(c) \subseteq HardObject
    BY <1>1 DEF IInv, RefutedIsHard, HardObject
  <2>2. Approved \cap HardObject = {} /\ Selected \cap HardObject = {}
    BY DEF Approved, Selected
  <2>3. Exported \subseteq Approved /\ Delivered \subseteq Selected
    BY DEF Exported, Delivered
  <2> QED BY <2>1, <2>2, <2>3
<1>2. IInv => RefutedStaysIn
  BY <1>1 DEF RefutedStaysIn
<1> QED BY <1>2, Invariant, PTL

\* build_export exports no relationship without its ends.
THEOREM ExportClosed == ExportSpec => []ExportIsClosed
<1>1. ASSUME NEW r \in Exported \cap Relationship PROVE Ends[r] \subseteq Exported
  <2>1. ~Blocked /\ Ends[r] \subseteq Approved
    BY <1>1 DEF Exported, EndsApproved
  <2>2. Ends[r] \subseteq Object \ Relationship
    BY CandidateAssumption
  <2> QED BY <2>1, <2>2 DEF Exported
<1>2. ExportIsClosed
  BY <1>1 DEF ExportIsClosed
<1> QED BY <1>2, PTL

\* What the artifact delivers build_export would export, although the two
\* select by rules of their own.
THEOREM DeliveryWithinExport == ExportSpec => []DeliveredIsExported
<1>1. ASSUME NEW o \in Selected
      PROVE  /\ o \in Approved
             /\ o \in Relationship => Authorized(o)
  <2>1. /\ o \in Object \ HardObject
        /\ decision[o] # "reject"
        /\ \/ StatusesOf(o) = {"SUPPORTED"}
           \/ decision[o] = "accept" /\ StatusesOf(o) # {}
    BY <1>1 DEF Selected
  <2>2. PICK c \in Claim : Owner[c] = o
    BY <2>1 DEF StatusesOf
  <2>3. \A d \in Claim : Owner[d] = o => o \in About(d)
    BY DEF About
  <2>4. StatusesOf(o) = {"SUPPORTED"} => \A d \in Claim : Owner[d] = o => status[d] = "SUPPORTED"
    BY DEF StatusesOf
  <2>5. o \in Approved
    BY <2>1, <2>2, <2>3, <2>4 DEF Approved
  <2>6. ASSUME o \in Relationship PROVE Authorized(o)
    <3>1. PICK d \in Claim : Owner[d] = o /\ Kind[d] = "relationship"
      BY <2>6, CandidateAssumption DEF Extracted
    <3> QED BY <2>1, <2>3, <2>4, <3>1 DEF Authorized
  <2> QED BY <2>5, <2>6
<1>2. Delivered \subseteq Exported
  <2>1. ASSUME NEW o \in Delivered PROVE o \in Exported
    <3>1. ~Blocked /\ o \in Selected /\ (o \in Relationship => Ends[o] \subseteq Selected)
      BY <2>1 DEF Delivered
    <3>2. o \in Relationship => EndsApproved(o)
      BY <1>1, <3>1 DEF EndsApproved
    <3> QED BY <1>1, <3>1, <3>2 DEF Exported
  <2> QED BY <2>1
<1>3. DeliveredIsExported
  BY <1>2 DEF DeliveredIsExported
<1> QED BY <1>3, PTL
=============================================================================
